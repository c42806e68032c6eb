--------------------------- MODULE ObservedListen ---------------------------
(***************************************************************************)
(* run_observed_loop of src/listen/output.rs: the loop of `whykey listen`  *)
(* over the terminal, evdev and probe-window backends, with job control    *)
(* (suspend_for_job_control).  Keys wait in the kernel's (or the window's) *)
(* queue; the terminal backend takes all of it at once and keeps what it   *)
(* did not use in `pending`.                                               *)
(*                                                                         *)
(* A key is tagged with the capture it was typed in, and with 0 when the   *)
(* backend was closed: typed to the shell, or to nobody.                   *)
(***************************************************************************)
EXTENDS TerminalGuard, Sequences

CONSTANTS
    Kinds,        \* some of "terminal", "evdev" and "window"
    HasDeadline,  \* --timeout
    KeepsOn,      \* --repeat, or a count above one
    MaxKeys,      \* bound: keys typed
    MaxFaults     \* bound: backend operations that fail

ASSUME ObservedAssumption ==
    /\ Kinds \subseteq {"terminal", "evdev", "window"}
    /\ {HasDeadline, KeepsOn} \subseteq BOOLEAN
    /\ MaxKeys \in Nat /\ MaxFaults \in Nat

VARIABLES
    kind,      \* the backend of the run; it never changes
    pc,        \* where the loop is
    armed,     \* the backend's session is open
    capture,   \* how many times it was opened
    typed,     \* keys nobody has read
    pending,   \* keys the terminal backend has read and not used
    key,       \* the key to report
    expired,   \* the deadline has passed
    keys,      \* keys typed so far
    faults     \* failed operations so far

loopVars == <<kind, pc, armed, capture, typed, pending, key, expired, keys, faults>>
vars == <<guardVars, loopVars>>

Tags == Nat

TypeOK ==
    /\ GuardTypeOK
    /\ kind \in Kinds
    /\ pc \in {"arm", "top", "read", "close", "stop", "resume", "rearm", "report", "leave",
               "dropGuard", "exited"}
    /\ armed \in BOOLEAN /\ expired \in BOOLEAN
    /\ capture \in Tags /\ key \in Tags
    /\ typed \in Seq(Tags) /\ pending \in Seq(Tags)
    /\ kind # "terminal" => pending = <<>>
    /\ keys \in 0 .. MaxKeys
    /\ faults \in 0 .. MaxFaults

Init ==
    /\ GuardInit
    /\ kind \in Kinds
    /\ pc = "arm"
    /\ armed = FALSE /\ capture = 0 /\ key = 0
    /\ typed = <<>> /\ pending = <<>>
    /\ expired = FALSE /\ keys = 0 /\ faults = 0

Goes(to) == pc' = to
Fault == faults < MaxFaults /\ faults' = faults + 1

-----------------------------------------------------------------------------
(* The backends.  Opening the terminal throws away what was typed before;  *)
(* evdev opens the devices afresh; the window stays mapped from the first  *)
(* arm to the end.                                                         *)
\* Mutant: what was typed before is not thrown away.
ArmsUnflushed ==
    /\ armed' = TRUE
    /\ capture' = IF armed THEN capture ELSE capture + 1
    /\ IF kind = "terminal" /\ ~armed THEN Opens ELSE UNCHANGED ttyVars
    /\ UNCHANGED <<typed, pending, key, expired, keys, faults>>

BackendArms ==
    /\ armed' = TRUE
    /\ UNCHANGED <<pending, key, expired, keys, faults>>
    /\ \/ armed /\ UNCHANGED <<ttyVars, capture, typed>>
       \/ /\ ~armed
          /\ capture' = capture + 1
          /\ typed' = <<>>
          /\ IF kind = "terminal" THEN Opens ELSE UNCHANGED ttyVars

BackendArmFails ==
    /\ ~armed
    /\ UNCHANGED <<armed, capture, typed, pending, key, expired, keys>>
    /\ \/ kind = "terminal" /\ (OpenFails \/ OpenFailsLate) /\ UNCHANGED faults
       \/ kind # "terminal" /\ Fault /\ UNCHANGED ttyVars

BackendCloses ==
    /\ UNCHANGED <<capture, pending, key, expired, keys, faults>>
    /\ \/ kind = "window" /\ UNCHANGED <<ttyVars, armed, typed>>
       \/ kind = "evdev" /\ armed' = FALSE /\ typed' = <<>> /\ UNCHANGED ttyVars
       \/ kind = "terminal" /\ armed' = FALSE /\ Restores /\ UNCHANGED typed

BackendCloseFails ==
    /\ kind = "terminal"
    /\ armed /\ armed' = FALSE
    /\ RestoreFails
    /\ UNCHANGED <<capture, typed, pending, key, expired, keys, faults>>

-----------------------------------------------------------------------------
FirstArm ==
    /\ pc = "arm"
    /\ \/ BackendArms /\ Goes("top")
       \/ BackendArmFails /\ Goes("dropGuard")
    /\ UNCHANGED signalVars

\* Mutant: the deadline is not looked at.
LeaveOnInterrupt ==
    /\ pc = "top" /\ interrupted
    /\ BackendCloses \/ BackendCloseFails
    /\ Goes("leave")
    /\ UNCHANGED signalVars

(* Interrupt and deadline: close, whatever it returns, and leave.          *)
CloseAndLeave ==
    /\ pc = "top"
    /\ interrupted \/ expired
    /\ BackendCloses \/ BackendCloseFails
    /\ Goes("leave")
    /\ UNCHANGED signalVars

AnswerStop ==
    /\ pc = "top"
    /\ ~interrupted /\ ~expired
    /\ StopRequestTaken
    /\ \/ BackendCloses /\ Goes("stop")
       \/ BackendCloseFails /\ Goes("leave")

StopProcess ==
    /\ pc = "stop"
    /\ Stops
    /\ Goes("resume")
    /\ UNCHANGED <<ttyVars, armed, capture, typed, pending, key, expired, keys, faults>>

Resume ==
    /\ pc = "resume"
    /\ Reclaims
    /\ Goes("rearm")
    /\ UNCHANGED <<ttyVars, armed, capture, typed, pending, key, expired, keys, faults>>

Rearm ==
    /\ pc = "rearm"
    /\ \/ BackendArms /\ Goes("top")
       \/ BackendArmFails /\ Goes("leave")
    /\ UNCHANGED signalVars

StartRead ==
    /\ pc = "top"
    /\ ~interrupted /\ ~expired /\ ~stopRequested
    /\ Goes("read")
    /\ UNCHANGED <<guardVars, armed, capture, typed, pending, key, expired, keys, faults>>

\* The bytes at hand: what is left over, or else one read of the queue.
AtHand == IF pending # <<>> THEN pending ELSE typed

Leftover(rest) ==
    IF kind = "terminal"
    THEN pending' = rest /\ typed' = (IF pending # <<>> THEN typed ELSE <<>>)
    ELSE typed' = rest /\ UNCHANGED pending

ReadKey ==
    /\ pc = "read"
    /\ AtHand # <<>>
    /\ key' = Head(AtHand)
    /\ Leftover(Tail(AtHand))
    /\ Goes("close")
    /\ UNCHANGED <<guardVars, armed, capture, expired, keys, faults>>

ReadNothing ==
    /\ pc = "read"
    /\ \/ AtHand = <<>> /\ Goes("top") /\ UNCHANGED faults
       \/ Fault /\ Goes("leave")
    /\ UNCHANGED <<guardVars, armed, capture, typed, pending, key, expired, keys>>

(* The backend is closed before the report and before a cancel.            *)
CloseToReport ==
    /\ pc = "close"
    /\ \/ BackendCloses /\ pc' \in {"report", "leave"}
       \/ BackendCloseFails /\ Goes("leave")
    /\ UNCHANGED signalVars

Report ==
    /\ pc = "report"
    /\ \/ KeepsOn /\ Goes("rearm") /\ UNCHANGED faults
       \/ ~KeepsOn /\ Goes("leave") /\ UNCHANGED faults
       \/ Fault /\ Goes("leave")
    /\ UNCHANGED <<guardVars, armed, capture, typed, pending, key, expired, keys>>

\* Mutant: the backend is leaked.
LeaksBackend ==
    /\ pc = "leave"
    /\ Goes("dropGuard")
    /\ UNCHANGED <<guardVars, armed, capture, typed, pending, key, expired, keys, faults>>

(* Returning drops the backend, and the caller drops the signal guard.     *)
DropBackend ==
    /\ pc = "leave"
    /\ armed' = FALSE
    /\ \/ armed /\ kind = "terminal" /\ (Restores \/ RestoreFails)
       \/ ~(armed /\ kind = "terminal") /\ UNCHANGED ttyVars
    /\ Goes("dropGuard")
    /\ UNCHANGED <<signalVars, capture, typed, pending, key, expired, keys, faults>>

DropGuard ==
    /\ pc = "dropGuard"
    /\ Unguards
    /\ Goes("exited")
    /\ UNCHANGED <<ttyVars, armed, capture, typed, pending, key, expired, keys, faults>>

-----------------------------------------------------------------------------
Step ==
    /\ running
    /\ UNCHANGED kind
    /\ \/ FirstArm \/ CloseAndLeave \/ AnswerStop \/ StopProcess \/ Resume \/ Rearm
       \/ StartRead \/ ReadKey \/ ReadNothing \/ CloseToReport \/ Report
       \/ DropBackend \/ DropGuard

TypeKey ==
    /\ keys < MaxKeys
    /\ keys' = keys + 1
    /\ typed' = Append(typed, IF armed THEN capture ELSE 0)
    /\ UNCHANGED <<guardVars, pc, armed, capture, pending, key, expired, faults>>

DeadlinePasses ==
    /\ HasDeadline /\ ~expired
    /\ expired' = TRUE
    /\ UNCHANGED <<guardVars, pc, armed, capture, typed, pending, key, keys, faults>>

Environment ==
    /\ UNCHANGED kind
    /\ \/ pc # "exited" /\ Outside /\ UNCHANGED loopVars
       \/ pc = "exited" /\ Continue /\ UNCHANGED loopVars
       \/ pc # "exited" /\ TypeKey
       \/ DeadlinePasses

Next == Step \/ Environment

Spec == Init /\ [][Next]_vars

(* Every read waits at most SIGNAL_POLL_MS; a stopped job is continued.    *)
FairSpec == Spec /\ WF_vars(Step) /\ WF_vars(Continue /\ UNCHANGED loopVars)

-----------------------------------------------------------------------------
(* Safety.                                                                 *)

(* What the user types to the shell, while the job is stopped or a report  *)
(* is written, is never taken for the shortcut; and with evdev the key of  *)
(* a report was typed in the capture the report ends.  The terminal        *)
(* backend does not promise the latter: what one read took and did not use *)
(* stays in `pending` across close() and arm().                            *)
KeysAreFresh ==
    pc = "report" => /\ key # 0
                     /\ kind = "evdev" => key = capture

(* The job is stopped only with the shell's terminal back.                 *)
StopsOnlyRestored == ~running /\ ttyFaults = 0 => ~raw /\ ~kitty

(* However the loop ends, the terminal is back and no stop is forgotten.   *)
ExitsClean ==
    pc = "exited" => /\ ttyFaults = 0 => ~raw /\ ~kitty
                     /\ ~guarded /\ ~stopRequested /\ ~armed

(* However the loop is left, for a stop or for good, the terminal is back. *)
LeavesClean == StopsOnlyRestored /\ ExitsClean

(* Liveness: an interrupt or the deadline ends the loop.                   *)
EndsWhenAsked == interrupted \/ expired ~> pc = "exited"

(* A request to stop is answered, unless the loop ends first.              *)
StopIsAnswered == stopRequested ~> (~running \/ pc = "exited")

(* Both: no request of the user is lost in the loop.                       *)
RequestsAreAnswered == EndsWhenAsked /\ StopIsAnswered

=============================================================================
