---------------------------- MODULE NativeListen ----------------------------
(***************************************************************************)
(* run_native of src/listen/output.rs: the loop of `whykey listen` over a  *)
(* native compositor capture.  The capture session is abstract here: `st`  *)
(* is its lifecycle state and `hook` says whether the compositor still has *)
(* its hook; module CaptureSession is the Hyprland implementation.  A run  *)
(* is over a suppressing session, a pass-through one, or the Sway session, *)
(* which holds no lease and no hook ("plain").                             *)
(***************************************************************************)
EXTENDS TerminalGuard

CONSTANTS
    Policies,    \* some of "suppress", "leased" and "plain"
    HasDeadline, \* --timeout
    KeepsOn,     \* --repeat, or a count above one
    Count,       \* --count; 0 is none
    MaxKeys,     \* bound: keys pressed
    MaxFaults    \* bound: session operations that fail

ASSUME ListenAssumption ==
    /\ Policies \subseteq {"suppress", "leased", "plain"}
    /\ {HasDeadline, KeepsOn} \subseteq BOOLEAN
    /\ Count \in Nat /\ MaxKeys \in Nat /\ MaxFaults \in Nat
    /\ Count > 1 => KeepsOn

VARIABLES
    policy,     \* what the session was opened as; it never changes
    pc,         \* where the loop is
    st,         \* the session's lifecycle state
    hook,       \* its hook is installed in the compositor
    expired,    \* the deadline has passed
    rearm,      \* the session was closed for a stop or a report
    released,   \* the chord of the key to report is released
    captured,   \* reports written
    keys,       \* keys pressed so far
    faults      \* failed session operations so far

listenVars == <<policy, pc, st, hook, expired, rearm, released, captured, keys, faults>>
vars == <<guardVars, listenVars>>

Leased == policy # "plain"
Suppress == policy = "suppress"

HoldsLease == Leased /\ st = "Armed"
IsSuppressing == Suppress /\ st = "Armed"

TypeOK ==
    /\ GuardTypeOK
    /\ policy \in Policies
    /\ pc \in {"open", "arm", "top", "event", "poll", "stopTerminal", "stop", "resume",
               "reopen", "rearm", "chord", "unhook", "report", "leave", "dropSession",
               "dropGuard", "exited"}
    /\ st \in {"Connected", "Armed", "RestorePending", "Closed"}
    /\ hook \in BOOLEAN /\ expired \in BOOLEAN
    /\ rearm \in BOOLEAN /\ released \in BOOLEAN
    /\ captured \in 0 .. keys
    /\ keys \in 0 .. MaxKeys
    /\ faults \in 0 .. MaxFaults

Init ==
    /\ GuardInit
    /\ policy \in Policies
    /\ pc = "open"
    /\ st = "Connected"
    /\ hook = FALSE /\ expired = FALSE /\ rearm = FALSE /\ released = FALSE
    /\ captured = 0 /\ keys = 0 /\ faults = 0

-----------------------------------------------------------------------------
(* The session.  A failed arm cleans up, a failed close stays pending; in  *)
(* both the compositor may or may not still have the hook.                 *)
Fault == faults < MaxFaults /\ faults' = faults + 1

Arms == st' = "Armed" /\ hook' = Leased /\ UNCHANGED faults

ArmFails ==
    /\ Fault
    /\ \/ st' = "Closed" /\ hook' = FALSE
       \/ st' = "RestorePending" /\ hook' \in {FALSE, Leased}

Closes == st' = "Closed" /\ hook' = FALSE /\ UNCHANGED faults

CloseFails ==
    /\ Fault
    /\ st' = "RestorePending"
    /\ hook' \in {FALSE, hook}

\* close() of a session that is closed already does nothing.
CloseCall ==
    \/ st = "Closed" /\ UNCHANGED <<st, hook, faults>>
    \/ st # "Closed" /\ (Closes \/ CloseFails)

Goes(to) == pc' = to

-----------------------------------------------------------------------------
OpenTerminal ==
    /\ pc = "open"
    /\ \/ Opens /\ Goes("arm")
       \/ (OpenFails \/ OpenFailsLate) /\ Goes("dropSession")
    /\ UNCHANGED <<signalVars, st, hook, expired, rearm, released, captured, keys, faults>>

Arm ==
    /\ pc = "arm"
    /\ \/ Arms /\ Goes("top")
       \/ ArmFails /\ Goes("leave")
    /\ UNCHANGED <<guardVars, expired, rearm, released, captured, keys>>

(* The checks at the head of the inner loop, in their order.               *)
\* Mutant: the deadline is not looked at.
LeaveOnInterrupt ==
    /\ pc = "top" /\ interrupted
    /\ CloseCall
    /\ Goes("leave")
    /\ UNCHANGED <<guardVars, expired, rearm, released, captured, keys>>

CloseAndLeave ==
    /\ pc = "top"
    /\ interrupted \/ expired
    /\ CloseCall
    /\ Goes("leave")
    /\ UNCHANGED <<guardVars, expired, rearm, released, captured, keys>>

AnswerStop ==
    /\ pc = "top"
    /\ ~interrupted /\ ~expired
    /\ StopRequestTaken
    /\ rearm' = HoldsLease
    /\ \/ HoldsLease /\ Closes /\ Goes("stopTerminal")
       \/ HoldsLease /\ CloseFails /\ Goes("leave")
       \/ ~HoldsLease /\ Goes("stopTerminal") /\ UNCHANGED <<st, hook, faults>>
    /\ UNCHANGED <<ttyVars, expired, released, captured, keys>>

Renew ==
    /\ pc = "top"
    /\ ~interrupted /\ ~expired /\ ~stopRequested
    /\ \/ Goes("event") /\ UNCHANGED faults
       \/ HoldsLease /\ Fault /\ Goes("leave")
    /\ UNCHANGED <<guardVars, st, hook, expired, rearm, released, captured, keys>>

(* drop(terminal), stop_process, TerminalSession::open, arm_token.         *)
DropTerminalToStop ==
    /\ pc = "stopTerminal"
    /\ Restores \/ RestoreFails
    /\ Goes("stop")
    /\ UNCHANGED <<signalVars, st, hook, expired, rearm, released, captured, keys, faults>>

StopProcess ==
    /\ pc = "stop"
    /\ Stops
    /\ Goes("resume")
    /\ UNCHANGED <<ttyVars, st, hook, expired, rearm, released, captured, keys, faults>>

Resume ==
    /\ pc = "resume"
    /\ Reclaims
    /\ Goes("reopen")
    /\ UNCHANGED <<ttyVars, st, hook, expired, rearm, released, captured, keys, faults>>

Reopen ==
    /\ pc = "reopen"
    /\ \/ Opens /\ Goes(IF rearm THEN "rearm" ELSE "top")
       \/ (OpenFails \/ OpenFailsLate) /\ Goes("dropSession")
    /\ UNCHANGED <<signalVars, st, hook, expired, rearm, released, captured, keys, faults>>

Rearm ==
    /\ pc = "rearm"
    /\ \/ Arms /\ Goes("top")
       \/ ArmFails /\ Goes("leave")
    /\ rearm' = FALSE
    /\ UNCHANGED <<guardVars, expired, released, captured, keys>>

(* next_event: nothing yet, a key, the cancel key, or an error (a reload). *)
NextEvent ==
    /\ pc = "event"
    /\ \/ Goes("poll") /\ UNCHANGED <<released, keys, faults>>
       \/ /\ keys < MaxKeys
          /\ keys' = keys + 1
          /\ released' = FALSE
          /\ Goes(IF IsSuppressing THEN "chord" ELSE "unhook")
          /\ UNCHANGED faults
       \/ /\ keys < MaxKeys
          /\ keys' = keys + 1
          /\ Goes("leave")
          /\ UNCHANGED <<released, faults>>
       \/ Fault /\ Goes("leave") /\ UNCHANGED <<released, keys>>
    /\ UNCHANGED <<guardVars, st, hook, expired, rearm, captured>>

(* poll: at most 100 ms, or an interrupted call; a socket that hung up or  *)
(* cannot be read closes the session, a failed poll does not.              *)
Poll ==
    /\ pc = "poll"
    /\ \/ Goes("top") /\ UNCHANGED <<st, hook, faults>>
       \/ CloseCall /\ Goes("leave")
       \/ Fault /\ Goes("leave") /\ UNCHANGED <<st, hook>>
    /\ UNCHANGED <<guardVars, expired, rearm, released, captured, keys>>

(* wait_for_chord_release; anything but a confirmed release ends the run   *)
(* without a report.                                                       *)
WaitForRelease ==
    /\ pc = "chord"
    /\ \/ released' = TRUE /\ Goes("unhook") /\ UNCHANGED <<st, hook, faults>>
       \/ CloseCall /\ Goes("leave") /\ UNCHANGED released
    /\ UNCHANGED <<guardVars, expired, rearm, captured, keys>>

\* Mutant: the report is written under the hook.
ReportsHooked ==
    /\ pc = "unhook"
    /\ rearm' = HoldsLease
    /\ Goes("report")
    /\ UNCHANGED <<guardVars, st, hook, faults, expired, released, captured, keys>>

Unhook ==
    /\ pc = "unhook"
    /\ rearm' = HoldsLease
    /\ \/ HoldsLease /\ Closes /\ Goes("report")
       \/ HoldsLease /\ CloseFails /\ Goes("leave")
       \/ ~HoldsLease /\ Goes("report") /\ UNCHANGED <<st, hook, faults>>
    /\ UNCHANGED <<guardVars, expired, released, captured, keys>>

(* Inspection, rendering and writing, then the next capture or the end.    *)
CountReached == Count > 0 /\ captured + 1 >= Count

Report ==
    /\ pc = "report"
    /\ captured' = captured + 1
    /\ \/ /\ KeepsOn /\ ~CountReached
          /\ Goes(IF rearm THEN "rearm" ELSE "top")
          /\ UNCHANGED <<st, hook, faults>>
       \/ /\ ~KeepsOn \/ CountReached
          /\ CloseCall
          /\ Goes("leave")
       \/ Fault /\ Goes("leave") /\ UNCHANGED <<st, hook>>
    /\ UNCHANGED <<guardVars, expired, rearm, released, keys>>

(* Returning: the terminal is a local of run_native and is dropped first,  *)
(* then the session it was given, then the caller's signal guard.          *)
DropTerminal ==
    /\ pc = "leave"
    /\ Restores \/ RestoreFails
    /\ Goes("dropSession")
    /\ UNCHANGED <<signalVars, st, hook, expired, rearm, released, captured, keys, faults>>

\* Mutant: Drop does not clean up.
DropsSilently ==
    /\ pc = "dropSession"
    /\ Goes("dropGuard")
    /\ UNCHANGED <<guardVars, st, hook, faults, expired, rearm, released, captured, keys>>

DropSession ==
    /\ pc = "dropSession"
    /\ \/ st = "Connected" /\ UNCHANGED <<st, hook, faults>>
       \/ st # "Connected" /\ CloseCall
    /\ Goes("dropGuard")
    /\ UNCHANGED <<guardVars, expired, rearm, released, captured, keys>>

DropGuard ==
    /\ pc = "dropGuard"
    /\ Unguards
    /\ Goes("exited")
    /\ UNCHANGED <<ttyVars, st, hook, expired, rearm, released, captured, keys, faults>>

-----------------------------------------------------------------------------
Step ==
    /\ running
    /\ UNCHANGED policy
    /\ \/ OpenTerminal \/ Arm \/ CloseAndLeave \/ AnswerStop \/ Renew
       \/ DropTerminalToStop \/ StopProcess \/ Resume \/ Reopen \/ Rearm
       \/ NextEvent \/ Poll \/ WaitForRelease \/ Unhook \/ Report
       \/ DropTerminal \/ DropSession \/ DropGuard

DeadlinePasses ==
    /\ HasDeadline /\ ~expired
    /\ expired' = TRUE
    /\ UNCHANGED <<guardVars, pc, st, hook, rearm, released, captured, keys, faults>>

(* The compositor removes a hook whose lease was not renewed in time.      *)
LeaseExpires ==
    /\ hook
    /\ hook' = FALSE
    /\ UNCHANGED <<guardVars, pc, st, expired, rearm, released, captured, keys, faults>>

Environment ==
    /\ UNCHANGED policy
    /\ \/ pc # "exited" /\ Outside /\ UNCHANGED listenVars
       \/ pc = "exited" /\ Continue /\ UNCHANGED listenVars
       \/ DeadlinePasses
       \/ LeaseExpires

Next == Step \/ Environment

Spec == Init /\ [][Next]_vars

(* The process is scheduled, every blocking call of it is bounded by a     *)
(* timeout, and a stopped job is continued.                                *)
FairSpec == Spec /\ WF_vars(Step) /\ WF_vars(Continue /\ UNCHANGED listenVars)

-----------------------------------------------------------------------------
(* Safety.                                                                 *)

(* Inspection never runs under the hook, whose keys it could swallow and   *)
(* whose lease it could outlive, and never before the chord is up.         *)
ReportsOnlyUnhooked ==
    pc = "report" => /\ ~hook
                     /\ Suppress => released

(* The job is stopped only with the shell's terminal back and no capture   *)
(* left that whykey still believes it holds.                               *)
StopsOnlyClean ==
    ~running => /\ ~HoldsLease
                /\ faults = 0 => ~hook
                /\ ttyFaults = 0 => ~raw /\ ~kitty

(* However the loop ends, the terminal is back, and a hook that stays was  *)
(* left by a cleanup that failed and is reported as pending.               *)
ExitsClean ==
    pc = "exited" =>
        /\ ttyFaults = 0 => ~raw /\ ~kitty
        /\ st # "Armed"
        /\ hook => st = "RestorePending" /\ faults > 0
        /\ ~guarded /\ ~stopRequested

(* However the loop is left, for a stop or for good, it leaves no capture  *)
(* that nobody knows of and the terminal as the shell had it.              *)
LeavesClean == StopsOnlyClean /\ ExitsClean

(* Liveness.                                                               *)

(* An interrupt or the deadline ends the loop from wherever it is.         *)
EndsWhenAsked == interrupted \/ expired ~> pc = "exited"

(* A request to stop is answered, unless the loop ends first.              *)
StopIsAnswered == stopRequested ~> (~running \/ pc = "exited")

(* Both: no request of the user is lost in the loop.                       *)
RequestsAreAnswered == EndsWhenAsked /\ StopIsAnswered

=============================================================================
