--------------------------- MODULE CommandRunner ---------------------------
(***************************************************************************)
(* run_with_limits of src/command.rs: one child process run under a        *)
(* timeout and an output cap, with a thread draining each of its streams.  *)
(* Every `hyprctl`, `tmux`, extension ... whykey asks goes through it.     *)
(*                                                                         *)
(* The child is arbitrary: it writes, reads its input, leaves a helper     *)
(* that inherits its pipes, and exits, or does none of it.  A helper may   *)
(* leave the process group the child was put in (MayEscape).               *)
(***************************************************************************)
EXTENDS Integers

CONSTANTS
    InputSize,  \* units of the request on stdin; 0 is no request
    PipeSize,   \* units a pipe holds
    MaxOutput,  \* max_output
    MaxWrites,  \* bound: units written to a stream
    MayEscape,  \* a helper may leave the process group
    MayFail,    \* starting the child may fail
    MaySignal   \* whykey may catch a signal while it waits

ASSUME RunnerAssumption ==
    /\ InputSize \in Nat /\ MaxOutput \in Nat /\ MaxWrites \in Nat
    /\ PipeSize \in Nat \ {0}
    /\ {MayEscape, MayFail, MaySignal} \subseteq BOOLEAN

VARIABLES
    pc,        \* where run_with_limits is
    result,    \* what it returned
    timedOut,  \* its local of that name
    child,     \* the child process
    helper,    \* the helper the child may have left
    late,      \* `timeout` has elapsed since `started`
    input,     \* units of the request not yet written
    stdin,     \* units in the stdin pipe
    deaf,      \* nobody holds its reading end any more
    pipe,      \* units in each output pipe
    written,   \* units written to each stream
    kept,      \* units each reader retained
    over,      \* overflow flags
    broken,    \* readers that stopped at an error
    reader     \* the reader threads

runVars == <<pc, result, timedOut>>
procVars == <<child, helper>>
inputVars == <<input, stdin, deaf>>
outVars == <<pipe, written, kept, over, broken, reader>>
vars == <<runVars, procVars, late, inputVars, outVars>>

Streams == {"stdout", "stderr"}

TypeOK ==
    /\ pc \in {"spawn", "write", "flags", "try", "group", "wait", "stdout", "stderr",
               "returned"}
    /\ result \in {"none", "ok", "spawn", "write", "timeout", "limit", "read"}
    /\ child \in {"none", "running", "zombie", "reaped"}
    /\ helper \in {"none", "running", "escaped", "dead"}
    /\ timedOut \in BOOLEAN /\ late \in BOOLEAN
    /\ input \in 0 .. InputSize /\ stdin \in 0 .. PipeSize /\ deaf \in BOOLEAN
    /\ pipe \in [Streams -> 0 .. PipeSize]
    /\ written \in [Streams -> 0 .. MaxWrites]
    /\ kept \in [Streams -> 0 .. MaxOutput]
    /\ over \in [Streams -> BOOLEAN]
    /\ broken \subseteq Streams
    /\ reader \in [Streams -> {"none", "reading", "done"}]

Init ==
    /\ pc = "spawn" /\ result = "none" /\ timedOut = FALSE
    /\ child = "none" /\ helper = "none"
    /\ late = FALSE
    /\ input = InputSize /\ stdin = 0 /\ deaf = FALSE
    /\ pipe = [s \in Streams |-> 0]
    /\ written = [s \in Streams |-> 0]
    /\ kept = [s \in Streams |-> 0]
    /\ over = [s \in Streams |-> FALSE]
    /\ broken = {}
    /\ reader = [s \in Streams |-> "none"]

-----------------------------------------------------------------------------
(* The processes of the child.                                             *)
HelperAlive == helper \in {"running", "escaped"}
Attached == child = "running" \/ HelperAlive   \* somebody holds the pipes

\* stop_child and kill_process_group: SIGKILL to the child and its group.
GroupKilled ==
    /\ child' = IF child = "running" THEN "zombie" ELSE child
    /\ helper' = IF helper = "running" THEN "dead" ELSE helper

Returns(r) == pc' = "returned" /\ result' = r /\ UNCHANGED timedOut
Goes(to) == pc' = to /\ UNCHANGED <<result, timedOut>>

-----------------------------------------------------------------------------
(* run_with_limits, up to the readers.                                     *)
Spawn ==
    /\ pc = "spawn"
    /\ UNCHANGED <<helper, late, inputVars, pipe, written, kept, over, broken>>
    /\ \/ /\ MayFail
          /\ Returns("spawn")
          /\ UNCHANGED <<child, reader>>
       \/ /\ child' = "running"
          /\ IF InputSize > 0
             THEN Goes("write") /\ UNCHANGED reader
             ELSE Goes("flags") /\ reader' = [s \in Streams |-> "reading"]

\* write_all, unit by unit: it blocks on a full pipe.
WriteInput ==
    /\ pc = "write"
    /\ input > 0
    /\ Attached /\ ~deaf
    /\ stdin < PipeSize
    /\ input' = input - 1
    /\ stdin' = stdin + 1
    /\ UNCHANGED <<runVars, procVars, late, deaf, outVars>>

\* Mutant: the child is stopped and not waited for.
StoppedOnly ==
    /\ child' = "zombie"
    /\ helper' = IF helper = "running" THEN "dead" ELSE helper

\* Nobody can read it: the child is stopped and waited for.
StoppedAndReaped ==
    /\ child' = "reaped"
    /\ helper' = IF helper = "running" THEN "dead" ELSE helper

WriteFails ==
    /\ pc = "write"
    /\ input > 0
    /\ ~Attached \/ deaf
    /\ StoppedAndReaped
    /\ Returns("write")
    /\ UNCHANGED <<late, inputVars, outVars>>

StartReaders ==
    /\ pc = "write"
    /\ input = 0
    /\ reader' = [s \in Streams |-> "reading"]
    /\ Goes("flags")
    /\ UNCHANGED <<procVars, late, inputVars, pipe, written, kept, over, broken>>

-----------------------------------------------------------------------------
(* One round of the loop looks at the overflow flags, then at the child.   *)
LookAtFlags ==
    /\ pc = "flags"
    /\ UNCHANGED <<late, inputVars, outVars>>
    /\ IF \E s \in Streams : over[s]
       THEN GroupKilled /\ Goes("wait")
       ELSE Goes("try") /\ UNCHANGED procVars

TryWait ==
    /\ pc = "try"
    /\ UNCHANGED <<late, inputVars, outVars>>
    /\ \/ /\ child = "zombie"
          /\ child' = "reaped"
          /\ Goes("group")
          /\ UNCHANGED helper
       \/ /\ child = "running" /\ late
          /\ GroupKilled
          /\ timedOut' = TRUE /\ pc' = "wait" /\ UNCHANGED result
       \/ /\ child = "running" /\ ~late
          /\ Goes("flags")
          /\ UNCHANGED procVars

\* Mutant: the helper is left alone.
LeaveHelper ==
    /\ pc = "group"
    /\ Goes("wait")
    /\ UNCHANGED <<procVars, late, inputVars, outVars>>

\* The child has been reaped; a helper of its group still holds the pipes.
CloseHelper ==
    /\ pc = "group"
    /\ GroupKilled
    /\ Goes("wait")
    /\ UNCHANGED <<late, inputVars, outVars>>

Wait ==
    /\ pc = "wait"
    /\ child \in {"zombie", "reaped"}
    /\ child' = "reaped"
    /\ Goes("stdout")
    /\ UNCHANGED <<helper, late, inputVars, outVars>>

JoinStdout ==
    /\ pc = "stdout"
    /\ reader["stdout"] = "done"
    /\ Goes("stderr")
    /\ UNCHANGED <<procVars, late, inputVars, outVars>>

\* The last join, and the verdict in the order of the code.  Mutant: the
\* overflow flags are not looked at again after the joins.
VerdictOfTime == IF timedOut THEN "timeout" ELSE "ok"

Verdict ==
    IF timedOut THEN "timeout"
    ELSE IF \E s \in Streams : over[s] THEN "limit"
    ELSE IF broken # {} THEN "read"
    ELSE "ok"

JoinStderr ==
    /\ pc = "stderr"
    /\ reader["stderr"] = "done"
    /\ Returns(Verdict)
    /\ UNCHANGED <<procVars, late, inputVars, outVars>>

-----------------------------------------------------------------------------
(* read_limited.                                                           *)
AtMost(a, b) == IF a < b THEN a ELSE b

Read(s) ==
    /\ reader[s] = "reading"
    /\ \E n \in 1 .. pipe[s] :
          /\ pipe' = [pipe EXCEPT ![s] = @ - n]
          /\ kept' = [kept EXCEPT ![s] = AtMost(@ + n, MaxOutput)]
          /\ over' = [over EXCEPT ![s] = @ \/ n > MaxOutput - kept[s]]
    /\ UNCHANGED <<runVars, procVars, late, inputVars, written, broken, reader>>

EndOfStream(s) ==
    /\ reader[s] = "reading"
    /\ pipe[s] = 0 /\ ~Attached
    /\ reader' = [reader EXCEPT ![s] = "done"]
    /\ UNCHANGED <<runVars, procVars, late, inputVars, pipe, written, kept, over, broken>>

(* A signal whykey handles interrupts the read, which is not repeated: the *)
(* reader stops and closes its end of the pipe.                            *)
ReadInterrupted(s) ==
    /\ MaySignal
    /\ reader[s] = "reading"
    /\ broken' = broken \cup {s}
    /\ reader' = [reader EXCEPT ![s] = "done"]
    /\ UNCHANGED <<runVars, procVars, late, inputVars, pipe, written, kept, over>>

-----------------------------------------------------------------------------
(* The child, its helper, the clock and the kernel.                        *)
ChildWrites(s) ==
    /\ Attached
    /\ reader[s] # "done"
    /\ pipe[s] < PipeSize /\ written[s] < MaxWrites
    /\ pipe' = [pipe EXCEPT ![s] = @ + 1]
    /\ written' = [written EXCEPT ![s] = @ + 1]
    /\ UNCHANGED <<runVars, procVars, late, inputVars, kept, over, broken, reader>>

ChildReads ==
    /\ Attached /\ ~deaf
    /\ \/ stdin > 0 /\ stdin' = stdin - 1 /\ UNCHANGED deaf
       \/ deaf' = TRUE /\ UNCHANGED stdin
    /\ UNCHANGED <<runVars, procVars, late, input, outVars>>

ChildForks ==
    /\ child = "running" /\ helper = "none"
    /\ helper' \in (IF MayEscape THEN {"running", "escaped"} ELSE {"running"})
    /\ UNCHANGED <<runVars, child, late, inputVars, outVars>>

ChildExits ==
    /\ \/ child = "running" /\ child' = "zombie" /\ UNCHANGED helper
       \/ HelperAlive /\ helper' = "dead" /\ UNCHANGED child
    /\ UNCHANGED <<runVars, late, inputVars, outVars>>

TimePasses ==
    /\ pc \in {"flags", "try"} /\ ~late
    /\ late' = TRUE
    /\ UNCHANGED <<runVars, procVars, inputVars, outVars>>

-----------------------------------------------------------------------------
Runner ==
    \/ Spawn \/ WriteInput \/ WriteFails \/ StartReaders
    \/ LookAtFlags \/ TryWait \/ CloseHelper \/ Wait \/ JoinStdout \/ JoinStderr

Reader(s) == Read(s) \/ EndOfStream(s)

World ==
    \/ \E s \in Streams : ChildWrites(s)
    \/ ChildReads \/ ChildForks \/ ChildExits \/ TimePasses
    \/ \E s \in Streams : ReadInterrupted(s)

Next == Runner \/ (\E s \in Streams : Reader(s)) \/ World

Spec == Init /\ [][Next]_vars

(* Time passes and the two reader threads are scheduled; the child owes    *)
(* nobody anything.                                                        *)
FairSpec ==
    /\ Spec
    /\ WF_vars(Runner) /\ WF_vars(TimePasses)
    /\ \A s \in Streams : WF_vars(Reader(s))

-----------------------------------------------------------------------------
(* Safety.                                                                 *)

(* A result an adapter may believe is all that was said on both streams.   *)
OkIsWhole ==
    result = "ok" => \A s \in Streams : kept[s] = written[s]

(* Whatever happened, nothing of the child's group outlives the call and   *)
(* no zombie is left.                                                      *)
NothingLeftRunning ==
    pc = "returned" /\ result # "spawn" => child = "reaped" /\ helper # "running"

(* A child is blamed for its output or its slowness only if it is guilty.  *)
VerdictIsJust ==
    /\ result = "limit" => \E s \in Streams : written[s] > MaxOutput
    /\ result = "timeout" => late

(* Whatever the call returns is true of its child.                         *)
ResultIsTrue == OkIsWhole /\ VerdictIsJust

(* Liveness: the call returns, whatever the child does, unless a helper    *)
(* leaves the process group.                                               *)
CallReturns == [](helper # "escaped") => <>(pc = "returned")

=============================================================================
