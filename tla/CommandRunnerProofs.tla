------------------------ MODULE CommandRunnerProofs ------------------------
(***************************************************************************)
(* What holds of run_with_limits for every size of request, pipe and cap   *)
(* and every child: its type, that nothing of the child's group is left    *)
(* running, and that its result is true of the child.                      *)
(***************************************************************************)
EXTENDS CommandRunner, TLAPS

(* The inductive invariant.  What is left of the child follows from where  *)
(* the call is; what a result says follows from an account of every unit   *)
(* that was written: it was kept, is in the pipe, or was counted as over.  *)
ChildFollowsCall ==
    /\ pc = "spawn" => child = "none" /\ helper = "none"
    /\ pc \in {"write", "flags", "try"} => child \in {"running", "zombie"}
    /\ pc = "group" => child = "reaped"
    /\ pc = "wait" => child \in {"zombie", "reaped"} /\ helper # "running"
    /\ pc \in {"stdout", "stderr"} => child = "reaped" /\ helper # "running"
    /\ pc = "returned" /\ result = "spawn" => child = "none"
    /\ pc = "returned" /\ result # "spawn" => child = "reaped" /\ helper # "running"

ReadersFollowCall ==
    /\ pc \in {"spawn", "write"} => \A s \in Streams : reader[s] = "none"
    /\ pc = "stderr" => reader["stdout"] = "done"
    /\ pc # "returned" => result = "none"

\* One stream: nothing is lost without being counted.
Accounted(s) ==
    /\ kept[s] + pipe[s] <= written[s]
    /\ ~over[s] => kept[s] + pipe[s] = written[s]
    /\ over[s] => written[s] > MaxOutput
    /\ reader[s] = "done" /\ s \notin broken => pipe[s] = 0

ResultFollowsCall ==
    /\ timedOut => late
    /\ result = "timeout" => timedOut
    /\ result = "limit" => \E s \in Streams : over[s]
    /\ result = "ok" =>
          \A s \in Streams : reader[s] = "done" /\ s \notin broken /\ ~over[s]

RunInv ==
    /\ TypeOK
    /\ ChildFollowsCall
    /\ ReadersFollowCall
    /\ \A s \in Streams : Accounted(s)
    /\ ResultFollowsCall

USE RunnerAssumption DEF RunnerAssumption, Streams

-----------------------------------------------------------------------------
LEMMA RunInitInv == Init => RunInv
<1> SUFFICES ASSUME Init PROVE RunInv
  OBVIOUS
<1> USE DEF Init
<1>1. TypeOK
  <2>1. 0 \in 0 .. PipeSize /\ 0 \in 0 .. MaxWrites /\ 0 \in 0 .. MaxOutput
    OBVIOUS
  <2>2. InputSize \in 0 .. InputSize
    OBVIOUS
  <2>3. /\ pipe \in [Streams -> 0 .. PipeSize]
        /\ written \in [Streams -> 0 .. MaxWrites]
        /\ kept \in [Streams -> 0 .. MaxOutput]
        /\ over \in [Streams -> BOOLEAN]
        /\ reader \in [Streams -> {"none", "reading", "done"}]
    BY <2>1
  <2> QED BY <2>1, <2>2, <2>3 DEF TypeOK
<1>2. ChildFollowsCall /\ ReadersFollowCall /\ ResultFollowsCall
  BY DEF ChildFollowsCall, ReadersFollowCall, ResultFollowsCall
<1>3. \A s \in Streams : Accounted(s)
  BY DEF Accounted
<1> QED BY <1>1, <1>2, <1>3 DEF RunInv

(* The steps of the call itself leave the account alone.                   *)
LEMMA CallKeepsInv ==
    ASSUME RunInv, Runner
    PROVE  RunInv'
<1> USE DEF RunInv
<1>1. CASE Spawn
  <2> USE <1>1 DEF Spawn, Returns, Goes, inputVars
  <2>1. TypeOK'
    BY DEF TypeOK
  <2>2. ChildFollowsCall' /\ ReadersFollowCall' /\ ResultFollowsCall'
    BY DEF TypeOK, ChildFollowsCall, ReadersFollowCall, ResultFollowsCall
  <2>3. \A s \in Streams : Accounted(s)'
    BY DEF TypeOK, Accounted
  <2> QED BY <2>1, <2>2, <2>3
<1>2. CASE WriteInput
  <2> USE <1>2 DEF WriteInput, runVars, procVars, outVars
  <2>1. TypeOK'
    BY DEF TypeOK
  <2>2. ChildFollowsCall' /\ ReadersFollowCall' /\ ResultFollowsCall'
    BY DEF ChildFollowsCall, ReadersFollowCall, ResultFollowsCall
  <2>3. \A s \in Streams : Accounted(s)'
    BY DEF Accounted
  <2> QED BY <2>1, <2>2, <2>3
<1>3. CASE WriteFails
  <2> USE <1>3 DEF WriteFails, StoppedAndReaped, Returns, inputVars, outVars
  <2>1. TypeOK'
    BY DEF TypeOK
  <2>2. ChildFollowsCall' /\ ReadersFollowCall' /\ ResultFollowsCall'
    BY DEF TypeOK, ChildFollowsCall, ReadersFollowCall, ResultFollowsCall
  <2>3. \A s \in Streams : Accounted(s)'
    BY DEF Accounted
  <2> QED BY <2>1, <2>2, <2>3
<1>4. CASE StartReaders
  <2> USE <1>4 DEF StartReaders, Goes, procVars, inputVars
  <2>1. TypeOK'
    BY DEF TypeOK
  <2>2. ChildFollowsCall' /\ ReadersFollowCall' /\ ResultFollowsCall'
    BY DEF TypeOK, ChildFollowsCall, ReadersFollowCall, ResultFollowsCall
  <2>3. \A s \in Streams : Accounted(s)'
    BY DEF TypeOK, Accounted
  <2> QED BY <2>1, <2>2, <2>3
<1>5. CASE LookAtFlags \/ TryWait \/ CloseHelper \/ Wait \/ JoinStdout \/ JoinStderr
  <2>1. UNCHANGED <<late, inputVars, outVars>>
    BY <1>5 DEF LookAtFlags, TryWait, CloseHelper, Wait, JoinStdout, JoinStderr
  <2>2. TypeOK'
    <3>1. CASE LookAtFlags
      BY <2>1, <3>1 DEF TypeOK, LookAtFlags, GroupKilled, Goes, procVars, inputVars, outVars
    <3>2. CASE TryWait
      <4>1. /\ child' \in {"none", "running", "zombie", "reaped"}
            /\ helper' \in {"none", "running", "escaped", "dead"}
        BY <3>2 DEF TypeOK, TryWait, GroupKilled, procVars
      <4>2. /\ pc' \in {"group", "wait", "flags"}
            /\ timedOut' \in BOOLEAN /\ UNCHANGED result
        BY <3>2 DEF TypeOK, TryWait, Goes
      <4> QED BY <2>1, <4>1, <4>2 DEF TypeOK, inputVars, outVars
    <3>3. CASE CloseHelper \/ Wait
      BY <2>1, <3>3
         DEF TypeOK, CloseHelper, Wait, GroupKilled, Goes, procVars, inputVars, outVars
    <3>4. CASE JoinStdout \/ JoinStderr
      BY <2>1, <3>4
         DEF TypeOK, JoinStdout, JoinStderr, Verdict, Returns, Goes, procVars, inputVars,
             outVars
    <3> QED BY <1>5, <3>1, <3>2, <3>3, <3>4
  <2>3. ChildFollowsCall'
    <3> USE DEF ChildFollowsCall, ReadersFollowCall
    <3>1. CASE LookAtFlags
      BY <3>1 DEF LookAtFlags, GroupKilled, Goes, procVars
    <3>2. CASE TryWait
      BY <3>2 DEF TryWait, GroupKilled, Goes, procVars
    <3>3. CASE CloseHelper \/ Wait
      BY <3>3 DEF CloseHelper, Wait, GroupKilled, Goes
    <3>4. CASE JoinStdout \/ JoinStderr
      BY <3>4 DEF JoinStdout, JoinStderr, Verdict, Returns, Goes, procVars
    <3> QED BY <1>5, <3>1, <3>2, <3>3, <3>4
  <2>4. ReadersFollowCall'
    BY <1>5, <2>1 DEF ReadersFollowCall, LookAtFlags, TryWait, CloseHelper, Wait, JoinStdout,
       JoinStderr, Returns, Goes, outVars
  <2>5. ResultFollowsCall'
    <3>1. CASE JoinStderr
      <4>1. result = "none" /\ reader["stdout"] = "done" /\ reader["stderr"] = "done"
        BY <3>1 DEF JoinStderr, ReadersFollowCall
      <4>2. result' = Verdict /\ timedOut' = timedOut
        BY <3>1 DEF JoinStderr, Returns
      <4>3. Verdict = "timeout" => timedOut
        BY DEF Verdict
      <4>4. Verdict = "limit" => \E s \in Streams : over[s]
        BY DEF Verdict
      <4>5. Verdict = "ok" => \A s \in Streams : s \notin broken /\ ~over[s]
        BY DEF Verdict
      <4> QED BY <2>1, <4>1, <4>2, <4>3, <4>4, <4>5 DEF ResultFollowsCall, outVars
    <3>2. CASE TryWait
      BY <2>1, <3>2 DEF ResultFollowsCall, ReadersFollowCall, TryWait, Goes, outVars
    <3>3. CASE LookAtFlags \/ CloseHelper \/ Wait \/ JoinStdout
      BY <2>1, <3>3
         DEF ResultFollowsCall, LookAtFlags, CloseHelper, Wait, JoinStdout, Goes, outVars
    <3> QED BY <1>5, <3>1, <3>2, <3>3
  <2>6. \A s \in Streams : Accounted(s)'
    BY <2>1 DEF Accounted, outVars
  <2> QED BY <2>2, <2>3, <2>4, <2>5, <2>6
<1> QED BY <1>1, <1>2, <1>3, <1>4, <1>5 DEF Runner

(* Reading moves units from the pipe to what is kept, or counts them.       *)
LEMMA ReaderKeepsInv ==
    ASSUME NEW s \in Streams, RunInv, Reader(s)
    PROVE  RunInv'
<1> USE DEF RunInv
<1>1. CASE Read(s)
  <2> USE <1>1 DEF runVars, procVars, inputVars
  <2>1. PICK n \in 1 .. pipe[s] :
            /\ pipe' = [pipe EXCEPT ![s] = @ - n]
            /\ kept' = [kept EXCEPT ![s] = AtMost(@ + n, MaxOutput)]
            /\ over' = [over EXCEPT ![s] = @ \/ n > MaxOutput - kept[s]]
    BY DEF Read
  <2>2. /\ UNCHANGED <<pc, result, timedOut, child, helper, late, input, stdin, deaf>>
        /\ UNCHANGED <<written, broken, reader>>
        /\ reader[s] = "reading"
    BY DEF Read
  <2>3. /\ pipe[s] \in 0 .. PipeSize /\ kept[s] \in 0 .. MaxOutput
        /\ written[s] \in 0 .. MaxWrites /\ over[s] \in BOOLEAN
    BY DEF TypeOK
  <2>4. AtMost(kept[s] + n, MaxOutput) \in 0 .. MaxOutput
    BY <2>3 DEF AtMost
  <2>5. TypeOK'
    <3>1. pipe[s] - n \in 0 .. PipeSize
      BY <2>3
    <3>2. pipe' \in [Streams -> 0 .. PipeSize]
      BY <2>1, <3>1 DEF TypeOK
    <3>3. kept' \in [Streams -> 0 .. MaxOutput]
      BY <2>1, <2>4 DEF TypeOK
    <3>4. over' \in [Streams -> BOOLEAN]
      BY <2>1 DEF TypeOK
    <3> QED BY <2>2, <3>2, <3>3, <3>4 DEF TypeOK
  <2>6. ChildFollowsCall' /\ ReadersFollowCall'
    BY <2>2 DEF ChildFollowsCall, ReadersFollowCall
  <2>7. Accounted(s)'
    <3>1. /\ pipe'[s] = pipe[s] - n
          /\ kept'[s] = AtMost(kept[s] + n, MaxOutput)
          /\ over'[s] <=> over[s] \/ n > MaxOutput - kept[s]
      BY <2>1 DEF TypeOK
    <3>2. Accounted(s) /\ reader'[s] # "done" /\ written'[s] = written[s]
      BY <2>2
    <3>3. CASE n > MaxOutput - kept[s]
      <4>1. over'[s] /\ kept'[s] = MaxOutput
        BY <2>3, <3>1, <3>3 DEF AtMost
      <4> QED BY <2>3, <3>1, <3>2, <3>3, <4>1 DEF Accounted
    <3>4. CASE ~(n > MaxOutput - kept[s])
      <4>1. kept'[s] = kept[s] + n
        BY <2>3, <3>1, <3>4 DEF AtMost
      <4> QED BY <2>3, <3>1, <3>2, <3>4, <4>1 DEF Accounted
    <3> QED BY <3>3, <3>4
  <2>8. \A t \in Streams \ {s} : Accounted(t)'
    <3>1. \A t \in Streams \ {s} :
              pipe'[t] = pipe[t] /\ kept'[t] = kept[t] /\ over'[t] = over[t]
      BY <2>1 DEF TypeOK
    <3> QED BY <2>2, <3>1 DEF Accounted
  <2>9. ResultFollowsCall'
    <3>1. \A t \in Streams : over[t] => over'[t]
      BY <2>1 DEF TypeOK
    <3> QED BY <2>2, <3>1 DEF ResultFollowsCall
  <2> QED BY <2>5, <2>6, <2>7, <2>8, <2>9
<1>2. CASE EndOfStream(s)
  <2> USE <1>2 DEF EndOfStream, runVars, procVars, inputVars
  <2>1. TypeOK'
    BY DEF TypeOK
  <2>2. ChildFollowsCall' /\ ReadersFollowCall'
    BY DEF TypeOK, ChildFollowsCall, ReadersFollowCall
  <2>3. \A t \in Streams : Accounted(t)'
    BY DEF TypeOK, Accounted
  <2>4. ResultFollowsCall'
    BY DEF TypeOK, ResultFollowsCall
  <2> QED BY <2>1, <2>2, <2>3, <2>4
<1> QED BY <1>1, <1>2 DEF Reader

(* Nor does the child, its helper, the clock or a signal disturb it.        *)
LEMMA WorldKeepsInv ==
    ASSUME RunInv, World
    PROVE  RunInv'
<1> USE DEF RunInv
<1>1. ASSUME NEW s \in Streams, ChildWrites(s) PROVE RunInv'
  <2> USE <1>1 DEF ChildWrites, runVars, procVars, inputVars
  <2>1. TypeOK'
    BY DEF TypeOK
  <2>2. ChildFollowsCall' /\ ReadersFollowCall' /\ ResultFollowsCall'
    BY DEF ChildFollowsCall, ReadersFollowCall, ResultFollowsCall
  <2>3. Accounted(s)'
    BY DEF TypeOK, Accounted
  <2>4. \A t \in Streams \ {s} : Accounted(t)'
    BY DEF TypeOK, Accounted
  <2> QED BY <2>1, <2>2, <2>3, <2>4
<1>2. CASE ChildReads
  <2> USE <1>2 DEF ChildReads, runVars, procVars, outVars
  <2>1. TypeOK'
    <3>1. stdin' \in 0 .. PipeSize
      BY DEF TypeOK
    <3>2. deaf' \in BOOLEAN
      BY DEF TypeOK
    <3> QED BY <3>1, <3>2 DEF TypeOK
  <2> QED BY <2>1 DEF ChildFollowsCall, ReadersFollowCall, ResultFollowsCall, Accounted
<1>3. CASE ChildForks
  <2> USE <1>3 DEF ChildForks, runVars, inputVars, outVars
  <2>1. TypeOK'
    BY DEF TypeOK
  <2>2. ChildFollowsCall'
    BY DEF TypeOK, ChildFollowsCall
  <2> QED BY <2>1, <2>2 DEF ReadersFollowCall, ResultFollowsCall, Accounted
<1>4. CASE ChildExits
  <2> USE <1>4 DEF ChildExits, HelperAlive, runVars, inputVars, outVars
  <2>1. TypeOK'
    BY DEF TypeOK
  <2>2. ChildFollowsCall'
    BY DEF TypeOK, ChildFollowsCall
  <2> QED BY <2>1, <2>2 DEF ReadersFollowCall, ResultFollowsCall, Accounted
<1>5. CASE TimePasses
  <2> USE <1>5 DEF TimePasses, runVars, procVars, inputVars, outVars
  <2>1. TypeOK'
    BY DEF TypeOK
  <2> QED BY <2>1 DEF ChildFollowsCall, ReadersFollowCall, ResultFollowsCall, Accounted
<1>6. ASSUME NEW s \in Streams, ReadInterrupted(s) PROVE RunInv'
  <2> USE <1>6 DEF ReadInterrupted, runVars, procVars, inputVars
  <2>1. TypeOK'
    BY DEF TypeOK
  <2>2. ChildFollowsCall' /\ ReadersFollowCall'
    BY DEF TypeOK, ChildFollowsCall, ReadersFollowCall
  <2>3. \A t \in Streams : Accounted(t)'
    BY DEF TypeOK, Accounted
  <2>4. ResultFollowsCall'
    BY DEF TypeOK, ResultFollowsCall
  <2> QED BY <2>1, <2>2, <2>3, <2>4
<1> QED BY <1>1, <1>2, <1>3, <1>4, <1>5, <1>6 DEF World

THEOREM RunInductive == Spec => []RunInv
<1>1. RunInv /\ [Next]_vars => RunInv'
  <2> SUFFICES ASSUME RunInv, [Next]_vars PROVE RunInv'
    OBVIOUS
  <2>1. CASE Next
    BY <2>1, CallKeepsInv, ReaderKeepsInv, WorldKeepsInv DEF Next
  <2>2. CASE UNCHANGED vars
    BY <2>2 DEF vars, runVars, procVars, inputVars, outVars, RunInv, TypeOK,
       ChildFollowsCall, ReadersFollowCall, ResultFollowsCall, Accounted
  <2> QED BY <2>1, <2>2
<1> QED BY RunInitInv, <1>1, PTL DEF Spec

-----------------------------------------------------------------------------
(* Every variable keeps its type, whatever the sizes.                       *)
THEOREM RunnerTyped == Spec => []TypeOK
<1>1. RunInv => TypeOK
  BY DEF RunInv
<1> QED BY RunInductive, <1>1, PTL

(* run_with_limits returns, on every path, only after the child is reaped  *)
(* and its group is dead.                                                   *)
THEOREM NothingIsLeft == Spec => []NothingLeftRunning
<1>1. RunInv => NothingLeftRunning
  BY DEF RunInv, ChildFollowsCall, NothingLeftRunning
<1> QED BY RunInductive, <1>1, PTL

(* What it returns is true of the child: "ok" is all it wrote, "limit" and *)
(* "timeout" are its own doing.                                             *)
THEOREM ResultsAreTrue == Spec => []ResultIsTrue
<1>1. RunInv => ResultIsTrue
  <2> SUFFICES ASSUME RunInv PROVE ResultIsTrue
    OBVIOUS
  <2>1. OkIsWhole
    BY DEF RunInv, TypeOK, ResultFollowsCall, Accounted, OkIsWhole
  <2>2. VerdictIsJust
    BY DEF RunInv, ResultFollowsCall, Accounted, VerdictIsJust
  <2> QED BY <2>1, <2>2 DEF ResultIsTrue
<1> QED BY RunInductive, <1>1, PTL

=============================================================================
