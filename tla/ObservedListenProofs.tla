------------------------ MODULE ObservedListenProofs ------------------------
(***************************************************************************)
(* What holds of run_observed_loop for any number of keys, signals and     *)
(* faults and each of the three backends: the key of a report is fresh,    *)
(* and however the loop is left the terminal is back.                      *)
(***************************************************************************)
EXTENDS ObservedListen, TLAPS

-----------------------------------------------------------------------------
(* The operations of the terminal session and of the signal guard.         *)
(* Whatever is done to the terminal, only an opening that succeeds leaves  *)
(* it in raw mode without a fault being counted.                            *)
LEMMA TerminalTyped ==
    ASSUME GuardTypeOK, Opens \/ OpenFails \/ OpenFailsLate \/ Restores \/ RestoreFails
    PROVE  /\ raw' \in BOOLEAN /\ kitty' \in BOOLEAN /\ ttyFaults' \in 0 .. MaxTtyFaults
           /\ OpenFails \/ OpenFailsLate \/ RestoreFails => ttyFaults' # 0
           /\ Restores => ~raw' /\ ~kitty'
<1>1. raw \in BOOLEAN /\ kitty \in BOOLEAN /\ ttyFaults \in 0 .. MaxTtyFaults
  BY DEF GuardTypeOK
<1>2. raw' \in BOOLEAN /\ kitty' \in BOOLEAN
  BY <1>1 DEF Opens, OpenFails, OpenFailsLate, Restores, RestoreFails
<1>3. Restores => ~raw' /\ ~kitty'
  BY DEF Restores
<1>4. OpenFails \/ OpenFailsLate \/ RestoreFails =>
          ttyFaults' \in 0 .. MaxTtyFaults /\ ttyFaults' # 0
  BY <1>1, GuardAssumption DEF GuardAssumption, OpenFails, OpenFailsLate, RestoreFails
<1>5. Opens \/ Restores => ttyFaults' = ttyFaults
  BY DEF Opens, Restores
<1> QED BY <1>1, <1>2, <1>3, <1>4, <1>5

(* Signals keep the types and leave the terminal alone.                     *)
LEMMA OutsideTyped ==
    ASSUME GuardTypeOK, Outside
    PROVE  GuardTypeOK' /\ UNCHANGED ttyVars
<1>1. UNCHANGED ttyVars
  BY DEF Outside, Interrupt, Suspend, Continue
<1>2. CASE Interrupt
  BY <1>1, <1>2 DEF GuardTypeOK, Interrupt, ttyVars
<1>3. CASE Suspend
  <2>1. signals' \in 0 .. MaxSignals
    BY <1>3, GuardAssumption DEF GuardAssumption, GuardTypeOK, Suspend
  <2>2. stopRequested' \in BOOLEAN /\ running' \in BOOLEAN
    BY <1>3 DEF GuardTypeOK, Suspend
  <2> QED BY <1>1, <1>3, <2>1, <2>2 DEF GuardTypeOK, Suspend, ttyVars
<1>4. CASE Continue
  BY <1>1, <1>4 DEF GuardTypeOK, Continue, ttyVars
<1> QED BY <1>1, <1>2, <1>3, <1>4 DEF Outside

(* The guard starts out typed.                                              *)
LEMMA GuardStartsTyped == GuardInit => GuardTypeOK
<1>1. 0 \in 0 .. MaxSignals /\ 0 \in 0 .. MaxTtyFaults
  BY GuardAssumption DEF GuardAssumption
<1> QED BY <1>1 DEF GuardInit, GuardTypeOK

-----------------------------------------------------------------------------

(* The inductive invariant.  A key is fresh because of what the queues may *)
(* hold: while a backend is armed what is typed belongs to its capture,    *)
(* and what was read and not used was typed in some capture.               *)
QueuesHoldCaptures ==
    /\ armed => capture > 0 /\ \A i \in DOMAIN typed : typed[i] = capture
    /\ \A i \in DOMAIN pending : pending[i] # 0
    /\ kind # "terminal" => pending = <<>>

KeyIsOfCapture ==
    pc \in {"close", "report"} => key # 0 /\ (kind = "evdev" => key = capture)

BackendFollowsLoop ==
    /\ pc \in {"top", "read", "close"} => armed
    /\ pc \in {"stop", "resume"} => kind = "window" \/ ~armed
    /\ pc \in {"arm", "dropGuard", "exited"} => ~armed

\* Only an open terminal session may hold the terminal.
TerminalIsHeld ==
    ttyFaults = 0 /\ (kind # "terminal" \/ ~armed) => ~raw /\ ~kitty

\* The process can be stopped only where its handler is not in place.
GuardFollowsLoop ==
    /\ ~guarded => pc \in {"resume", "exited"}
    /\ ~running => ~guarded
    /\ pc = "exited" => ~guarded /\ ~stopRequested

LoopInv ==
    /\ TypeOK
    /\ QueuesHoldCaptures
    /\ KeyIsOfCapture
    /\ BackendFollowsLoop
    /\ TerminalIsHeld
    /\ GuardFollowsLoop

-----------------------------------------------------------------------------
(* The operations of the backends.                                       *)
LEMMA BackendFault ==
    ASSUME TypeOK, Fault
    PROVE  faults' \in 0 .. MaxFaults
BY ObservedAssumption DEF ObservedAssumption, TypeOK, Fault

\* What opening a backend, or failing to, leaves.
LEMMA ArmingKeeps ==
    ASSUME TypeOK, QueuesHoldCaptures, TerminalIsHeld, UNCHANGED <<kind, signalVars>>,
           pc' \in {"top", "dropGuard", "leave"}, BackendArms \/ BackendArmFails
    PROVE  /\ TypeOK' /\ QueuesHoldCaptures' /\ TerminalIsHeld'
           /\ BackendArms => armed'
           /\ BackendArmFails => ~armed'
<1>0. GuardTypeOK
  BY DEF TypeOK
<1>1. CASE BackendArms /\ armed
  <2> USE <1>1 DEF BackendArms
  <2>1. GuardTypeOK'
    BY <1>0 DEF GuardTypeOK, ttyVars, signalVars
  <2> QED BY <2>1 DEF TypeOK, QueuesHoldCaptures, TerminalIsHeld, BackendArmFails, ttyVars
<1>2. CASE BackendArms /\ ~armed
  <2> USE <1>2 DEF BackendArms
  <2>1. GuardTypeOK'
    BY <1>0, TerminalTyped DEF GuardTypeOK, ttyVars, signalVars
  <2>2. armed' /\ capture' = capture + 1 /\ typed' = <<>> /\ pending' = pending
    OBVIOUS
  <2>3. TypeOK'
    BY <2>1, <2>2 DEF TypeOK, Tags
  <2>4. QueuesHoldCaptures'
    BY <2>2 DEF TypeOK, QueuesHoldCaptures, Tags
  <2>5. TerminalIsHeld'
    BY <2>2 DEF TerminalIsHeld, ttyVars
  <2> QED BY <2>2, <2>3, <2>4, <2>5 DEF BackendArmFails
<1>3. CASE BackendArmFails
  <2> USE <1>3 DEF BackendArmFails
  <2>1. GuardTypeOK' /\ faults' \in 0 .. MaxFaults
    BY <1>0, TerminalTyped, BackendFault DEF TypeOK, GuardTypeOK, ttyVars, signalVars
  <2>2. TypeOK' /\ QueuesHoldCaptures'
    BY <2>1 DEF TypeOK, QueuesHoldCaptures
  <2>3. TerminalIsHeld'
    BY <1>0, TerminalTyped DEF TerminalIsHeld, ttyVars
  <2> QED BY <2>2, <2>3 DEF BackendArms
<1> QED BY <1>1, <1>2, <1>3

\* What closing a backend, or failing to, leaves.
LEMMA ClosingKeeps ==
    ASSUME TypeOK, QueuesHoldCaptures, TerminalIsHeld, GuardTypeOK',
           UNCHANGED kind, BackendCloses \/ BackendCloseFails,
           pc' \in {"leave", "stop", "report"}
    PROVE  /\ TypeOK' /\ QueuesHoldCaptures' /\ TerminalIsHeld'
           /\ UNCHANGED <<key, capture>>
           /\ kind = "window" \/ ~armed'
<1>1. GuardTypeOK
  BY DEF TypeOK
<1>2. UNCHANGED <<key, capture>> /\ (kind = "window" \/ ~armed')
  BY DEF TypeOK, BackendCloses, BackendCloseFails
<1>3. CASE BackendCloses
  <2> USE <1>3 DEF BackendCloses
  <2>1. TypeOK'
    BY DEF TypeOK
  <2>2. QueuesHoldCaptures'
    BY DEF TypeOK, QueuesHoldCaptures
  <2>3. TerminalIsHeld'
    BY <1>1, TerminalTyped DEF TerminalIsHeld, ttyVars
  <2> QED BY <1>2, <2>1, <2>2, <2>3
<1>4. CASE BackendCloseFails
  <2> USE <1>4 DEF BackendCloseFails
  <2>1. TypeOK'
    BY DEF TypeOK
  <2>2. QueuesHoldCaptures'
    BY DEF TypeOK, QueuesHoldCaptures
  <2>3. TerminalIsHeld'
    BY <1>1, TerminalTyped DEF TerminalIsHeld
  <2> QED BY <1>2, <2>1, <2>2, <2>3
<1> QED BY <1>3, <1>4

LEMMA LoopInitInv == Init => LoopInv
<1> SUFFICES ASSUME Init PROVE LoopInv
  OBVIOUS
<1> USE DEF Init
<1>1. TypeOK
  <2>1. keys \in 0 .. MaxKeys /\ faults \in 0 .. MaxFaults
    BY ObservedAssumption DEF ObservedAssumption
  <2>2. typed \in Seq(Tags) /\ pending \in Seq(Tags)
    OBVIOUS
  <2> QED BY <2>1, <2>2, GuardStartsTyped DEF TypeOK, Tags
<1>2. QueuesHoldCaptures /\ KeyIsOfCapture /\ BackendFollowsLoop
  BY DEF QueuesHoldCaptures, KeyIsOfCapture, BackendFollowsLoop
<1>3. TerminalIsHeld /\ GuardFollowsLoop
  BY DEF GuardInit, TerminalIsHeld, GuardFollowsLoop
<1> QED BY <1>1, <1>2, <1>3 DEF LoopInv

-----------------------------------------------------------------------------
(* The steps of the loop.                                                   *)
LEMMA StepKeepsInv ==
    ASSUME LoopInv, Step
    PROVE  LoopInv'
<1>a. /\ TypeOK /\ QueuesHoldCaptures /\ KeyIsOfCapture /\ BackendFollowsLoop
      /\ TerminalIsHeld /\ GuardFollowsLoop /\ GuardTypeOK
  BY DEF LoopInv, TypeOK
<1>0. running /\ UNCHANGED kind
  BY DEF Step
<1>1. CASE FirstArm \/ Rearm
  <2> USE <1>1 DEF FirstArm, Rearm, Goes
  <2>1. UNCHANGED signalVars /\ (BackendArms \/ BackendArmFails)
    OBVIOUS
  <2>2. TypeOK' /\ QueuesHoldCaptures' /\ TerminalIsHeld'
    BY <1>a, <1>0, <2>1, ArmingKeeps
  <2>3. KeyIsOfCapture'
    BY DEF KeyIsOfCapture
  <2>4. BackendFollowsLoop'
    BY <1>a, <1>0, <2>1, ArmingKeeps DEF BackendFollowsLoop
  <2>5. GuardFollowsLoop'
    BY <1>a, <2>1 DEF GuardFollowsLoop, signalVars
  <2> QED BY <2>2, <2>3, <2>4, <2>5 DEF LoopInv
<1>2. CASE CloseAndLeave \/ AnswerStop \/ CloseToReport
  <2> USE <1>2 DEF CloseAndLeave, AnswerStop, CloseToReport, Goes
  <2>1. /\ BackendCloses \/ BackendCloseFails
        /\ pc' \in {"leave", "stop", "report"}
        /\ UNCHANGED signalVars \/ StopRequestTaken
    OBVIOUS
  <2>2. GuardTypeOK'
    <3>1. raw' \in BOOLEAN /\ kitty' \in BOOLEAN /\ ttyFaults' \in 0 .. MaxTtyFaults
      BY <1>a, <2>1, TerminalTyped DEF GuardTypeOK, BackendCloses, BackendCloseFails, ttyVars
    <3> QED BY <1>a, <2>1, <3>1 DEF GuardTypeOK, StopRequestTaken, signalVars
  <2>3. /\ TypeOK' /\ QueuesHoldCaptures' /\ TerminalIsHeld'
        /\ UNCHANGED <<key, capture>>
        /\ kind = "window" \/ ~armed'
    BY <1>a, <1>0, <2>1, <2>2, ClosingKeeps
  <2>4. KeyIsOfCapture'
    BY <1>a, <1>0, <2>3 DEF KeyIsOfCapture
  <2>5. BackendFollowsLoop'
    BY <1>0, <2>1, <2>3 DEF BackendFollowsLoop
  <2>6. GuardFollowsLoop'
    BY <1>a, <2>1 DEF GuardFollowsLoop, StopRequestTaken, signalVars
  <2> QED BY <2>3, <2>4, <2>5, <2>6 DEF LoopInv
<1>3. CASE StopProcess \/ Resume
  <2>1. UNCHANGED <<kind, armed, capture, typed, pending, key, expired, keys, faults, ttyVars>>
    BY <1>0, <1>3 DEF StopProcess, Resume
  <2>2. pc \in {"stop", "resume"} /\ pc' \in {"resume", "rearm"}
    BY <1>3 DEF StopProcess, Resume, Goes
  <2>3. /\ UNCHANGED <<interrupted, stopRequested, signals>>
        /\ \/ ~guarded' /\ ~running' /\ pc' = "resume"
           \/ guarded' /\ running' /\ pc' = "rearm"
        /\ guarded' \in BOOLEAN /\ running' \in BOOLEAN
    BY <1>a, <1>0, <1>3 DEF GuardTypeOK, StopProcess, Resume, Stops, Reclaims, Goes
  <2>4. GuardTypeOK'
    BY <1>a, <2>1, <2>3 DEF GuardTypeOK, ttyVars
  <2>5. TypeOK'
    BY <1>a, <2>1, <2>2, <2>4 DEF TypeOK
  <2>6. QueuesHoldCaptures'
    BY <1>a, <2>1 DEF QueuesHoldCaptures
  <2>7. KeyIsOfCapture' /\ BackendFollowsLoop'
    BY <1>a, <2>1, <2>2 DEF KeyIsOfCapture, BackendFollowsLoop
  <2>8. TerminalIsHeld' /\ GuardFollowsLoop'
    BY <1>a, <2>1, <2>2, <2>3 DEF TerminalIsHeld, GuardFollowsLoop, ttyVars
  <2> QED BY <2>5, <2>6, <2>7, <2>8 DEF LoopInv
<1>4. CASE StartRead \/ ReadNothing \/ Report
  <2>1. UNCHANGED <<kind, armed, capture, typed, pending, key, expired, keys, guardVars>>
    BY <1>0, <1>4 DEF StartRead, ReadNothing, Report
  <2>2. /\ pc \in {"top", "read", "report"}
        /\ pc' \in {"top", "read", "rearm", "leave"}
        /\ pc' \in {"top", "read"} => pc \in {"top", "read"}
    BY <1>4 DEF StartRead, ReadNothing, Report, Goes
  <2>3. faults' \in 0 .. MaxFaults
    BY <1>a, <1>4, BackendFault DEF TypeOK, StartRead, ReadNothing, Report
  <2>4. GuardTypeOK'
    BY <1>a, <2>1 DEF GuardTypeOK, guardVars, ttyVars, signalVars
  <2>5. TypeOK'
    BY <1>a, <2>1, <2>2, <2>3, <2>4 DEF TypeOK
  <2>6. QueuesHoldCaptures'
    BY <1>a, <2>1 DEF QueuesHoldCaptures
  <2>7. KeyIsOfCapture' /\ BackendFollowsLoop'
    BY <1>a, <2>1, <2>2 DEF KeyIsOfCapture, BackendFollowsLoop
  <2>8. TerminalIsHeld' /\ GuardFollowsLoop'
    BY <1>a, <2>1, <2>2
       DEF TerminalIsHeld, GuardFollowsLoop, guardVars, ttyVars, signalVars
  <2> QED BY <2>5, <2>6, <2>7, <2>8 DEF LoopInv
<1>5. CASE ReadKey
  <2> USE <1>0, <1>5 DEF ReadKey, Goes, guardVars, ttyVars, signalVars
  <2>1. AtHand \in Seq(Tags) /\ AtHand # <<>> /\ armed
    BY <1>a DEF TypeOK, AtHand, BackendFollowsLoop
  <2>2. Head(AtHand) = AtHand[1] /\ 1 \in DOMAIN AtHand
    BY <2>1
  <2>3. /\ Tail(AtHand) \in Seq(Tags)
        /\ \A i \in DOMAIN Tail(AtHand) :
              i + 1 \in DOMAIN AtHand /\ Tail(AtHand)[i] = AtHand[i + 1]
    BY <2>1
  <2>4. key' # 0 /\ (kind = "evdev" => key' = capture)
    BY <1>a, <2>1, <2>2 DEF TypeOK, Tags, QueuesHoldCaptures, AtHand
  <2>5. QueuesHoldCaptures'
    <3>1. CASE kind = "terminal" /\ pending # <<>>
      BY <1>a, <2>1, <2>3, <3>1 DEF QueuesHoldCaptures, AtHand, Leftover
    <3>2. CASE kind = "terminal" /\ pending = <<>>
      <4>1. pending' = Tail(typed) /\ typed' = <<>> /\ AtHand = typed
        BY <3>2 DEF AtHand, Leftover
      <4>2. \A i \in DOMAIN pending' : pending'[i] = capture /\ capture > 0
        BY <1>a, <2>1, <2>3, <4>1 DEF QueuesHoldCaptures
      <4> QED BY <1>a, <3>2, <4>1, <4>2 DEF TypeOK, Tags, QueuesHoldCaptures
    <3>3. CASE kind # "terminal"
      <4>1. pending = <<>> /\ typed' = Tail(typed) /\ AtHand = typed
        BY <1>a, <3>3 DEF QueuesHoldCaptures, AtHand, Leftover
      <4> QED BY <1>a, <2>1, <2>3, <3>3, <4>1 DEF QueuesHoldCaptures, Leftover
    <3> QED BY <3>1, <3>2, <3>3
  <2>6. TypeOK'
    <3>1. GuardTypeOK'
      BY <1>a DEF GuardTypeOK
    <3>2. key' \in Tags
      BY <2>1, <2>2
    <3>3. typed' \in Seq(Tags) /\ pending' \in Seq(Tags)
      BY <1>a, <2>3 DEF TypeOK, Leftover
    <3> QED BY <1>a, <2>5, <3>1, <3>2, <3>3 DEF TypeOK, QueuesHoldCaptures
  <2>7. KeyIsOfCapture' /\ BackendFollowsLoop' /\ TerminalIsHeld'
    BY <1>a, <2>1, <2>4 DEF KeyIsOfCapture, BackendFollowsLoop, TerminalIsHeld
  <2>8. GuardFollowsLoop'
    BY <1>a DEF GuardFollowsLoop
  <2> QED BY <2>5, <2>6, <2>7, <2>8 DEF LoopInv
<1>6. CASE DropBackend
  <2> USE <1>0, <1>6 DEF DropBackend, Goes
  <2>1. GuardTypeOK'
    BY <1>a, TerminalTyped DEF GuardTypeOK, ttyVars, signalVars
  <2>2. TypeOK' /\ QueuesHoldCaptures'
    BY <1>a, <2>1 DEF TypeOK, QueuesHoldCaptures
  <2>3. KeyIsOfCapture' /\ BackendFollowsLoop'
    BY DEF KeyIsOfCapture, BackendFollowsLoop
  <2>4. TerminalIsHeld'
    BY <1>a, TerminalTyped DEF TerminalIsHeld, ttyVars
  <2>5. GuardFollowsLoop'
    BY <1>a DEF GuardFollowsLoop, signalVars
  <2> QED BY <2>2, <2>3, <2>4, <2>5 DEF LoopInv
<1>7. CASE DropGuard
  <2> USE <1>0, <1>7 DEF DropGuard, Unguards, Goes, ttyVars
  <2>1. GuardTypeOK'
    BY <1>a DEF GuardTypeOK
  <2>2. TypeOK'
    BY <1>a, <2>1 DEF TypeOK
  <2>3. QueuesHoldCaptures' /\ KeyIsOfCapture' /\ BackendFollowsLoop' /\ TerminalIsHeld'
    BY <1>a DEF QueuesHoldCaptures, KeyIsOfCapture, BackendFollowsLoop, TerminalIsHeld
  <2>4. GuardFollowsLoop'
    BY DEF GuardFollowsLoop
  <2> QED BY <2>2, <2>3, <2>4 DEF LoopInv
<1> QED BY <1>1, <1>2, <1>3, <1>4, <1>5, <1>6, <1>7 DEF Step

(* Signals, keys and the deadline.                                          *)
LEMMA EnvironmentKeepsInv ==
    ASSUME LoopInv, Environment
    PROVE  LoopInv'
<1>a. /\ TypeOK /\ QueuesHoldCaptures /\ KeyIsOfCapture /\ BackendFollowsLoop
      /\ TerminalIsHeld /\ GuardFollowsLoop /\ GuardTypeOK
  BY DEF LoopInv, TypeOK
<1>0. UNCHANGED kind
  BY DEF Environment
<1>1. CASE UNCHANGED loopVars /\ Outside /\ (pc = "exited" => Continue)
  <2> USE <1>1 DEF loopVars
  <2>1. GuardTypeOK' /\ UNCHANGED ttyVars
    BY <1>a, OutsideTyped
  <2>2. GuardFollowsLoop'
    BY <1>a DEF GuardFollowsLoop, GuardTypeOK, Outside, Interrupt, Suspend, Continue
  <2>3. TypeOK'
    BY <1>a, <2>1 DEF TypeOK
  <2>4. QueuesHoldCaptures' /\ KeyIsOfCapture' /\ BackendFollowsLoop' /\ TerminalIsHeld'
    BY <1>a, <2>1
       DEF QueuesHoldCaptures, KeyIsOfCapture, BackendFollowsLoop, TerminalIsHeld, ttyVars
  <2> QED BY <2>2, <2>3, <2>4 DEF LoopInv
<1>2. CASE TypeKey
  <2> USE <1>0, <1>2 DEF TypeKey, guardVars, ttyVars, signalVars
  <2>1. keys' \in 0 .. MaxKeys
    BY <1>a, ObservedAssumption DEF ObservedAssumption, TypeOK
  <2>2. GuardTypeOK'
    BY <1>a DEF GuardTypeOK
  <2>3. TypeOK'
    <3>1. typed' \in Seq(Tags)
      BY <1>a DEF TypeOK, Tags
    <3> QED BY <1>a, <2>1, <2>2, <3>1 DEF TypeOK
  <2>4. QueuesHoldCaptures'
    BY <1>a DEF TypeOK, Tags, QueuesHoldCaptures
  <2>5. KeyIsOfCapture' /\ BackendFollowsLoop' /\ TerminalIsHeld' /\ GuardFollowsLoop'
    BY <1>a DEF KeyIsOfCapture, BackendFollowsLoop, TerminalIsHeld, GuardFollowsLoop
  <2> QED BY <2>3, <2>4, <2>5 DEF LoopInv
<1>3. CASE DeadlinePasses
  <2> USE <1>0, <1>3 DEF DeadlinePasses, guardVars, ttyVars, signalVars
  <2>1. GuardTypeOK'
    BY <1>a DEF GuardTypeOK
  <2>2. TypeOK'
    BY <1>a, <2>1 DEF TypeOK
  <2> QED BY <1>a, <2>2 DEF LoopInv, QueuesHoldCaptures, KeyIsOfCapture, BackendFollowsLoop,
             TerminalIsHeld, GuardFollowsLoop
<1> QED BY <1>1, <1>2, <1>3 DEF Environment, Outside

THEOREM LoopInductive == Spec => []LoopInv
<1>1. LoopInv /\ [Next]_vars => LoopInv'
  <2> SUFFICES ASSUME LoopInv, [Next]_vars PROVE LoopInv'
    OBVIOUS
  <2>1. CASE Next
    BY <2>1, StepKeepsInv, EnvironmentKeepsInv DEF Next
  <2>2. CASE UNCHANGED vars
    BY <2>2 DEF vars, guardVars, ttyVars, signalVars, loopVars, LoopInv, TypeOK,
       GuardTypeOK, QueuesHoldCaptures, KeyIsOfCapture, BackendFollowsLoop,
       TerminalIsHeld, GuardFollowsLoop
  <2> QED BY <2>1, <2>2
<1> QED BY LoopInitInv, <1>1, PTL DEF Spec

-----------------------------------------------------------------------------
(* Every variable keeps its type; only the terminal backend has leftovers.  *)
THEOREM LoopTyped == Spec => []TypeOK
<1>1. LoopInv => TypeOK
  BY DEF LoopInv
<1> QED BY LoopInductive, <1>1, PTL

(* What run_observed_loop reports was typed to it and not to the shell,    *)
(* and with evdev in the capture the report ends.                           *)
THEOREM ReportedKeysAreFresh == Spec => []KeysAreFresh
<1>1. LoopInv => KeysAreFresh
  BY DEF LoopInv, KeyIsOfCapture, KeysAreFresh
<1> QED BY LoopInductive, <1>1, PTL

(* However run_observed_loop is left, for a stop or for good, the terminal *)
(* is back and no stop is forgotten.                                        *)
THEOREM ObservedLeavesClean == Spec => []LeavesClean
<1>1. LoopInv => StopsOnlyRestored
  BY DEF LoopInv, BackendFollowsLoop, TerminalIsHeld, GuardFollowsLoop, StopsOnlyRestored
<1>2. LoopInv => ExitsClean
  BY DEF LoopInv, BackendFollowsLoop, TerminalIsHeld, GuardFollowsLoop, ExitsClean
<1> QED BY LoopInductive, <1>1, <1>2, PTL DEF LeavesClean

=============================================================================
