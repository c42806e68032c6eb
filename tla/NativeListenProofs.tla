------------------------- MODULE NativeListenProofs -------------------------
(***************************************************************************)
(* What holds of run_native for any count, any number of keys, signals and *)
(* faults, and each kind of session: reports are written without the hook, *)
(* and however the loop is left it leaves nothing behind.                  *)
(***************************************************************************)
EXTENDS NativeListen, TLAPS

-----------------------------------------------------------------------------
(* The operations of the terminal session and of the signal guard.         *)
(* Whatever is done to the terminal, only an opening that succeeds leaves  *)
(* it in raw mode without a fault being counted.                            *)
LEMMA TerminalTyped ==
    ASSUME GuardTypeOK, Opens \/ OpenFails \/ OpenFailsLate \/ Restores \/ RestoreFails
    PROVE  /\ raw' \in BOOLEAN /\ kitty' \in BOOLEAN /\ ttyFaults' \in 0 .. MaxTtyFaults
           /\ OpenFails \/ OpenFailsLate \/ RestoreFails => ttyFaults' # 0
           /\ Restores => ~raw' /\ ~kitty'
<1>1. raw \in BOOLEAN /\ kitty \in BOOLEAN /\ ttyFaults \in 0 .. MaxTtyFaults
  BY DEF GuardTypeOK
<1>2. raw' \in BOOLEAN /\ kitty' \in BOOLEAN
  BY <1>1 DEF Opens, OpenFails, OpenFailsLate, Restores, RestoreFails
<1>3. Restores => ~raw' /\ ~kitty'
  BY DEF Restores
<1>4. OpenFails \/ OpenFailsLate \/ RestoreFails =>
          ttyFaults' \in 0 .. MaxTtyFaults /\ ttyFaults' # 0
  BY <1>1, GuardAssumption DEF GuardAssumption, OpenFails, OpenFailsLate, RestoreFails
<1>5. Opens \/ Restores => ttyFaults' = ttyFaults
  BY DEF Opens, Restores
<1> QED BY <1>1, <1>2, <1>3, <1>4, <1>5

(* Signals keep the types and leave the terminal alone.                     *)
LEMMA OutsideTyped ==
    ASSUME GuardTypeOK, Outside
    PROVE  GuardTypeOK' /\ UNCHANGED ttyVars
<1>1. UNCHANGED ttyVars
  BY DEF Outside, Interrupt, Suspend, Continue
<1>2. CASE Interrupt
  BY <1>1, <1>2 DEF GuardTypeOK, Interrupt, ttyVars
<1>3. CASE Suspend
  <2>1. signals' \in 0 .. MaxSignals
    BY <1>3, GuardAssumption DEF GuardAssumption, GuardTypeOK, Suspend
  <2>2. stopRequested' \in BOOLEAN /\ running' \in BOOLEAN
    BY <1>3 DEF GuardTypeOK, Suspend
  <2> QED BY <1>1, <1>3, <2>1, <2>2 DEF GuardTypeOK, Suspend, ttyVars
<1>4. CASE Continue
  BY <1>1, <1>4 DEF GuardTypeOK, Continue, ttyVars
<1> QED BY <1>1, <1>2, <1>3, <1>4 DEF Outside

(* The guard starts out typed.                                              *)
LEMMA GuardStartsTyped == GuardInit => GuardTypeOK
<1>1. 0 \in 0 .. MaxSignals /\ 0 \in 0 .. MaxTtyFaults
  BY GuardAssumption DEF GuardAssumption
<1> QED BY <1>1 DEF GuardInit, GuardTypeOK

-----------------------------------------------------------------------------

(* The inductive invariant.  The loop never asks the session for its       *)
(* state before it reports or stops: where it is tells what the state is.  *)
SessionFollowsLoop ==
    /\ pc \in {"open", "arm"} => st = "Connected"
    /\ pc \in {"top", "event", "poll", "chord", "unhook"} => st = "Armed"
    /\ pc \in {"stopTerminal", "stop", "resume", "reopen", "report"} =>
          IF rearm THEN st = "Closed" ELSE st = "Armed" /\ ~Leased
    /\ pc = "rearm" => st = "Closed"
    /\ pc \in {"dropGuard", "exited"} => st # "Armed"

\* A hook belongs to an armed session or was left by a failed cleanup.
HookHasSession ==
    hook => \/ st = "Armed" /\ Leased
            \/ st = "RestorePending" /\ faults > 0

\* The terminal where it has been given back.
TerminalFollowsLoop ==
    pc \in {"open", "stop", "resume", "reopen", "dropSession", "dropGuard", "exited"} =>
        (ttyFaults = 0 => ~raw /\ ~kitty)

\* The process can be stopped only where its handler is not in place.
GuardFollowsLoop ==
    /\ ~guarded => pc \in {"resume", "exited"}
    /\ ~running => ~guarded
    /\ pc = "exited" => ~guarded /\ ~stopRequested

ChordFollowsLoop ==
    /\ pc \in {"unhook", "report"} => (Suppress => released)
    /\ pc \in {"chord", "unhook", "report"} => captured < keys

ListenInv ==
    /\ TypeOK
    /\ SessionFollowsLoop
    /\ HookHasSession
    /\ TerminalFollowsLoop
    /\ GuardFollowsLoop
    /\ ChordFollowsLoop

(* What the proofs need of the constants.                                  *)
LEMMA Bounds == MaxKeys \in Nat /\ MaxFaults \in Nat
BY ListenAssumption DEF ListenAssumption

-----------------------------------------------------------------------------
(* The operations of the session, in whatever state it is.                  *)
LEMMA SessionFault ==
    ASSUME faults \in 0 .. MaxFaults, Fault
    PROVE  faults' \in 0 .. MaxFaults /\ faults' > 0
BY Bounds DEF Fault

LEMMA CloseCallEnds ==
    ASSUME TypeOK, HookHasSession, CloseCall
    PROVE  /\ st' \in {"Closed", "RestorePending"}
           /\ hook' \in BOOLEAN /\ faults' \in 0 .. MaxFaults
           /\ hook' => st' = "RestorePending" /\ faults' > 0
<1>1. hook \in BOOLEAN /\ faults \in 0 .. MaxFaults
  BY DEF TypeOK
<1>2. CASE st = "Closed" /\ UNCHANGED <<st, hook, faults>>
  BY <1>1, <1>2 DEF HookHasSession
<1>3. CASE Closes
  BY <1>1, <1>3 DEF Closes
<1>4. CASE CloseFails
  BY <1>1, <1>4, SessionFault DEF CloseFails
<1> QED BY <1>2, <1>3, <1>4 DEF CloseCall

LEMMA ArmsOrFails ==
    ASSUME TypeOK, Arms \/ ArmFails
    PROVE  /\ st' \in {"Armed", "Closed", "RestorePending"}
           /\ hook' \in BOOLEAN /\ faults' \in 0 .. MaxFaults
           /\ hook' => \/ st' = "Armed" /\ Leased
                       \/ st' = "RestorePending" /\ faults' > 0
<1>1. faults \in 0 .. MaxFaults /\ Leased \in BOOLEAN
  BY DEF TypeOK, Leased
<1>2. CASE Arms
  BY <1>1, <1>2 DEF Arms
<1>3. CASE ArmFails
  BY <1>1, <1>3, SessionFault DEF ArmFails
<1> QED BY <1>2, <1>3

LEMMA ListenInitInv == Init => ListenInv
<1> SUFFICES ASSUME Init PROVE ListenInv
  OBVIOUS
<1> USE DEF Init, GuardInit
<1>1. TypeOK
  <2>1. GuardTypeOK
    BY GuardStartsTyped
  <2>2. captured \in 0 .. keys /\ keys \in 0 .. MaxKeys /\ faults \in 0 .. MaxFaults
    BY Bounds
  <2> QED BY <2>1, <2>2 DEF TypeOK
<1>2. /\ SessionFollowsLoop /\ HookHasSession /\ TerminalFollowsLoop
      /\ GuardFollowsLoop /\ ChordFollowsLoop
  BY DEF SessionFollowsLoop, HookHasSession, TerminalFollowsLoop, GuardFollowsLoop,
     ChordFollowsLoop
<1> QED BY <1>1, <1>2 DEF ListenInv

-----------------------------------------------------------------------------
(* The steps of the loop.                                                   *)
LEMMA StepKeepsInv ==
    ASSUME ListenInv, Step
    PROVE  ListenInv'
<1>a. /\ TypeOK /\ SessionFollowsLoop /\ HookHasSession /\ TerminalFollowsLoop
      /\ GuardFollowsLoop /\ ChordFollowsLoop /\ GuardTypeOK
  BY DEF ListenInv, TypeOK
<1>0. running /\ UNCHANGED policy
  BY DEF Step
<1>1. CASE OpenTerminal
  <2> USE <1>0, <1>1 DEF OpenTerminal, Goes, guardVars, ttyVars, signalVars
  <2>1. TypeOK'
    <3>1. GuardTypeOK'
      BY <1>a, TerminalTyped DEF GuardTypeOK
    <3> QED BY <1>a, <3>1 DEF TypeOK
  <2>2. SessionFollowsLoop'
    BY <1>a DEF SessionFollowsLoop, HoldsLease, Leased
  <2>3. HookHasSession'
    BY <1>a DEF TypeOK, SessionFollowsLoop, HookHasSession, HoldsLease, Leased
  <2>4. TerminalFollowsLoop'
    BY <1>a, TerminalTyped DEF TerminalFollowsLoop
  <2>5. GuardFollowsLoop'
    BY <1>a DEF TypeOK, GuardTypeOK, GuardFollowsLoop
  <2>6. ChordFollowsLoop'
    BY <1>a DEF TypeOK, SessionFollowsLoop, ChordFollowsLoop, Suppress, IsSuppressing
  <2> QED BY <2>1, <2>2, <2>3, <2>4, <2>5, <2>6 DEF ListenInv
<1>2. CASE Arm
  <2> USE <1>0, <1>2 DEF Arm, Goes, guardVars, ttyVars, signalVars
  <2>1. TypeOK'
    <3>1. GuardTypeOK'
      BY <1>a DEF GuardTypeOK
    <3> QED BY <1>a, ArmsOrFails, <3>1 DEF TypeOK
  <2>2. SessionFollowsLoop'
    BY <1>a DEF SessionFollowsLoop, HoldsLease, Leased, Arms, ArmFails
  <2>3. HookHasSession'
    BY <1>a, ArmsOrFails DEF TypeOK, SessionFollowsLoop, HookHasSession, HoldsLease, Leased
  <2>4. TerminalFollowsLoop'
    BY <1>a DEF TerminalFollowsLoop
  <2>5. GuardFollowsLoop'
    BY <1>a DEF TypeOK, GuardTypeOK, GuardFollowsLoop
  <2>6. ChordFollowsLoop'
    BY <1>a DEF TypeOK, SessionFollowsLoop, ChordFollowsLoop, Suppress, IsSuppressing
  <2> QED BY <2>1, <2>2, <2>3, <2>4, <2>5, <2>6 DEF ListenInv
<1>3. CASE CloseAndLeave
  <2> USE <1>0, <1>3 DEF CloseAndLeave, Goes, guardVars, ttyVars, signalVars
  <2>1. TypeOK'
    <3>1. GuardTypeOK'
      BY <1>a DEF GuardTypeOK
    <3> QED BY <1>a, CloseCallEnds, <3>1 DEF TypeOK
  <2>2. SessionFollowsLoop'
    BY <1>a, CloseCallEnds DEF SessionFollowsLoop, HoldsLease, Leased
  <2>3. HookHasSession'
    BY <1>a, CloseCallEnds DEF TypeOK, SessionFollowsLoop, HookHasSession, HoldsLease, Leased
  <2>4. TerminalFollowsLoop'
    BY <1>a DEF TerminalFollowsLoop
  <2>5. GuardFollowsLoop'
    BY <1>a DEF TypeOK, GuardTypeOK, GuardFollowsLoop
  <2>6. ChordFollowsLoop'
    BY <1>a DEF TypeOK, SessionFollowsLoop, ChordFollowsLoop, Suppress, IsSuppressing
  <2> QED BY <2>1, <2>2, <2>3, <2>4, <2>5, <2>6 DEF ListenInv
<1>4. CASE AnswerStop
  <2> USE <1>0, <1>4 DEF AnswerStop, StopRequestTaken, Closes, CloseFails, Goes, guardVars, ttyVars, signalVars
  <2>1. TypeOK'
    <3>1. GuardTypeOK'
      BY <1>a DEF GuardTypeOK
    <3>2. st' \in {"Connected", "Armed", "RestorePending", "Closed"} /\ hook' \in BOOLEAN
      BY <1>a DEF TypeOK
    <3>3. faults' \in 0 .. MaxFaults
      BY <1>a, SessionFault DEF TypeOK
    <3>4. keys' \in 0 .. MaxKeys /\ captured' \in 0 .. keys'
      BY <1>a DEF TypeOK
    <3> QED BY <1>a, <3>1, <3>2, <3>3, <3>4 DEF TypeOK, HoldsLease, Leased
  <2>2. SessionFollowsLoop'
    BY <1>a DEF SessionFollowsLoop, HoldsLease, Leased
  <2>3. HookHasSession'
    BY <1>a, SessionFault DEF TypeOK, SessionFollowsLoop, HookHasSession, HoldsLease, Leased
  <2>4. TerminalFollowsLoop'
    BY <1>a DEF TerminalFollowsLoop
  <2>5. GuardFollowsLoop'
    BY <1>a DEF TypeOK, GuardTypeOK, GuardFollowsLoop
  <2>6. ChordFollowsLoop'
    BY <1>a DEF TypeOK, SessionFollowsLoop, ChordFollowsLoop, Suppress, IsSuppressing
  <2> QED BY <2>1, <2>2, <2>3, <2>4, <2>5, <2>6 DEF ListenInv
<1>5. CASE Renew
  <2> USE <1>0, <1>5 DEF Renew, Goes, guardVars, ttyVars, signalVars
  <2>1. TypeOK'
    <3>1. GuardTypeOK'
      BY <1>a DEF GuardTypeOK
    <3> QED BY <1>a, SessionFault, <3>1 DEF TypeOK
  <2>2. SessionFollowsLoop'
    BY <1>a DEF SessionFollowsLoop, HoldsLease, Leased
  <2>3. HookHasSession'
    BY <1>a, SessionFault DEF TypeOK, SessionFollowsLoop, HookHasSession, HoldsLease, Leased
  <2>4. TerminalFollowsLoop'
    BY <1>a DEF TerminalFollowsLoop
  <2>5. GuardFollowsLoop'
    BY <1>a DEF TypeOK, GuardTypeOK, GuardFollowsLoop
  <2>6. ChordFollowsLoop'
    BY <1>a DEF TypeOK, SessionFollowsLoop, ChordFollowsLoop, Suppress, IsSuppressing
  <2> QED BY <2>1, <2>2, <2>3, <2>4, <2>5, <2>6 DEF ListenInv
<1>6. CASE DropTerminalToStop
  <2> USE <1>0, <1>6 DEF DropTerminalToStop, Goes, guardVars, ttyVars, signalVars
  <2>1. TypeOK'
    <3>1. GuardTypeOK'
      BY <1>a, TerminalTyped DEF GuardTypeOK
    <3> QED BY <1>a, <3>1 DEF TypeOK
  <2>2. SessionFollowsLoop'
    BY <1>a DEF SessionFollowsLoop, HoldsLease, Leased
  <2>3. HookHasSession'
    BY <1>a DEF TypeOK, SessionFollowsLoop, HookHasSession, HoldsLease, Leased
  <2>4. TerminalFollowsLoop'
    BY <1>a, TerminalTyped DEF TerminalFollowsLoop
  <2>5. GuardFollowsLoop'
    BY <1>a DEF TypeOK, GuardTypeOK, GuardFollowsLoop
  <2>6. ChordFollowsLoop'
    BY <1>a DEF TypeOK, SessionFollowsLoop, ChordFollowsLoop, Suppress, IsSuppressing
  <2> QED BY <2>1, <2>2, <2>3, <2>4, <2>5, <2>6 DEF ListenInv
<1>7. CASE StopProcess
  <2> USE <1>0, <1>7 DEF StopProcess, Stops, Goes, guardVars, ttyVars, signalVars
  <2>1. TypeOK'
    <3>1. GuardTypeOK'
      BY <1>a DEF GuardTypeOK
    <3> QED BY <1>a, <3>1 DEF TypeOK
  <2>2. SessionFollowsLoop'
    BY <1>a DEF SessionFollowsLoop, HoldsLease, Leased
  <2>3. HookHasSession'
    BY <1>a DEF TypeOK, SessionFollowsLoop, HookHasSession, HoldsLease, Leased
  <2>4. TerminalFollowsLoop'
    BY <1>a DEF TerminalFollowsLoop
  <2>5. GuardFollowsLoop'
    BY <1>a DEF TypeOK, GuardTypeOK, GuardFollowsLoop
  <2>6. ChordFollowsLoop'
    BY <1>a DEF TypeOK, SessionFollowsLoop, ChordFollowsLoop, Suppress, IsSuppressing
  <2> QED BY <2>1, <2>2, <2>3, <2>4, <2>5, <2>6 DEF ListenInv
<1>8. CASE Resume
  <2> USE <1>0, <1>8 DEF Resume, Reclaims, Goes, guardVars, ttyVars, signalVars
  <2>1. TypeOK'
    <3>1. GuardTypeOK'
      BY <1>a DEF GuardTypeOK
    <3> QED BY <1>a, <3>1 DEF TypeOK
  <2>2. SessionFollowsLoop'
    BY <1>a DEF SessionFollowsLoop, HoldsLease, Leased
  <2>3. HookHasSession'
    BY <1>a DEF TypeOK, SessionFollowsLoop, HookHasSession, HoldsLease, Leased
  <2>4. TerminalFollowsLoop'
    BY <1>a DEF TerminalFollowsLoop
  <2>5. GuardFollowsLoop'
    BY <1>a DEF TypeOK, GuardTypeOK, GuardFollowsLoop
  <2>6. ChordFollowsLoop'
    BY <1>a DEF TypeOK, SessionFollowsLoop, ChordFollowsLoop, Suppress, IsSuppressing
  <2> QED BY <2>1, <2>2, <2>3, <2>4, <2>5, <2>6 DEF ListenInv
<1>9. CASE Reopen
  <2> USE <1>0, <1>9 DEF Reopen, Goes, guardVars, ttyVars, signalVars
  <2>1. TypeOK'
    <3>1. GuardTypeOK'
      BY <1>a, TerminalTyped DEF GuardTypeOK
    <3> QED BY <1>a, <3>1 DEF TypeOK
  <2>2. SessionFollowsLoop'
    BY <1>a DEF SessionFollowsLoop, HoldsLease, Leased
  <2>3. HookHasSession'
    BY <1>a DEF TypeOK, SessionFollowsLoop, HookHasSession, HoldsLease, Leased
  <2>4. TerminalFollowsLoop'
    BY <1>a, TerminalTyped DEF TerminalFollowsLoop
  <2>5. GuardFollowsLoop'
    BY <1>a DEF TypeOK, GuardTypeOK, GuardFollowsLoop
  <2>6. ChordFollowsLoop'
    BY <1>a DEF TypeOK, SessionFollowsLoop, ChordFollowsLoop, Suppress, IsSuppressing
  <2> QED BY <2>1, <2>2, <2>3, <2>4, <2>5, <2>6 DEF ListenInv
<1>10. CASE Rearm
  <2> USE <1>0, <1>10 DEF Rearm, Goes, guardVars, ttyVars, signalVars
  <2>1. TypeOK'
    <3>1. GuardTypeOK'
      BY <1>a DEF GuardTypeOK
    <3> QED BY <1>a, ArmsOrFails, <3>1 DEF TypeOK
  <2>2. SessionFollowsLoop'
    BY <1>a DEF SessionFollowsLoop, HoldsLease, Leased, Arms, ArmFails
  <2>3. HookHasSession'
    BY <1>a, ArmsOrFails DEF TypeOK, SessionFollowsLoop, HookHasSession, HoldsLease, Leased
  <2>4. TerminalFollowsLoop'
    BY <1>a DEF TerminalFollowsLoop
  <2>5. GuardFollowsLoop'
    BY <1>a DEF TypeOK, GuardTypeOK, GuardFollowsLoop
  <2>6. ChordFollowsLoop'
    BY <1>a DEF TypeOK, SessionFollowsLoop, ChordFollowsLoop, Suppress, IsSuppressing
  <2> QED BY <2>1, <2>2, <2>3, <2>4, <2>5, <2>6 DEF ListenInv
<1>11. CASE NextEvent
  <2> USE <1>0, <1>11 DEF NextEvent, Goes, guardVars, ttyVars, signalVars
  <2>1. TypeOK'
    <3>1. GuardTypeOK'
      BY <1>a DEF GuardTypeOK
    <3>2. st' \in {"Connected", "Armed", "RestorePending", "Closed"} /\ hook' \in BOOLEAN
      BY <1>a DEF TypeOK
    <3>3. faults' \in 0 .. MaxFaults
      BY <1>a, SessionFault DEF TypeOK
    <3>4. keys' \in 0 .. MaxKeys /\ captured' \in 0 .. keys'
      BY <1>a, Bounds DEF TypeOK
    <3> QED BY <1>a, <3>1, <3>2, <3>3, <3>4 DEF TypeOK
  <2>2. SessionFollowsLoop'
    BY <1>a DEF SessionFollowsLoop, HoldsLease, Leased
  <2>3. HookHasSession'
    BY <1>a, SessionFault DEF TypeOK, SessionFollowsLoop, HookHasSession, HoldsLease, Leased
  <2>4. TerminalFollowsLoop'
    BY <1>a DEF TerminalFollowsLoop
  <2>5. GuardFollowsLoop'
    BY <1>a DEF TypeOK, GuardTypeOK, GuardFollowsLoop
  <2>6. ChordFollowsLoop'
    BY <1>a DEF TypeOK, SessionFollowsLoop, ChordFollowsLoop, Suppress, IsSuppressing
  <2> QED BY <2>1, <2>2, <2>3, <2>4, <2>5, <2>6 DEF ListenInv
<1>12. CASE Poll
  <2> USE <1>0, <1>12 DEF Poll, Goes, guardVars, ttyVars, signalVars
  <2>1. TypeOK'
    <3>1. GuardTypeOK'
      BY <1>a DEF GuardTypeOK
    <3> QED BY <1>a, CloseCallEnds, SessionFault, <3>1 DEF TypeOK
  <2>2. SessionFollowsLoop'
    BY <1>a, CloseCallEnds DEF SessionFollowsLoop, HoldsLease, Leased
  <2>3. HookHasSession'
    BY <1>a, CloseCallEnds, SessionFault DEF TypeOK, SessionFollowsLoop, HookHasSession, HoldsLease, Leased
  <2>4. TerminalFollowsLoop'
    BY <1>a DEF TerminalFollowsLoop
  <2>5. GuardFollowsLoop'
    BY <1>a DEF TypeOK, GuardTypeOK, GuardFollowsLoop
  <2>6. ChordFollowsLoop'
    BY <1>a DEF TypeOK, SessionFollowsLoop, ChordFollowsLoop, Suppress, IsSuppressing
  <2> QED BY <2>1, <2>2, <2>3, <2>4, <2>5, <2>6 DEF ListenInv
<1>13. CASE WaitForRelease
  <2> USE <1>0, <1>13 DEF WaitForRelease, Goes, guardVars, ttyVars, signalVars
  <2>1. TypeOK'
    <3>1. GuardTypeOK'
      BY <1>a DEF GuardTypeOK
    <3>2. st' \in {"Connected", "Armed", "RestorePending", "Closed"} /\ hook' \in BOOLEAN
      BY <1>a, CloseCallEnds DEF TypeOK
    <3>3. faults' \in 0 .. MaxFaults
      BY <1>a, CloseCallEnds DEF TypeOK
    <3>4. keys' \in 0 .. MaxKeys /\ captured' \in 0 .. keys'
      BY <1>a DEF TypeOK
    <3> QED BY <1>a, <3>1, <3>2, <3>3, <3>4 DEF TypeOK
  <2>2. SessionFollowsLoop'
    BY <1>a, CloseCallEnds DEF SessionFollowsLoop, HoldsLease, Leased
  <2>3. HookHasSession'
    BY <1>a, CloseCallEnds DEF TypeOK, SessionFollowsLoop, HookHasSession, HoldsLease, Leased
  <2>4. TerminalFollowsLoop'
    BY <1>a DEF TerminalFollowsLoop
  <2>5. GuardFollowsLoop'
    BY <1>a DEF TypeOK, GuardTypeOK, GuardFollowsLoop
  <2>6. ChordFollowsLoop'
    BY <1>a DEF TypeOK, SessionFollowsLoop, ChordFollowsLoop, Suppress, IsSuppressing
  <2> QED BY <2>1, <2>2, <2>3, <2>4, <2>5, <2>6 DEF ListenInv
<1>14. CASE Unhook
  <2> USE <1>0, <1>14 DEF Unhook, Closes, CloseFails, Goes, guardVars, ttyVars, signalVars
  <2>1. TypeOK'
    <3>1. GuardTypeOK'
      BY <1>a DEF GuardTypeOK
    <3>2. st' \in {"Connected", "Armed", "RestorePending", "Closed"} /\ hook' \in BOOLEAN
      BY <1>a DEF TypeOK
    <3>3. faults' \in 0 .. MaxFaults
      BY <1>a, SessionFault DEF TypeOK
    <3>4. keys' \in 0 .. MaxKeys /\ captured' \in 0 .. keys'
      BY <1>a DEF TypeOK
    <3> QED BY <1>a, <3>1, <3>2, <3>3, <3>4 DEF TypeOK, HoldsLease, Leased
  <2>2. SessionFollowsLoop'
    BY <1>a DEF SessionFollowsLoop, HoldsLease, Leased
  <2>3. HookHasSession'
    BY <1>a, SessionFault DEF TypeOK, SessionFollowsLoop, HookHasSession, HoldsLease, Leased
  <2>4. TerminalFollowsLoop'
    BY <1>a DEF TerminalFollowsLoop
  <2>5. GuardFollowsLoop'
    BY <1>a DEF TypeOK, GuardTypeOK, GuardFollowsLoop
  <2>6. ChordFollowsLoop'
    BY <1>a DEF TypeOK, SessionFollowsLoop, ChordFollowsLoop, Suppress, IsSuppressing
  <2> QED BY <2>1, <2>2, <2>3, <2>4, <2>5, <2>6 DEF ListenInv
<1>15. CASE Report
  <2> USE <1>0, <1>15 DEF Report, Goes, guardVars, ttyVars, signalVars
  <2>1. TypeOK'
    <3>1. GuardTypeOK'
      BY <1>a DEF GuardTypeOK
    <3> QED BY <1>a, CloseCallEnds, SessionFault, <3>1 DEF TypeOK, ChordFollowsLoop
  <2>2. SessionFollowsLoop'
    BY <1>a, CloseCallEnds DEF SessionFollowsLoop, HoldsLease, Leased
  <2>3. HookHasSession'
    BY <1>a, CloseCallEnds, SessionFault DEF TypeOK, SessionFollowsLoop, HookHasSession, HoldsLease, Leased
  <2>4. TerminalFollowsLoop'
    BY <1>a DEF TerminalFollowsLoop
  <2>5. GuardFollowsLoop'
    BY <1>a DEF TypeOK, GuardTypeOK, GuardFollowsLoop
  <2>6. ChordFollowsLoop'
    BY <1>a DEF TypeOK, SessionFollowsLoop, ChordFollowsLoop, Suppress, IsSuppressing
  <2> QED BY <2>1, <2>2, <2>3, <2>4, <2>5, <2>6 DEF ListenInv
<1>16. CASE DropTerminal
  <2> USE <1>0, <1>16 DEF DropTerminal, Goes, guardVars, ttyVars, signalVars
  <2>1. TypeOK'
    <3>1. GuardTypeOK'
      BY <1>a, TerminalTyped DEF GuardTypeOK
    <3> QED BY <1>a, <3>1 DEF TypeOK
  <2>2. SessionFollowsLoop'
    BY <1>a DEF SessionFollowsLoop, HoldsLease, Leased
  <2>3. HookHasSession'
    BY <1>a DEF TypeOK, SessionFollowsLoop, HookHasSession, HoldsLease, Leased
  <2>4. TerminalFollowsLoop'
    BY <1>a, TerminalTyped DEF TerminalFollowsLoop
  <2>5. GuardFollowsLoop'
    BY <1>a DEF TypeOK, GuardTypeOK, GuardFollowsLoop
  <2>6. ChordFollowsLoop'
    BY <1>a DEF TypeOK, SessionFollowsLoop, ChordFollowsLoop, Suppress, IsSuppressing
  <2> QED BY <2>1, <2>2, <2>3, <2>4, <2>5, <2>6 DEF ListenInv
<1>17. CASE DropSession
  <2> USE <1>0, <1>17 DEF DropSession, Goes, guardVars, ttyVars, signalVars
  <2>1. TypeOK'
    <3>1. GuardTypeOK'
      BY <1>a DEF GuardTypeOK
    <3> QED BY <1>a, CloseCallEnds, <3>1 DEF TypeOK
  <2>2. SessionFollowsLoop'
    BY <1>a, CloseCallEnds DEF SessionFollowsLoop, HoldsLease, Leased
  <2>3. HookHasSession'
    BY <1>a, CloseCallEnds DEF TypeOK, SessionFollowsLoop, HookHasSession, HoldsLease, Leased
  <2>4. TerminalFollowsLoop'
    BY <1>a DEF TerminalFollowsLoop
  <2>5. GuardFollowsLoop'
    BY <1>a DEF TypeOK, GuardTypeOK, GuardFollowsLoop
  <2>6. ChordFollowsLoop'
    BY <1>a DEF TypeOK, SessionFollowsLoop, ChordFollowsLoop, Suppress, IsSuppressing
  <2> QED BY <2>1, <2>2, <2>3, <2>4, <2>5, <2>6 DEF ListenInv
<1>18. CASE DropGuard
  <2> USE <1>0, <1>18 DEF DropGuard, Unguards, Goes, guardVars, ttyVars, signalVars
  <2>1. TypeOK'
    <3>1. GuardTypeOK'
      BY <1>a DEF GuardTypeOK
    <3> QED BY <1>a, <3>1 DEF TypeOK
  <2>2. SessionFollowsLoop'
    BY <1>a DEF SessionFollowsLoop, HoldsLease, Leased
  <2>3. HookHasSession'
    BY <1>a DEF TypeOK, SessionFollowsLoop, HookHasSession, HoldsLease, Leased
  <2>4. TerminalFollowsLoop'
    BY <1>a DEF TerminalFollowsLoop
  <2>5. GuardFollowsLoop'
    BY <1>a DEF TypeOK, GuardTypeOK, GuardFollowsLoop
  <2>6. ChordFollowsLoop'
    BY <1>a DEF TypeOK, SessionFollowsLoop, ChordFollowsLoop, Suppress, IsSuppressing
  <2> QED BY <2>1, <2>2, <2>3, <2>4, <2>5, <2>6 DEF ListenInv
<1> QED BY <1>1, <1>2, <1>3, <1>4, <1>5, <1>6, <1>7, <1>8, <1>9, <1>10, <1>11, <1>12,
           <1>13, <1>14, <1>15, <1>16, <1>17, <1>18 DEF Step

(* Signals, the deadline and the end of a lease.                            *)
LEMMA EnvironmentKeepsInv ==
    ASSUME ListenInv, Environment
    PROVE  ListenInv'
<1>a. /\ TypeOK /\ SessionFollowsLoop /\ HookHasSession /\ TerminalFollowsLoop
      /\ GuardFollowsLoop /\ ChordFollowsLoop /\ GuardTypeOK
  BY DEF ListenInv, TypeOK
<1>0. UNCHANGED policy
  BY DEF Environment
<1>1. CASE UNCHANGED listenVars /\ Outside /\ (pc = "exited" => Continue)
  <2> USE <1>1 DEF listenVars, Outside
  <2>1. GuardTypeOK' /\ UNCHANGED ttyVars
    BY <1>a, OutsideTyped
  <2>2. GuardFollowsLoop'
    BY <1>a DEF GuardFollowsLoop, GuardTypeOK, Interrupt, Suspend, Continue
  <2>3. TypeOK'
    BY <1>a, <2>1 DEF TypeOK
  <2>4. SessionFollowsLoop' /\ HookHasSession' /\ ChordFollowsLoop'
    BY <1>a DEF SessionFollowsLoop, HookHasSession, ChordFollowsLoop, Leased, Suppress
  <2>5. TerminalFollowsLoop'
    BY <1>a, <2>1 DEF TerminalFollowsLoop, ttyVars
  <2> QED BY <2>2, <2>3, <2>4, <2>5 DEF ListenInv
<1>2. CASE DeadlinePasses \/ LeaseExpires
  <2> USE <1>0, <1>2 DEF DeadlinePasses, LeaseExpires, guardVars, ttyVars, signalVars
  <2>0. GuardTypeOK'
    BY <1>a DEF GuardTypeOK
  <2>1. TypeOK'
    <3>1. hook' \in BOOLEAN /\ expired' \in BOOLEAN
      BY <1>a DEF TypeOK
    <3> QED BY <1>a, <2>0, <3>1 DEF TypeOK
  <2>2. SessionFollowsLoop' /\ HookHasSession' /\ ChordFollowsLoop'
    BY <1>a DEF SessionFollowsLoop, HookHasSession, ChordFollowsLoop, Leased, Suppress
  <2>3. TerminalFollowsLoop' /\ GuardFollowsLoop'
    BY <1>a DEF TerminalFollowsLoop, GuardFollowsLoop
  <2> QED BY <2>1, <2>2, <2>3 DEF ListenInv
<1> QED BY <1>1, <1>2 DEF Environment, Outside

THEOREM ListenInductive == Spec => []ListenInv
<1>1. ListenInv /\ [Next]_vars => ListenInv'
  <2> SUFFICES ASSUME ListenInv, [Next]_vars PROVE ListenInv'
    OBVIOUS
  <2>1. CASE Next
    BY <2>1, StepKeepsInv, EnvironmentKeepsInv DEF Next
  <2>2. CASE UNCHANGED vars
    BY <2>2 DEF vars, guardVars, ttyVars, signalVars, listenVars, ListenInv, TypeOK,
       GuardTypeOK, SessionFollowsLoop, HookHasSession, TerminalFollowsLoop,
       GuardFollowsLoop, ChordFollowsLoop, Leased, Suppress
  <2> QED BY <2>1, <2>2
<1> QED BY ListenInitInv, <1>1, PTL DEF Spec

-----------------------------------------------------------------------------
(* Every variable keeps its type, and no more is reported than was typed.   *)
THEOREM ListenTyped == Spec => []TypeOK
<1>1. ListenInv => TypeOK
  BY DEF ListenInv
<1> QED BY ListenInductive, <1>1, PTL

(* run_native inspects and writes a report only with the hook removed and, *)
(* where it suppressed the key, with its chord released.                    *)
THEOREM ReportsUnhooked == Spec => []ReportsOnlyUnhooked
<1>1. ListenInv => ReportsOnlyUnhooked
  BY DEF ListenInv, SessionFollowsLoop, HookHasSession, ChordFollowsLoop,
     ReportsOnlyUnhooked
<1> QED BY ListenInductive, <1>1, PTL

(* However run_native is left, for a stop or for good, no capture is left  *)
(* that nobody knows of, and the terminal is as the shell had it.           *)
THEOREM NativeLeavesClean == Spec => []LeavesClean
<1>1. ListenInv => StopsOnlyClean
  BY DEF ListenInv, TypeOK, SessionFollowsLoop, HookHasSession, TerminalFollowsLoop,
     GuardFollowsLoop, StopsOnlyClean, HoldsLease
<1>2. ListenInv => ExitsClean
  BY DEF ListenInv, SessionFollowsLoop, HookHasSession, TerminalFollowsLoop,
     GuardFollowsLoop, ExitsClean
<1> QED BY ListenInductive, <1>1, <1>2, PTL DEF LeavesClean

=============================================================================
