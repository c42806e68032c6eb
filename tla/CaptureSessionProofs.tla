------------------------ MODULE CaptureSessionProofs ------------------------
(***************************************************************************)
(* What holds of the compositor side of a capture for every set of tokens  *)
(* and submaps and every number of faults and reloads: its type, its       *)
(* safety, and that it implements SuppressionLock.  Then what holds of     *)
(* whykey's capture sessions over Hyprland for any number of them,         *)
(* whatever is lost, served late or killed: they are clients of the        *)
(* scripts of LuaHook, so everything proved there carries over; none of    *)
(* them disturbs the capture of another; a session that says it is closed  *)
(* has left nothing in the compositor; and the line that confirms an arm   *)
(* is always of that arm.                                                  *)
(***************************************************************************)
EXTENDS CaptureSession, FiniteSetTheorems, SequenceTheorems, TLAPS

(* The inductive invariant.  None of the three safety invariants is        *)
(* inductive alone: that a lease only runs for an owner needs that nothing *)
(* is left enabled without one, and that the submap to go back to is the   *)
(* user's needs that only a reload strands anybody in the private one.     *)
OwnerRemembers ==
    /\ owner = NoToken <=> prev = NoSubmap
    /\ owner # NoToken => luaState

LeaseHasOwner ==
    /\ timer => owner # NoToken
    /\ listener \/ catchall => timer

StrandedOnlyByReload ==
    reloads = 0 =>
        /\ submap = Private => owner # NoToken
        /\ owner # NoToken => prev \in UserSubmaps

HookInv ==
    /\ HookTypeOK
    /\ OwnerRemembers
    /\ LeaseHasOwner
    /\ StrandedOnlyByReload
    /\ UnleasedOnlyAfterFault

USE DEF Submaps, PassThroughs

-----------------------------------------------------------------------------
LEMMA HookInitInv == HookInit => HookInv
<1> SUFFICES ASSUME HookInit PROVE HookInv
  OBVIOUS
<1> USE HookAssumption DEF HookInit
<1>1. HookTypeOK
  <2>1. FlagsOK
    BY DEF FlagsOK
  <2> QED BY <2>1 DEF HookTypeOK
<1>2. OwnerRemembers
  BY DEF OwnerRemembers
<1>3. LeaseHasOwner
  BY DEF LeaseHasOwner
<1>4. StrandedOnlyByReload
  BY DEF StrandedOnlyByReload
<1>5. UnleasedOnlyAfterFault
  BY DEF UnleasedOnlyAfterFault
<1> QED BY <1>1, <1>2, <1>3, <1>4, <1>5 DEF HookInv

(* Each group of scripts keeps the invariant.                              *)
LEMMA InstallKeepsInv ==
    ASSUME HookInv, NEW t \in Tokens,
           InstallRefused(t) \/ InstallSucceeds(t) \/ InstallUndone(t) \/ InstallStuck(t)
    PROVE  HookInv'
<1> USE HookAssumption DEF HookInv, HookTypeOK, OwnerRemembers, LeaseHasOwner,
        StrandedOnlyByReload, UnleasedOnlyAfterFault
<1>1. CASE InstallRefused(t)
  BY <1>1 DEF InstallRefused, hookVars, FlagsOK
<1>2. CASE InstallSucceeds(t)
  <2> USE <1>2 DEF InstallSucceeds, Dispatched
  <2>1. HookTypeOK'
    <3>1. FlagsOK'
      BY DEF FlagsOK
    <3> QED BY <3>1
  <2>2. OwnerRemembers'
    OBVIOUS
  <2>3. LeaseHasOwner'
    OBVIOUS
  <2>4. StrandedOnlyByReload'
    OBVIOUS
  <2>5. UnleasedOnlyAfterFault'
    OBVIOUS
  <2> QED BY <2>1, <2>2, <2>3, <2>4, <2>5
<1>3. CASE InstallUndone(t)
  <2> USE <1>3 DEF InstallUndone, DispatchFails, Released, Disarmed
  <2>1. HookTypeOK'
    <3>1. FlagsOK'
      BY DEF FlagsOK
    <3> QED BY <3>1
  <2>2. OwnerRemembers'
    OBVIOUS
  <2>3. LeaseHasOwner'
    OBVIOUS
  <2>4. StrandedOnlyByReload'
    OBVIOUS
  <2>5. UnleasedOnlyAfterFault'
    OBVIOUS
  <2> QED BY <2>1, <2>2, <2>3, <2>4, <2>5
<1>4. CASE InstallStuck(t)
  <2> USE <1>4 DEF InstallStuck, DispatchFails, Disarmed
  <2>1. HookTypeOK'
    <3>1. FlagsOK'
      BY DEF FlagsOK
    <3> QED BY <3>1
  <2>2. OwnerRemembers'
    OBVIOUS
  <2>3. LeaseHasOwner'
    OBVIOUS
  <2>4. StrandedOnlyByReload'
    OBVIOUS
  <2>5. UnleasedOnlyAfterFault'
    OBVIOUS
  <2> QED BY <2>1, <2>2, <2>3, <2>4, <2>5
<1> QED BY <1>1, <1>2, <1>3, <1>4

LEMMA CleanupKeepsInv ==
    ASSUME HookInv, NEW t \in Tokens,
           \/ CleanupRestores(t) \/ CleanupRestoreFails(t)
           \/ \E user \in UserSubmaps : CleanupRecovers(t, user)
           \/ CleanupRecoveryFails(t) \/ CleanupRefused(t)
    PROVE  HookInv'
<1> USE HookAssumption DEF HookInv, HookTypeOK, OwnerRemembers, LeaseHasOwner,
        StrandedOnlyByReload, UnleasedOnlyAfterFault
<1>1. CASE CleanupRestores(t)
  <2> USE <1>1 DEF CleanupRestores, RestoreTarget, Dispatched, Released, Disarmed
  <2>1. HookTypeOK'
    <3>1. FlagsOK'
      BY DEF FlagsOK
    <3> QED BY <3>1
  <2>2. OwnerRemembers'
    OBVIOUS
  <2>3. LeaseHasOwner'
    OBVIOUS
  <2>4. StrandedOnlyByReload'
    OBVIOUS
  <2>5. UnleasedOnlyAfterFault'
    OBVIOUS
  <2> QED BY <2>1, <2>2, <2>3, <2>4, <2>5
<1>2. CASE CleanupRestoreFails(t)
  <2> USE <1>2 DEF CleanupRestoreFails, DispatchFails, Disarmed
  <2>1. HookTypeOK'
    <3>1. FlagsOK'
      BY DEF FlagsOK
    <3> QED BY <3>1
  <2>2. OwnerRemembers'
    OBVIOUS
  <2>3. LeaseHasOwner'
    OBVIOUS
  <2>4. StrandedOnlyByReload'
    OBVIOUS
  <2>5. UnleasedOnlyAfterFault'
    OBVIOUS
  <2> QED BY <2>1, <2>2, <2>3, <2>4, <2>5
<1>3. CASE \E user \in UserSubmaps : CleanupRecovers(t, user)
  BY <1>3 DEF CleanupRecovers, GlobalsLost, Dispatched, FlagsOK
<1>4. CASE CleanupRecoveryFails(t)
  BY <1>4 DEF CleanupRecoveryFails, GlobalsLost, DispatchFails, FlagsOK
<1>5. CASE CleanupRefused(t)
  BY <1>5 DEF CleanupRefused, hookVars, FlagsOK
<1> QED BY <1>1, <1>2, <1>3, <1>4, <1>5

LEMMA RenewKeepsInv ==
    ASSUME HookInv, NEW t \in Tokens, Renews(t) \/ RenewRefused(t)
    PROVE  HookInv'
<1> USE HookAssumption DEF HookInv, HookTypeOK, OwnerRemembers, LeaseHasOwner,
        StrandedOnlyByReload, UnleasedOnlyAfterFault
<1>1. CASE Renews(t)
  <2> USE <1>1 DEF Renews
  <2>1. HookTypeOK'
    <3>1. FlagsOK'
      BY DEF FlagsOK
    <3> QED BY <3>1
  <2>2. OwnerRemembers'
    OBVIOUS
  <2>3. LeaseHasOwner'
    OBVIOUS
  <2>4. StrandedOnlyByReload'
    OBVIOUS
  <2>5. UnleasedOnlyAfterFault'
    OBVIOUS
  <2> QED BY <2>1, <2>2, <2>3, <2>4, <2>5
<1>2. CASE RenewRefused(t)
  BY <1>2 DEF RenewRefused, hookVars, FlagsOK
<1> QED BY <1>1, <1>2

LEMMA PassThroughKeepsInv ==
    ASSUME HookInv, NEW t \in Tokens, PassThroughScript(t)
    PROVE  HookInv'
BY DEF HookInv, HookTypeOK, FlagsOK, OwnerRemembers, LeaseHasOwner, StrandedOnlyByReload,
    UnleasedOnlyAfterFault, PassThroughScript, Subscribes, SubscribeFails, Unsubscribes,
    RenewsEntry, RenewEntryRefused, EntryExpires, SubsBecome, hookVars

LEMMA SurroundingsKeepInv ==
    ASSUME HookInv, Surroundings
    PROVE  HookInv'
<1> USE HookAssumption DEF HookInv, HookTypeOK, OwnerRemembers, LeaseHasOwner,
        StrandedOnlyByReload, UnleasedOnlyAfterFault
<1>1. CASE LeaseRestores
  <2> USE <1>1 DEF LeaseRestores, Dispatched, Released, Disarmed
  <2>1. HookTypeOK'
    <3>1. FlagsOK'
      BY DEF FlagsOK
    <3> QED BY <3>1
  <2>2. OwnerRemembers'
    OBVIOUS
  <2>3. LeaseHasOwner'
    OBVIOUS
  <2>4. StrandedOnlyByReload'
    OBVIOUS
  <2>5. UnleasedOnlyAfterFault'
    OBVIOUS
  <2> QED BY <2>1, <2>2, <2>3, <2>4, <2>5
<1>2. CASE LeaseRestoreFails
  <2> USE <1>2 DEF LeaseRestoreFails, DispatchFails, Disarmed
  <2>1. HookTypeOK'
    <3>1. FlagsOK'
      BY DEF FlagsOK
    <3> QED BY <3>1
  <2>2. OwnerRemembers'
    OBVIOUS
  <2>3. LeaseHasOwner'
    OBVIOUS
  <2>4. StrandedOnlyByReload'
    OBVIOUS
  <2>5. UnleasedOnlyAfterFault'
    OBVIOUS
  <2> QED BY <2>1, <2>2, <2>3, <2>4, <2>5
<1>3. CASE Reload
  <2> USE <1>3 DEF Reload, Released, Disarmed
  <2>1. HookTypeOK'
    <3>1. FlagsOK'
      BY DEF FlagsOK
    <3> QED BY <3>1
  <2>2. OwnerRemembers'
    OBVIOUS
  <2>3. LeaseHasOwner'
    OBVIOUS
  <2>4. StrandedOnlyByReload'
    OBVIOUS
  <2>5. UnleasedOnlyAfterFault'
    OBVIOUS
  <2> QED BY <2>1, <2>2, <2>3, <2>4, <2>5
<1>4. CASE ReloadKeepsGlobals
  BY <1>4 DEF ReloadKeepsGlobals, FlagsOK
<1>5. CASE UserSwitches
  BY <1>5 DEF UserSwitches, FlagsOK
<1> QED BY <1>1, <1>2, <1>3, <1>4, <1>5 DEF Surroundings

LEMMA HookNextInv == HookInv /\ [HookNext]_hookVars => HookInv'
<1> SUFFICES ASSUME HookInv, [HookNext]_hookVars PROVE HookInv'
  OBVIOUS
<1>1. ASSUME NEW t \in Tokens, SuppressScript(t) PROVE HookInv'
  BY <1>1, InstallKeepsInv, CleanupKeepsInv, RenewKeepsInv DEF SuppressScript
<1>2. ASSUME NEW t \in Tokens, PassThroughScript(t) PROVE HookInv'
  BY <1>2, PassThroughKeepsInv
<1>3. CASE Surroundings
  BY <1>3, SurroundingsKeepInv
<1>4. CASE UNCHANGED hookVars
  BY <1>4 DEF hookVars, HookInv, HookTypeOK, FlagsOK, OwnerRemembers, LeaseHasOwner,
      StrandedOnlyByReload, UnleasedOnlyAfterFault
<1> QED BY <1>1, <1>2, <1>3, <1>4 DEF HookNext

(* The strengthened invariant holds of every behaviour of the scripts.     *)
THEOREM HookInvHolds == HookSpec => []HookInv
BY HookInitInv, HookNextInv, PTL DEF HookSpec

(* The Lua globals keep their types.                                       *)
THEOREM HookTypeCorrect == HookSpec => []HookTypeOK
<1>1. HookInv => HookTypeOK
  BY DEF HookInv
<1> QED BY <1>1, HookInvHolds, PTL

(* Keys are held back only under a running lease of an owner: a whykey     *)
(* that dies cannot leave the keyboard captured for longer than a lease.   *)
THEOREM LeaseBacksTheHook == HookSpec => []ListensOnlyUnderLease
<1>1. HookInv => ListensOnlyUnderLease
  BY DEF HookInv, LeaseHasOwner, ListensOnlyUnderLease
<1> QED BY <1>1, HookInvHolds, PTL

(* Unless the configuration was reloaded, a user without shortcuts has an  *)
(* owner to blame and a submap of theirs to be returned to.                *)
THEOREM PrivateIsOwned == HookSpec => []PrivateOnlyWhileOwned
<1>1. HookInv => PrivateOnlyWhileOwned
  BY DEF HookInv, StrandedOnlyByReload, PrivateOnlyWhileOwned
<1> QED BY <1>1, HookInvHolds, PTL

(* An owner without a lease is one whose restore failed, and it no longer  *)
(* listens.                                                                *)
THEOREM UnleasedMeansFault == HookSpec => []UnleasedOnlyAfterFault
<1>1. HookInv => UnleasedOnlyAfterFault
  BY DEF HookInv
<1> QED BY <1>1, HookInvHolds, PTL

-----------------------------------------------------------------------------
(* The refinement.                                                         *)
userView == IF owner = NoToken THEN submap ELSE prev

LEMMA LockInitMaps == HookInit => Lock!LockInit
BY DEF HookInit, Lock!LockInit

(* A step that leaves owner, reloads and the user's view alone stutters.   *)
LEMMA Stutters ==
    ASSUME UNCHANGED <<owner, reloads>>, userView' = userView
    PROVE  UNCHANGED Lock!lockVars
BY DEF Lock!lockVars, userView

LEMMA SuppressScriptMaps ==
    ASSUME HookInv, HookInv', NEW t \in Tokens, SuppressScript(t)
    PROVE  [Lock!LockNext]_(Lock!lockVars)
<1> USE HookAssumption DEF HookInv, HookTypeOK, OwnerRemembers, StrandedOnlyByReload
<1>1. CASE InstallSucceeds(t) \/ InstallStuck(t)
  <2>1. Lock!Acquire(t) /\ t \in Suppressors
    BY <1>1 DEF InstallSucceeds, InstallStuck, DispatchFails, Lock!Acquire
  <2> QED BY <2>1 DEF Lock!LockNext
<1>2. CASE InstallUndone(t)
  <2>1. UNCHANGED <<owner, reloads>> /\ userView' = userView
    BY <1>2 DEF InstallUndone, DispatchFails, Released, Disarmed, userView
  <2> QED BY <2>1, Stutters
<1>3. CASE CleanupRestores(t) /\ t \in Suppressors
  <2>1. Lock!Release
    BY <1>3 DEF CleanupRestores, RestoreTarget, Dispatched, Released, Disarmed, Lock!Release
  <2> QED BY <2>1 DEF Lock!LockNext
<1>4. CASE CleanupRestoreFails(t) \/ Renews(t) \/ InstallRefused(t) \/ CleanupRefused(t)
           \/ RenewRefused(t) \/ CleanupRecoveryFails(t)
  <2>1. UNCHANGED <<owner, reloads>> /\ userView' = userView
    BY <1>4 DEF CleanupRestoreFails, Renews, InstallRefused, CleanupRefused, RenewRefused,
        CleanupRecoveryFails, DispatchFails, hookVars, userView
  <2> QED BY <2>1, Stutters
<1>5. ASSUME NEW user \in UserSubmaps, CleanupRecovers(t, user)
      PROVE  [Lock!LockNext]_(Lock!lockVars)
  <2>1. Lock!Switch
    BY <1>5 DEF CleanupRecovers, GlobalsLost, Dispatched, Lock!Switch
  <2> QED BY <2>1 DEF Lock!LockNext
<1>6. CleanupRestores(t) => t \in Suppressors
  BY DEF CleanupRestores
<1> QED BY <1>1, <1>2, <1>3, <1>4, <1>5, <1>6 DEF SuppressScript

LEMMA PassThroughMaps ==
    ASSUME NEW t \in Tokens, PassThroughScript(t)
    PROVE  [Lock!LockNext]_(Lock!lockVars)
<1>1. UNCHANGED <<owner, reloads>> /\ userView' = userView
  BY DEF PassThroughScript, Subscribes, SubscribeFails, Unsubscribes, RenewsEntry,
      RenewEntryRefused, EntryExpires, SubsBecome, hookVars, userView
<1> QED BY <1>1, Stutters

LEMMA SurroundingsMap ==
    ASSUME HookInv, HookInv', Surroundings
    PROVE  [Lock!LockNext]_(Lock!lockVars)
<1> USE HookAssumption DEF HookInv, HookTypeOK
<1>1. CASE LeaseRestores
  <2>1. Lock!Release
    BY <1>1 DEF LeaseRestores, Dispatched, Released, Disarmed, Lock!Release
  <2> QED BY <2>1 DEF Lock!LockNext
<1>2. CASE LeaseRestoreFails
  <2>1. UNCHANGED <<owner, reloads>> /\ userView' = userView
    BY <1>2 DEF LeaseRestoreFails, DispatchFails, userView
  <2> QED BY <2>1, Stutters
<1>3. CASE Reload
  <2>1. Lock!Forget
    BY <1>3 DEF Reload, Released, Disarmed, Lock!Forget, Lock!Submaps
  <2> QED BY <2>1 DEF Lock!LockNext
<1>4. CASE ReloadKeepsGlobals
  <2>1. Lock!Forget
    BY <1>4 DEF ReloadKeepsGlobals, Lock!Forget
  <2> QED BY <2>1 DEF Lock!LockNext
<1>5. CASE UserSwitches /\ owner = NoToken
  <2>1. Lock!Switch
    BY <1>5 DEF UserSwitches, Lock!Switch
  <2> QED BY <2>1 DEF Lock!LockNext
<1>6. CASE UserSwitches /\ owner # NoToken
  <2>1. UNCHANGED <<owner, reloads>> /\ userView' = userView
    BY <1>6 DEF UserSwitches, userView
  <2> QED BY <2>1, Stutters
<1> QED BY <1>1, <1>2, <1>3, <1>4, <1>5, <1>6 DEF Surroundings

LEMMA HookStepMaps ==
    HookInv /\ HookInv' /\ [HookNext]_hookVars => [Lock!LockNext]_(Lock!lockVars)
<1> SUFFICES ASSUME HookInv, HookInv', [HookNext]_hookVars
             PROVE  [Lock!LockNext]_(Lock!lockVars)
  OBVIOUS
<1>1. CASE UNCHANGED hookVars
  <2>1. UNCHANGED <<owner, reloads>> /\ userView' = userView
    BY <1>1 DEF hookVars, userView
  <2> QED BY <2>1, Stutters
<1>2. CASE HookNext
  BY <1>2, SuppressScriptMaps, PassThroughMaps, SurroundingsMap DEF HookNext
<1> QED BY <1>1, <1>2

(* The scripts implement the lock: one holder at a time, taken only when   *)
(* free, and let go only into the submap the user was in.                  *)
THEOREM ScriptsImplementLock == HookSpec => ImplementsLock
<1>1. HookSpec => Lock!LockInit /\ [][Lock!LockNext]_(Lock!lockVars)
  BY LockInitMaps, HookStepMaps, HookInvHolds, PTL DEF HookSpec
<1> QED BY <1>1 DEF ImplementsLock, Lock!LockSpec

-----------------------------------------------------------------------------
(* A session only ever asks for a submap of the user's to be restored.     *)
SavedOK == saved \in [Sessions -> UserSubmaps]

SessionInv == HookInv /\ SavedOK

-----------------------------------------------------------------------------
(* What whykey does by itself leaves the compositor alone.                 *)
LEMMA ProceedLeavesHook ==
    ASSUME NEW s \in Sessions, Proceed(s)
    PROVE  UNCHANGED <<hookVars, saved>>
BY DEF Proceed, InstallAnswered, ObserveAnswered, ArmConfirmed, RemoveAnswered,
    VerifyAnswered, RenewAnswered, CleanupDone, CleanupRetries, StartCleanup

LEMMA CallLeavesHook ==
    ASSUME NEW s \in Sessions, Call(s)
    PROVE  UNCHANGED hookVars /\ (UNCHANGED saved \/ Connect(s))
BY DEF Call, Connect, Arm, Renew, NextEvent, Close, Drop, StartCleanup

LEMMA FaultLeavesHook ==
    ASSUME NEW s \in Sessions, GiveUp(s) \/ ArmTimesOut(s) \/ Crash(s)
    PROVE  UNCHANGED <<hookVars, saved>>
BY DEF GiveUp, ArmTimesOut, Crash

(* What Hyprland serves for a session is one script of that session.       *)
LEMMA ServeIsScript ==
    ASSUME SavedOK, NEW s \in Sessions,
           ServeInstall(s) \/ ServeCleanup(s) \/ ServeRenew(s) \/ ServeQuery(s)
    PROVE  /\ SuppressScript(s) \/ PassThroughScript(s) \/ UNCHANGED hookVars
           /\ UNCHANGED saved
<1>1. CASE ServeInstall(s)
  BY <1>1 DEF ServeInstall, Answers_, SuppressScript, PassThroughScript
<1>2. CASE ServeCleanup(s)
  <2>1. saved[s] \in UserSubmaps
    BY DEF SavedOK
  <2> QED BY <1>2, <2>1 DEF ServeCleanup, Answers_, SuppressScript, PassThroughScript
<1>3. CASE ServeRenew(s)
  BY <1>3 DEF ServeRenew, Answers_, SuppressScript, PassThroughScript
<1>4. CASE ServeQuery(s)
  BY <1>4 DEF ServeQuery, Answers_
<1> QED BY <1>1, <1>2, <1>3, <1>4

(* Leases, reloads and the user are the surroundings of LuaHook.           *)
LEMMA OutsideIsSurroundings ==
    ASSUME LeaseExpires \/ ConfigReload \/ UserSwitch
    PROVE  HookNext /\ UNCHANGED saved
<1>1. CASE LeaseExpires
  BY <1>1 DEF LeaseExpires, sessionVars, HookNext, Surroundings, PassThroughScript, Sessions
<1>2. CASE ConfigReload
  BY <1>2 DEF ConfigReload, HookNext, Surroundings
<1>3. CASE UserSwitch
  BY <1>3 DEF UserSwitch, sessionVars, HookNext, Surroundings
<1> QED BY <1>1, <1>2, <1>3

LEMMA StepIsHookStep ==
    ASSUME SavedOK, [Next]_vars
    PROVE  [HookNext]_hookVars
<1>1. CASE Serve
  BY <1>1, ServeIsScript DEF Serve, HookNext, Sessions
<1>2. CASE UNCHANGED vars
  BY <1>2 DEF vars
<1> QED BY <1>1, <1>2, ProceedLeavesHook, CallLeavesHook, FaultLeavesHook,
           OutsideIsSurroundings DEF Next

LEMMA StepKeepsSaved ==
    ASSUME HookTypeOK, SavedOK, [Next]_vars
    PROVE  SavedOK'
<1>1. ASSUME NEW s \in Sessions, Connect(s) PROVE SavedOK'
  BY <1>1 DEF Connect, SavedOK, HookTypeOK, Submaps
<1>2. CASE UNCHANGED saved
  BY <1>2 DEF SavedOK
<1>3. CASE Serve
  BY <1>2, <1>3, ServeIsScript DEF Serve
<1>4. CASE UNCHANGED vars
  BY <1>2, <1>4 DEF vars, sessionVars
<1> QED BY <1>1, <1>2, <1>3, <1>4, ProceedLeavesHook, CallLeavesHook, FaultLeavesHook,
           OutsideIsSurroundings DEF Next

LEMMA SessionInvHolds == Spec => []SessionInv
<1>1. Init => SessionInv
  BY HookInitInv, HookAssumption DEF Init, SessionInv, SavedOK
<1>2. SessionInv /\ [Next]_vars => SessionInv'
  BY StepIsHookStep, HookNextInv, StepKeepsSaved DEF SessionInv, HookInv
<1> QED BY <1>1, <1>2, PTL DEF Spec

(* The sessions implement the scripts' most general client.                *)
THEOREM SessionsAreClients == Spec => HookSpec
<1>1. Init => HookInit
  BY DEF Init
<1>2. SessionInv /\ [Next]_vars => [HookNext]_hookVars
  BY StepIsHookStep DEF SessionInv
<1> QED BY <1>1, <1>2, SessionInvHolds, PTL DEF Spec, HookSpec

(* Whatever the sessions do and however they fail, the desktop sees the    *)
(* lock that SuppressionLock promises.                                     *)
THEOREM SessionsImplementLock == Spec => ImplementsLock
BY SessionsAreClients, ScriptsImplementLock

(* However a session fails or is killed, keys are held back only under a   *)
(* running lease.                                                          *)
THEOREM SessionsListenUnderLease == Spec => []ListensOnlyUnderLease
BY SessionsAreClients, LeaseBacksTheHook

-----------------------------------------------------------------------------
(* A session's script does nothing to a capture that another one owns.     *)
LEMMA ForeignScriptIsHarmless ==
    ASSUME HookInv, NEW s \in Tokens, owner # s, owner # NoToken,
           SuppressScript(s) \/ PassThroughScript(s) \/ UNCHANGED hookVars
    PROVE  UNCHANGED <<submap, owner, prev, listener, catchall, timer>>
BY DEF HookInv, OwnerRemembers, SuppressScript, PassThroughScript, InstallRefused,
    InstallSucceeds, InstallUndone, InstallStuck, CleanupRestores, CleanupRestoreFails,
    CleanupRecovers, CleanupRecoveryFails, GlobalsLost, CleanupRefused, Renews, RenewRefused,
    Subscribes, SubscribeFails, Unsubscribes, RenewsEntry, RenewEntryRefused, EntryExpires,
    SubsBecome, hookVars

(* While one session owns the capture, no step and no script of another    *)
(* one disturbs it.                                                        *)
THEOREM NoSessionDisturbsAnother == Spec => StrangersDoNotDisturb
<1> DEFINE Harmless ==
        \A s \in Sessions :
            StepOf(s) /\ owner \notin {s, NoToken} =>
                UNCHANGED <<submap, owner, prev, listener, catchall, timer>>
<1>1. ASSUME SessionInv, Next PROVE Harmless
  <2>1. CASE UNCHANGED hookVars
    BY <2>1 DEF hookVars
  <2>2. CASE Serve
    <3>1. PICK s \in Sessions :
              ServeInstall(s) \/ ServeCleanup(s) \/ ServeRenew(s) \/ ServeQuery(s)
      BY <2>2 DEF Serve
    <3>2. Head(queue).from = s /\ UNCHANGED pc
      BY <3>1 DEF ServeInstall, ServeCleanup, ServeRenew, ServeQuery, Serving, Answers_
    <3>3. \A r \in Sessions : StepOf(r) => r = s
      BY <3>2 DEF StepOf
    <3>4. SuppressScript(s) \/ PassThroughScript(s) \/ UNCHANGED hookVars
      BY <1>1, <3>1, ServeIsScript DEF SessionInv
    <3> QED BY <1>1, <3>3, <3>4, ForeignScriptIsHarmless DEF SessionInv, Sessions
  <2>3. CASE LeaseExpires \/ ConfigReload \/ UserSwitch
    <3>1. UNCHANGED <<pc, queue>>
      BY <2>3 DEF LeaseExpires, ConfigReload, UserSwitch, sessionVars
    <3> QED BY <3>1 DEF StepOf
  <2> QED BY <1>1, <2>1, <2>2, <2>3, ProceedLeavesHook, CallLeavesHook, FaultLeavesHook
          DEF Next
<1>2. SessionInv /\ [Next]_vars => [Harmless]_vars
  BY <1>1
<1>3. Spec => [][Harmless]_vars
  BY <1>2, SessionInvHolds, PTL DEF Spec
<1> QED BY <1>3 DEF StrangersDoNotDisturb

-----------------------------------------------------------------------------
(* Sequences.                                                              *)

(* A nonempty set of naturals has a least element.                         *)
LEMMA LeastNatural ==
    ASSUME NEW I \in SUBSET Nat, I # {}
    PROVE  \E x \in I : \A y \in I : x <= y
<1> DEFINE T == {0 .. n : n \in I}
<1>1. T \subseteq FiniteSubsetsOf(Nat) /\ T # {}
  <2>1. \A n \in I : 0 .. n \in SUBSET Nat /\ IsFiniteSet(0 .. n)
    BY FS_Interval
  <2> QED BY <2>1 DEF FiniteSubsetsOf
<1>2. PICK X \in T : \A Y \in T : ~ (<<Y, X>> \in StrictSubsetOrdering(Nat))
  BY <1>1, FS_StrictSubsetOrderingWellFounded, WFMin
<1>3. PICK x \in I : X = 0 .. x
  BY <1>2
<1>4. ASSUME NEW y \in I PROVE x <= y
  <2>1. ~ (<<0 .. y, 0 .. x>> \in StrictSubsetOrdering(Nat))
    BY <1>2, <1>3
  <2>2. ~ (0 .. y \subseteq 0 .. x /\ 0 .. y # 0 .. x)
    BY <2>1 DEF StrictSubsetOrdering
  <2>3. ASSUME y < x PROVE FALSE
    <3>1. 0 .. y \subseteq 0 .. x
      BY <2>3
    <3>2. x \in 0 .. x /\ x \notin 0 .. y
      BY <2>3
    <3> QED BY <2>2, <3>1, <3>2
  <2> QED BY <2>3
<1> QED BY <1>4

(* UpToArmed is the place of an "armed" line, or 0.                        *)
LEMMA UpToArmedIsPlace ==
    ASSUME NEW S, NEW q \in Seq(S), UpToArmed(q) > 0
    PROVE  UpToArmed(q) \in 1 .. Len(q) /\ q[UpToArmed(q)] = "armed"
<1> DEFINE I == {i \in 1 .. Len(q) : q[i] = "armed"}
<1>1. UpToArmed(q) = IF I # {} THEN Min(I) ELSE 0
  BY DEF UpToArmed, SelectInSeq
<1>2. I # {} /\ I \in SUBSET Nat
  BY <1>1
<1>3. Min(I) \in I
  <2> HIDE DEF I
  <2>1. \E x \in I : \A y \in I : x <= y
    BY <1>2, LeastNatural
  <2> QED BY <2>1 DEF Min
<1> QED BY <1>1, <1>2, <1>3

(* RemoveAt closes the gap it makes.                                       *)
LEMMA RemoveAtProperties ==
    ASSUME NEW S, NEW q \in Seq(S), NEW k \in 1 .. Len(q)
    PROVE  /\ RemoveAt(q, k) \in Seq(S)
           /\ Len(RemoveAt(q, k)) = Len(q) - 1
           /\ \A i \in 1 .. Len(q) - 1 :
                  RemoveAt(q, k)[i] = q[IF i < k THEN i ELSE i + 1]
<1> DEFINE a == SubSeq(q, 1, k - 1)
           b == SubSeq(q, k + 1, Len(q))
<1>1. a \in Seq(S) /\ Len(a) = k - 1 /\ \A i \in 1 .. k - 1 : a[i] = q[i]
  BY SubSeqProperties
<1>2. /\ b \in Seq(S)
      /\ Len(b) = Len(q) - k
      /\ \A i \in 1 .. Len(q) - k : b[i] = q[k + i]
  BY SubSeqProperties
<1>3. RemoveAt(q, k) = a \o b
  BY DEF RemoveAt
<1> HIDE DEF a, b
<1>4. /\ RemoveAt(q, k) \in Seq(S)
      /\ Len(RemoveAt(q, k)) = Len(q) - 1
      /\ \A i \in 1 .. Len(q) - 1 :
             RemoveAt(q, k)[i] = IF i <= k - 1 THEN a[i] ELSE b[i - (k - 1)]
  <2>1. /\ a \o b \in Seq(S)
        /\ Len(a \o b) = Len(a) + Len(b)
        /\ \A i \in 1 .. Len(a) + Len(b) :
               (a \o b)[i] = IF i <= Len(a) THEN a[i] ELSE b[i - Len(a)]
    BY <1>1, <1>2, ConcatProperties
  <2>2. Len(a) = k - 1 /\ Len(a) + Len(b) = Len(q) - 1
    BY <1>1, <1>2
  <2> QED BY <1>3, <2>1, <2>2
<1>5. ASSUME NEW i \in 1 .. Len(q) - 1
      PROVE  RemoveAt(q, k)[i] = q[IF i < k THEN i ELSE i + 1]
  <2>1. CASE i < k
    BY <1>1, <1>4, <2>1
  <2>2. CASE ~ (i < k)
    BY <1>2, <1>4, <2>2
  <2> QED BY <2>1, <2>2
<1> QED BY <1>4, <1>5

-----------------------------------------------------------------------------
(* The type of a session's own state.                                      *)
Message == [from : Sessions, op : Ops, live : BOOLEAN]

(* Abandoning a session's scripts changes only what is live.               *)
LEMMA AbandonedProperties ==
    ASSUME NEW q \in Seq(Message), NEW s \in Sessions
    PROVE  /\ Abandoned(q, s) \in Seq(Message)
           /\ Len(Abandoned(q, s)) = Len(q)
           /\ \A i \in 1 .. Len(q) :
                  /\ Abandoned(q, s)[i].from = q[i].from
                  /\ Abandoned(q, s)[i].op = q[i].op
                  /\ Abandoned(q, s)[i].live = (q[i].live /\ q[i].from # s)
<1> DEFINE m(i) == [q[i] EXCEPT !.live = @ /\ q[i].from # s]
<1>1. ASSUME NEW i \in 1 .. Len(q)
      PROVE  /\ m(i) \in Message
             /\ m(i).from = q[i].from
             /\ m(i).op = q[i].op
             /\ m(i).live = (q[i].live /\ q[i].from # s)
  <2>1. q[i] \in Message
    OBVIOUS
  <2> QED BY <2>1 DEF Message
<1>2. Abandoned(q, s) = [i \in 1 .. Len(q) |-> m(i)]
  BY DEF Abandoned
<1> HIDE DEF m
<1>3. Abandoned(q, s) \in [1 .. Len(q) -> Message]
  BY <1>1, <1>2
<1>4. Abandoned(q, s) \in Seq(Message) /\ Len(Abandoned(q, s)) = Len(q)
  BY <1>3
<1>5. \A i \in 1 .. Len(q) : Abandoned(q, s)[i] = m(i)
  BY <1>2
<1> QED BY <1>1, <1>4, <1>5

-----------------------------------------------------------------------------
(* A call keeps the types of what it shares with Hyprland, and every       *)
(* action keeps the types of the rest.                                     *)
LEMMA SendsTyped ==
    ASSUME TypeOK, NEW s \in Sessions, NEW op \in Ops, NEW p \in Waiting, Sends(s, op, p)
    PROVE  /\ pc' \in [Sessions -> {"start", "await"} \cup Waiting \cup Resting]
           /\ queue' \in Seq(Message)
           /\ answer' \in [Sessions -> Answers]
<1>1. pc' \in [Sessions -> {"start", "await"} \cup Waiting \cup Resting]
  BY DEF TypeOK, Sends
<1>2. queue' \in Seq(Message)
  BY DEF TypeOK, Sends, Message
<1>3. answer' \in [Sessions -> Answers]
  BY DEF TypeOK, Sends, Answers
<1> QED BY <1>1, <1>2, <1>3

LEMMA RestsTyped ==
    ASSUME TypeOK, NEW s \in Sessions, NEW p \in {"await"} \cup Resting, Rests(s, p)
    PROVE  /\ pc' \in [Sessions -> {"start", "await"} \cup Waiting \cup Resting]
           /\ queue' \in Seq(Message)
           /\ answer' \in [Sessions -> Answers]
BY DEF TypeOK, Rests, Message, Answers

LEMMA StartCleanupTyped ==
    ASSUME TypeOK, HookTypeOK', NEW s \in Sessions, NEW m \in {"arm", "close", "drop"},
           StartCleanup(s, m)
    PROVE  TypeOK'
<1>1. "cleanup" \in Ops /\ "remove" \in Waiting
  BY DEF Ops, Waiting
<1>2. Sends(s, "cleanup", "remove")
  BY DEF StartCleanup
<1>3. attempt' \in [Sessions -> 0 .. 2]
  BY DEF TypeOK, Message, StartCleanup
<1>4. st' \in [Sessions -> {"Connected", "Installing", "Armed", "RestorePending", "Closed"}]
  BY DEF TypeOK, Message, StartCleanup, Becomes
<1>5. mode' \in [Sessions -> {"arm", "close", "drop"}]
  BY DEF TypeOK, Message, StartCleanup
<1> QED BY <1>1, <1>2, <1>3, <1>4, <1>5, SendsTyped DEF TypeOK, Message, StartCleanup

LEMMA CleanupDoneTyped ==
    ASSUME TypeOK, HookTypeOK', NEW s \in Sessions, CleanupDone(s)
    PROVE  TypeOK'
<1>1. PICK p \in Resting : Rests(s, p)
  BY DEF CleanupDone, AfterCleanup, Resting
<1>2. attempt' \in [Sessions -> 0 .. 2] /\ mode' \in [Sessions -> {"arm", "close", "drop"}]
  BY DEF TypeOK, Message, CleanupDone, AfterCleanup
<1>3. st' \in [Sessions -> {"Connected", "Installing", "Armed", "RestorePending", "Closed"}]
  BY DEF TypeOK, Message, CleanupDone, Becomes
<1> QED BY <1>1, <1>2, <1>3, RestsTyped DEF TypeOK, Message, CleanupDone

LEMMA CleanupRetriesTyped ==
    ASSUME TypeOK, HookTypeOK', NEW s \in Sessions, CleanupRetries(s)
    PROVE  TypeOK'
<1>1. "cleanup" \in Ops /\ "remove" \in Waiting
  BY DEF Ops, Waiting
<1>2. CASE /\ attempt[s] < 2 /\ attempt' = [attempt EXCEPT ![s] = @ + 1]
           /\ Sends(s, "cleanup", "remove") /\ UNCHANGED mode
  <2>1. attempt \in [Sessions -> 0 .. 2]
    BY DEF TypeOK, Message
  <2>2. attempt[s] + 1 \in 0 .. 2
    BY <1>2, <2>1
  <2>3. attempt' \in [Sessions -> 0 .. 2]
    BY <1>2, <2>1, <2>2
  <2> QED BY <1>1, <1>2, <2>3, SendsTyped DEF TypeOK, Message, CleanupRetries
<1>3. CASE attempt[s] = 2 /\ AfterCleanup(s, FALSE)
  <2>1. PICK p \in Resting : Rests(s, p)
    BY <1>3 DEF AfterCleanup, Resting
  <2>2. attempt' \in [Sessions -> 0 .. 2] /\ mode' \in [Sessions -> {"arm", "close", "drop"}]
    BY <1>3 DEF TypeOK, Message, AfterCleanup
  <2> QED BY <2>1, <2>2, RestsTyped DEF TypeOK, Message, CleanupRetries
<1> QED BY <1>2, <1>3 DEF CleanupRetries

LEMMA ProceedTyped ==
    ASSUME TypeOK, HookTypeOK', NEW s \in Sessions, Proceed(s)
    PROVE  TypeOK'
<1> USE DEF Ops, Waiting
<1>1. CASE InstallAnswered(s)
  BY <1>1, SendsTyped, RestsTyped, StartCleanupTyped DEF InstallAnswered, TypeOK, Message
<1>2. CASE ObserveAnswered(s)
  BY <1>2, RestsTyped, StartCleanupTyped DEF ObserveAnswered, TypeOK, Message
<1>3. CASE ArmConfirmed(s)
  <2>1. inbox' \in [Sessions -> Seq(Lines)]
    <3>1. inbox[s] \in Seq(Lines)
      BY DEF TypeOK, Message
    <3>2. UpToArmed(inbox[s]) \in 1 .. Len(inbox[s])
      BY <1>3, <3>1, UpToArmedIsPlace DEF ArmConfirmed
    <3>3. SubSeq(inbox[s], UpToArmed(inbox[s]) + 1, Len(inbox[s])) \in Seq(Lines)
      BY <3>1, <3>2, SubSeqProperties
    <3> QED BY <1>3, <3>3 DEF ArmConfirmed, TypeOK, Message
  <2>2. Rests(s, "idle") /\ "idle" \in Resting
    BY <1>3 DEF ArmConfirmed, Resting
  <2> QED BY <1>3, <2>1, <2>2, RestsTyped DEF ArmConfirmed, TypeOK, Message, Becomes
<1>4. CASE RemoveAnswered(s)
  BY <1>4, SendsTyped, CleanupDoneTyped, CleanupRetriesTyped DEF RemoveAnswered, TypeOK, Message
<1>5. CASE VerifyAnswered(s)
  BY <1>5, CleanupDoneTyped, CleanupRetriesTyped DEF VerifyAnswered
<1>6. CASE RenewAnswered(s)
  <2>1. PICK p \in Resting : Rests(s, p)
    BY <1>6 DEF RenewAnswered, Resting
  <2> QED BY <1>6, <2>1, RestsTyped DEF RenewAnswered, TypeOK, Message
<1> QED BY <1>1, <1>2, <1>3, <1>4, <1>5, <1>6 DEF Proceed

LEMMA CallTyped ==
    ASSUME TypeOK, HookTypeOK', NEW s \in Sessions, Call(s)
    PROVE  TypeOK'
<1> USE DEF Ops, Waiting
<1>1. CASE Connect(s)
  <2>1. Rests(s, "idle") /\ "idle" \in Resting
    BY <1>1 DEF Connect, Resting
  <2>2. saved' \in [Sessions -> UserSubmaps]
    BY <1>1 DEF Connect, TypeOK, Message, HookTypeOK, Submaps
  <2> QED BY <1>1, <2>1, <2>2, RestsTyped DEF Connect, TypeOK, Message
<1>2. CASE Arm(s)
  <2>1. arms' \in [Sessions -> 0 .. MaxArms]
    BY <1>2, SessionAssumption DEF Arm, TypeOK, Message
  <2> QED BY <1>2, <2>1, SendsTyped DEF Arm, TypeOK, Message, Becomes
<1>3. CASE Renew(s)
  BY <1>3, SendsTyped DEF Renew, TypeOK, Message
<1>4. CASE NextEvent(s)
  <2>1. PICK p \in Resting : Rests(s, p)
    BY <1>4 DEF NextEvent, Resting
  <2>2. inbox' \in [Sessions -> Seq(Lines)]
    BY <1>4, HeadTailProperties DEF NextEvent, TypeOK, Message
  <2> QED BY <1>4, <2>1, <2>2, RestsTyped DEF NextEvent, TypeOK, Message
<1>5. CASE Close(s)
  BY <1>5, StartCleanupTyped DEF Close
<1>6. CASE Drop(s)
  <2>1. CASE StartCleanup(s, "drop")
    BY <2>1, StartCleanupTyped
  <2>2. CASE Rests(s, "gone") /\ UNCHANGED <<st, mode, attempt, saved, arms, inbox,
                                             ipcFaults, crashes>>
    BY <2>2, RestsTyped DEF Resting, TypeOK, Message
  <2> QED BY <1>6, <2>1, <2>2 DEF Drop
<1> QED BY <1>1, <1>2, <1>3, <1>4, <1>5, <1>6 DEF Call

LEMMA FaultTyped ==
    ASSUME TypeOK, HookTypeOK', NEW s \in Sessions,
           GiveUp(s) \/ ArmTimesOut(s) \/ Crash(s)
    PROVE  TypeOK'
<1>1. MaxIpcFaults \in Nat /\ MaxCrashes \in Nat
  BY SessionAssumption
<1>2. queue \in Seq(Message)
  BY DEF TypeOK, Message
<1>3. CASE GiveUp(s)
  <2>1. queue' \in Seq(Message)
    <3>1. CASE queue' = Abandoned(queue, s)
      BY <1>2, <3>1, AbandonedProperties
    <3>2. CASE \E i \in DOMAIN queue : queue' = RemoveAt(queue, i)
      BY <1>2, <3>2, RemoveAtProperties
    <3> QED BY <1>3, <3>1, <3>2 DEF GiveUp
  <2>2. ipcFaults' \in 0 .. MaxIpcFaults
    BY <1>1, <1>3 DEF GiveUp, TypeOK, Message
  <2> QED BY <1>3, <2>1, <2>2 DEF GiveUp, TypeOK, Message, Answers
<1>4. CASE ArmTimesOut(s)
  <2>1. Sends(s, "cleanup", "remove") /\ "cleanup" \in Ops /\ "remove" \in Waiting
    BY <1>4 DEF ArmTimesOut, Ops, Waiting
  <2>2. ipcFaults' \in 0 .. MaxIpcFaults
    BY <1>1, <1>4 DEF ArmTimesOut, TypeOK, Message
  <2> QED BY <1>4, <2>1, <2>2, SendsTyped DEF ArmTimesOut, TypeOK, Message, Becomes
<1>5. CASE Crash(s)
  <2>1. queue' \in Seq(Message)
    BY <1>2, <1>5, AbandonedProperties DEF Crash
  <2>2. crashes' \in 0 .. MaxCrashes
    BY <1>1, <1>5 DEF Crash, TypeOK, Message
  <2>3. inbox' \in [Sessions -> Seq(Lines)]
    BY <1>5 DEF Crash, TypeOK, Message
  <2> QED BY <1>5, <2>1, <2>2, <2>3 DEF Crash, TypeOK, Message, Answers, Resting
<1> QED BY <1>3, <1>4, <1>5

LEMMA EmittedTyped ==
    ASSUME TypeOK, NEW to, NEW line \in Lines, Emitted(to, line)
    PROVE  inbox' \in [Sessions -> Seq(Lines)]
BY DEF TypeOK, Message, Emitted

LEMMA AnswersTyped ==
    ASSUME TypeOK, queue # <<>>, NEW s \in Sessions, NEW result \in Answers,
           Answers_(s, result)
    PROVE  queue' \in Seq(Message) /\ answer' \in [Sessions -> Answers]
<1>1. queue' \in Seq(Message)
  BY HeadTailProperties DEF TypeOK, Message, Answers_
<1>2. answer' \in [Sessions -> Answers]
  BY DEF TypeOK, Message, Answers_
<1> QED BY <1>1, <1>2

LEMMA ServeTyped ==
    ASSUME TypeOK, HookTypeOK', NEW s \in Sessions,
           ServeInstall(s) \/ ServeCleanup(s) \/ ServeRenew(s) \/ ServeQuery(s)
    PROVE  TypeOK'
<1>1. PICK result \in Answers : Answers_(s, result)
  BY DEF ServeInstall, ServeCleanup, ServeRenew, ServeQuery, Answers, TypeOK, Message, HookTypeOK
<1>2. queue # <<>>
  BY DEF ServeInstall, ServeCleanup, ServeRenew, ServeQuery, Serving
<1>3. inbox' \in [Sessions -> Seq(Lines)]
  <2>1. "armed" \in Lines
    BY DEF Lines
  <2>2. Emitted({s}, "armed") \/ UNCHANGED inbox
    BY DEF ServeInstall, ServeCleanup, ServeRenew, ServeQuery
  <2> QED BY <2>1, <2>2, EmittedTyped DEF TypeOK, Message
<1> QED BY <1>1, <1>2, <1>3, AnswersTyped DEF TypeOK, Message, Answers_

LEMMA StepIsTyped ==
    ASSUME TypeOK, HookTypeOK', [Next]_vars
    PROVE  TypeOK'
<1>1. CASE Serve
  BY <1>1, ServeTyped DEF Serve
<1>2. CASE LeaseExpires \/ UserSwitch
  BY <1>2 DEF LeaseExpires, UserSwitch, sessionVars, TypeOK, Message
<1>3. CASE ConfigReload
  <2>1. inbox' \in [Sessions -> Seq(Lines)]
    BY <1>3, EmittedTyped DEF ConfigReload, Lines
  <2> QED BY <1>3, <2>1 DEF ConfigReload, TypeOK, Message
<1>4. CASE UNCHANGED vars
  BY <1>4 DEF vars, sessionVars, TypeOK, Message
<1> QED BY <1>1, <1>2, <1>3, <1>4, ProceedTyped, CallTyped, FaultTyped DEF Next

LEMMA InitIsTyped == Init => TypeOK
BY HookInitInv, SessionAssumption, HookAssumption
   DEF Init, TypeOK, Message, HookInv, Answers, Resting, Waiting

(* Every variable keeps its type, whatever the sessions do.                *)
THEOREM SessionTyped == Spec => []TypeOK
<1>1. TypeOK /\ SessionInv /\ SessionInv' /\ [Next]_vars => TypeOK'
  BY StepIsTyped DEF SessionInv, HookInv
<1> QED BY <1>1, InitIsTyped, SessionInvHolds, PTL DEF Spec

-----------------------------------------------------------------------------
(* What a session can still expect of Hyprland.                            *)
Expects(p, op) ==
    \/ p = "install" /\ op = "install"
    \/ p \in {"observe", "verify"} /\ op = "query"
    \/ p = "remove" /\ op = "cleanup"
    \/ p = "renew" /\ op = "renew"

Places == 1 .. Len(queue)

NoneOf(s) == \A i \in Places : queue[i].from # s

NoInstall(s) == \A i \in Places : queue[i].from = s => queue[i].op # "install"

NothingLive(s) == \A i \in Places : queue[i].from = s => ~queue[i].live

(* A script whose answer is wanted is the one the session waits for ...    *)
LiveIsAwaited(s) ==
    \A i \in Places : queue[i].from = s /\ queue[i].live =>
        pc[s] \in Waiting /\ answer[s] = Pending /\ Expects(pc[s], queue[i].op)

(* ... and the last it sent; while it installs, its install script is.     *)
LiveIsLast(s) ==
    \A i, j \in Places :
        queue[i].from = s /\ queue[j].from = s /\ queue[i].live => j <= i

InstallIsLast(s) ==
    \A i, j \in Places :
        queue[i].from = s /\ queue[j].from = s /\ queue[i].op = "install" => j <= i

Removed(s) == owner # s /\ s \notin subs /\ NoInstall(s)

(* Closed is said only after the removal was confirmed, and nothing is     *)
(* installed after that but by the next arm.                               *)
CleanIfRemoved(s) ==
    st[s] = "Closed" \/ pc[s] = "verify" \/ (pc[s] = "remove" /\ answer[s] = Ok)
        => Removed(s)

(* The "armed" lines a session has not read.                               *)
NoArmed(s) == \A i \in 1 .. Len(inbox[s]) : inbox[s][i] # "armed"

OneArmed(s) ==
    \A i, j \in 1 .. Len(inbox[s]) :
        inbox[s][i] = "armed" /\ inbox[s][j] = "armed" => i = j

(* Where a call stands tells what there is of the session.                 *)
ModeIsOfTeardown(s) == mode[s] # "arm" => pc[s] \in {"remove", "verify"}

StartsAfresh(s) == pc[s] = "start" => NoneOf(s) /\ NoArmed(s)

QuietWhenIdle(s) ==
    pc[s] \in {"idle", "renew"} \/ mode[s] = "close" => NoArmed(s) /\ NoInstall(s)

(* While it arms: one "armed" line at most, and no script left once it     *)
(* came.                                                                   *)
ArmedIsOwn(s) ==
    /\ pc[s] = "install" =>
           /\ InstallIsLast(s)
           /\ OneArmed(s)
           /\ NoArmed(s) \/ NoneOf(s)
           /\ answer[s] = Ok => NoInstall(s)
    /\ pc[s] \in {"observe", "await"} => OneArmed(s) /\ NoInstall(s)

(* The inductive invariant of one session: its scripts in the queue, its   *)
(* call in progress.                                                       *)
ScriptsInv(s) == LiveIsAwaited(s) /\ LiveIsLast(s)

CallInv(s) ==
    /\ CleanIfRemoved(s)
    /\ ModeIsOfTeardown(s)
    /\ StartsAfresh(s)
    /\ QuietWhenIdle(s)
    /\ ArmedIsOwn(s)

OwnInv(s) == ScriptsInv(s) /\ CallInv(s)

-----------------------------------------------------------------------------
(* Queue q holds of session s some of the scripts that p holds of it, in   *)
(* the same order, and none that has become live.                          *)
Thins(q, p, s) ==
    \E f \in [Nat -> Nat] :
        /\ \A i \in 1 .. Len(q) : q[i].from = s =>
               /\ f[i] \in 1 .. Len(p)
               /\ p[f[i]].from = s
               /\ p[f[i]].op = q[i].op
               /\ q[i].live => p[f[i]].live
        /\ \A i, j \in 1 .. Len(q) : i < j => f[i] < f[j]

(* Each way the queue changes thins out the scripts of a session that did  *)
(* not send anything.                                                      *)
LEMMA SameThins ==
    ASSUME NEW q \in Seq(Message), NEW s \in Sessions
    PROVE  Thins(q, q, s)
<1> DEFINE f == [i \in Nat |-> i]
<1>1. f \in [Nat -> Nat] /\ \A i \in 1 .. Len(q) : f[i] = i
  OBVIOUS
<1> HIDE DEF f
<1> QED BY <1>1 DEF Thins

LEMMA AppendThins ==
    ASSUME NEW q \in Seq(Message), NEW m \in Message, NEW s \in Sessions, m.from # s
    PROVE  Thins(Append(q, m), q, s)
<1> DEFINE f == [i \in Nat |-> i]
<1>1. f \in [Nat -> Nat] /\ \A i \in 1 .. Len(q) + 1 : f[i] = i
  OBVIOUS
<1>2. /\ Len(Append(q, m)) = Len(q) + 1
      /\ \A i \in 1 .. Len(q) : Append(q, m)[i] = q[i]
      /\ Append(q, m)[Len(q) + 1] = m
  BY AppendProperties
<1> HIDE DEF f
<1>3. ASSUME NEW i \in 1 .. Len(Append(q, m)), Append(q, m)[i].from = s
      PROVE  /\ f[i] \in 1 .. Len(q)
             /\ q[f[i]] = Append(q, m)[i]
  <2>1. i \in 1 .. Len(q)
    BY <1>2, <1>3
  <2> QED BY <1>1, <1>2, <2>1
<1>4. \A i, j \in 1 .. Len(Append(q, m)) : i < j => f[i] < f[j]
  BY <1>1, <1>2
<1> QED BY <1>1, <1>3, <1>4 DEF Thins

LEMMA TailThins ==
    ASSUME NEW q \in Seq(Message), q # <<>>, NEW s \in Sessions
    PROVE  Thins(Tail(q), q, s)
<1> DEFINE f == [i \in Nat |-> i + 1]
<1>1. f \in [Nat -> Nat] /\ \A i \in Nat : f[i] = i + 1
  OBVIOUS
<1>2. Len(Tail(q)) = Len(q) - 1 /\ \A i \in 1 .. Len(q) - 1 : Tail(q)[i] = q[i + 1]
  BY HeadTailProperties
<1> HIDE DEF f
<1>3. ASSUME NEW i \in 1 .. Len(Tail(q)), Tail(q)[i].from = s
      PROVE  /\ f[i] \in 1 .. Len(q)
             /\ q[f[i]] = Tail(q)[i]
  <2>1. i \in 1 .. Len(q) - 1 /\ i \in Nat
    BY <1>2
  <2>2. f[i] = i + 1 /\ Tail(q)[i] = q[i + 1]
    BY <1>1, <1>2, <2>1
  <2>3. i + 1 \in 1 .. Len(q)
    BY <2>1
  <2> QED BY <2>2, <2>3
<1>4. \A i, j \in 1 .. Len(Tail(q)) : i < j => f[i] < f[j]
  BY <1>1, <1>2
<1> QED BY <1>1, <1>3, <1>4 DEF Thins

LEMMA RemoveAtThins ==
    ASSUME NEW q \in Seq(Message), NEW k \in 1 .. Len(q), NEW s \in Sessions
    PROVE  Thins(RemoveAt(q, k), q, s)
<1> DEFINE f == [i \in Nat |-> IF i < k THEN i ELSE i + 1]
<1>1. f \in [Nat -> Nat] /\ \A i \in Nat : f[i] = IF i < k THEN i ELSE i + 1
  OBVIOUS
<1>2. /\ Len(RemoveAt(q, k)) = Len(q) - 1
      /\ \A i \in 1 .. Len(q) - 1 : RemoveAt(q, k)[i] = q[IF i < k THEN i ELSE i + 1]
  BY RemoveAtProperties
<1> HIDE DEF f
<1>3. ASSUME NEW i \in 1 .. Len(RemoveAt(q, k)), RemoveAt(q, k)[i].from = s
      PROVE  /\ f[i] \in 1 .. Len(q)
             /\ q[f[i]] = RemoveAt(q, k)[i]
  <2>1. i \in 1 .. Len(q) - 1 /\ i \in Nat
    BY <1>2
  <2>2. f[i] = IF i < k THEN i ELSE i + 1
    BY <1>1, <2>1
  <2> QED BY <1>2, <2>1, <2>2
<1>4. \A i, j \in 1 .. Len(RemoveAt(q, k)) : i < j => f[i] < f[j]
  <2> SUFFICES ASSUME NEW i \in 1 .. Len(RemoveAt(q, k)), NEW j \in 1 .. Len(RemoveAt(q, k)),
                      i < j
               PROVE  f[i] < f[j]
    OBVIOUS
  <2>1. i \in Nat /\ j \in Nat
    BY <1>2
  <2>2. /\ f[i] = IF i < k THEN i ELSE i + 1
        /\ f[j] = IF j < k THEN j ELSE j + 1
    BY <1>1, <2>1
  <2> QED BY <2>1, <2>2
<1> QED BY <1>1, <1>3, <1>4 DEF Thins

LEMMA AbandonedThins ==
    ASSUME NEW q \in Seq(Message), NEW s \in Sessions, NEW r \in Sessions
    PROVE  Thins(Abandoned(q, s), q, r)
<1> DEFINE f == [i \in Nat |-> i]
<1>1. f \in [Nat -> Nat] /\ \A i \in 1 .. Len(q) : f[i] = i
  OBVIOUS
<1>2. /\ Len(Abandoned(q, s)) = Len(q)
      /\ \A i \in 1 .. Len(q) :
             /\ Abandoned(q, s)[i].from = q[i].from
             /\ Abandoned(q, s)[i].op = q[i].op
             /\ Abandoned(q, s)[i].live = (q[i].live /\ q[i].from # s)
  BY AbandonedProperties
<1> HIDE DEF f
<1>3. \A i \in 1 .. Len(Abandoned(q, s)) : Abandoned(q, s)[i].from = r =>
          /\ f[i] \in 1 .. Len(q)
          /\ q[f[i]].from = r
          /\ q[f[i]].op = Abandoned(q, s)[i].op
          /\ Abandoned(q, s)[i].live => q[f[i]].live
  BY <1>1, <1>2
<1>4. \A i, j \in 1 .. Len(Abandoned(q, s)) : i < j => f[i] < f[j]
  BY <1>1, <1>2
<1> QED BY <1>1, <1>3, <1>4 DEF Thins

-----------------------------------------------------------------------------
(* The places of the queue are its domain.                                 *)
LEMMA PlacesAreDomain == TypeOK => Places = DOMAIN queue
BY DEF TypeOK, Places

(* What a thinner queue keeps of a session.                                *)
LEMMA ThinningKeeps ==
    ASSUME TypeOK, TypeOK', NEW s \in Sessions, Thins(queue', queue, s)
    PROVE  /\ NoneOf(s) => NoneOf(s)'
           /\ NoInstall(s) => NoInstall(s)'
           /\ NothingLive(s) => NothingLive(s)'
           /\ LiveIsLast(s) => LiveIsLast(s)'
           /\ InstallIsLast(s) => InstallIsLast(s)'
           /\ LiveIsAwaited(s) /\ pc'[s] = pc[s] /\ answer'[s] = answer[s]
                  => LiveIsAwaited(s)'
<1>1. PICK f \in [Nat -> Nat] :
          /\ \A i \in Places' : queue'[i].from = s =>
                 /\ f[i] \in Places
                 /\ queue[f[i]].from = s
                 /\ queue[f[i]].op = queue'[i].op
                 /\ queue'[i].live => queue[f[i]].live
          /\ \A i, j \in Places' : i < j => f[i] < f[j]
  BY DEF Thins, Places
<1>2. Places \subseteq Nat /\ Places' \subseteq Nat
  BY DEF Places
<1>3. NoneOf(s) => NoneOf(s)'
  <2> SUFFICES ASSUME NEW i \in Places', queue'[i].from = s PROVE ~NoneOf(s)
    BY DEF NoneOf
  <2> QED BY <1>1 DEF NoneOf
<1>4. NoInstall(s) => NoInstall(s)'
  BY <1>1 DEF NoInstall
<1>5. NothingLive(s) => NothingLive(s)'
  BY <1>1 DEF NothingLive
<1>6. ASSUME LiveIsLast(s) PROVE LiveIsLast(s)'
  <2> SUFFICES ASSUME NEW i \in Places', NEW j \in Places',
                      queue'[i].from = s, queue'[j].from = s, queue'[i].live, i < j
               PROVE  FALSE
    BY <1>2 DEF LiveIsLast
  <2>1. f[j] <= f[i] /\ f[i] < f[j]
    BY <1>1, <1>6 DEF LiveIsLast
  <2> QED BY <1>2, <2>1
<1>7. ASSUME InstallIsLast(s) PROVE InstallIsLast(s)'
  <2> SUFFICES ASSUME NEW i \in Places', NEW j \in Places',
                      queue'[i].from = s, queue'[j].from = s, queue'[i].op = "install", i < j
               PROVE  FALSE
    BY <1>2 DEF InstallIsLast
  <2>1. f[j] <= f[i] /\ f[i] < f[j]
    BY <1>1, <1>7 DEF InstallIsLast
  <2> QED BY <1>2, <2>1
<1>8. ASSUME LiveIsAwaited(s), pc'[s] = pc[s], answer'[s] = answer[s]
      PROVE  LiveIsAwaited(s)'
  BY <1>1, <1>8 DEF LiveIsAwaited
<1> QED BY <1>3, <1>4, <1>5, <1>6, <1>7, <1>8

(* A session that a step does not concern keeps its invariant.             *)
LEMMA Bystander ==
    ASSUME TypeOK, TypeOK', NEW s \in Sessions, OwnInv(s), Thins(queue', queue, s),
           st'[s] = st[s], pc'[s] = pc[s], mode'[s] = mode[s], answer'[s] = answer[s],
           NoArmed(s) => NoArmed(s)',
           OneArmed(s) => OneArmed(s)',
           owner' = s => owner = s,
           s \in subs' => s \in subs
    PROVE  OwnInv(s)'
<1>1. ScriptsInv(s)'
  BY ThinningKeeps DEF OwnInv, ScriptsInv
<1>2. CleanIfRemoved(s)'
  BY ThinningKeeps DEF OwnInv, CallInv, CleanIfRemoved, Removed
<1>3. ModeIsOfTeardown(s)'
  BY DEF OwnInv, CallInv, ModeIsOfTeardown
<1>4. StartsAfresh(s)'
  BY ThinningKeeps DEF OwnInv, CallInv, StartsAfresh
<1>5. QuietWhenIdle(s)'
  BY ThinningKeeps DEF OwnInv, CallInv, QuietWhenIdle
<1>6. ArmedIsOwn(s)'
  BY ThinningKeeps DEF OwnInv, CallInv, ArmedIsOwn
<1> QED BY <1>1, <1>2, <1>3, <1>4, <1>5, <1>6 DEF OwnInv, CallInv

-----------------------------------------------------------------------------
(* A call of session s touches no other session's state.                   *)
OnlyConcerns(s) ==
    \A r \in Sessions \ {s} :
        /\ st'[r] = st[r]
        /\ pc'[r] = pc[r]
        /\ mode'[r] = mode[r]
        /\ answer'[r] = answer[r]
        /\ inbox'[r] = inbox[r]

QueueMoves(s) ==
    \/ UNCHANGED queue
    \/ \E m \in Message : m.from = s /\ queue' = Append(queue, m)
    \/ queue' = Abandoned(queue, s)
    \/ \E i \in 1 .. Len(queue) : queue' = RemoveAt(queue, i)

(* How each call of a session moves the queue, and that it leaves the      *)
(* compositor alone.                                                       *)
LEMMA SendsMoves ==
    ASSUME TypeOK, NEW s \in Sessions, NEW op \in Ops, NEW p, Sends(s, op, p)
    PROVE  /\ QueueMoves(s)
           /\ \A r \in Sessions \ {s} : pc'[r] = pc[r] /\ answer'[r] = answer[r]
<1> DEFINE m == [from |-> s, op |-> op, live |-> TRUE]
<1>1. m \in Message /\ m.from = s /\ queue' = Append(queue, m)
  BY DEF Sends, Message
<1>2. \A r \in Sessions \ {s} : pc'[r] = pc[r] /\ answer'[r] = answer[r]
  BY DEF Sends, TypeOK
<1> HIDE DEF m
<1> QED BY <1>1, <1>2 DEF QueueMoves

LEMMA RestsMoves ==
    ASSUME TypeOK, NEW s \in Sessions, NEW p, Rests(s, p)
    PROVE  /\ QueueMoves(s)
           /\ \A r \in Sessions \ {s} : pc'[r] = pc[r] /\ answer'[r] = answer[r]
BY DEF Rests, TypeOK, QueueMoves

LEMMA StartCleanupConcerns ==
    ASSUME TypeOK, NEW s \in Sessions, NEW m, StartCleanup(s, m)
    PROVE  OnlyConcerns(s) /\ QueueMoves(s) /\ UNCHANGED hookVars
BY SendsMoves DEF StartCleanup, Becomes, OnlyConcerns, TypeOK, Ops

LEMMA CleanupDoneConcerns ==
    ASSUME TypeOK, NEW s \in Sessions, CleanupDone(s)
    PROVE  OnlyConcerns(s) /\ QueueMoves(s) /\ UNCHANGED hookVars
<1>1. PICK p : Rests(s, p)
  BY DEF CleanupDone, AfterCleanup
<1> QED BY <1>1, RestsMoves DEF CleanupDone, AfterCleanup, Becomes, OnlyConcerns, TypeOK

LEMMA CleanupRetriesConcerns ==
    ASSUME TypeOK, NEW s \in Sessions, CleanupRetries(s)
    PROVE  OnlyConcerns(s) /\ QueueMoves(s) /\ UNCHANGED hookVars
<1>1. CASE Sends(s, "cleanup", "remove") /\ UNCHANGED mode
  BY <1>1, SendsMoves DEF CleanupRetries, OnlyConcerns, TypeOK, Ops
<1>2. CASE AfterCleanup(s, FALSE)
  <2>1. PICK p : Rests(s, p)
    BY <1>2 DEF AfterCleanup
  <2> QED BY <1>2, <2>1, RestsMoves DEF CleanupRetries, AfterCleanup, OnlyConcerns, TypeOK
<1> QED BY <1>1, <1>2 DEF CleanupRetries

LEMMA ProceedConcerns ==
    ASSUME TypeOK, NEW s \in Sessions, Proceed(s)
    PROVE  OnlyConcerns(s) /\ QueueMoves(s) /\ UNCHANGED hookVars
<1> USE DEF Ops
<1>1. CASE InstallAnswered(s)
  BY <1>1, SendsMoves, RestsMoves, StartCleanupConcerns DEF InstallAnswered, OnlyConcerns
<1>2. CASE ObserveAnswered(s)
  BY <1>2, RestsMoves, StartCleanupConcerns DEF ObserveAnswered, OnlyConcerns
<1>3. CASE ArmConfirmed(s)
  BY <1>3, RestsMoves DEF ArmConfirmed, OnlyConcerns, Becomes, TypeOK
<1>4. CASE RemoveAnswered(s)
  BY <1>4, SendsMoves, CleanupDoneConcerns, CleanupRetriesConcerns
     DEF RemoveAnswered, OnlyConcerns
<1>5. CASE VerifyAnswered(s)
  BY <1>5, CleanupDoneConcerns, CleanupRetriesConcerns DEF VerifyAnswered
<1>6. CASE RenewAnswered(s)
  BY <1>6, RestsMoves DEF RenewAnswered, OnlyConcerns
<1> QED BY <1>1, <1>2, <1>3, <1>4, <1>5, <1>6 DEF Proceed

LEMMA CallConcerns ==
    ASSUME TypeOK, NEW s \in Sessions, Call(s)
    PROVE  OnlyConcerns(s) /\ QueueMoves(s) /\ UNCHANGED hookVars
<1> USE DEF Ops
<1>1. CASE Connect(s)
  BY <1>1, RestsMoves DEF Connect, OnlyConcerns
<1>2. CASE Arm(s)
  BY <1>2, SendsMoves DEF Arm, OnlyConcerns, Becomes, TypeOK
<1>3. CASE Renew(s)
  BY <1>3, SendsMoves DEF Renew, OnlyConcerns
<1>4. CASE NextEvent(s)
  BY <1>4, RestsMoves DEF NextEvent, OnlyConcerns, TypeOK
<1>5. CASE Close(s)
  BY <1>5, StartCleanupConcerns DEF Close
<1>6. CASE Drop(s)
  BY <1>6, RestsMoves, StartCleanupConcerns DEF Drop, OnlyConcerns
<1> QED BY <1>1, <1>2, <1>3, <1>4, <1>5, <1>6 DEF Call

LEMMA FaultConcerns ==
    ASSUME TypeOK, NEW s \in Sessions, GiveUp(s) \/ ArmTimesOut(s) \/ Crash(s)
    PROVE  OnlyConcerns(s) /\ QueueMoves(s) /\ UNCHANGED hookVars
<1>1. CASE GiveUp(s)
  BY <1>1 DEF GiveUp, OnlyConcerns, QueueMoves, TypeOK
<1>2. CASE ArmTimesOut(s)
  BY <1>2, SendsMoves DEF ArmTimesOut, OnlyConcerns, Becomes, TypeOK, Ops
<1>3. CASE Crash(s)
  BY <1>3 DEF Crash, OnlyConcerns, QueueMoves, TypeOK
<1> QED BY <1>1, <1>2, <1>3

(* So every other session only loses scripts, and keeps its invariant.     *)
LEMMA MovesThin ==
    ASSUME TypeOK, NEW s \in Sessions, NEW r \in Sessions, r # s, QueueMoves(s)
    PROVE  Thins(queue', queue, r)
<1>1. queue \in Seq(Message)
  BY DEF TypeOK, Message
<1> QED BY <1>1, SameThins, AppendThins, AbandonedThins, RemoveAtThins DEF QueueMoves

LEMMA OthersStand ==
    ASSUME TypeOK, TypeOK', NEW s \in Sessions, NEW r \in Sessions, r # s, OwnInv(r),
           Proceed(s) \/ Call(s) \/ GiveUp(s) \/ ArmTimesOut(s) \/ Crash(s)
    PROVE  OwnInv(r)'
<1>1. OnlyConcerns(s) /\ QueueMoves(s) /\ UNCHANGED hookVars
  BY ProceedConcerns, CallConcerns, FaultConcerns
<1>2. Thins(queue', queue, r)
  BY <1>1, MovesThin
<1>3. UNCHANGED <<owner, subs>>
  BY <1>1 DEF hookVars
<1>4. inbox'[r] = inbox[r]
  BY <1>1 DEF OnlyConcerns
<1>5. (NoArmed(r) => NoArmed(r)') /\ (OneArmed(r) => OneArmed(r)')
  BY <1>4 DEF NoArmed, OneArmed
<1> QED BY <1>1, <1>2, <1>3, <1>5, Bystander DEF OnlyConcerns

-----------------------------------------------------------------------------
(* A session that waits for nothing, or was answered, has nothing live.    *)
LEMMA AnsweredIsNotLive ==
    ASSUME NEW s \in Sessions, OwnInv(s), pc[s] \notin Waiting \/ answer[s] # Pending
    PROVE  NothingLive(s)
BY DEF OwnInv, ScriptsInv, LiveIsAwaited, NothingLive

(* What a call of session s itself does to the session's scripts.          *)
LEMMA SendsScripts ==
    ASSUME TypeOK, NEW s \in Sessions, NEW op \in Ops, NEW p \in Waiting, Sends(s, op, p),
           Expects(p, op), NothingLive(s)
    PROVE  /\ ScriptsInv(s)'
           /\ pc'[s] = p /\ answer'[s] = Pending
           /\ op # "install" /\ NoInstall(s) => NoInstall(s)'
           /\ NoInstall(s) => InstallIsLast(s)'
<1> DEFINE m == [from |-> s, op |-> op, live |-> TRUE]
<1>1. m \in Message /\ m.from = s /\ m.op = op /\ m.live /\ queue' = Append(queue, m)
  BY DEF Sends, Message
<1>2. queue \in Seq(Message)
  BY DEF TypeOK, Message
<1>3. Len(queue) \in Nat
  BY <1>2
<1>4. \A i \in Places' : i = Len(queue) + 1 \/ i \in Places
  BY <1>1, <1>2, <1>3, AppendProperties DEF Places
<1>5. \A i \in Places : i <= Len(queue) + 1 /\ queue'[i] = queue[i]
  BY <1>1, <1>2, <1>3, AppendProperties DEF Places
<1>6. queue'[Len(queue) + 1] = m
  BY <1>1, <1>2, AppendProperties
<1>7. pc'[s] = p /\ answer'[s] = Pending
  BY DEF Sends, TypeOK
<1> HIDE DEF m
<1>8. LiveIsAwaited(s)'
  BY <1>1, <1>4, <1>5, <1>6, <1>7 DEF LiveIsAwaited, NothingLive
<1>9. \A j \in Places' : j <= Len(queue) + 1
  BY <1>3, <1>4, <1>5
<1>10. \A i \in Places' : queue'[i].from = s /\ queue'[i].live => i = Len(queue) + 1
  BY <1>4, <1>5 DEF NothingLive
<1>11. LiveIsLast(s)'
  BY <1>9, <1>10 DEF LiveIsLast
<1>13. ASSUME NoInstall(s)
       PROVE  \A i \in Places' : queue'[i].from = s /\ queue'[i].op = "install"
                  => i = Len(queue) + 1
  BY <1>4, <1>5, <1>13 DEF NoInstall
<1>12. op # "install" /\ NoInstall(s) => NoInstall(s)'
  <2> SUFFICES ASSUME op # "install", NoInstall(s), NEW i \in Places', queue'[i].from = s
               PROVE  queue'[i].op # "install"
    BY DEF NoInstall
  <2>1. CASE i \in Places
    BY <1>5, <2>1 DEF NoInstall
  <2>2. CASE i = Len(queue) + 1
    BY <1>1, <1>6, <2>2
  <2> QED BY <1>4, <2>1, <2>2
<1>14. NoInstall(s) => InstallIsLast(s)'
  BY <1>9, <1>13 DEF InstallIsLast
<1> QED BY <1>7, <1>8, <1>11, <1>12, <1>14 DEF ScriptsInv

LEMMA RestsScripts ==
    ASSUME TypeOK, NEW s \in Sessions, NEW p, Rests(s, p), NothingLive(s)
    PROVE  /\ ScriptsInv(s)'
           /\ pc'[s] = p /\ answer'[s] = Pending
           /\ NoInstall(s) => NoInstall(s)'
<1>1. UNCHANGED queue /\ pc'[s] = p /\ answer'[s] = Pending
  BY DEF Rests, TypeOK
<1>2. LiveIsAwaited(s)'
  BY <1>1 DEF LiveIsAwaited, NothingLive, Places
<1>3. LiveIsLast(s)'
  BY <1>1 DEF LiveIsLast, NothingLive, Places
<1>4. NoInstall(s) => NoInstall(s)'
  BY <1>1 DEF NoInstall, Places
<1> QED BY <1>1, <1>2, <1>3, <1>4 DEF ScriptsInv

(* What a call does not touch keeps its meaning.                           *)
LEMMA InboxStays ==
    ASSUME NEW s, inbox'[s] = inbox[s]
    PROVE  (NoArmed(s) <=> NoArmed(s)') /\ (OneArmed(s) <=> OneArmed(s)')
BY DEF NoArmed, OneArmed

LEMMA RemovedStays ==
    ASSUME NEW s, UNCHANGED hookVars, NoInstall(s) => NoInstall(s)'
    PROVE  Removed(s) => Removed(s)'
BY DEF Removed, hookVars

(* The teardown of a session: it starts, it is tried again, it is done.    *)
LEMMA CleanupSends ==
    ASSUME TypeOK, NEW s \in Sessions, NothingLive(s), Sends(s, "cleanup", "remove")
    PROVE  /\ ScriptsInv(s)'
           /\ pc'[s] = "remove" /\ answer'[s] = Pending
           /\ NoInstall(s) => NoInstall(s)'
BY SendsScripts DEF Expects, Ops, Waiting

LEMMA RemovingIsOwn ==
    ASSUME NEW s \in Sessions, ScriptsInv(s), pc[s] = "remove", answer[s] # Ok,
           st[s] = "Closed" => Removed(s),
           mode[s] # "close" \/ (NoArmed(s) /\ NoInstall(s))
    PROVE  OwnInv(s)
BY DEF OwnInv, CallInv, CleanIfRemoved, ModeIsOfTeardown, StartsAfresh, QuietWhenIdle, ArmedIsOwn

LEMMA StartCleanupOwn ==
    ASSUME TypeOK, NEW s \in Sessions, NothingLive(s), NEW m,
           StartCleanup(s, m), m # "close" \/ (NoArmed(s) /\ NoInstall(s))
    PROVE  OwnInv(s)'
<1>1. st'[s] = "RestorePending" /\ mode'[s] = m /\ inbox'[s] = inbox[s]
  BY DEF StartCleanup, Becomes, TypeOK
<1>2. /\ ScriptsInv(s)' /\ pc'[s] = "remove" /\ answer'[s] = Pending
      /\ NoInstall(s) => NoInstall(s)'
  BY CleanupSends DEF StartCleanup
<1>3. NoArmed(s) <=> NoArmed(s)'
  BY <1>1, InboxStays
<1>4. (pc[s] = "remove" /\ answer[s] # Ok /\ (st[s] = "Closed" => Removed(s)))'
  BY <1>1, <1>2 DEF Pending, Ok
<1>5. (mode[s] # "close" \/ (NoArmed(s) /\ NoInstall(s)))'
  BY <1>1, <1>2, <1>3
<1> QED BY <1>2, <1>4, <1>5, RemovingIsOwn, PTL

-----------------------------------------------------------------------------
(* A session at rest asks little of its invariant.                         *)
LEMMA RestingIsOwn ==
    ASSUME NEW s \in Sessions, ScriptsInv(s), pc[s] \in Resting, mode[s] = "arm",
           st[s] = "Closed" => Removed(s),
           pc[s] = "idle" => NoArmed(s) /\ NoInstall(s)
    PROVE  OwnInv(s)
BY DEF OwnInv, CallInv, CleanIfRemoved, ModeIsOfTeardown, StartsAfresh, QuietWhenIdle,
       ArmedIsOwn, Resting

(* How a teardown ends.                                                    *)
LEMMA CleanupDoneOwn ==
    ASSUME TypeOK, NEW s \in Sessions, NothingLive(s), OwnInv(s), Removed(s), CleanupDone(s)
    PROVE  OwnInv(s)'
<1>1. PICK p \in Resting : Rests(s, p) /\ (p = "idle" => mode[s] = "close")
  BY DEF CleanupDone, AfterCleanup, Resting
<1>2. /\ ScriptsInv(s)' /\ pc'[s] = p
      /\ NoInstall(s) => NoInstall(s)'
  BY <1>1, RestsScripts
<1>3. mode'[s] = "arm" /\ inbox'[s] = inbox[s]
  BY DEF CleanupDone, AfterCleanup, TypeOK
<1>4. Removed(s)'
  BY <1>2, RemovedStays DEF CleanupDone
<1>5. p = "idle" => NoArmed(s) /\ NoInstall(s)
  BY <1>1 DEF OwnInv, CallInv, QuietWhenIdle
<1>6. (pc[s] = "idle" => NoArmed(s) /\ NoInstall(s))'
  BY <1>2, <1>3, <1>5, InboxStays
<1>7. (ScriptsInv(s) /\ pc[s] \in Resting /\ mode[s] = "arm"
          /\ (st[s] = "Closed" => Removed(s)))'
  BY <1>2, <1>3, <1>4
<1> QED BY <1>6, <1>7, RestingIsOwn, PTL

LEMMA CleanupRetriesOwn ==
    ASSUME TypeOK, NEW s \in Sessions, NothingLive(s), OwnInv(s), CleanupRetries(s)
    PROVE  OwnInv(s)'
<1>1. st'[s] = st[s] /\ inbox'[s] = inbox[s] /\ UNCHANGED hookVars
  BY DEF CleanupRetries, TypeOK
<1>2. ASSUME NoInstall(s) => NoInstall(s)'
      PROVE  st'[s] = "Closed" => Removed(s)'
  BY <1>1, <1>2, RemovedStays DEF OwnInv, CallInv, CleanIfRemoved
<1>3. CASE Sends(s, "cleanup", "remove") /\ UNCHANGED mode
  <2>1. /\ ScriptsInv(s)' /\ pc'[s] = "remove" /\ answer'[s] = Pending
        /\ NoInstall(s) => NoInstall(s)'
    BY <1>3, CleanupSends
  <2>2. mode'[s] # "close" \/ (NoArmed(s) /\ NoInstall(s))
    BY <1>3 DEF OwnInv, CallInv, QuietWhenIdle
  <2>3. (mode[s] # "close" \/ (NoArmed(s) /\ NoInstall(s)))'
    BY <1>1, <2>1, <2>2, InboxStays
  <2>4. (pc[s] = "remove" /\ answer[s] # Ok /\ (st[s] = "Closed" => Removed(s)))'
    BY <1>2, <2>1 DEF Pending, Ok
  <2> QED BY <2>1, <2>3, <2>4, RemovingIsOwn, PTL
<1>4. CASE AfterCleanup(s, FALSE)
  <2>1. PICK p \in Resting \ {"idle"} : Rests(s, p)
    BY <1>4 DEF AfterCleanup, Resting
  <2>2. ScriptsInv(s)' /\ pc'[s] = p /\ (NoInstall(s) => NoInstall(s)')
    BY <2>1, RestsScripts
  <2>3. mode'[s] = "arm"
    BY <1>4 DEF AfterCleanup, TypeOK
  <2>4. (/\ ScriptsInv(s) /\ pc[s] \in Resting /\ mode[s] = "arm"
         /\ st[s] = "Closed" => Removed(s)
         /\ pc[s] = "idle" => NoArmed(s) /\ NoInstall(s))'
    BY <1>2, <2>1, <2>2, <2>3
  <2> QED BY <2>4, RestingIsOwn, PTL
<1> QED BY <1>3, <1>4 DEF CleanupRetries

-----------------------------------------------------------------------------
(* After the second half of an arm there is at most the line to wait for.  *)
LEMMA ArmingIsOwn ==
    ASSUME NEW s \in Sessions, ScriptsInv(s), pc[s] \in {"observe", "await"},
           mode[s] = "arm", OneArmed(s), NoInstall(s), st[s] = "Closed" => Removed(s)
    PROVE  OwnInv(s)
BY DEF OwnInv, CallInv, CleanIfRemoved, ModeIsOfTeardown, StartsAfresh, QuietWhenIdle,
       ArmedIsOwn

(* Each answer that a session goes on with keeps its own invariant.        *)
LEMMA InstallAnsweredOwn ==
    ASSUME TypeOK, NEW s \in Sessions, OwnInv(s), InstallAnswered(s)
    PROVE  OwnInv(s)'
<1>1. NothingLive(s) /\ pc[s] = "install"
  BY AnsweredIsNotLive DEF InstallAnswered, Answered
<1>2. OneArmed(s) /\ mode[s] = "arm" /\ (answer[s] = Ok => NoInstall(s))
  BY <1>1 DEF OwnInv, CallInv, ArmedIsOwn, ModeIsOfTeardown
<1>3. CASE answer[s] = Failed /\ StartCleanup(s, "arm")
  BY <1>1, <1>3, StartCleanupOwn
<1>4. ASSUME answer[s] = Ok,
             Sends(s, "query", "observe") \/ Rests(s, "await"),
             UNCHANGED <<hookVars, st, mode, attempt, saved, arms, inbox, ipcFaults, crashes>>
      PROVE  OwnInv(s)'
  <2>1. /\ ScriptsInv(s)' /\ pc'[s] \in {"observe", "await"}
        /\ NoInstall(s) => NoInstall(s)'
    <3>1. CASE Sends(s, "query", "observe")
      BY <1>1, <3>1, SendsScripts DEF Expects, Ops, Waiting
    <3>2. CASE Rests(s, "await")
      BY <1>1, <3>2, RestsScripts
    <3> QED BY <1>4, <3>1, <3>2
  <2>2. st'[s] = "Closed" => Removed(s)'
    BY <1>4, <2>1, RemovedStays DEF OwnInv, CallInv, CleanIfRemoved
  <2>3. (/\ ScriptsInv(s) /\ pc[s] \in {"observe", "await"} /\ mode[s] = "arm"
         /\ OneArmed(s) /\ NoInstall(s) /\ (st[s] = "Closed" => Removed(s)))'
    BY <1>2, <1>4, <2>1, <2>2, InboxStays
  <2> QED BY <2>3, ArmingIsOwn, PTL
<1> QED BY <1>3, <1>4 DEF InstallAnswered

-----------------------------------------------------------------------------
LEMMA ObserveAnsweredOwn ==
    ASSUME TypeOK, NEW s \in Sessions, OwnInv(s), ObserveAnswered(s)
    PROVE  OwnInv(s)'
<1>1. NothingLive(s) /\ pc[s] = "observe"
  BY AnsweredIsNotLive DEF ObserveAnswered, Answered
<1>2. OneArmed(s) /\ NoInstall(s) /\ mode[s] = "arm"
  BY <1>1 DEF OwnInv, CallInv, ArmedIsOwn, ModeIsOfTeardown
<1>3. CASE StartCleanup(s, "arm")
  BY <1>1, <1>3, StartCleanupOwn
<1>4. CASE Rests(s, "await")
           /\ UNCHANGED <<hookVars, st, mode, attempt, saved, arms, inbox, ipcFaults, crashes>>
  <2>1. ScriptsInv(s)' /\ pc'[s] = "await" /\ (NoInstall(s) => NoInstall(s)')
    BY <1>1, <1>4, RestsScripts
  <2>2. st'[s] = "Closed" => Removed(s)'
    BY <1>4, <2>1, RemovedStays DEF OwnInv, CallInv, CleanIfRemoved
  <2>3. (/\ ScriptsInv(s) /\ pc[s] \in {"observe", "await"} /\ mode[s] = "arm"
         /\ OneArmed(s) /\ NoInstall(s) /\ (st[s] = "Closed" => Removed(s)))'
    BY <1>2, <1>4, <2>1, <2>2, InboxStays
  <2> QED BY <2>3, ArmingIsOwn, PTL
<1> QED BY <1>3, <1>4 DEF ObserveAnswered

(* Reading up to the session's own line leaves no such line behind.        *)
LEMMA ArmConfirmedOwn ==
    ASSUME TypeOK, NEW s \in Sessions, OwnInv(s), ArmConfirmed(s)
    PROVE  OwnInv(s)'
<1> DEFINE q == inbox[s]
           k == UpToArmed(inbox[s])
<1>1. NothingLive(s) /\ pc[s] = "await"
  BY AnsweredIsNotLive DEF ArmConfirmed, Waiting
<1>2. OneArmed(s) /\ NoInstall(s) /\ mode[s] = "arm"
  BY <1>1 DEF OwnInv, CallInv, ArmedIsOwn, ModeIsOfTeardown
<1>3. ScriptsInv(s)' /\ pc'[s] = "idle" /\ NoInstall(s)'
  BY <1>1, <1>2, RestsScripts DEF ArmConfirmed
<1>4. q \in Seq(Lines) /\ k \in 1 .. Len(q) /\ q[k] = "armed"
  BY UpToArmedIsPlace DEF ArmConfirmed, TypeOK
<1>5. inbox'[s] = SubSeq(q, k + 1, Len(q))
  BY DEF ArmConfirmed, TypeOK
<1>6. \A i \in 1 .. Len(q) : i # k => q[i] # "armed"
  BY <1>2, <1>4 DEF OneArmed
<1>7. NoArmed(s)'
  <2> HIDE DEF q, k
  <2>1. /\ Len(SubSeq(q, k + 1, Len(q))) = Len(q) - k
        /\ \A i \in 1 .. Len(q) - k : SubSeq(q, k + 1, Len(q))[i] = q[k + i]
    BY <1>4, SubSeqProperties
  <2>2. \A i \in 1 .. Len(q) - k : q[k + i] # "armed"
    BY <1>4, <1>6
  <2> QED BY <1>5, <2>1, <2>2 DEF NoArmed
<1>8. st'[s] # "Closed" /\ mode'[s] = "arm"
  BY <1>2 DEF ArmConfirmed, Becomes, TypeOK
<1>9. (/\ ScriptsInv(s) /\ pc[s] \in Resting /\ mode[s] = "arm"
       /\ st[s] = "Closed" => Removed(s)
       /\ pc[s] = "idle" => NoArmed(s) /\ NoInstall(s))'
  BY <1>3, <1>7, <1>8 DEF Resting
<1> QED BY <1>9, RestingIsOwn, PTL

LEMMA RemoveAnsweredOwn ==
    ASSUME TypeOK, NEW s \in Sessions, OwnInv(s), RemoveAnswered(s)
    PROVE  OwnInv(s)'
<1>1. NothingLive(s) /\ pc[s] = "remove"
  BY AnsweredIsNotLive DEF RemoveAnswered, Answered
<1>2. answer[s] = Ok => Removed(s)
  BY <1>1 DEF OwnInv, CallInv, CleanIfRemoved
<1>3. CASE CleanupDone(s) /\ answer[s] = Ok
  BY <1>1, <1>2, <1>3, CleanupDoneOwn
<1>4. CASE CleanupRetries(s)
  BY <1>1, <1>4, CleanupRetriesOwn
<1>5. CASE /\ answer[s] = Ok
           /\ Sends(s, "query", "verify")
           /\ UNCHANGED <<hookVars, st, mode, attempt, saved, arms, inbox, ipcFaults,
                          crashes>>
  <2>1. ScriptsInv(s)' /\ pc'[s] = "verify" /\ (NoInstall(s) => NoInstall(s)')
    BY <1>1, <1>5, SendsScripts DEF Expects, Ops, Waiting
  <2>2. Removed(s)' /\ NoInstall(s)'
    BY <1>2, <1>5, <2>1, RemovedStays DEF Removed
  <2>3. mode[s] = "close" => NoArmed(s)
    BY DEF OwnInv, CallInv, QuietWhenIdle
  <2>4. mode'[s] = "close" => NoArmed(s)'
    BY <1>5, <2>3, InboxStays
  <2> QED BY <2>1, <2>2, <2>4 DEF OwnInv, CallInv, CleanIfRemoved, ModeIsOfTeardown,
             StartsAfresh, QuietWhenIdle, ArmedIsOwn
<1> QED BY <1>3, <1>4, <1>5 DEF RemoveAnswered

LEMMA VerifyAnsweredOwn ==
    ASSUME TypeOK, NEW s \in Sessions, OwnInv(s), VerifyAnswered(s)
    PROVE  OwnInv(s)'
<1>1. NothingLive(s) /\ pc[s] = "verify"
  BY AnsweredIsNotLive DEF VerifyAnswered, Answered
<1>2. Removed(s)
  BY <1>1 DEF OwnInv, CallInv, CleanIfRemoved
<1> QED BY <1>1, <1>2, CleanupDoneOwn, CleanupRetriesOwn DEF VerifyAnswered

(* A call that neither installs nor removes and ends at rest.              *)
LEMMA RestingCallOwn ==
    ASSUME TypeOK, NEW s \in Sessions, OwnInv(s), NothingLive(s), NEW p \in Resting,
           Rests(s, p), UNCHANGED <<hookVars, st, mode>>,
           mode[s] = "arm",
           p = "idle" => NoInstall(s) /\ NoArmed(s)'
    PROVE  OwnInv(s)'
<1>1. ScriptsInv(s)' /\ pc'[s] = p /\ (NoInstall(s) => NoInstall(s)')
  BY RestsScripts
<1>2. st'[s] = "Closed" => Removed(s)'
  BY <1>1, RemovedStays DEF OwnInv, CallInv, CleanIfRemoved
<1>3. (/\ ScriptsInv(s) /\ pc[s] \in Resting /\ mode[s] = "arm"
       /\ st[s] = "Closed" => Removed(s)
       /\ pc[s] = "idle" => NoArmed(s) /\ NoInstall(s))'
  BY <1>1, <1>2
<1> QED BY <1>3, RestingIsOwn, PTL

LEMMA RenewAnsweredOwn ==
    ASSUME TypeOK, NEW s \in Sessions, OwnInv(s), RenewAnswered(s)
    PROVE  OwnInv(s)'
<1>1. NothingLive(s) /\ pc[s] = "renew"
  BY AnsweredIsNotLive DEF RenewAnswered, Answered
<1>2. NoArmed(s) /\ NoInstall(s) /\ mode[s] = "arm"
  BY <1>1 DEF OwnInv, CallInv, QuietWhenIdle, ModeIsOfTeardown
<1>3. PICK p \in Resting : Rests(s, p)
  BY DEF RenewAnswered, Resting
<1>4. UNCHANGED <<hookVars, st, mode, inbox>>
  BY DEF RenewAnswered
<1>5. NoArmed(s)'
  BY <1>2, <1>4, InboxStays
<1> QED BY <1>1, <1>2, <1>3, <1>4, <1>5, RestingCallOwn

(* Every answer and every call of the session's caller does.               *)
LEMMA ProceedOwn ==
    ASSUME TypeOK, NEW s \in Sessions, OwnInv(s), Proceed(s)
    PROVE  OwnInv(s)'
BY InstallAnsweredOwn, ObserveAnsweredOwn, ArmConfirmedOwn, RemoveAnsweredOwn,
   VerifyAnsweredOwn, RenewAnsweredOwn DEF Proceed

LEMMA CallOwn ==
    ASSUME TypeOK, NEW s \in Sessions, OwnInv(s), Call(s)
    PROVE  OwnInv(s)'
<1>1. NothingLive(s) /\ mode[s] = "arm"
  <2>1. pc[s] \in {"start", "idle", "failed"}
    BY DEF Call, Connect, Arm, Renew, NextEvent, Close, Drop
  <2> QED BY <2>1, AnsweredIsNotLive DEF Waiting, OwnInv, CallInv, ModeIsOfTeardown
<1>2. pc[s] \in {"start", "idle"} => NoArmed(s) /\ NoInstall(s)
  BY DEF OwnInv, CallInv, StartsAfresh, QuietWhenIdle, NoneOf, NoInstall
<1>3. CASE Connect(s)
  <2>1. UNCHANGED <<hookVars, st, mode, inbox>> /\ pc[s] = "start" /\ Rests(s, "idle")
    BY <1>3 DEF Connect
  <2>2. NoArmed(s)'
    BY <1>2, <2>1, InboxStays
  <2> QED BY <1>1, <1>2, <2>1, <2>2, RestingCallOwn DEF Resting
<1>4. CASE Arm(s)
  <2>1. /\ ScriptsInv(s)' /\ pc'[s] = "install" /\ answer'[s] = Pending
        /\ InstallIsLast(s)'
    BY <1>1, <1>2, <1>4, SendsScripts DEF Arm, Expects, Ops, Waiting
  <2>2. st'[s] = "Installing" /\ mode'[s] = "arm" /\ inbox'[s] = inbox[s]
    BY <1>1, <1>4 DEF Arm, Becomes, TypeOK
  <2>3. NoArmed(s)' /\ OneArmed(s)'
    BY <1>2, <1>4, <2>2, InboxStays DEF Arm, NoArmed, OneArmed
  <2> QED BY <2>1, <2>2, <2>3 DEF OwnInv, CallInv, CleanIfRemoved, ModeIsOfTeardown,
             StartsAfresh, QuietWhenIdle, ArmedIsOwn, Pending, Ok
<1>5. CASE Renew(s)
  <2>1. ScriptsInv(s)' /\ pc'[s] = "renew" /\ (NoInstall(s) => NoInstall(s)')
    BY <1>1, <1>5, SendsScripts DEF Renew, Expects, Ops, Waiting
  <2>2. st'[s] = st[s] /\ st[s] = "Armed" /\ mode'[s] = "arm" /\ inbox'[s] = inbox[s]
    BY <1>1, <1>5 DEF Renew
  <2>3. NoArmed(s)' /\ NoInstall(s)'
    BY <1>2, <1>5, <2>1, <2>2, InboxStays DEF Renew
  <2> QED BY <2>1, <2>2, <2>3 DEF OwnInv, CallInv, CleanIfRemoved, ModeIsOfTeardown,
             StartsAfresh, QuietWhenIdle, ArmedIsOwn
<1>6. CASE NextEvent(s)
  <2>1. PICK p \in Resting : Rests(s, p)
    BY <1>6 DEF NextEvent, Resting
  <2>2. inbox[s] \in Seq(Lines) /\ inbox[s] # <<>> /\ inbox'[s] = Tail(inbox[s])
    BY <1>6 DEF NextEvent, TypeOK
  <2>3. /\ Len(Tail(inbox[s])) = Len(inbox[s]) - 1
        /\ \A i \in 1 .. Len(inbox[s]) - 1 : Tail(inbox[s])[i] = inbox[s][i + 1]
    BY <2>2, HeadTailProperties
  <2>4. Len(inbox[s]) \in Nat
    BY <2>2
  <2>5. NoArmed(s) /\ NoInstall(s)
    BY <1>2, <1>6 DEF NextEvent
  <2>6. NoArmed(s)'
    BY <2>2, <2>3, <2>4, <2>5 DEF NoArmed
  <2>7. UNCHANGED <<hookVars, st, mode>>
    BY <1>6 DEF NextEvent
  <2> QED BY <1>1, <2>1, <2>5, <2>6, <2>7, RestingCallOwn
<1>7. CASE Close(s)
  BY <1>1, <1>2, <1>7, StartCleanupOwn DEF Close
<1>8. CASE Drop(s)
  <2>1. CASE StartCleanup(s, "drop")
    BY <1>1, <2>1, StartCleanupOwn
  <2>2. CASE Rests(s, "gone") /\ UNCHANGED <<hookVars, st, mode>>
    BY <1>1, <2>2, RestingCallOwn DEF Resting
  <2> QED BY <1>8, <2>1, <2>2 DEF Drop
<1> QED BY <1>3, <1>4, <1>5, <1>6, <1>7, <1>8 DEF Call

-----------------------------------------------------------------------------
(* A session whose scripts are abandoned has nothing live.                 *)
LEMMA AbandonedIsNotLive ==
    ASSUME TypeOK, NEW s \in Sessions, queue' = Abandoned(queue, s)
    PROVE  NothingLive(s)'
<1>1. queue \in Seq(Message)
  BY DEF TypeOK, Message
<1>2. /\ Len(queue') = Len(queue)
      /\ \A i \in 1 .. Len(queue) :
             /\ queue'[i].from = queue[i].from
             /\ queue'[i].live = (queue[i].live /\ queue[i].from # s)
  BY <1>1, AbandonedProperties
<1> QED BY <1>2 DEF NothingLive, Places

(* An answer that never arrives: nothing of the session is live any more.  *)
LEMMA GiveUpOwn ==
    ASSUME TypeOK, TypeOK', NEW s \in Sessions, OwnInv(s), GiveUp(s)
    PROVE  OwnInv(s)'
<1>1. queue \in Seq(Message)
  BY DEF TypeOK, Message
<1>2. Thins(queue', queue, s)
  BY <1>1, AbandonedThins, RemoveAtThins DEF GiveUp
<1>3. NothingLive(s)'
  <2>1. CASE queue' = Abandoned(queue, s)
    BY <2>1, AbandonedIsNotLive
  <2>2. ASSUME NEW k \in 1 .. Len(queue), queue[k].from = s, queue[k].live,
               queue' = RemoveAt(queue, k)
        PROVE  NothingLive(s)'
    <3>1. \A i \in Places : queue[i].from = s /\ i # k => ~queue[i].live
      BY <1>1, <2>2 DEF OwnInv, ScriptsInv, LiveIsLast, Places
    <3>2. /\ Places' = 1 .. Len(queue) - 1
          /\ \A i \in 1 .. Len(queue) - 1 : queue'[i] = queue[IF i < k THEN i ELSE i + 1]
      BY <1>1, <2>2, RemoveAtProperties DEF Places
    <3>3. ASSUME NEW i \in Places', queue'[i].from = s PROVE ~queue'[i].live
      <4> DEFINE j == IF i < k THEN i ELSE i + 1
      <4>1. j \in Places /\ j # k
        BY <1>1, <3>2 DEF Places
      <4>2. queue'[i] = queue[j]
        BY <3>2, <3>3
      <4> QED BY <3>1, <3>3, <4>1, <4>2
    <3> QED BY <3>3 DEF NothingLive
  <2> QED BY <2>1, <2>2, PlacesAreDomain DEF GiveUp, Places
<1>4. ScriptsInv(s)'
  BY <1>2, <1>3, ThinningKeeps DEF OwnInv, ScriptsInv, LiveIsAwaited, NothingLive
<1>5. /\ st'[s] = st[s] /\ pc'[s] = pc[s] /\ mode'[s] = mode[s] /\ answer'[s] = Failed
      /\ inbox'[s] = inbox[s] /\ UNCHANGED hookVars
  BY DEF GiveUp, TypeOK
<1>6. /\ NoArmed(s) <=> NoArmed(s)'
      /\ OneArmed(s) <=> OneArmed(s)'
  BY <1>5, InboxStays
<1>7. /\ NoneOf(s) => NoneOf(s)'
      /\ NoInstall(s) => NoInstall(s)'
      /\ InstallIsLast(s) => InstallIsLast(s)'
  BY <1>2, ThinningKeeps
<1>8. CleanIfRemoved(s)'
  BY <1>5, <1>7, RemovedStays DEF OwnInv, CallInv, CleanIfRemoved, Failed, Ok
<1>9. ModeIsOfTeardown(s)' /\ StartsAfresh(s)' /\ QuietWhenIdle(s)' /\ ArmedIsOwn(s)'
  BY <1>5, <1>6, <1>7 DEF OwnInv, CallInv, ModeIsOfTeardown, StartsAfresh, QuietWhenIdle,
     ArmedIsOwn, Failed, Ok
<1> QED BY <1>4, <1>8, <1>9 DEF OwnInv, CallInv

LEMMA ArmTimesOutOwn ==
    ASSUME TypeOK, NEW s \in Sessions, OwnInv(s), ArmTimesOut(s)
    PROVE  OwnInv(s)'
<1>1. NothingLive(s) /\ mode[s] = "arm"
  BY AnsweredIsNotLive DEF ArmTimesOut, Waiting, OwnInv, CallInv, ModeIsOfTeardown
<1>2. ScriptsInv(s)' /\ pc'[s] = "remove" /\ answer'[s] = Pending
  BY <1>1, CleanupSends DEF ArmTimesOut
<1>3. st'[s] = "RestorePending" /\ mode'[s] = "arm"
  BY <1>1 DEF ArmTimesOut, Becomes, TypeOK
<1>4. (/\ ScriptsInv(s) /\ pc[s] = "remove" /\ answer[s] # Ok
       /\ st[s] = "Closed" => Removed(s)
       /\ mode[s] # "close" \/ (NoArmed(s) /\ NoInstall(s)))'
  BY <1>2, <1>3 DEF Pending, Ok
<1> QED BY <1>4, RemovingIsOwn, PTL

LEMMA CrashOwn ==
    ASSUME TypeOK, TypeOK', NEW s \in Sessions, OwnInv(s), Crash(s)
    PROVE  OwnInv(s)'
<1>1. queue \in Seq(Message)
  BY DEF TypeOK, Message
<1>2. Thins(queue', queue, s)
  BY <1>1, AbandonedThins DEF Crash
<1>3. NothingLive(s)'
  BY AbandonedIsNotLive DEF Crash
<1>4. ScriptsInv(s)'
  BY <1>2, <1>3, ThinningKeeps DEF OwnInv, ScriptsInv, LiveIsAwaited, NothingLive
<1>5. st'[s] = st[s] /\ pc'[s] = "gone" /\ mode'[s] = "arm" /\ UNCHANGED hookVars
  BY DEF Crash, TypeOK
<1>6. st'[s] = "Closed" => Removed(s)'
  BY <1>2, <1>5, ThinningKeeps, RemovedStays DEF OwnInv, CallInv, CleanIfRemoved
<1>7. (/\ ScriptsInv(s) /\ pc[s] \in Resting /\ mode[s] = "arm"
       /\ st[s] = "Closed" => Removed(s)
       /\ pc[s] = "idle" => NoArmed(s) /\ NoInstall(s))'
  BY <1>4, <1>5, <1>6 DEF Resting
<1> QED BY <1>7, RestingIsOwn, PTL

-----------------------------------------------------------------------------
(* Hyprland serves the oldest script.                                      *)

(* For every other session the queue only gets shorter.                    *)
LEMMA ServeOthersStand ==
    ASSUME TypeOK, TypeOK', NEW s \in Sessions, NEW r \in Sessions, r # s, OwnInv(r),
           ServeInstall(s) \/ ServeCleanup(s) \/ ServeRenew(s) \/ ServeQuery(s)
    PROVE  OwnInv(r)'
<1>1. queue \in Seq(Message) /\ queue # <<>> /\ queue' = Tail(queue)
  BY DEF TypeOK, Message, ServeInstall, ServeCleanup, ServeRenew, ServeQuery, Serving, Answers_
<1>2. Thins(queue', queue, r)
  BY <1>1, TailThins
<1>3. UNCHANGED <<st, pc, mode>> /\ answer'[r] = answer[r]
  <2>1. PICK result : Answers_(s, result)
    BY DEF ServeInstall, ServeCleanup, ServeRenew, ServeQuery
  <2> QED BY <2>1 DEF Answers_, TypeOK
<1>4. inbox'[r] = inbox[r]
  BY DEF TypeOK, ServeInstall, ServeCleanup, ServeRenew, ServeQuery, Emitted
<1>5. owner' = r => owner = r
  BY HookAssumption DEF ServeInstall, ServeCleanup, ServeRenew, ServeQuery, InstallRefused,
     InstallSucceeds, InstallUndone, InstallStuck, CleanupRestores, CleanupRestoreFails,
     CleanupRecovers, CleanupRecoveryFails, CleanupRefused, Renews, RenewRefused,
     Subscribes, SubscribeFails, Unsubscribes, RenewsEntry, RenewEntryRefused, SubsBecome,
     Released, hookVars, Sessions
<1>6. r \in subs' => r \in subs
  BY DEF ServeInstall, ServeCleanup, ServeRenew, ServeQuery, InstallRefused,
     InstallSucceeds, InstallUndone, InstallStuck, CleanupRestores, CleanupRestoreFails,
     CleanupRecovers, CleanupRecoveryFails, CleanupRefused, Renews, RenewRefused,
     Subscribes, SubscribeFails, Unsubscribes, RenewsEntry, RenewEntryRefused, SubsBecome,
     hookVars
<1> QED BY <1>2, <1>3, <1>4, <1>5, <1>6, Bystander, InboxStays

(* The script of a session that is served is the only one it has when its  *)
(* answer is wanted, or when it is an install the session waits for.       *)
LEMMA ServedProperties ==
    ASSUME TypeOK, NEW s \in Sessions, OwnInv(s), queue # <<>>, Head(queue).from = s,
           queue' = Tail(queue)
    PROVE  /\ Head(queue).live => NoneOf(s)' /\ NothingLive(s)'
           /\ Head(queue).live => /\ pc[s] \in Waiting
                                  /\ Expects(pc[s], Head(queue).op)
           /\ Head(queue).op = "install" => ~NoInstall(s) /\ ~NoneOf(s)
           /\ Head(queue).op = "install" /\ pc[s] = "install" => NoneOf(s)'
           /\ NoneOf(s)' => NoInstall(s)' /\ NothingLive(s)' /\ InstallIsLast(s)'
<1>1. queue \in Seq(Message) /\ Len(queue) \in Nat /\ Head(queue) = queue[1] /\ 1 \in Places
  BY DEF TypeOK, Message, Places
<1>2. /\ Places' = 1 .. Len(queue) - 1
      /\ \A i \in 1 .. Len(queue) - 1 : queue'[i] = queue[i + 1]
  BY <1>1, HeadTailProperties DEF Places
<1>3. ASSUME \A j \in Places : queue[j].from = s => j <= 1
      PROVE  NoneOf(s)'
  <2> SUFFICES ASSUME NEW i \in Places', queue'[i].from = s PROVE FALSE
    BY DEF NoneOf
  <2>1. i + 1 \in Places /\ i + 1 > 1 /\ queue[i + 1].from = s
    BY <1>1, <1>2 DEF Places
  <2> QED BY <1>1, <1>3, <2>1 DEF Places
<1>4. NoneOf(s)' => NoInstall(s)' /\ NothingLive(s)' /\ InstallIsLast(s)'
  BY DEF NoneOf, NoInstall, NothingLive, InstallIsLast
<1>5. Head(queue).live => NoneOf(s)'
  BY <1>1, <1>3 DEF OwnInv, ScriptsInv, LiveIsLast
<1>6. Head(queue).live => pc[s] \in Waiting /\ Expects(pc[s], Head(queue).op)
  BY <1>1 DEF OwnInv, ScriptsInv, LiveIsAwaited
<1>7. Head(queue).op = "install" => ~NoInstall(s) /\ ~NoneOf(s)
  BY <1>1 DEF NoInstall, NoneOf
<1>8. Head(queue).op = "install" /\ pc[s] = "install" => NoneOf(s)'
  BY <1>1, <1>3 DEF OwnInv, CallInv, ArmedIsOwn, InstallIsLast
<1> QED BY <1>4, <1>5, <1>6, <1>7, <1>8

-----------------------------------------------------------------------------
(* What serving a script does to the session that sent it.                 *)
LEMMA ServedScripts ==
    ASSUME TypeOK, TypeOK', NEW s \in Sessions, OwnInv(s), queue # <<>>,
           Head(queue).from = s, NEW result, Answers_(s, result)
    PROVE  /\ ScriptsInv(s)'
           /\ UNCHANGED <<st, pc, mode>>
           /\ ~Head(queue).live => answer'[s] = answer[s]
           /\ Head(queue).live => answer'[s] = result
           /\ NoneOf(s) => NoneOf(s)'
           /\ NoInstall(s) => NoInstall(s)'
           /\ InstallIsLast(s) => InstallIsLast(s)'
<1>1. Thins(queue', queue, s)
  BY TailThins DEF TypeOK, Message, Answers_
<1>2. /\ UNCHANGED <<st, pc, mode>>
      /\ ~Head(queue).live => answer'[s] = answer[s]
      /\ Head(queue).live => answer'[s] = result
  BY DEF Answers_, TypeOK
<1>3. CASE Head(queue).live
  <2>1. NothingLive(s)'
    BY <1>3, ServedProperties DEF Answers_
  <2> QED BY <1>1, <1>2, <2>1, ThinningKeeps
          DEF ScriptsInv, LiveIsAwaited, LiveIsLast, NothingLive
<1>4. CASE ~Head(queue).live
  BY <1>1, <1>2, <1>4, ThinningKeeps DEF OwnInv, ScriptsInv
<1> QED BY <1>3, <1>4

(* A served install: the session is arming, or its arm was given up.       *)
LEMMA ServeInstallOwn ==
    ASSUME TypeOK, TypeOK', NEW s \in Sessions, OwnInv(s), ServeInstall(s)
    PROVE  OwnInv(s)'
<1>1. PICK result : Answers_(s, result)
  BY DEF ServeInstall
<1>2. queue # <<>> /\ Head(queue).from = s /\ Head(queue).op = "install"
  BY DEF ServeInstall, Serving
<1>3. /\ ~NoInstall(s) /\ ~NoneOf(s)
      /\ Head(queue).live => pc[s] = "install"
      /\ pc[s] = "install" => NoneOf(s)' /\ NoInstall(s)' /\ InstallIsLast(s)'
  BY <1>1, <1>2, ServedProperties DEF Answers_, Expects
<1>4. /\ ScriptsInv(s)'
      /\ UNCHANGED <<st, pc, mode>>
      /\ ~Head(queue).live => answer'[s] = answer[s]
  BY <1>1, <1>2, ServedScripts
<1>5. /\ st[s] # "Closed" /\ mode[s] # "close"
      /\ pc[s] \notin {"start", "idle", "renew", "observe", "await", "verify"}
      /\ pc[s] = "remove" => answer[s] # Ok
      /\ pc[s] = "install" => NoArmed(s)
  BY <1>3 DEF OwnInv, CallInv, CleanIfRemoved, Removed, StartsAfresh, QuietWhenIdle, ArmedIsOwn
<1>6. inbox'[s] = inbox[s] \/ inbox'[s] = Append(inbox[s], "armed")
  BY DEF ServeInstall, Emitted, TypeOK
<1>7. pc[s] = "install" => OneArmed(s)'
  <2>1. inbox[s] \in Seq(Lines) /\ "armed" \in Lines
    BY DEF TypeOK, Lines
  <2>2. CASE inbox'[s] = inbox[s]
    BY <1>5, <2>2 DEF OneArmed, NoArmed
  <2>3. CASE inbox'[s] = Append(inbox[s], "armed")
    <3>1. /\ Len(inbox'[s]) = Len(inbox[s]) + 1 /\ Len(inbox[s]) \in Nat
          /\ \A i \in 1 .. Len(inbox[s]) : inbox'[s][i] = inbox[s][i]
      BY <2>1, <2>3, AppendProperties
    <3>2. NoArmed(s) => \A i \in 1 .. Len(inbox'[s]) :
                            inbox'[s][i] = "armed" => i = Len(inbox[s]) + 1
      BY <3>1 DEF NoArmed
    <3>3. NoArmed(s) => OneArmed(s)'
      <4> SUFFICES ASSUME NoArmed(s), NEW i \in 1 .. Len(inbox'[s]),
                          NEW j \in 1 .. Len(inbox'[s]),
                          inbox'[s][i] = "armed", inbox'[s][j] = "armed"
                   PROVE  i = j
        BY DEF OneArmed
      <4> QED BY <3>2
    <3> QED BY <1>5, <3>3
  <2> QED BY <1>6, <2>2, <2>3
<1>8. CleanIfRemoved(s)' /\ ModeIsOfTeardown(s)' /\ StartsAfresh(s)' /\ QuietWhenIdle(s)'
  BY <1>3, <1>4, <1>5 DEF OwnInv, CallInv, CleanIfRemoved, ModeIsOfTeardown, StartsAfresh,
     QuietWhenIdle
<1>9. ArmedIsOwn(s)'
  BY <1>3, <1>4, <1>5, <1>7 DEF ArmedIsOwn
<1> QED BY <1>4, <1>8, <1>9 DEF OwnInv, CallInv

(* Every other script: what it takes away stays away, and a cleanup that   *)
(* reports success has taken everything away.                              *)
LEMMA ServeOtherOwn ==
    ASSUME TypeOK, TypeOK', NEW s \in Sessions, OwnInv(s), NEW op, Serving(s, op),
           op # "install", NEW result, Answers_(s, result), UNCHANGED inbox,
           owner' = s => owner = s,
           s \in subs' => s \in subs,
           op = "cleanup" /\ result = Ok => owner' # s /\ s \notin subs'
    PROVE  OwnInv(s)'
<1>1. queue # <<>> /\ Head(queue).from = s /\ Head(queue).op = op
  BY DEF Serving
<1>2. Head(queue).live => /\ Expects(pc[s], op) /\ NoneOf(s)' /\ NoInstall(s)'
  BY <1>1, ServedProperties DEF Answers_
<1>3. /\ ScriptsInv(s)'
      /\ UNCHANGED <<st, pc, mode>>
      /\ ~Head(queue).live => answer'[s] = answer[s]
      /\ Head(queue).live => answer'[s] = result
      /\ NoneOf(s) => NoneOf(s)'
      /\ NoInstall(s) => NoInstall(s)'
      /\ InstallIsLast(s) => InstallIsLast(s)'
  BY <1>1, ServedScripts
<1>4. Removed(s) => Removed(s)'
  BY <1>3 DEF Removed
<1>5. CleanIfRemoved(s)'
  <2>1. CASE pc[s] = "remove" /\ answer'[s] = Ok /\ Head(queue).live
    BY <1>2, <1>3, <2>1 DEF CleanIfRemoved, Removed, Expects
  <2>2. CASE ~ (pc[s] = "remove" /\ answer'[s] = Ok /\ Head(queue).live)
    BY <1>3, <1>4, <2>2 DEF OwnInv, CallInv, CleanIfRemoved
  <2> QED BY <2>1, <2>2
<1>6. /\ NoArmed(s) <=> NoArmed(s)'
      /\ OneArmed(s) <=> OneArmed(s)'
  BY InboxStays
<1>7. ModeIsOfTeardown(s)' /\ StartsAfresh(s)' /\ QuietWhenIdle(s)'
  BY <1>3, <1>6 DEF OwnInv, CallInv, ModeIsOfTeardown, StartsAfresh, QuietWhenIdle
<1>8. ArmedIsOwn(s)'
  <2>1. CASE Head(queue).live
    <3>1. pc[s] # "install"
      BY <1>2, <2>1 DEF Expects
    <3> QED BY <1>3, <1>6, <3>1 DEF OwnInv, CallInv, ArmedIsOwn
  <2>2. CASE ~Head(queue).live
    BY <1>3, <1>6, <2>2 DEF OwnInv, CallInv, ArmedIsOwn
  <2> QED BY <2>1, <2>2
<1> QED BY <1>3, <1>5, <1>7, <1>8 DEF OwnInv, CallInv

(* So every served script keeps the invariant of its sender.               *)
LEMMA ServeOwn ==
    ASSUME TypeOK, TypeOK', HookInv, NEW s \in Sessions, OwnInv(s),
           ServeInstall(s) \/ ServeCleanup(s) \/ ServeRenew(s) \/ ServeQuery(s)
    PROVE  OwnInv(s)'
<1>1. CASE ServeInstall(s)
  BY <1>1, ServeInstallOwn
<1>2. CASE ServeCleanup(s)
  <2>1. s # NoToken /\ (s \in subs => s \in PassThroughs) /\ (owner = s => s \in Suppressors)
    BY HookAssumption DEF HookInv, HookTypeOK, Sessions
  <2>2. Serving(s, "cleanup") /\ UNCHANGED inbox
    BY <1>2 DEF ServeCleanup
  <2>3. CASE CleanupRestores(s) /\ Answers_(s, Ok)
    <3>1. owner' = NoToken /\ subs' = subs /\ s \notin subs
      BY <2>1, <2>3 DEF CleanupRestores, Released, PassThroughs
    <3> QED BY <2>1, <2>2, <2>3, <3>1, ServeOtherOwn
  <2>4. CASE CleanupRecovers(s, saved[s]) /\ Answers_(s, Ok)
    <3>1. owner = NoToken /\ UNCHANGED <<owner, subs>> /\ s \notin subs
      BY <2>1, <2>4 DEF CleanupRecovers, GlobalsLost, HookInv, OwnerRemembers, PassThroughs
    <3> QED BY <2>1, <2>2, <2>4, <3>1, ServeOtherOwn
  <2>5. CASE Unsubscribes(s) /\ Answers_(s, Ok)
    <3>1. owner # s /\ owner' = owner /\ subs' = subs \ {s}
      BY <2>1, <2>5 DEF Unsubscribes, SubsBecome, PassThroughs
    <3> QED BY <2>2, <2>5, <3>1, ServeOtherOwn
  <2>6. CASE /\ CleanupRestoreFails(s) \/ CleanupRecoveryFails(s) \/ CleanupRefused(s)
             /\ Answers_(s, Failed)
    <3>1. UNCHANGED <<owner, subs>>
      BY <2>6 DEF CleanupRestoreFails, CleanupRecoveryFails, CleanupRefused, hookVars
    <3> QED BY <2>2, <2>6, <3>1, ServeOtherOwn DEF Failed, Ok
  <2> QED BY <1>2, <2>3, <2>4, <2>5, <2>6 DEF ServeCleanup
<1>3. CASE ServeRenew(s)
  <2>1. UNCHANGED <<owner, subs, inbox>> /\ Serving(s, "renew")
    BY <1>3 DEF ServeRenew, Renews, RenewRefused, RenewsEntry, RenewEntryRefused, hookVars
  <2>2. PICK result : Answers_(s, result)
    BY <1>3 DEF ServeRenew
  <2> QED BY <2>1, <2>2, ServeOtherOwn
<1>4. CASE ServeQuery(s)
  <2>1. UNCHANGED <<owner, subs, inbox>> /\ Serving(s, "query")
    BY <1>4 DEF ServeQuery, hookVars
  <2>2. PICK result : Answers_(s, result)
    BY <1>4 DEF ServeQuery
  <2> QED BY <2>1, <2>2, ServeOtherOwn
<1> QED BY <1>1, <1>2, <1>3, <1>4

-----------------------------------------------------------------------------
(* Leases that expire, reloads and the user.                               *)
LEMMA OutsideOwn ==
    ASSUME TypeOK, TypeOK', NEW s \in Sessions, OwnInv(s),
           LeaseExpires \/ ConfigReload \/ UserSwitch \/ UNCHANGED vars
    PROVE  OwnInv(s)'
<1>1. UNCHANGED <<st, pc, mode, queue, answer>>
  BY DEF LeaseExpires, ConfigReload, UserSwitch, sessionVars, vars
<1>2. Thins(queue', queue, s)
  BY <1>1, SameThins DEF TypeOK, Message
<1>3. owner' \in {owner, NoToken} /\ subs' \subseteq subs
  BY DEF LeaseExpires, ConfigReload, UserSwitch, vars, hookVars, LeaseRestores, Released,
     LeaseRestoreFails, EntryExpires, SubsBecome, Reload, ReloadKeepsGlobals, UserSwitches
<1>4. owner' = s => owner = s
  BY <1>3, HookAssumption DEF Sessions
<1>5. inbox'[s] = inbox[s] \/ inbox'[s] = Append(inbox[s], "reload")
  <2>1. CASE ConfigReload
    BY <2>1 DEF ConfigReload, Emitted
  <2> QED BY <2>1 DEF LeaseExpires, UserSwitch, sessionVars, vars
<1>6. /\ NoArmed(s) => NoArmed(s)'
      /\ OneArmed(s) => OneArmed(s)'
  <2>1. CASE inbox'[s] = inbox[s]
    BY <2>1, InboxStays
  <2>2. CASE inbox'[s] = Append(inbox[s], "reload")
    <3>1. inbox[s] \in Seq(Lines) /\ "reload" \in Lines
      BY DEF TypeOK, Lines
    <3>2. /\ Len(inbox'[s]) = Len(inbox[s]) + 1 /\ Len(inbox[s]) \in Nat
          /\ \A i \in 1 .. Len(inbox[s]) : inbox'[s][i] = inbox[s][i]
          /\ inbox'[s][Len(inbox[s]) + 1] = "reload"
      BY <2>2, <3>1, AppendProperties
    <3>3. \A i \in 1 .. Len(inbox'[s]) : inbox'[s][i] = "armed"
              => i \in 1 .. Len(inbox[s]) /\ inbox[s][i] = "armed"
      BY <3>2
    <3>4. NoArmed(s) => NoArmed(s)'
      BY <3>3 DEF NoArmed
    <3>5. OneArmed(s) => OneArmed(s)'
      <4> SUFFICES ASSUME OneArmed(s), NEW i \in 1 .. Len(inbox'[s]),
                          NEW j \in 1 .. Len(inbox'[s]),
                          inbox'[s][i] = "armed", inbox'[s][j] = "armed"
                   PROVE  i = j
        BY DEF OneArmed
      <4> QED BY <3>3 DEF OneArmed
    <3> QED BY <3>4, <3>5
  <2> QED BY <1>5, <2>1, <2>2
<1> QED BY <1>1, <1>2, <1>3, <1>4, <1>6, Bystander

LEMMA InitOwn ==
    ASSUME Init, NEW s \in Sessions
    PROVE  OwnInv(s)
<1>1. Len(queue) = 0 /\ Len(inbox[s]) = 0 /\ owner = NoToken /\ pc[s] = "start"
      /\ st[s] = "Connected" /\ mode[s] = "arm"
  BY DEF Init, HookInit
<1> QED BY <1>1 DEF OwnInv, ScriptsInv, LiveIsAwaited, LiveIsLast, CallInv, CleanIfRemoved,
     ModeIsOfTeardown, StartsAfresh, NoneOf, NoArmed, QuietWhenIdle, ArmedIsOwn, Places

(* Every session keeps its invariant in every step.                        *)
LEMMA StepKeepsOwn ==
    ASSUME TypeOK, TypeOK', HookInv, \A s \in Sessions : OwnInv(s), [Next]_vars
    PROVE  \A s \in Sessions : OwnInv(s)'
<1> TAKE r \in Sessions
<1>1. CASE Serve
  BY <1>1, ServeOwn, ServeOthersStand DEF Serve
<1>2. ASSUME NEW s \in Sessions,
             Proceed(s) \/ Call(s) \/ GiveUp(s) \/ ArmTimesOut(s) \/ Crash(s)
      PROVE  OwnInv(r)'
  <2>1. CASE r = s
    BY <1>2, <2>1, ProceedOwn, CallOwn, GiveUpOwn, ArmTimesOutOwn, CrashOwn
  <2>2. CASE r # s
    BY <1>2, <2>2, OthersStand
  <2> QED BY <2>1, <2>2
<1>3. CASE LeaseExpires \/ ConfigReload \/ UserSwitch \/ UNCHANGED vars
  BY <1>3, OutsideOwn
<1> QED BY <1>1, <1>2, <1>3 DEF Next

EverySessionOwn == \A s \in Sessions : OwnInv(s)

LEMMA OwnInvHolds == Spec => []EverySessionOwn
<1>1. Init => EverySessionOwn
  BY InitOwn DEF EverySessionOwn
<1>2. /\ TypeOK /\ TypeOK' /\ SessionInv /\ EverySessionOwn /\ [Next]_vars
      => EverySessionOwn'
  BY StepKeepsOwn DEF EverySessionOwn, SessionInv
<1> QED BY <1>1, <1>2, SessionTyped, SessionInvHolds, PTL DEF Spec

(* However often it was armed, whatever answers were lost or late and      *)
(* whichever processes were killed: a session that says it is closed owns  *)
(* no hook, has no entry, and no install of it is waiting to be served.    *)
THEOREM ClosedIsClean == Spec => []ClosedLeavesNothing
<1>1. TypeOK /\ EverySessionOwn => ClosedLeavesNothing
  BY PlacesAreDomain DEF ClosedLeavesNothing, EverySessionOwn, OwnInv, CallInv,
     CleanIfRemoved, Removed, NoInstall
<1> QED BY <1>1, SessionTyped, OwnInvHolds, PTL

(* The "armed" line that confirms an arm is of that arm: no install of an  *)
(* earlier one, given up or answered, can still put one in the socket.     *)
THEOREM ArmedIsFresh == Spec => []ArmedLineIsFresh
<1>1. TypeOK /\ EverySessionOwn => ArmedLineIsFresh
  <2> SUFFICES ASSUME TypeOK, EverySessionOwn, NEW s \in Sessions,
                      pc[s] \in {"idle", "install"},
                      \E i \in DOMAIN inbox[s] : inbox[s][i] = "armed"
               PROVE  pc[s] = "install" /\ ~\E i \in DOMAIN queue : queue[i].from = s
    BY DEF ArmedLineIsFresh
  <2>1. ~NoArmed(s)
    BY DEF NoArmed, TypeOK
  <2>2. pc[s] = "install" /\ NoneOf(s)
    BY <2>1 DEF EverySessionOwn, OwnInv, CallInv, QuietWhenIdle, ArmedIsOwn
  <2> QED BY <2>2, PlacesAreDomain DEF NoneOf
<1> QED BY <1>1, SessionTyped, OwnInvHolds, PTL

=============================================================================
