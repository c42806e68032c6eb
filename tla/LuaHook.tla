------------------------------ MODULE LuaHook ------------------------------
(***************************************************************************)
(* The compositor side of the Hyprland capture backend: the Lua globals    *)
(* that the scripts of src/hyprland_capture.rs keep inside Hyprland, and   *)
(* one action per outcome of each script.  A script runs to its end inside *)
(* the compositor's event loop, so each outcome is one step.               *)
(*                                                                         *)
(* Any token may send any script at any time here (the most general        *)
(* client); module CaptureSession says which scripts a whykey process      *)
(* sends, and implements this module.                                      *)
(***************************************************************************)
EXTENDS Integers

CONSTANTS
    Tokens,             \* capture tokens, one per session
    Suppressors,        \* the tokens whose session runs with --suppress
    UserSubmaps,        \* the submaps of the user's configuration
    Default,            \* the default submap ("", "default" and "reset")
    Private,            \* "__whykey_capture"
    NoToken,            \* state.owner == nil
    NoSubmap,           \* state.previous_submap == nil
    MaxDispatchFaults,  \* bound: submap dispatches that fail
    MaxReloads          \* bound: configuration reloads

ASSUME HookAssumption ==
    /\ Suppressors \subseteq Tokens
    /\ Default \in UserSubmaps
    /\ Private \notin UserSubmaps
    /\ NoToken \notin Tokens
    /\ NoSubmap \notin UserSubmaps \cup {Private}
    /\ MaxDispatchFaults \in Nat
    /\ MaxReloads \in Nat

VARIABLES
    submap,    \* hl.get_current_submap()
    luaState,  \* _G.__whykey_capture ~= nil
    owner,     \* _G.__whykey_capture.owner
    prev,      \* _G.__whykey_capture.previous_submap
    listener,  \* the suppressing key listener is registered
    catchall,  \* the consuming catch-all bind is enabled
    timer,     \* the failsafe lease timer is enabled
    subs,      \* tokens with an entry in _G.__whykey_subs
    faults,    \* dispatches that have failed so far
    reloads    \* reloads so far

hookVars ==
    <<submap, luaState, owner, prev, listener, catchall, timer, subs, faults,
      reloads>>

PassThroughs == Tokens \ Suppressors
Submaps == UserSubmaps \cup {Private}

FlagsOK == {luaState, listener, catchall, timer} \subseteq BOOLEAN

HookTypeOK ==
    /\ FlagsOK
    /\ submap \in Submaps
    /\ owner \in Suppressors \cup {NoToken}
    /\ prev \in Submaps \cup {NoSubmap}
    /\ subs \subseteq PassThroughs
    /\ faults \in 0 .. MaxDispatchFaults
    /\ reloads \in 0 .. MaxReloads

HookInit ==
    /\ submap \in UserSubmaps
    /\ luaState = FALSE
    /\ owner = NoToken
    /\ prev = NoSubmap
    /\ listener = FALSE
    /\ catchall = FALSE
    /\ timer = FALSE
    /\ subs = {}
    /\ faults = 0
    /\ reloads = 0

-----------------------------------------------------------------------------
(* dispatch_submap: it succeeds only when the compositor is seen in the    *)
(* target afterwards, and a failure leaves the submap where it was.        *)
Dispatched(target) == submap' = target /\ UNCHANGED faults

DispatchFails(n) ==
    /\ faults + n <= MaxDispatchFaults
    /\ faults' = faults + n
    /\ UNCHANGED submap

(* Disarming is the common part of both cleanups; the timer is the part in *)
(* which they differ when the restore fails.                               *)
Disarmed == listener' = FALSE /\ catchall' = FALSE

Released == Disarmed /\ timer' = FALSE /\ owner' = NoToken /\ prev' = NoSubmap

-----------------------------------------------------------------------------
(* install_lua_code, Suppress.                                             *)
InstallRefused(t) ==
    /\ t \in Suppressors
    /\ owner # NoToken
    /\ UNCHANGED hookVars

\* Mutants: the owner is not checked; no lease is started.
StealingInstall(t) ==
    /\ t \in Suppressors
    /\ luaState' = TRUE /\ owner' = t /\ prev' = submap
    /\ listener' = TRUE /\ catchall' = TRUE /\ timer' = TRUE
    /\ Dispatched(Private)
    /\ UNCHANGED <<subs, reloads>>

UnleasedInstall(t) ==
    /\ t \in Suppressors /\ owner = NoToken
    /\ luaState' = TRUE /\ owner' = t /\ prev' = submap
    /\ listener' = TRUE /\ catchall' = TRUE /\ UNCHANGED timer
    /\ Dispatched(Private)
    /\ UNCHANGED <<subs, reloads>>

InstallSucceeds(t) ==
    /\ t \in Suppressors
    /\ owner = NoToken
    /\ luaState' = TRUE
    /\ owner' = t
    /\ prev' = submap
    /\ listener' = TRUE
    /\ catchall' = TRUE
    /\ timer' = TRUE
    /\ Dispatched(Private)
    /\ UNCHANGED <<subs, reloads>>

(* The private submap was not activated and do_cleanup restored at once.   *)
InstallUndone(t) ==
    /\ t \in Suppressors
    /\ owner = NoToken
    /\ luaState' = TRUE
    /\ Released
    /\ DispatchFails(1)
    /\ UNCHANGED <<subs, reloads>>

(* ... and the restore failed too: the owner stays, its lease re-enabled.  *)
InstallStuck(t) ==
    /\ t \in Suppressors
    /\ owner = NoToken
    /\ luaState' = TRUE
    /\ owner' = t
    /\ prev' = submap
    /\ Disarmed
    /\ timer' = TRUE
    /\ DispatchFails(2)
    /\ UNCHANGED <<subs, reloads>>

(* The lease timer fires: do_cleanup for the owner (on_timeout).           *)
LeaseRestores ==
    /\ timer
    /\ owner # NoToken
    /\ Dispatched(prev)
    /\ Released
    /\ UNCHANGED <<luaState, subs, reloads>>

LeaseRestoreFails ==
    /\ timer
    /\ owner # NoToken
    /\ DispatchFails(1)
    /\ Disarmed
    /\ UNCHANGED <<luaState, owner, prev, timer, subs, reloads>>

-----------------------------------------------------------------------------
(* cleanup_lua_code, Suppress: the owner's branch, the recovery after a    *)
(* reload cleared the globals (`saved` is the submap the session           *)
(* recorded), and the refusal of everybody else.                           *)
RestoreTarget == IF prev = Private THEN Default ELSE prev

\* Mutant: anybody's cleanup is obeyed.
AnybodyRestores(t) ==
    /\ t \in Suppressors
    /\ Dispatched(RestoreTarget)
    /\ Released
    /\ UNCHANGED <<luaState, subs, reloads>>

CleanupRestores(t) ==
    /\ owner = t
    /\ Dispatched(RestoreTarget)
    /\ Released
    /\ UNCHANGED <<luaState, subs, reloads>>

\* Mutant: the owner is forgotten although the submap was not restored.
ForgetsUnrestored(t) ==
    /\ owner = t
    /\ DispatchFails(1)
    /\ Released
    /\ UNCHANGED <<luaState, subs, reloads>>

CleanupRestoreFails(t) ==
    /\ owner = t
    /\ DispatchFails(1)
    /\ Disarmed
    /\ timer' = FALSE
    /\ UNCHANGED <<luaState, owner, prev, subs, reloads>>

GlobalsLost == ~luaState /\ submap = Private

CleanupRecovers(t, saved) ==
    /\ t \in Suppressors
    /\ GlobalsLost
    /\ Dispatched(saved)
    /\ UNCHANGED <<luaState, owner, prev, listener, catchall, timer, subs, reloads>>

CleanupRecoveryFails(t) ==
    /\ t \in Suppressors
    /\ GlobalsLost
    /\ DispatchFails(1)
    /\ UNCHANGED <<luaState, owner, prev, listener, catchall, timer, subs, reloads>>

CleanupRefused(t) ==
    /\ t \in Suppressors
    /\ owner # t
    /\ ~GlobalsLost
    /\ UNCHANGED hookVars

(* renew_lua_code, Suppress: only the owner is checked.                    *)
Renews(t) ==
    /\ t \in Suppressors
    /\ owner = t
    /\ timer' = TRUE
    /\ UNCHANGED <<submap, luaState, owner, prev, listener, catchall, subs, faults,
                   reloads>>

RenewRefused(t) ==
    /\ t \in Suppressors
    /\ owner # t
    /\ UNCHANGED hookVars

-----------------------------------------------------------------------------
(* The pass-through scripts: an entry of __whykey_subs holds the listener  *)
(* and its oneshot timer, and the three scripts and the timer touch only   *)
(* the entry of their own token.                                           *)
SubsBecome(set) ==
    /\ subs' = set
    /\ UNCHANGED <<submap, luaState, owner, prev, listener, catchall, timer, faults,
                   reloads>>

Subscribes(t) == t \in PassThroughs /\ SubsBecome(subs \cup {t})

(* Registering the listener or the timer raised: an older entry is gone.   *)
SubscribeFails(t) == t \in PassThroughs /\ SubsBecome(subs \ {t})

Unsubscribes(t) == t \in PassThroughs /\ SubsBecome(subs \ {t})

RenewsEntry(t) == t \in subs /\ UNCHANGED hookVars

RenewEntryRefused(t) ==
    t \in PassThroughs /\ t \notin subs /\ UNCHANGED hookVars

EntryExpires(t) == t \in subs /\ SubsBecome(subs \ {t})

-----------------------------------------------------------------------------
(* The surroundings.  A reload may clear every Lua global, hook and timer  *)
(* while the compositor stays in its submap or falls back to the default   *)
(* one; the user, a universal bind or another program changes the submap.  *)
Reload ==
    /\ reloads < MaxReloads
    /\ reloads' = reloads + 1
    /\ submap' \in {submap, Default}
    /\ luaState' = FALSE
    /\ Released
    /\ subs' = {}
    /\ UNCHANGED faults

ReloadKeepsGlobals ==
    /\ reloads < MaxReloads
    /\ reloads' = reloads + 1
    /\ UNCHANGED <<submap, luaState, owner, prev, listener, catchall, timer, subs, faults>>

UserSwitches ==
    /\ submap' \in UserSubmaps
    /\ UNCHANGED <<luaState, owner, prev, listener, catchall, timer, subs, faults, reloads>>

-----------------------------------------------------------------------------
SuppressScript(t) ==
    \/ InstallRefused(t) \/ InstallSucceeds(t) \/ InstallUndone(t) \/ InstallStuck(t)
    \/ CleanupRestores(t) \/ CleanupRestoreFails(t)
    \/ \E saved \in UserSubmaps : CleanupRecovers(t, saved)
    \/ CleanupRecoveryFails(t) \/ CleanupRefused(t)
    \/ Renews(t) \/ RenewRefused(t)

PassThroughScript(t) ==
    \/ Subscribes(t) \/ SubscribeFails(t) \/ Unsubscribes(t)
    \/ RenewsEntry(t) \/ RenewEntryRefused(t) \/ EntryExpires(t)

Surroundings ==
    \/ LeaseRestores \/ LeaseRestoreFails
    \/ Reload \/ ReloadKeepsGlobals \/ UserSwitches

HookNext ==
    \/ \E t \in Tokens : SuppressScript(t) \/ PassThroughScript(t)
    \/ Surroundings

HookSpec == HookInit /\ [][HookNext]_hookVars

-----------------------------------------------------------------------------
(* Safety.                                                                 *)

(* The lease backs the hook: keys are listened to and held back only under *)
(* a running lease.                                                        *)
ListensOnlyUnderLease == listener \/ catchall => timer /\ owner # NoToken

(* Shortcuts are dead only while somebody owns the capture, and then the   *)
(* submap to go back to is known; only a reload can break this.            *)
PrivateOnlyWhileOwned ==
    submap = Private /\ reloads = 0 => owner # NoToken /\ prev \in UserSubmaps

(* A capture without a lease is one whose restore has failed.              *)
UnleasedOnlyAfterFault == owner # NoToken /\ ~timer => faults > 0 /\ ~listener

(* The refinement: `owner` is the holder, and the user's submap is the     *)
(* remembered one while the capture is owned.                              *)
Lock == INSTANCE SuppressionLock WITH
    Listeners <- Suppressors,
    holder <- owner,
    userSubmap <- IF owner = NoToken THEN submap ELSE prev

(* The scripts and the lease together keep the promise of SuppressionLock. *)
ImplementsLock == Lock!LockSpec

=============================================================================
