-------------------------- MODULE SuppressionLock --------------------------
(***************************************************************************)
(* What `whykey listen --suppress` promises the desktop, with everything   *)
(* about scripts, leases and sockets left out: at most one listener holds  *)
(* the compositor's shortcuts at a time, and when it lets go the           *)
(* compositor is back in the submap the user was in.                       *)
(*                                                                         *)
(* `holder` is the listener that holds the shortcuts; `userSubmap` is the  *)
(* submap the user is in, or will be in as soon as the holder lets go;     *)
(* `reloads` counts the configuration reloads, which void the promise.     *)
(***************************************************************************)
EXTENDS Naturals

CONSTANTS
    Listeners,    \* the listeners that suppress
    UserSubmaps,  \* the submaps of the user's configuration
    Default,      \* the default submap, one of UserSubmaps
    Private,      \* the private submap __whykey_capture
    NoToken       \* nobody

VARIABLES holder, userSubmap, reloads

lockVars == <<holder, userSubmap, reloads>>

Submaps == UserSubmaps \cup {Private}

LockInit ==
    /\ holder = NoToken
    /\ userSubmap \in UserSubmaps
    /\ reloads = 0

(* A listener takes the shortcuts; the user's submap is remembered as is.  *)
Acquire(t) ==
    /\ holder = NoToken
    /\ holder' = t
    /\ UNCHANGED <<userSubmap, reloads>>

(* Letting go leaves the user in the submap of before.  Only a listener    *)
(* that started in a private submap a configuration reload left behind     *)
(* may leave the user in the default one instead.                          *)
Release ==
    /\ holder # NoToken
    /\ holder' = NoToken
    /\ \/ UNCHANGED userSubmap
       \/ reloads > 0 /\ userSubmap = Private /\ userSubmap' = Default
    /\ UNCHANGED reloads

(* With no holder the user, or a recovery after a reload, changes submap.  *)
Switch ==
    /\ holder = NoToken
    /\ userSubmap' \in UserSubmaps
    /\ UNCHANGED <<holder, reloads>>

(* A configuration reload may forget the holder, and then promises nothing *)
(* about the submap.                                                       *)
Forget ==
    /\ reloads' = reloads + 1
    /\ \/ UNCHANGED <<holder, userSubmap>>
       \/ holder' = NoToken /\ userSubmap' \in Submaps

LockNext == (\E t \in Listeners : Acquire(t)) \/ Release \/ Switch \/ Forget

LockSpec == LockInit /\ [][LockNext]_lockVars

=============================================================================
