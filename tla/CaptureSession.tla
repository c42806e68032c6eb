--------------------------- MODULE CaptureSession ---------------------------
(***************************************************************************)
(* The whykey side of the Hyprland capture backend,                        *)
(* HyprlandCaptureSession of src/hyprland_capture.rs, over the compositor  *)
(* of module LuaHook.  Each session is one `whykey listen` process; it     *)
(* runs `hyprctl` for every script, and Hyprland serves its socket in      *)
(* order.  A script may never be sent, may be served after whykey gave up  *)
(* waiting for it, or be served with its answer lost.  A process may be    *)
(* killed at any moment.                                                   *)
(*                                                                         *)
(* The caller is any program that follows run_native: it arms a session    *)
(* that is Connected or Closed, renews, reads events and closes an armed   *)
(* one, and after an error only drops it.                                  *)
(***************************************************************************)
EXTENDS LuaHook, Sequences, SequencesExt

CONSTANTS
    MaxIpcFaults,  \* bound: answers that never arrive
    MaxArms,       \* bound: arms of one session
    MaxCrashes     \* bound: killed processes

ASSUME SessionAssumption == {MaxIpcFaults, MaxArms, MaxCrashes} \subseteq Nat

VARIABLES
    st,         \* CaptureState
    pc,         \* the call of the session that is in progress
    mode,       \* on whose behalf the teardown runs: "arm", "close", "drop"
    attempt,    \* the teardown attempt, 0 .. 2
    saved,      \* saved_submap
    arms,       \* arms so far
    inbox,      \* unread lines of the event socket
    queue,      \* scripts Hyprland has not served yet
    answer,     \* what `hyprctl` returned
    ipcFaults,  \* answers lost so far
    crashes     \* processes killed so far

sessionVars ==
    <<st, pc, mode, attempt, saved, arms, inbox, queue, answer, ipcFaults, crashes>>
vars == <<hookVars, sessionVars>>

Sessions == Tokens

\* `hyprctl` results: an eval succeeds or not; a query shows a submap, or
\* the empty string when it fails.
Pending == "pending"
Ok == "ok"
Failed == "failed"
Answers == {Pending, Ok, Failed} \cup Submaps

Waiting == {"install", "observe", "remove", "verify", "renew"}
Resting == {"idle", "failed", "gone"}

Lines == {"armed", "reload"}
Ops == {"install", "query", "cleanup", "renew"}

TypeOK ==
    /\ HookTypeOK
    /\ st \in [Sessions ->
           {"Connected", "Installing", "Armed", "RestorePending", "Closed"}]
    /\ pc \in [Sessions -> {"start", "await"} \cup Waiting \cup Resting]
    /\ mode \in [Sessions -> {"arm", "close", "drop"}]
    /\ attempt \in [Sessions -> 0 .. 2]
    /\ saved \in [Sessions -> UserSubmaps]
    /\ arms \in [Sessions -> 0 .. MaxArms]
    /\ inbox \in [Sessions -> Seq(Lines)]
    /\ queue \in Seq([from : Sessions, op : Ops, live : BOOLEAN])
    /\ answer \in [Sessions -> Answers]
    /\ ipcFaults \in 0 .. MaxIpcFaults
    /\ crashes \in 0 .. MaxCrashes

Init ==
    /\ HookInit
    /\ st = [s \in Sessions |-> "Connected"]
    /\ pc = [s \in Sessions |-> "start"]
    /\ mode = [s \in Sessions |-> "arm"]
    /\ attempt = [s \in Sessions |-> 0]
    /\ saved = [s \in Sessions |-> Default]
    /\ arms = [s \in Sessions |-> 0]
    /\ inbox = [s \in Sessions |-> <<>>]
    /\ queue = <<>>
    /\ answer = [s \in Sessions |-> Pending]
    /\ ipcFaults = 0
    /\ crashes = 0

-----------------------------------------------------------------------------
(* IPC as the session sees it.                                             *)

\* Start `hyprctl` and wait at pc = p.
Sends(s, op, p) ==
    /\ queue' = Append(queue, [from |-> s, op |-> op, live |-> TRUE])
    /\ answer' = [answer EXCEPT ![s] = Pending]
    /\ pc' = [pc EXCEPT ![s] = p]

Rests(s, p) ==
    /\ pc' = [pc EXCEPT ![s] = p]
    /\ answer' = [answer EXCEPT ![s] = Pending]
    /\ UNCHANGED queue

Abandoned(q, s) ==
    [i \in DOMAIN q |-> [q[i] EXCEPT !.live = @ /\ q[i].from # s]]

Answered(s, p) == pc[s] = p /\ answer[s] # Pending

(* The runner's deadline: `hyprctl` is killed, before or after it wrote    *)
(* the request, or could not be started at all.                            *)
GiveUp(s) ==
    /\ pc[s] \in Waiting
    /\ answer[s] # Failed
    /\ ipcFaults < MaxIpcFaults
    /\ ipcFaults' = ipcFaults + 1
    /\ \/ queue' = Abandoned(queue, s)
       \/ \E i \in DOMAIN queue :
              queue[i].from = s /\ queue[i].live /\ queue' = RemoveAt(queue, i)
    /\ answer' = [answer EXCEPT ![s] = Failed]
    /\ UNCHANGED <<hookVars, st, pc, mode, attempt, saved, arms, inbox, crashes>>

-----------------------------------------------------------------------------
(* Hyprland serves the oldest script.                                      *)

Serving(s, op) == queue # <<>> /\ Head(queue).from = s /\ Head(queue).op = op

Answers_(s, result) ==
    /\ queue' = Tail(queue)
    /\ answer' = IF Head(queue).live THEN [answer EXCEPT ![s] = result] ELSE answer
    /\ UNCHANGED <<st, pc, mode, attempt, saved, arms, ipcFaults, crashes>>

\* A line reaches the event sockets that are open.
Listening(s) == pc[s] \notin {"start", "gone"}

Emitted(to, line) ==
    inbox' = [s \in Sessions |->
        IF s \in to /\ Listening(s) THEN Append(inbox[s], line) ELSE inbox[s]]

ServeInstall(s) ==
    /\ Serving(s, "install")
    /\ \/ /\ InstallSucceeds(s) \/ Subscribes(s)
          /\ Emitted({s}, "armed")
          /\ Answers_(s, Ok)
       \/ /\ \/ InstallRefused(s) \/ InstallUndone(s) \/ InstallStuck(s)
             \/ SubscribeFails(s)
          /\ UNCHANGED inbox
          /\ Answers_(s, Failed)

ServeCleanup(s) ==
    /\ Serving(s, "cleanup")
    /\ UNCHANGED inbox
    /\ \/ /\ CleanupRestores(s) \/ CleanupRecovers(s, saved[s]) \/ Unsubscribes(s)
          /\ Answers_(s, Ok)
       \/ /\ \/ CleanupRestoreFails(s)
             \/ CleanupRecoveryFails(s)
             \/ CleanupRefused(s)
          /\ Answers_(s, Failed)

ServeRenew(s) ==
    /\ Serving(s, "renew")
    /\ UNCHANGED inbox
    /\ \/ (Renews(s) \/ RenewsEntry(s)) /\ Answers_(s, Ok)
       \/ (RenewRefused(s) \/ RenewEntryRefused(s)) /\ Answers_(s, Failed)

ServeQuery(s) ==
    /\ Serving(s, "query")
    /\ Answers_(s, submap)
    /\ UNCHANGED <<hookVars, inbox>>

Serve == \E s \in Sessions :
    ServeInstall(s) \/ ServeCleanup(s) \/ ServeRenew(s) \/ ServeQuery(s)

-----------------------------------------------------------------------------
(* connect(): the active submap is recorded; the private one is refused.   *)
Connect(s) ==
    /\ pc[s] = "start"
    /\ submap # Private
    /\ saved' = [saved EXCEPT ![s] = submap]
    /\ Rests(s, "idle")
    /\ UNCHANGED <<hookVars, st, mode, attempt, arms, inbox, ipcFaults, crashes>>

-----------------------------------------------------------------------------
(* cleanup_bounded(), for arm, close and Drop.                             *)

Becomes(s, state) == st' = [st EXCEPT ![s] = state]

\* Drop makes one attempt, the other two callers three.
StartCleanup(s, m) ==
    /\ mode' = [mode EXCEPT ![s] = m]
    /\ attempt' = [attempt EXCEPT ![s] = IF m = "drop" THEN 2 ELSE 0]
    /\ Becomes(s, "RestorePending")
    /\ Sends(s, "cleanup", "remove")
    /\ UNCHANGED <<hookVars, saved, arms, inbox, ipcFaults, crashes>>

\* `mode` and `attempt` are locals of the call, reset when it returns.
AfterCleanup(s, restored) ==
    /\ mode' = [mode EXCEPT ![s] = "arm"]
    /\ attempt' = [attempt EXCEPT ![s] = 0]
    /\ Rests(s, CASE mode[s] = "drop" -> "gone"
               [] mode[s] = "close" /\ restored -> "idle"
               [] OTHER -> "failed")

CleanupDone(s) ==
    /\ Becomes(s, "Closed")
    /\ AfterCleanup(s, TRUE)
    /\ UNCHANGED <<hookVars, saved, arms, inbox, ipcFaults, crashes>>

\* Mutants: the last failed attempt closes; attempts are not counted.
ClosesAnyway(s) ==
    /\ IF attempt[s] < 2
       THEN /\ attempt' = [attempt EXCEPT ![s] = @ + 1]
            /\ Sends(s, "cleanup", "remove")
            /\ UNCHANGED <<mode, st>>
       ELSE AfterCleanup(s, FALSE) /\ Becomes(s, "Closed")
    /\ UNCHANGED <<hookVars, saved, arms, inbox, ipcFaults, crashes>>

RetriesForever(s) ==
    /\ Sends(s, "cleanup", "remove")
    /\ UNCHANGED <<hookVars, st, mode, attempt, saved, arms, inbox, ipcFaults, crashes>>

CleanupRetries(s) ==
    /\ \/ /\ attempt[s] < 2
          /\ attempt' = [attempt EXCEPT ![s] = @ + 1]
          /\ Sends(s, "cleanup", "remove")
          /\ UNCHANGED mode
       \/ attempt[s] = 2 /\ AfterCleanup(s, FALSE)
    /\ UNCHANGED <<hookVars, st, saved, arms, inbox, ipcFaults, crashes>>

\* submap_target_matches: a failed query reads as the default submap.
SubmapMatches(observed, target) ==
    observed = target \/ (observed = Failed /\ target = Default)

RemoveAnswered(s) ==
    /\ Answered(s, "remove")
    /\ \/ answer[s] = Ok /\ s \in PassThroughs /\ CleanupDone(s)
       \/ /\ answer[s] = Ok /\ s \in Suppressors
          /\ Sends(s, "query", "verify")
          /\ UNCHANGED <<hookVars, st, mode, attempt, saved, arms, inbox, ipcFaults,
                         crashes>>
       \/ answer[s] = Failed /\ CleanupRetries(s)

VerifyAnswered(s) ==
    /\ Answered(s, "verify")
    /\ \/ SubmapMatches(answer[s], saved[s]) /\ CleanupDone(s)
       \/ ~SubmapMatches(answer[s], saved[s]) /\ CleanupRetries(s)

-----------------------------------------------------------------------------
(* arm()                                                                   *)
Arm(s) ==
    /\ pc[s] = "idle"
    /\ st[s] \in {"Connected", "Closed"}
    /\ arms[s] < MaxArms
    /\ arms' = [arms EXCEPT ![s] = @ + 1]
    /\ Becomes(s, "Installing")
    /\ Sends(s, "install", "install")
    /\ UNCHANGED <<hookVars, mode, attempt, saved, inbox, ipcFaults, crashes>>

InstallAnswered(s) ==
    /\ Answered(s, "install")
    /\ \/ /\ answer[s] = Ok /\ s \in Suppressors
          /\ Sends(s, "query", "observe")
          /\ UNCHANGED <<hookVars, st, mode, attempt, saved, arms, inbox, ipcFaults,
                         crashes>>
       \/ /\ answer[s] = Ok /\ s \in PassThroughs
          /\ Rests(s, "await")
          /\ UNCHANGED <<hookVars, st, mode, attempt, saved, arms, inbox, ipcFaults,
                         crashes>>
       \/ answer[s] = Failed /\ StartCleanup(s, "arm")

ObserveAnswered(s) ==
    /\ Answered(s, "observe")
    /\ \/ /\ answer[s] = Private
          /\ Rests(s, "await")
          /\ UNCHANGED <<hookVars, st, mode, attempt, saved, arms, inbox, ipcFaults,
                         crashes>>
       \/ answer[s] # Private /\ StartCleanup(s, "arm")

\* Every line before the token's own "armed" is thrown away.
UpToArmed(q) == SelectInSeq(q, LAMBDA line : line = "armed")

\* Mutant: the "armed" line itself stays in the buffer.
LeavesArmedLine(s) ==
    /\ pc[s] = "await"
    /\ UpToArmed(inbox[s]) > 0
    /\ inbox' = [inbox EXCEPT ![s] = SubSeq(@, UpToArmed(@), Len(@))]
    /\ Becomes(s, "Armed")
    /\ Rests(s, "idle")
    /\ UNCHANGED <<hookVars, mode, attempt, saved, arms, ipcFaults, crashes>>

ArmConfirmed(s) ==
    /\ pc[s] = "await"
    /\ UpToArmed(inbox[s]) > 0
    /\ inbox' = [inbox EXCEPT ![s] = SubSeq(@, UpToArmed(@) + 1, Len(@))]
    /\ Becomes(s, "Armed")
    /\ Rests(s, "idle")
    /\ UNCHANGED <<hookVars, mode, attempt, saved, arms, ipcFaults, crashes>>

\* 1500 ms without it, or the socket failed.
ArmTimesOut(s) ==
    /\ pc[s] = "await"
    /\ ipcFaults < MaxIpcFaults
    /\ ipcFaults' = ipcFaults + 1
    /\ Becomes(s, "RestorePending")
    /\ Sends(s, "cleanup", "remove")
    /\ UNCHANGED <<hookVars, mode, attempt, saved, arms, inbox, crashes>>

-----------------------------------------------------------------------------
(* renew_lease(), next_event(), close() and Drop.                          *)
Renew(s) ==
    /\ pc[s] = "idle"
    /\ st[s] = "Armed"
    /\ Sends(s, "renew", "renew")
    /\ UNCHANGED <<hookVars, st, mode, attempt, saved, arms, inbox, ipcFaults, crashes>>

RenewAnswered(s) ==
    /\ Answered(s, "renew")
    /\ Rests(s, IF answer[s] = Ok THEN "idle" ELSE "failed")
    /\ UNCHANGED <<hookVars, st, mode, attempt, saved, arms, inbox, ipcFaults, crashes>>

\* A reload line ends the capture; a late "armed" line is skipped.
NextEvent(s) ==
    /\ pc[s] = "idle"
    /\ st[s] = "Armed"
    /\ inbox[s] # <<>>
    /\ inbox' = [inbox EXCEPT ![s] = Tail(@)]
    /\ Rests(s, IF Head(inbox[s]) = "reload" THEN "failed" ELSE "idle")
    /\ UNCHANGED <<hookVars, st, mode, attempt, saved, arms, ipcFaults, crashes>>

Close(s) ==
    /\ pc[s] = "idle"
    /\ st[s] = "Armed"
    /\ StartCleanup(s, "close")

Drop(s) ==
    /\ pc[s] \in {"idle", "failed"}
    /\ \/ st[s] \notin {"Connected", "Closed"} /\ StartCleanup(s, "drop")
       \/ /\ st[s] \in {"Connected", "Closed"}
          /\ Rests(s, "gone")
          /\ UNCHANGED <<hookVars, st, mode, attempt, saved, arms, inbox, ipcFaults,
                         crashes>>

\* SIGKILL: nothing of the session runs any more; what it sent is served.
Crash(s) ==
    /\ Listening(s)
    /\ crashes < MaxCrashes
    /\ crashes' = crashes + 1
    /\ pc' = [pc EXCEPT ![s] = "gone"]
    /\ queue' = Abandoned(queue, s)
    /\ inbox' = [inbox EXCEPT ![s] = <<>>]
    /\ answer' = [answer EXCEPT ![s] = Pending]
    /\ mode' = [mode EXCEPT ![s] = "arm"]
    /\ attempt' = [attempt EXCEPT ![s] = 0]
    /\ UNCHANGED <<hookVars, st, saved, arms, ipcFaults>>

-----------------------------------------------------------------------------
LeaseExpires ==
    /\ \/ LeaseRestores \/ LeaseRestoreFails
       \/ \E s \in Sessions : EntryExpires(s)
    /\ UNCHANGED sessionVars

\* Every open event socket gets the reload line.
ConfigReload ==
    /\ Reload \/ ReloadKeepsGlobals
    /\ Emitted(Sessions, "reload")
    /\ UNCHANGED <<st, pc, mode, attempt, saved, arms, queue, answer, ipcFaults, crashes>>

UserSwitch == UserSwitches /\ UNCHANGED sessionVars

-----------------------------------------------------------------------------
Proceed(s) ==
    \/ InstallAnswered(s) \/ ObserveAnswered(s) \/ ArmConfirmed(s)
    \/ RemoveAnswered(s) \/ VerifyAnswered(s) \/ RenewAnswered(s)

Call(s) ==
    \/ Connect(s) \/ Arm(s) \/ Renew(s) \/ NextEvent(s) \/ Close(s) \/ Drop(s)

Next ==
    \/ Serve
    \/ \E s \in Sessions :
           Proceed(s) \/ Call(s) \/ GiveUp(s) \/ ArmTimesOut(s) \/ Crash(s)
    \/ LeaseExpires \/ ConfigReload \/ UserSwitch

Spec == Init /\ [][Next]_vars

(* Fairness.  Hyprland keeps serving its socket; a session whose call was  *)
(* answered goes on, and after an error its caller drops it; a lease that  *)
(* nobody can renew any more runs out.                                     *)
LeaseOfGoneExpires ==
    /\ UNCHANGED sessionVars
    /\ \/ owner # NoToken /\ pc[owner] = "gone" /\ (LeaseRestores \/ LeaseRestoreFails)
       \/ \E s \in Sessions : pc[s] = "gone" /\ EntryExpires(s)

Fairness ==
    /\ WF_vars(Serve)
    /\ \A s \in Sessions :
          WF_vars(Proceed(s)) /\ WF_vars(pc[s] = "failed" /\ Drop(s))
    /\ WF_vars(LeaseOfGoneExpires)

FairSpec == Spec /\ Fairness

-----------------------------------------------------------------------------
(* Safety.                                                                 *)

(* A session that says it is closed left nothing behind: no hook, no       *)
(* entry, and no install of its own that Hyprland could still serve.       *)
ClosedLeavesNothing ==
    \A s \in Sessions :
        st[s] = "Closed" /\ pc[s] \in Resting =>
            /\ owner # s
            /\ s \notin subs
            /\ ~\E i \in DOMAIN queue : queue[i].from = s /\ queue[i].op = "install"

(* The "armed" line a session waits for is its own and of this arm: while  *)
(* the install script has not been served there is none to be read.        *)
ArmedLineIsFresh ==
    \A s \in Sessions :
        pc[s] \in {"idle", "install"} /\
        (\E i \in DOMAIN inbox[s] : inbox[s][i] = "armed")
        => pc[s] = "install" /\ ~\E i \in DOMAIN queue : queue[i].from = s

(* While one session owns the capture, no step of another one, nor a       *)
(* script it sent, moves the submap or touches the owner's hook.           *)
StepOf(s) ==
    pc'[s] # pc[s] \/ (queue # <<>> /\ queue' # queue /\ Head(queue).from = s)

StrangersDoNotDisturb ==
    [][\A s \in Sessions :
          StepOf(s) /\ owner \notin {s, NoToken} =>
              UNCHANGED <<submap, owner, prev, listener, catchall, timer>>]_vars

(* Liveness.                                                               *)

(* Once a process is gone, killed or not, its hook is soon gone for good.  *)
GoneHookIsRemoved ==
    \A s \in Sessions : pc[s] = "gone" ~> [](owner # s /\ s \notin subs)

(* Every call into a session returns.                                      *)
CallsReturn == \A s \in Sessions : pc[s] \in Waiting \cup {"await"} ~> pc[s] \in Resting

=============================================================================
