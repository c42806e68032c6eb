------------------------------- MODULE GrabProbe -------------------------------
(***************************************************************************)
(* The X11 grab probe: src/layers/x11_grab.rs asks the X server, on a      *)
(* thread that is left behind when the time is over, whether somebody has  *)
(* grabbed a key on the way to the focused window; src/probe/x11.rs finds  *)
(* out by grabbing the key itself and letting it go again.                 *)
(***************************************************************************)
EXTENDS Integers, Sequences, SequencesExt, FiniteSets

CONSTANTS
    MaxProbes,   \* bound: probes, one after the other
    MaxChanges   \* bound: grabs the window manager makes and ends

ASSUME GrabProbeAssumption == MaxProbes \in Nat /\ MaxChanges \in Nat

VARIABLES
    server,    \* who holds each grab: Nobody, WM, or the number of a probe
    xserver,   \* whether the X server has XInput 2
    probes,    \* the threads, each with its connection
    refined,   \* what refine took each probe to have observed
    changes

grabVars == <<server, xserver, probes, refined, changes>>

Path == <<"root", "frame">>         \* key_event_path, from the root down
Variants == <<"plain", "lock">>     \* lock_variants
Nobody == 0
WM == -1
Grabs == ToSet(Path) \X ToSet(Variants) \X {"core", "xi2"}

\* What matters of an outcome here: it stops the key, passes it on knowingly,
\* or says neither.
Outcomes == {"Consumed", "HandledAndPassed", "Unknown"}

\* Without the extension there are no grabs of its kind.
Exists(g) == g[3] = "xi2" => xserver.xi2

HeldBy(owner) == {g \in Grabs : server[g] = owner}

GrabInit ==
    /\ xserver \in [xi2 : BOOLEAN]
    /\ \E held \in {{}} \union {{g} : g \in {g \in Grabs : Exists(g)}} :
          server = [g \in Grabs |-> IF g \in held THEN WM ELSE Nobody]
    /\ probes = <<>> /\ refined = <<>> /\ changes = 0

-----------------------------------------------------------------------------
(* External: a window manager grabs the keys it wants that are free, and   *)
(* lets them go. always and ever remember what it held during a probe.     *)
WindowManager ==
    /\ changes < MaxChanges /\ changes' = changes + 1
    /\ \E g \in {g \in Grabs : Exists(g)} :
          /\ server[g] \in {Nobody, WM}
          /\ server' = [server EXCEPT ![g] = IF @ = WM THEN Nobody ELSE WM]
          /\ probes' = [p \in DOMAIN probes |->
                IF p \in DOMAIN refined THEN probes[p]
                ELSE IF server[g] = WM THEN [probes[p] EXCEPT !.always = @ \ {g}]
                ELSE [probes[p] EXCEPT !.ever = @ \union {g}]]
    /\ UNCHANGED <<xserver, refined>>

\* refine: a thread connects and asks.
Waiting == Len(refined) < Len(probes)

Refine ==
    /\ ~Waiting /\ Len(probes) < MaxProbes
    /\ probes' = Append(probes,
          [pc |-> "core", at |-> 1, todo |-> Variants,
           conflicts |-> {}, found |-> FALSE, failed |-> FALSE,
           always |-> HeldBy(WM), ever |-> HeldBy(WM),
           alone |-> \A q \in DOMAIN probes : probes[q].pc = "closed"])
    /\ UNCHANGED <<server, xserver, refined, changes>>

-----------------------------------------------------------------------------
(* check_grab_on for one window after the other.                           *)
Thread(p, next, grabs) ==
    /\ probes' = [probes EXCEPT ![p] = next]
    /\ server' = grabs
    /\ UNCHANGED <<xserver, refined, changes>>

Taken(p, g) == server[g] \notin {Nobody, p}

GrabCore(p) ==
    LET me == probes[p]
        g == <<Path[me.at], Head(me.todo), "core">> IN
    /\ me.pc = "core" /\ me.todo # <<>>
    /\ IF Taken(p, g)
       THEN Thread(p, [me EXCEPT !.todo = Tail(@), !.conflicts = @ \union {g[2]}, !.found = TRUE],
                   server)
       ELSE Thread(p, [me EXCEPT !.todo = Tail(@)], [server EXCEPT ![g] = p])

\* Mutant: only the grabs of the first variant are let go.
UngrabsFirst(p) ==
    LET me == probes[p] IN
    /\ me.pc = "core" /\ me.todo = <<>>
    /\ Thread(p, [me EXCEPT !.pc = "xi2", !.conflicts = {}],
              [server EXCEPT ![<<Path[me.at], "plain", "core">>] = IF @ = p THEN Nobody ELSE @])

UngrabCore(p) ==
    LET me == probes[p] IN
    /\ me.pc = "core" /\ me.todo = <<>>
    /\ Thread(p, [me EXCEPT !.pc = "xi2", !.conflicts = {}],
              [g \in Grabs |-> IF g[1] = Path[me.at] /\ g[2] \notin me.conflicts /\ g[3] = "core"
                               THEN Nobody ELSE server[g]])

\* check_xi2_grab: every variant in one request.
GrabXi2(p) ==
    LET me == probes[p]
        wanted == {g \in Grabs : g[1] = Path[me.at] /\ g[3] = "xi2"}
        free == {g \in wanted : ~Taken(p, g)} IN
    /\ me.pc = "xi2" /\ xserver.xi2
    /\ Thread(p, [me EXCEPT !.pc = "ungrab", !.found = @ \/ free # wanted],
              [g \in Grabs |-> IF g \in free THEN p ELSE server[g]])

\* The next window of the path, or the end of the probe: its connection is
\* dropped, and the server notices later.
NextWindow(p) ==
    LET me == probes[p] IN
    /\ me.pc = "ungrab" \/ (me.pc = "xi2" /\ ~xserver.xi2)
    /\ Thread(p, IF me.at < Len(Path)
                 THEN [me EXCEPT !.pc = "core", !.at = @ + 1, !.todo = Variants]
                 ELSE [me EXCEPT !.pc = "closing"],
              [g \in Grabs |-> IF g[3] = "xi2" /\ server[g] = p THEN Nobody ELSE server[g]])

\* Any request can fail: the probe returns with what it holds, and what it
\* found by then is not told.
ProbeFails(p) ==
    /\ probes[p].pc \in {"core", "xi2", "ungrab"}
    /\ Thread(p, [probes[p] EXCEPT !.pc = "closing", !.failed = TRUE, !.found = FALSE,
                                   !.at = Len(Path), !.todo = <<>>, !.conflicts = {}], server)

ServerCloses(p) ==
    /\ probes[p].pc = "closing"
    /\ Thread(p, [probes[p] EXCEPT !.pc = "closed"],
              [g \in Grabs |-> IF server[g] = p THEN Nobody ELSE server[g]])

-----------------------------------------------------------------------------
(* bounded, and x11_result or xwayland_result for its answer.              *)
X11Result(adapter, observed) ==
    CASE observed = "failed" -> adapter
      [] observed = "grabbed" ->
            IF adapter = "HandledAndPassed" THEN adapter ELSE "Consumed"
      [] OTHER -> "Pass"

Refined(session, adapter, observed) ==
    IF session = "X11" THEN X11Result(adapter, observed) ELSE adapter

Observed(p) ==
    IF probes[p].failed THEN "failed" ELSE IF probes[p].found THEN "grabbed" ELSE "free"

Takes(observed) ==
    /\ refined' = Append(refined, observed)
    /\ UNCHANGED <<server, xserver, probes, changes>>

ProbeAnswers ==
    /\ Waiting /\ probes[Len(probes)].pc \in {"closing", "closed"}
    /\ Takes(Observed(Len(probes)))

ProbeIsLate == Waiting /\ Takes("failed")

GrabNext ==
    \/ WindowManager \/ Refine \/ ProbeAnswers \/ ProbeIsLate
    \/ \E p \in DOMAIN probes :
          GrabCore(p) \/ UngrabCore(p) \/ GrabXi2(p) \/ NextWindow(p) \/ ProbeFails(p)
             \/ ServerCloses(p)

GrabSpec == GrabInit /\ [][GrabNext]_grabVars

-----------------------------------------------------------------------------
\* On X11 a key that the probe reports as passed on, whatever the desktop's
\* configuration claims, had a moment without each grab of the window manager
\* during the probe, and one it reports as consumed was grabbed at some moment
\* (or is consumed by the configuration, when the probe failed), unless an
\* earlier probe was still running: the probe never takes its own grabs, core
\* or XInput 2, on any window, with any lock, for somebody else's
\* (check_grab_on, check_xi2_grab, x11_result).
VerdictIsJust ==
    \A p \in DOMAIN refined, adapter \in Outcomes :
       LET outcome == Refined("X11", adapter, refined[p]) IN
       /\ outcome = "Pass" => probes[p].always = {}
       /\ outcome = "Consumed" /\ probes[p].alone
             => probes[p].ever # {} \/ (refined[p] = "failed" /\ adapter = "Consumed")

\* What a probe grabbed is let go by the time its connection is gone, and a
\* probe that ends well holds nothing even before that.
NothingStaysGrabbed ==
    \A p \in DOMAIN probes :
       probes[p].pc = "closed" \/ (probes[p].pc = "closing" /\ ~probes[p].failed) => HeldBy(p) = {}

=============================================================================
