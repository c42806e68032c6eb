------------------------------ MODULE InputsProofs ------------------------------
EXTENDS MCInputs, SequenceTheorems, FiniteSetTheorems, TLAPS

-----------------------------------------------------------------------------
(* The components do not touch one another.                                *)
\* A behaviour stays with its component, whose steps leave the other components' variables
\* alone: each Steps lemma takes the component's steps out of the sum of all.
LEMMA PartStays == [Next]_mcVars => part' = part
BY DEF Next, mcVars, EvdevStep, WindowStep, TerminalStep, StartStep, SwayStep, GrabsStep,
       BudgetStep, RecordingStep, ExtensionStep, KeyboardStep

LEMMA StartSteps == [Next]_mcVars /\ part = "start" => StartNext \/ UNCHANGED startVars
BY DEF Next, mcVars, EvdevStep, WindowStep, TerminalStep, StartStep, SwayStep, GrabsStep,
       BudgetStep, RecordingStep, ExtensionStep, KeyboardStep

LEMMA GrabsSteps == [Next]_mcVars /\ part = "grabs" => GrabNext \/ UNCHANGED grabVars
BY DEF Next, mcVars, EvdevStep, WindowStep, TerminalStep, StartStep, SwayStep, GrabsStep,
       BudgetStep, RecordingStep, ExtensionStep, KeyboardStep

LEMMA BudgetSteps == [Next]_mcVars /\ part = "budget" => BudgetNext \/ UNCHANGED budgetVars
BY DEF Next, mcVars, EvdevStep, WindowStep, TerminalStep, StartStep, SwayStep, GrabsStep,
       BudgetStep, RecordingStep, ExtensionStep, KeyboardStep

LEMMA SwaySteps == [Next]_mcVars /\ part = "sway" => SwayNext \/ UNCHANGED swayVars
BY DEF Next, mcVars, EvdevStep, WindowStep, TerminalStep, StartStep, SwayStep, GrabsStep,
       BudgetStep, RecordingStep, ExtensionStep, KeyboardStep

LEMMA TerminalSteps == [Next]_mcVars /\ part = "terminal" => InputNext \/ UNCHANGED inputVars
BY DEF Next, mcVars, EvdevStep, WindowStep, TerminalStep, StartStep, SwayStep, GrabsStep,
       BudgetStep, RecordingStep, ExtensionStep, KeyboardStep

LEMMA WindowSteps == [Next]_mcVars /\ part = "window" => ProbeNext \/ UNCHANGED probeVars
BY DEF Next, mcVars, EvdevStep, WindowStep, TerminalStep, StartStep, SwayStep, GrabsStep,
       BudgetStep, RecordingStep, ExtensionStep, KeyboardStep

LEMMA RecordingSteps == [Next]_mcVars /\ part = "recording" => RecNext \/ UNCHANGED recVars
BY DEF Next, mcVars, EvdevStep, WindowStep, TerminalStep, StartStep, SwayStep, GrabsStep,
       BudgetStep, RecordingStep, ExtensionStep, KeyboardStep

LEMMA ExtensionSteps == [Next]_mcVars /\ part = "extension" => ExtensionNext \/ UNCHANGED extensionVars
BY DEF Next, mcVars, EvdevStep, WindowStep, TerminalStep, StartStep, SwayStep, GrabsStep,
       BudgetStep, RecordingStep, ExtensionStep, KeyboardStep

LEMMA KeyboardSteps == [Next]_mcVars /\ part = "keyboard" => [KeyReadNext]_keyReadVars
BY DEF Next, mcVars, EvdevStep, WindowStep, TerminalStep, StartStep, SwayStep, GrabsStep,
       BudgetStep, RecordingStep, ExtensionStep, KeyboardStep

LEMMA EvdevSteps == [Next]_mcVars /\ part = "evdev" => [EvdevNext]_evdevVars
BY DEF Next, mcVars, EvdevStep, WindowStep, TerminalStep, StartStep, SwayStep, GrabsStep,
       BudgetStep, RecordingStep, ExtensionStep, KeyboardStep

-----------------------------------------------------------------------------
(* The start of a listener.                                                *)
\* If the plan was asked for, it is that of the default chain.
PlanSoFar == plan \in {"unasked", PlanDefaultChain}

\* What each stage of the start knows of the stages before it.
StartIInv ==
    /\ startPc \in {"parse", "explain", "native", "window", "terminal", "over"}
    /\ desktop.display \in {"none", "refuses", "opens"}
    /\ startPc # "over" => backend = "none"
    /\ startPc \in {"parse", "explain"} => plan = "unasked"
    /\ startPc \in {"explain", "native", "window", "terminal"} =>
           options = ToSet(arguments) /\ ~SuppressConflict(options)
    /\ startPc \in {"native", "window", "terminal"} => PlanSoFar /\ ForcedBackend = "none"
    /\ startPc \in {"window", "terminal"} => ~NativeConnects /\ "--suppress" \notin options
    /\ startPc = "terminal" =>
           ~(ProbeDisplay /\ desktop.display = "opens") /\ "--events all" \notin options
    /\ SuppressNeverFallsBack /\ PlanIsWhatRuns

\* Before the arguments are parsed nothing is planned and nothing runs.
LEMMA StartBegins == StartInit => StartIInv
<1> SUFFICES ASSUME StartInit PROVE StartIInv
  OBVIOUS
<1>1. desktop.display \in {"none", "refuses", "opens"}
  BY DEF StartInit, Desktops
<1> QED BY <1>1 DEF StartInit, StartIInv, SuppressNeverFallsBack, PlanIsWhatRuns

\* Parsing, explaining and the stages of listen::run keep it.
LEMMA StartKeeps == StartIInv /\ (StartNext \/ UNCHANGED startVars) => StartIInv'
<1> SUFFICES ASSUME StartIInv, StartNext \/ UNCHANGED startVars PROVE StartIInv'
  OBVIOUS
<1> USE DEF StartIInv
<1>1. CASE UNCHANGED startVars
  BY <1>1 DEF startVars, PlanSoFar, PlanDefaultChain, ForcedBackend, NativeConnects, ProbeDisplay,
          SuppressNeverFallsBack, PlanIsWhatRuns, SuppressConflict
<1>2. ASSUME UNCHANGED desktop
      PROVE  (NativeConnects' <=> NativeConnects) /\ (ProbeDisplay' <=> ProbeDisplay)
  BY <1>2 DEF NativeConnects, ProbeDisplay
<1>3. ASSUME UNCHANGED <<desktop, options>> PROVE UNCHANGED <<PlanDefaultChain, ForcedBackend>>
  <2>1. ForcedBackend' = ForcedBackend
    BY <1>3 DEF ForcedBackend
  <2>2. PlanDefaultChain' = PlanDefaultChain
    BY <1>2, <1>3 DEF PlanDefaultChain
  <2> QED BY <2>1, <2>2
<1>4. CASE ParseArguments
  BY <1>4 DEF ParseArguments, Contradicts, SuppressConflict, SuppressNeverFallsBack, PlanIsWhatRuns
<1>5. CASE Explains
  <2>1. /\ startPc = "explain" /\ UNCHANGED <<arguments, desktop, options>>
        /\ plan' \in {"unasked", ForcedBackend, PlanDefaultChain}
        /\ ForcedBackend = "none" => plan' \in {"unasked", PlanDefaultChain}
    BY <1>5 DEF Explains
  <2>2. CASE startPc' = "over" /\ backend' = "none"
    BY <1>5, <2>1, <2>2 DEF SuppressNeverFallsBack, PlanIsWhatRuns
  <2>3. CASE startPc' = "over" /\ ForcedBackend # "none" /\ backend' \in {ForcedBackend, "error"}
    <3>1. "--suppress" \notin options
      BY <2>1, <2>3 DEF SuppressConflict, Forced, ForcedBackend
    <3> QED BY <1>3, <2>1, <2>3, <3>1 DEF SuppressNeverFallsBack, PlanIsWhatRuns
  <2>4. CASE startPc' = "native" /\ backend' = backend /\ ForcedBackend = "none"
    BY <1>3, <2>1, <2>4 DEF SuppressNeverFallsBack, PlanIsWhatRuns, PlanSoFar, SuppressConflict
  <2> QED BY <1>5, <2>1, <2>2, <2>3, <2>4 DEF Explains
<1>6. CASE NativeStage
  <2>1. /\ startPc = "native" /\ UNCHANGED <<arguments, desktop, options, plan>> /\ PlanSoFar
    BY <1>6 DEF NativeStage
  <2>2. CASE NativeConnects
    <3>1. PlanDefaultChain = "native"
      BY <2>2 DEF PlanDefaultChain
    <3>2. startPc' = "over" /\ backend' = "native"
      BY <1>6, <2>2 DEF NativeStage, Runs
    <3> QED BY <2>1, <3>1, <3>2 DEF PlanSoFar, SuppressNeverFallsBack, PlanIsWhatRuns
  <2>3. CASE ~NativeConnects /\ "--suppress" \in options
    <3>1. PlanDefaultChain = "none"
      BY <2>3 DEF PlanDefaultChain
    <3>2. startPc' = "over" /\ backend' = "error"
      BY <1>6, <2>3 DEF NativeStage, Runs, FallsBackUnlessSuppressing
    <3> QED BY <2>1, <3>1, <3>2 DEF PlanSoFar, SuppressNeverFallsBack, PlanIsWhatRuns
  <2>4. CASE ~NativeConnects /\ "--suppress" \notin options
    <3>1. startPc' = "window" /\ backend' = backend
      BY <1>6, <2>4 DEF NativeStage, FallsBackUnlessSuppressing
    <3> QED BY <1>2, <1>3, <2>1, <2>4, <3>1
            DEF PlanSoFar, SuppressNeverFallsBack, PlanIsWhatRuns, SuppressConflict
  <2> QED BY <2>2, <2>3, <2>4
<1>7. CASE WindowStage
  <2>1. /\ startPc = "window" /\ UNCHANGED <<arguments, desktop, options, plan>> /\ PlanSoFar
        /\ ~NativeConnects /\ "--suppress" \notin options
    BY <1>7 DEF WindowStage
  <2>2. CASE ProbeDisplay /\ desktop.display = "opens"
    <3>1. PlanDefaultChain = "window"
      BY <2>1, <2>2 DEF PlanDefaultChain
    <3>2. startPc' = "over" /\ backend' = "window"
      BY <1>7, <2>2 DEF WindowStage, Runs
    <3> QED BY <2>1, <3>1, <3>2 DEF PlanSoFar, SuppressNeverFallsBack, PlanIsWhatRuns
  <2>3. CASE ~(ProbeDisplay /\ desktop.display = "opens") /\ "--events all" \in options
    <3>1. desktop.display # "refuses" => PlanDefaultChain = "none"
      BY <2>1, <2>3 DEF PlanDefaultChain, ProbeDisplay
    <3>2. startPc' = "over" /\ backend' = "error"
      BY <1>7, <2>3 DEF WindowStage, Runs
    <3> QED BY <2>1, <3>1, <3>2 DEF PlanSoFar, SuppressNeverFallsBack, PlanIsWhatRuns
  <2>4. CASE ~(ProbeDisplay /\ desktop.display = "opens") /\ "--events all" \notin options
    <3>1. startPc' = "terminal" /\ backend' = backend
      BY <1>7, <2>4 DEF WindowStage
    <3> QED BY <1>2, <1>3, <2>1, <2>4, <3>1
            DEF PlanSoFar, SuppressNeverFallsBack, PlanIsWhatRuns, SuppressConflict
  <2> QED BY <2>2, <2>3, <2>4
<1>8. CASE TerminalStage
  <2>1. /\ startPc = "terminal" /\ UNCHANGED <<arguments, desktop, options, plan>> /\ PlanSoFar
        /\ ~NativeConnects /\ "--suppress" \notin options /\ "--events all" \notin options
        /\ ~(ProbeDisplay /\ desktop.display = "opens")
    BY <1>8 DEF TerminalStage
  <2>2. desktop.display # "refuses" => PlanDefaultChain = IF desktop.tty THEN "terminal" ELSE "none"
    BY <2>1 DEF PlanDefaultChain, ProbeDisplay
  <2>3. startPc' = "over" /\ backend' = IF desktop.tty THEN "terminal" ELSE "error"
    BY <1>8 DEF TerminalStage, Runs
  <2> QED BY <2>1, <2>2, <2>3 DEF PlanSoFar, SuppressNeverFallsBack, PlanIsWhatRuns
<1> QED BY <1>1, <1>4, <1>5, <1>6, <1>7, <1>8 DEF StartNext

-----------------------------------------------------------------------------
(* The probe of X11 grabs.                                                 *)
\* A probe thread: where it is, what it has found, and whom it met.
ProbeRecords ==
    [pc : {"core", "xi2", "ungrab", "closing", "closed"}, at : {1, 2},
     todo : {<<"plain", "lock">>, <<"lock">>, <<>>}, conflicts : SUBSET {"plain", "lock"},
     found : BOOLEAN, failed : BOOLEAN, always : SUBSET Grabs, ever : SUBSET Grabs,
     alone : BOOLEAN]

\* The probes that were asked for, the answers taken, and who holds each grab.
GrabTypes ==
    /\ probes \in Seq(ProbeRecords)
    /\ refined \in Seq({"failed", "grabbed", "free"})
    /\ Len(refined) <= Len(probes) /\ Len(probes) <= Len(refined) + 1
    /\ server \in [Grabs -> {Nobody, WM} \cup DOMAIN probes]
    /\ \A g \in Grabs : server[g] = WM => Exists(g)

\* The lock variants of the window the probe is at that it still has to try.
Untried(me) == IF me.pc = "core" THEN ToSet(me.todo) ELSE {}

\* What a probe holds at each of its steps.
HoldsOwn(p) ==
    LET me == probes[p] IN
    /\ me.pc = "core" =>
          /\ \A g \in HeldBy(p) :
                g[1] = Path[me.at] /\ g[3] = "core" /\ g[2] \notin Untried(me) \cup me.conflicts
          /\ \A v \in {"plain", "lock"} :
                v \in Untried(me) \cup me.conflicts \/ server[<<Path[me.at], v, "core">>] = p
    /\ me.pc = "core" => Untried(me) \cap me.conflicts = {}
    /\ me.pc \in {"xi2", "ungrab"} => me.conflicts = {}
    /\ me.pc = "ungrab" => \A g \in HeldBy(p) : g[3] = "xi2"
    /\ me.pc \in {"xi2", "closed"} \/ (me.pc = "closing" /\ ~me.failed) => HeldBy(p) = {}
    /\ me.failed => me.pc \in {"closing", "closed"}
    /\ me.pc \in {"closing", "closed"} /\ ~me.failed => me.at = 2

\* The grabs that a probe has tried.
Tried(me, g) ==
    \/ me.at = 2 /\ g[1] = "root"
    \/ g[1] = Path[me.at] /\ g[3] = "core" /\ g[2] \notin Untried(me)
    \/ g[1] = Path[me.at] /\ g[3] = "xi2" /\ me.pc \in {"ungrab", "closing", "closed"}

\* What a probe that has not been asked yet is about to say.
SaysRight(p) ==
    LET me == probes[p] IN
    /\ me.always \subseteq HeldBy(WM) /\ HeldBy(WM) \subseteq me.ever
    /\ ~me.found /\ ~me.failed => \A g \in me.always : ~Tried(me, g)
    /\ me.alone /\ me.found => me.ever # {}
    /\ me.alone => \A q \in DOMAIN probes \ {p} : probes[q].pc = "closed"

\* What a probe has said was so.
SaidRight(p) ==
    /\ refined[p] = "free" => probes[p].always = {}
    /\ refined[p] = "grabbed" /\ probes[p].alone => probes[p].ever # {}

\* The probes: what they hold, and what they say or are about to say.
GrabIInv ==
    /\ GrabTypes
    /\ \A p \in DOMAIN probes :
          HoldsOwn(p) /\ IF p \in DOMAIN refined THEN SaidRight(p) ELSE SaysRight(p)

\* The variants of the lock modifiers that are left to try.
LEMMA TodoFacts ==
    /\ ToSet(<<"plain", "lock">>) = {"plain", "lock"} /\ ToSet(<<"lock">>) = {"lock"} /\ ToSet(<<>>) = {}
    /\ ToSet(Path) = {"root", "frame"} /\ ToSet(Variants) = {"plain", "lock"}
    /\ \A todo \in {<<"plain", "lock">>, <<"lock">>} :
          /\ Head(todo) \in {"plain", "lock"}
          /\ Tail(todo) \in {<<"lock">>, <<>>}
          /\ ToSet(Tail(todo)) = ToSet(todo) \ {Head(todo)} /\ Head(todo) \in ToSet(todo)
<1>1. /\ ToSet(<<"plain", "lock">>) = {"plain", "lock"} /\ ToSet(<<"lock">>) = {"lock"} /\ ToSet(<<>>) = {}
      /\ ToSet(Path) = {"root", "frame"} /\ ToSet(Variants) = {"plain", "lock"}
  BY DEF ToSet, Path, Variants
<1>2. Head(<<"plain", "lock">>) = "plain" /\ Tail(<<"plain", "lock">>) = <<"lock">>
  OBVIOUS
<1>3. Head(<<"lock">>) = "lock" /\ Tail(<<"lock">>) = <<>>
  OBVIOUS
<1> QED BY <1>1, <1>2, <1>3

\* The grabs, by their window, variant and extension.
LEMMA GrabFacts == Grabs = {"root", "frame"} \X {"plain", "lock"} \X {"core", "xi2"}
BY TodoFacts DEF Grabs

\* Probes are numbered from 1: none is the window manager or nobody.
LEMMA ProbeNumbers ==
    ASSUME GrabTypes
    PROVE  /\ DOMAIN probes = 1 .. Len(probes) /\ DOMAIN refined = 1 .. Len(refined)
           /\ Len(probes) \in Nat /\ Len(refined) \in Nat
           /\ \A p \in DOMAIN probes : p \in Nat /\ p > 0 /\ p # Nobody /\ p # WM
                                       /\ probes[p] \in ProbeRecords
BY DEF GrabTypes, Nobody, WM

\* A step of the thread of a probe: it takes free grabs, it lets go of its own, and
\* leaves the grabs of everybody else alone.
LEMMA ThreadMoves ==
    ASSUME GrabIInv, NEW p \in DOMAIN probes, NEW next \in ProbeRecords, NEW grabs \in [Grabs -> {Nobody, p, WM} \cup DOMAIN probes],
           Thread(p, next, grabs), probes[p].pc # "closed",
           next.always = probes[p].always, next.ever = probes[p].ever,
           next.alone = probes[p].alone,
           \A g \in Grabs : \/ grabs[g] = server[g]
                            \/ grabs[g] \in {Nobody, p} /\ server[g] \in {Nobody, p},
           HoldsOwn(p)',
           p \notin DOMAIN refined =>
              /\ ~next.found /\ ~next.failed => \A g \in next.always : ~Tried(next, g)
              /\ next.alone /\ next.found => next.ever # {}
    PROVE  GrabIInv'
<1> USE DEF GrabIInv
<1>1. /\ probes' = [probes EXCEPT ![p] = next] /\ server' = grabs /\ UNCHANGED <<xserver, refined, changes>>
  BY DEF Thread
<1>2. /\ DOMAIN probes' = DOMAIN probes /\ Len(probes') = Len(probes) /\ probes' \in Seq(ProbeRecords)
      /\ probes'[p] = next /\ \A q \in DOMAIN probes \ {p} : probes'[q] = probes[q]
  BY <1>1, ProbeNumbers, ExceptSeq DEF GrabTypes
<1>3. ASSUME NEW q \in (DOMAIN probes \ {p}) \cup {WM}
      PROVE  HeldBy(q)' = HeldBy(q)
  <2>1. q # Nobody /\ q # p
    BY ProbeNumbers DEF Nobody, WM
  <2> QED BY <1>1, <2>1 DEF HeldBy
<1>4. GrabTypes'
  <2>1. \A g \in Grabs : server'[g] = WM => Exists(g)'
    BY <1>1, ProbeNumbers DEF GrabTypes, Exists, Nobody, WM
  <2> QED BY <1>1, <1>2, <2>1 DEF GrabTypes
<1>5. ASSUME NEW q \in DOMAIN probes \ {p}
      PROVE  HoldsOwn(q)' /\ IF q \in DOMAIN refined THEN SaidRight(q)' ELSE SaysRight(q)'
  <2>1. HoldsOwn(q)'
    <3>1. ASSUME NEW g \in Grabs PROVE server'[g] = q <=> server[g] = q
      BY <1>1, ProbeNumbers, <3>1
    <3>2. Path[probes[q].at] \in {"root", "frame"}
      BY ProbeNumbers DEF ProbeRecords, Path
    <3>3. \A v \in {"plain", "lock"} : <<Path[probes[q].at], v, "core">> \in Grabs
      BY <3>2, GrabFacts
    <3>4. HoldsOwn(q)
      OBVIOUS
    <3>5. probes'[q] = probes[q] /\ HeldBy(q)' = HeldBy(q)
      BY <1>2, <1>3
    <3> QED BY <3>1, <3>3, <3>4, <3>5 DEF HoldsOwn
  <2>2. q \in DOMAIN refined => SaidRight(q)'
    BY <1>1, <1>2 DEF SaidRight
  <2>3. q \notin DOMAIN refined => SaysRight(q)'
    BY <1>1, <1>2, <1>3 DEF SaysRight, Tried, Untried
  <2> QED BY <2>1, <2>2, <2>3
<1>6. p \in DOMAIN refined => SaidRight(p)'
  BY <1>1, <1>2 DEF SaidRight
<1>7. p \notin DOMAIN refined => SaysRight(p)'
  BY <1>1, <1>2, <1>3 DEF SaysRight, Tried, Untried
<1> QED BY <1>1, <1>2, <1>4, <1>5, <1>6, <1>7

\* What the invariant says of one probe.
LEMMA OneGrab ==
    ASSUME GrabIInv, NEW p \in DOMAIN probes
    PROVE  /\ probes[p] \in ProbeRecords /\ HoldsOwn(p) /\ Path[probes[p].at] \in {"root", "frame"}
           /\ p # Nobody /\ p # WM
           /\ p \notin DOMAIN refined => SaysRight(p)
           /\ server \in [Grabs -> {Nobody, WM} \cup DOMAIN probes]
BY ProbeNumbers DEF GrabIInv, GrabTypes, ProbeRecords, Path

\* Somebody other than a probe that runs alone can only be the window manager.
LEMMA TakenIsEver ==
    ASSUME GrabIInv, NEW p \in DOMAIN probes, p \notin DOMAIN refined, NEW g \in Grabs, Taken(p, g),
           probes[p].alone
    PROVE  probes[p].ever # {}
<1>1. CASE server[g] = WM
  BY <1>1, OneGrab DEF SaysRight, HeldBy
<1>2. CASE server[g] # WM
  <2>1. server[g] \in DOMAIN probes \ {p}
    BY <1>2, OneGrab DEF Taken
  <2>2. probes[server[g]].pc = "closed" /\ HoldsOwn(server[g])
    BY <2>1, OneGrab DEF SaysRight
  <2> QED BY <2>2 DEF HoldsOwn, HeldBy
<1> QED BY <1>1, <1>2

\* A grab that is free for a probe was not the window manager's all along.
LEMMA FreeIsNotAlways ==
    ASSUME GrabIInv, NEW p \in DOMAIN probes, p \notin DOMAIN refined, NEW g \in Grabs, ~Taken(p, g)
    PROVE  g \notin probes[p].always
BY OneGrab DEF SaysRight, HeldBy, Taken, Nobody, WM

\* A variant is tried with the core protocol.
LEMMA GrabCoreKeeps == ASSUME GrabIInv, NEW p \in DOMAIN probes, GrabCore(p) PROVE GrabIInv'
<1> DEFINE me == probes[p]
           v == Head(me.todo)
           g == <<Path[me.at], v, "core">>
<1>1. /\ me \in ProbeRecords /\ HoldsOwn(p) /\ Path[me.at] \in {"root", "frame"}
      /\ p # Nobody /\ p # WM /\ server \in [Grabs -> {Nobody, WM} \cup DOMAIN probes]
      /\ p \notin DOMAIN refined => SaysRight(p)
  BY OneGrab
<1>2. me.pc = "core" /\ me.todo \in {<<"plain", "lock">>, <<"lock">>}
  BY <1>1 DEF GrabCore, ProbeRecords
<1>3. /\ v \in {"plain", "lock"} /\ Tail(me.todo) \in {<<"lock">>, <<>>}
      /\ v \in ToSet(me.todo) /\ ToSet(Tail(me.todo)) = ToSet(me.todo) \ {v}
  BY <1>2, TodoFacts
<1>4. g \in Grabs
  BY <1>1, <1>3, GrabFacts
<1>5. ~me.failed
  BY <1>1, <1>2 DEF HoldsOwn
<1>6. CASE Taken(p, g)
  <2> DEFINE next == [me EXCEPT !.todo = Tail(me.todo), !.conflicts = me.conflicts \union {v}, !.found = TRUE]
  <2>1. Thread(p, next, server)
    BY <1>6 DEF GrabCore
  <2>2. /\ next \in ProbeRecords /\ next.pc = "core" /\ next.todo = Tail(me.todo) /\ next.at = me.at
        /\ next.conflicts = me.conflicts \union {v} /\ next.found /\ next.failed = me.failed
        /\ next.always = me.always /\ next.ever = me.ever /\ next.alone = me.alone
    BY <1>1, <1>2, <1>3 DEF ProbeRecords
  <2> HIDE DEF next
  <2>3. probes'[p] = next /\ server' = server /\ HeldBy(p)' = HeldBy(p)
    BY <2>1, <1>1 DEF Thread, HeldBy
  <2>4. HoldsOwn(p)'
    BY <1>1, <1>2, <1>3, <1>5, <2>2, <2>3 DEF HoldsOwn, Untried
  <2>5. p \notin DOMAIN refined /\ next.alone => next.ever # {}
    BY <1>4, <1>6, <2>2, TakenIsEver
  <2> QED BY <1>1, <1>2, <2>1, <2>2, <2>4, <2>5, ThreadMoves
<1>7. CASE ~Taken(p, g)
  <2> DEFINE next == [me EXCEPT !.todo = Tail(me.todo)]
             grabs == [server EXCEPT ![g] = p]
  <2>1. Thread(p, next, grabs)
    BY <1>7 DEF GrabCore
  <2>2. /\ next \in ProbeRecords /\ next.pc = "core" /\ next.todo = Tail(me.todo) /\ next.at = me.at
        /\ next.conflicts = me.conflicts /\ next.found = me.found /\ next.failed = me.failed
        /\ next.always = me.always /\ next.ever = me.ever /\ next.alone = me.alone
    BY <1>1, <1>2, <1>3 DEF ProbeRecords
  <2> HIDE DEF next
  <2>3. /\ grabs \in [Grabs -> {Nobody, p, WM} \cup DOMAIN probes] /\ grabs[g] = p
        /\ \A h \in Grabs \ {g} : grabs[h] = server[h]
    BY <1>1, <1>4
  <2>4. \A h \in Grabs : \/ grabs[h] = server[h]
                         \/ grabs[h] \in {Nobody, p} /\ server[h] \in {Nobody, p}
    BY <1>7, <2>3 DEF Taken
  <2> HIDE DEF grabs
  <2>5. probes'[p] = next /\ server' = grabs /\ HeldBy(p)' = HeldBy(p) \cup {g}
    BY <2>1, <2>3, <1>4 DEF Thread, HeldBy
  <2>6. HoldsOwn(p)'
    <3>1. \A h \in HeldBy(p)' :
             h[1] = Path[next.at] /\ h[3] = "core" /\ h[2] \notin Untried(next) \cup next.conflicts
      <4>1. \A h \in HeldBy(p) :
               h[1] = Path[me.at] /\ h[3] = "core" /\ h[2] \notin Untried(me) \cup me.conflicts
        BY <1>1, <1>2 DEF HoldsOwn
      <4>2. v \notin Untried(next) /\ Untried(next) \subseteq Untried(me)
        BY <1>2, <1>3, <2>2 DEF Untried
      <4>3. v \notin me.conflicts
        BY <1>1, <1>2, <1>3 DEF HoldsOwn, Untried
      <4> QED BY <4>1, <4>2, <4>3, <2>2, <2>5
    <3>2. \A w \in {"plain", "lock"} :
             w \in Untried(next) \cup next.conflicts \/ server'[<<Path[next.at], w, "core">>] = p
      <4>1. \A w \in {"plain", "lock"} :
               w \in Untried(me) \cup me.conflicts \/ server[<<Path[me.at], w, "core">>] = p
        BY <1>1, <1>2 DEF HoldsOwn
      <4>2. \A w \in {"plain", "lock"} \ {v} : <<Path[me.at], w, "core">> \in Grabs \ {g}
        BY <1>1, GrabFacts
      <4> QED BY <4>1, <4>2, <1>2, <1>3, <2>2, <2>3, <2>5 DEF Untried
    <3>3. Untried(next) \cap next.conflicts = {}
      BY <1>1, <1>2, <1>3, <2>2 DEF HoldsOwn, Untried
    <3> QED BY <3>1, <3>2, <3>3, <1>5, <2>2, <2>5 DEF HoldsOwn
  <2>7. p \notin DOMAIN refined /\ ~next.found /\ ~next.failed => \A h \in next.always : ~Tried(next, h)
    <3> SUFFICES ASSUME p \notin DOMAIN refined, ~next.found, ~next.failed, NEW h \in next.always
                 PROVE  ~Tried(next, h)
      OBVIOUS
    <3>1. ~Tried(me, h) /\ h \in Grabs /\ h # g
      BY <1>1, <1>4, <1>7, <2>2, FreeIsNotAlways DEF SaysRight, ProbeRecords
    <3>2. h[1] = Path[me.at] /\ h[3] = "core" => h[2] # v
      BY <3>1, GrabFacts
    <3> QED BY <3>1, <3>2, <1>2, <1>3, <2>2 DEF Tried, Untried
  <2>8. p \notin DOMAIN refined /\ next.alone /\ next.found => next.ever # {}
    BY <1>1, <2>2 DEF SaysRight
  <2> QED BY <1>1, <1>2, <2>1, <2>2, <2>3, <2>4, <2>6, <2>7, <2>8, ThreadMoves
<1> QED BY <1>6, <1>7

\* The core grabs that were had are given back before XInput 2 is tried.
LEMMA UngrabCoreKeeps == ASSUME GrabIInv, NEW p \in DOMAIN probes, UngrabCore(p) PROVE GrabIInv'
<1> DEFINE me == probes[p]
           next == [me EXCEPT !.pc = "xi2", !.conflicts = {}]
           mine(g) == g[1] = Path[me.at] /\ g[2] \notin me.conflicts /\ g[3] = "core"
           grabs == [g \in Grabs |-> IF mine(g) THEN Nobody ELSE server[g]]
<1>1. /\ me \in ProbeRecords /\ HoldsOwn(p) /\ p # Nobody /\ p # WM
      /\ server \in [Grabs -> {Nobody, WM} \cup DOMAIN probes]
      /\ p \notin DOMAIN refined => SaysRight(p)
  BY OneGrab
<1>2. me.pc = "core" /\ me.todo = <<>> /\ Untried(me) = {} /\ ~me.failed
  BY <1>1, TodoFacts DEF UngrabCore, Untried, HoldsOwn
<1>3. Thread(p, next, grabs)
  BY DEF UngrabCore
<1>4. /\ next \in ProbeRecords /\ next.pc = "xi2" /\ next.conflicts = {} /\ next.at = me.at
      /\ next.found = me.found /\ next.failed = me.failed
      /\ next.always = me.always /\ next.ever = me.ever /\ next.alone = me.alone
  BY <1>1 DEF ProbeRecords
<1>5. \A g \in Grabs : mine(g) <=> server[g] = p
  <2>1. \A g \in Grabs : mine(g) => server[g] = p
    <3> SUFFICES ASSUME NEW g \in Grabs, mine(g) PROVE server[g] = p
      OBVIOUS
    <3>1. g = <<Path[me.at], g[2], "core">> /\ g[2] \in {"plain", "lock"}
      BY GrabFacts
    <3> QED BY <1>1, <1>2, <3>1 DEF HoldsOwn
  <2>2. \A g \in Grabs : server[g] = p => mine(g)
    BY <1>1, <1>2 DEF HoldsOwn, HeldBy
  <2> QED BY <2>1, <2>2
<1> HIDE DEF next, mine
<1>6. /\ grabs \in [Grabs -> {Nobody, p, WM} \cup DOMAIN probes]
      /\ \A g \in Grabs : \/ grabs[g] = server[g]
                          \/ grabs[g] \in {Nobody, p} /\ server[g] \in {Nobody, p}
      /\ \A g \in Grabs : grabs[g] # p
  BY <1>1, <1>5
<1> HIDE DEF grabs
<1>7. probes'[p] = next /\ server' = grabs /\ HeldBy(p)' = {}
  BY <1>1, <1>3, <1>6 DEF Thread, HeldBy
<1>8. HoldsOwn(p)'
  BY <1>1, <1>2, <1>4, <1>7 DEF HoldsOwn
<1>9. p \notin DOMAIN refined /\ ~next.found /\ ~next.failed => \A g \in next.always : ~Tried(next, g)
  BY <1>1, <1>2, <1>4 DEF SaysRight, Tried, Untried
<1>10. p \notin DOMAIN refined /\ next.alone /\ next.found => next.ever # {}
  BY <1>1, <1>4 DEF SaysRight
<1> QED BY <1>2, <1>3, <1>4, <1>6, <1>8, <1>9, <1>10, ThreadMoves

\* All variants are tried with XInput 2 at once.
LEMMA GrabXi2Keeps == ASSUME GrabIInv, NEW p \in DOMAIN probes, GrabXi2(p) PROVE GrabIInv'
<1> DEFINE me == probes[p]
           wanted == {g \in Grabs : g[1] = Path[me.at] /\ g[3] = "xi2"}
           free == {g \in wanted : ~Taken(p, g)}
           next == [me EXCEPT !.pc = "ungrab", !.found = @ \/ free # wanted]
           grabs == [g \in Grabs |-> IF g \in free THEN p ELSE server[g]]
<1>1. /\ me \in ProbeRecords /\ HoldsOwn(p) /\ p # Nobody /\ p # WM
      /\ server \in [Grabs -> {Nobody, WM} \cup DOMAIN probes]
      /\ p \notin DOMAIN refined => SaysRight(p)
  BY OneGrab
<1>2. me.pc = "xi2" /\ HeldBy(p) = {} /\ me.conflicts = {} /\ ~me.failed
  BY <1>1 DEF GrabXi2, HoldsOwn
<1>3. Thread(p, next, grabs)
  BY DEF GrabXi2
<1>4. /\ next \in ProbeRecords /\ next.pc = "ungrab" /\ next.conflicts = me.conflicts /\ next.at = me.at
      /\ next.failed = me.failed
      /\ next.always = me.always /\ next.ever = me.ever /\ next.alone = me.alone
  <2>1. (me.found \/ free # wanted) \in BOOLEAN
    OBVIOUS
  <2> QED BY <1>1, <2>1 DEF ProbeRecords
<1>5. next.found <=> me.found \/ free # wanted
  BY <1>1 DEF ProbeRecords
<1>6. /\ grabs \in [Grabs -> {Nobody, p, WM} \cup DOMAIN probes]
      /\ \A g \in Grabs : \/ grabs[g] = server[g]
                          \/ grabs[g] \in {Nobody, p} /\ server[g] \in {Nobody, p}
      /\ \A g \in Grabs : grabs[g] = p => g[3] = "xi2"
  BY <1>1, <1>2 DEF Taken, HeldBy
<1> HIDE DEF next, grabs
<1>7. probes'[p] = next /\ server' = grabs /\ HeldBy(p)' = {g \in Grabs : grabs[g] = p}
  BY <1>1, <1>3 DEF Thread, HeldBy
<1>8. HoldsOwn(p)'
  BY <1>1, <1>2, <1>4, <1>6, <1>7 DEF HoldsOwn
<1>9. p \notin DOMAIN refined /\ ~next.found /\ ~next.failed => \A g \in next.always : ~Tried(next, g)
  <2> SUFFICES ASSUME p \notin DOMAIN refined, ~next.found, ~next.failed, NEW g \in next.always
               PROVE  ~Tried(next, g)
    OBVIOUS
  <2>1. ~Tried(me, g) /\ g \in Grabs
    BY <1>1, <1>2, <1>4, <1>5 DEF SaysRight, ProbeRecords
  <2>2. g \notin wanted
    BY <1>4, <1>5, FreeIsNotAlways
  <2> QED BY <1>2, <1>4, <2>1, <2>2 DEF Tried, Untried
<1>10. p \notin DOMAIN refined /\ next.alone /\ next.found => next.ever # {}
  <2>1. CASE me.found
    BY <1>1, <1>4, <2>1 DEF SaysRight
  <2>2. CASE free # wanted
    <3>1. PICK g \in wanted : Taken(p, g)
      BY <2>2
    <3> QED BY <3>1, <1>4, TakenIsEver
  <2> QED BY <1>5, <2>1, <2>2
<1> QED BY <1>2, <1>3, <1>4, <1>6, <1>8, <1>9, <1>10, ThreadMoves

\* The XInput 2 grabs are given back, and the next window or the end comes.
LEMMA NextWindowKeeps == ASSUME GrabIInv, NEW p \in DOMAIN probes, NextWindow(p) PROVE GrabIInv'
<1> DEFINE me == probes[p]
           next == IF me.at < Len(Path)
                   THEN [me EXCEPT !.pc = "core", !.at = @ + 1, !.todo = Variants]
                   ELSE [me EXCEPT !.pc = "closing"]
           grabs == [g \in Grabs |-> IF g[3] = "xi2" /\ server[g] = p THEN Nobody ELSE server[g]]
<1>1. /\ me \in ProbeRecords /\ HoldsOwn(p) /\ p # Nobody /\ p # WM
      /\ server \in [Grabs -> {Nobody, WM} \cup DOMAIN probes]
      /\ p \notin DOMAIN refined => SaysRight(p)
  BY OneGrab
<1>2. /\ me.pc \in {"xi2", "ungrab"} /\ me.conflicts = {} /\ ~me.failed
      /\ me.pc = "xi2" => ~xserver.xi2
      /\ \A g \in HeldBy(p) : g[3] = "xi2"
  BY <1>1 DEF NextWindow, HoldsOwn
<1>3. Thread(p, next, grabs)
  BY DEF NextWindow
<1>4. Len(Path) = 2 /\ me.at \in {1, 2}
  BY <1>1 DEF Path, ProbeRecords
<1>5. /\ next \in ProbeRecords /\ next.conflicts = {} /\ next.at = 2 
      /\ next.found = me.found /\ next.failed = me.failed
      /\ next.always = me.always /\ next.ever = me.ever /\ next.alone = me.alone
      /\ next.pc = IF me.at = 1 THEN "core" ELSE "closing"
      /\ me.at = 1 => next.todo = Variants
  <2>1. CASE me.at = 1
    <3>1. next = [me EXCEPT !.pc = "core", !.at = 2, !.todo = Variants]
      BY <1>4, <2>1
    <3> QED BY <3>1, <2>1, <1>1, <1>2 DEF ProbeRecords, Variants
  <2>2. CASE me.at = 2
    <3>1. next = [me EXCEPT !.pc = "closing"]
      BY <1>4, <2>2
    <3>2. next \in ProbeRecords /\ next.pc = "closing" /\ next.at = me.at
      BY <3>1, <1>1 DEF ProbeRecords
    <3>3. /\ next.conflicts = me.conflicts /\ next.found = me.found /\ next.failed = me.failed
          /\ next.always = me.always /\ next.ever = me.ever /\ next.alone = me.alone
      BY <3>1, <1>1 DEF ProbeRecords
    <3> HIDE DEF next
    <3> QED BY <3>2, <3>3, <2>2, <1>2
  <2> QED BY <1>4, <2>1, <2>2
<1>6. /\ grabs \in [Grabs -> {Nobody, p, WM} \cup DOMAIN probes]
      /\ \A g \in Grabs : \/ grabs[g] = server[g]
                          \/ grabs[g] \in {Nobody, p} /\ server[g] \in {Nobody, p}
      /\ \A g \in Grabs : grabs[g] # p
  BY <1>1, <1>2 DEF HeldBy
<1> HIDE DEF next, grabs
<1>7. probes'[p] = next /\ server' = grabs /\ HeldBy(p)' = {}
  BY <1>1, <1>3, <1>6 DEF Thread, HeldBy
<1>8. HoldsOwn(p)'
  <2>1. next.pc = "core" => Untried(next) = {"plain", "lock"}
    BY <1>5, TodoFacts DEF Untried
  <2> QED BY <2>1, <1>2, <1>5, <1>7 DEF HoldsOwn
<1>9. p \notin DOMAIN refined /\ ~next.found /\ ~next.failed => \A g \in next.always : ~Tried(next, g)
  <2> SUFFICES ASSUME p \notin DOMAIN refined, ~next.found, ~next.failed, NEW g \in next.always
               PROVE  ~Tried(next, g)
    OBVIOUS
  <2>1. ~Tried(me, g) /\ g \in Grabs /\ g \in HeldBy(WM)
    BY <1>1, <1>2, <1>5 DEF SaysRight, ProbeRecords
  <2>2. g[3] = "xi2" => xserver.xi2
    BY <2>1 DEF GrabIInv, GrabTypes, Exists, HeldBy
  <2>3. g[1] # Path[me.at]
    BY <1>2, <2>1, <2>2, GrabFacts DEF Tried, Untried
  <2>4. CASE me.at = 1
    <3>1. g[1] = "frame" /\ Untried(next) = {"plain", "lock"} /\ next.pc = "core"
      BY <1>5, <2>1, <2>3, <2>4, TodoFacts, GrabFacts DEF Path, Untried
    <3> QED BY <3>1, <1>5, <2>1, GrabFacts DEF Tried
  <2>5. CASE me.at = 2
    <3>1. g[1] = "root"
      BY <2>1, <2>3, <2>5, GrabFacts DEF Path
    <3> QED BY <3>1, <2>1, <2>5 DEF Tried
  <2> QED BY <1>4, <2>4, <2>5
<1>10. p \notin DOMAIN refined /\ next.alone /\ next.found => next.ever # {}
  BY <1>1, <1>5 DEF SaysRight
<1> QED BY <1>2, <1>3, <1>5, <1>6, <1>8, <1>9, <1>10, ThreadMoves

\* A request fails, and the probe ends with its grabs.
LEMMA ProbeFailsKeeps == ASSUME GrabIInv, NEW p \in DOMAIN probes, ProbeFails(p) PROVE GrabIInv'
<1> DEFINE me == probes[p]
           next == [me EXCEPT !.pc = "closing", !.failed = TRUE, !.found = FALSE,
                              !.at = Len(Path), !.todo = <<>>, !.conflicts = {}]
<1>1. me \in ProbeRecords /\ HoldsOwn(p) /\ server \in [Grabs -> {Nobody, WM} \cup DOMAIN probes]
  BY OneGrab
<1>2. Thread(p, next, server) /\ me.pc \in {"core", "xi2", "ungrab"}
  BY DEF ProbeFails
<1>3. /\ next \in ProbeRecords /\ next.pc = "closing" /\ next.failed /\ ~next.found
      /\ next.always = me.always /\ next.ever = me.ever /\ next.alone = me.alone
  BY <1>1 DEF ProbeRecords, Path
<1> HIDE DEF next
<1>4. HoldsOwn(p)'
  BY <1>1, <1>2, <1>3 DEF HoldsOwn, Thread
<1>5. server \in [Grabs -> {Nobody, p, WM} \cup DOMAIN probes]
  BY <1>1
<1> QED BY <1>2, <1>3, <1>4, <1>5, ThreadMoves

\* The server takes the grabs of a client that is gone.
LEMMA ServerClosesKeeps == ASSUME GrabIInv, NEW p \in DOMAIN probes, ServerCloses(p) PROVE GrabIInv'
<1> DEFINE me == probes[p]
           next == [me EXCEPT !.pc = "closed"]
           grabs == [g \in Grabs |-> IF server[g] = p THEN Nobody ELSE server[g]]
<1>1. /\ me \in ProbeRecords /\ HoldsOwn(p) /\ p # Nobody
      /\ server \in [Grabs -> {Nobody, WM} \cup DOMAIN probes]
      /\ p \notin DOMAIN refined => SaysRight(p)
  BY OneGrab
<1>2. Thread(p, next, grabs) /\ me.pc = "closing"
  BY DEF ServerCloses
<1>3. /\ next \in ProbeRecords /\ next.pc = "closed" /\ next.at = me.at
      /\ next.found = me.found /\ next.failed = me.failed
      /\ next.always = me.always /\ next.ever = me.ever /\ next.alone = me.alone
  BY <1>1 DEF ProbeRecords
<1>4. /\ grabs \in [Grabs -> {Nobody, p, WM} \cup DOMAIN probes]
      /\ \A g \in Grabs : \/ grabs[g] = server[g]
                          \/ grabs[g] \in {Nobody, p} /\ server[g] \in {Nobody, p}
      /\ \A g \in Grabs : grabs[g] # p
  BY <1>1
<1> HIDE DEF next, grabs
<1>5. probes'[p] = next /\ server' = grabs /\ HeldBy(p)' = {}
  BY <1>1, <1>2, <1>4 DEF Thread, HeldBy
<1>6. HoldsOwn(p)'
  BY <1>1, <1>2, <1>3, <1>5 DEF HoldsOwn
<1>7. p \notin DOMAIN refined /\ ~next.found /\ ~next.failed => \A g \in next.always : ~Tried(next, g)
  BY <1>1, <1>2, <1>3 DEF SaysRight, Tried, Untried
<1>8. p \notin DOMAIN refined /\ next.alone /\ next.found => next.ever # {}
  BY <1>1, <1>3 DEF SaysRight
<1> QED BY <1>2, <1>3, <1>4, <1>6, <1>7, <1>8, ThreadMoves

\* No probe has been asked for.
LEMMA GrabsBegin == GrabInit => GrabIInv
<1> SUFFICES ASSUME GrabInit PROVE GrabIInv
  OBVIOUS
<1>1. probes = <<>> /\ refined = <<>> /\ DOMAIN probes = {}
  BY DEF GrabInit
<1>2. PICK held \in {{}} \union {{g} : g \in {g \in Grabs : Exists(g)}} :
         server = [g \in Grabs |-> IF g \in held THEN WM ELSE Nobody]
  BY DEF GrabInit
<1>3. server \in [Grabs -> {Nobody, WM} \cup DOMAIN probes] /\ \A g \in Grabs : server[g] = WM => Exists(g)
  BY <1>2 DEF Nobody, WM
<1> QED BY <1>1, <1>3 DEF GrabIInv, GrabTypes

\* What a probe holds does not change when neither its record nor its grabs do, and
\* refine may only have heard of other probes.
LEMMA ProbeRests ==
    ASSUME NEW p, probes'[p].pc = probes[p].pc, probes'[p].at = probes[p].at,
           probes'[p].todo = probes[p].todo, probes'[p].conflicts = probes[p].conflicts,
           probes'[p].failed = probes[p].failed,
           \A g \in Grabs : server'[g] = p <=> server[g] = p,
           probes[p] \in ProbeRecords, HoldsOwn(p)
    PROVE  HoldsOwn(p)' /\ HeldBy(p)' = HeldBy(p)
<1>1. HeldBy(p)' = HeldBy(p)
  BY DEF HeldBy
<1>2. Path[probes[p].at] \in {"root", "frame"}
  BY DEF ProbeRecords, Path
<1>3. \A v \in {"plain", "lock"} : <<Path[probes[p].at], v, "core">> \in Grabs
  BY <1>2, GrabFacts
<1>4. Untried(probes[p])' = Untried(probes[p])
  BY DEF Untried
<1> QED BY <1>1, <1>3, <1>4 DEF HoldsOwn

\* The window manager takes a grab or gives it up while a probe may be at it.
LEMMA WindowManagerKeeps == GrabIInv /\ WindowManager => GrabIInv'
<1> SUFFICES ASSUME GrabIInv, WindowManager PROVE GrabIInv'
  OBVIOUS
<1> DEFINE busy == DOMAIN probes \ DOMAIN refined
<1>1. PICK g \in {g \in Grabs : Exists(g)} :
          /\ server[g] \in {Nobody, WM}
          /\ server' = [server EXCEPT ![g] = IF server[g] = WM THEN Nobody ELSE WM]
          /\ probes' = [p \in DOMAIN probes |->
                IF p \in DOMAIN refined THEN probes[p]
                ELSE IF server[g] = WM THEN [probes[p] EXCEPT !.always = @ \ {g}]
                ELSE [probes[p] EXCEPT !.ever = @ \union {g}]]
  BY DEF WindowManager
<1>2. UNCHANGED <<xserver, refined>>
  BY DEF WindowManager
<1>3. /\ server \in [Grabs -> {Nobody, WM} \cup DOMAIN probes] /\ server' \in [Grabs -> {Nobody, WM} \cup DOMAIN probes]
      /\ server'[g] = (IF server[g] = WM THEN Nobody ELSE WM)
      /\ \A h \in Grabs \ {g} : server'[h] = server[h]
  BY <1>1 DEF GrabIInv, GrabTypes
<1>4. /\ DOMAIN probes' = DOMAIN probes
      /\ \A p \in DOMAIN probes : 
            /\ probes'[p] \in ProbeRecords
            /\ probes'[p].pc = probes[p].pc /\ probes'[p].at = probes[p].at
            /\ probes'[p].todo = probes[p].todo /\ probes'[p].conflicts = probes[p].conflicts
            /\ probes'[p].failed = probes[p].failed /\ probes'[p].found = probes[p].found
            /\ probes'[p].alone = probes[p].alone
            /\ p \in DOMAIN refined => probes'[p] = probes[p]
            /\ p \in busy => /\ probes'[p].always = probes[p].always \ (IF server[g] = WM THEN {g} ELSE {})
                             /\ probes'[p].ever = probes[p].ever \cup (IF server[g] = WM THEN {} ELSE {g})
  <2>1. DOMAIN probes' = DOMAIN probes
    BY <1>1
  <2> SUFFICES ASSUME NEW p \in DOMAIN probes
               PROVE
            /\ probes'[p] \in ProbeRecords
            /\ probes'[p].pc = probes[p].pc /\ probes'[p].at = probes[p].at
            /\ probes'[p].todo = probes[p].todo /\ probes'[p].conflicts = probes[p].conflicts
            /\ probes'[p].failed = probes[p].failed /\ probes'[p].found = probes[p].found
            /\ probes'[p].alone = probes[p].alone
            /\ p \in DOMAIN refined => probes'[p] = probes[p]
            /\ p \in busy => /\ probes'[p].always = probes[p].always \ (IF server[g] = WM THEN {g} ELSE {})
                             /\ probes'[p].ever = probes[p].ever \cup (IF server[g] = WM THEN {} ELSE {g})
    BY <2>1
  <2>2. probes[p] \in ProbeRecords
    BY OneGrab
  <2>3. CASE p \in DOMAIN refined
    BY <1>1, <2>2, <2>3
  <2>4. CASE p \notin DOMAIN refined /\ server[g] = WM
    <3>1. probes'[p] = [probes[p] EXCEPT !.always = @ \ {g}]
      BY <1>1, <2>4
    <3> QED BY <2>2, <2>4, <3>1 DEF ProbeRecords
  <2>5. CASE p \notin DOMAIN refined /\ server[g] # WM
    <3>1. probes'[p] = [probes[p] EXCEPT !.ever = @ \union {g}]
      BY <1>1, <2>5
    <3> QED BY <2>2, <2>5, <3>1 DEF ProbeRecords
  <2> QED BY <2>3, <2>4, <2>5
<1>5. HeldBy(WM)' = IF server[g] = WM THEN HeldBy(WM) \ {g} ELSE HeldBy(WM) \cup {g}
  BY <1>3 DEF HeldBy, Nobody, WM
<1>6. GrabTypes'
  <2>1. probes' \in Seq(ProbeRecords) /\ Len(probes') = Len(probes)
    <3>1. PICK n \in Nat : n = Len(probes) /\ DOMAIN probes = 1 .. n
      BY ProbeNumbers DEF GrabIInv
    <3>2. probes' \in [1 .. n -> ProbeRecords]
      <4>1. probes' = [p \in 1 .. n |-> probes'[p]]
        BY <1>1, <3>1
      <4> QED BY <1>4, <3>1, <4>1
    <3> QED BY <3>1, <3>2, SMTT(30)
  <2>2. \A h \in Grabs : server'[h] = WM => Exists(h)'
    BY <1>1, <1>2, <1>3 DEF GrabIInv, GrabTypes, Exists
  <2> QED BY <1>2, <1>3, <1>4, <2>1, <2>2 DEF GrabIInv, GrabTypes
<1>7. ASSUME NEW p \in DOMAIN probes
      PROVE  HoldsOwn(p)' /\ IF p \in DOMAIN refined THEN SaidRight(p)' ELSE SaysRight(p)'
  <2>1. \A h \in Grabs : server'[h] = p <=> server[h] = p
    BY <1>1, <1>3, OneGrab
  <2>2. HoldsOwn(p)'
    BY <1>4, <2>1, OneGrab, ProbeRests
  <2>3. p \in DOMAIN refined => SaidRight(p)'
    BY <1>2, <1>4 DEF SaidRight, GrabIInv
  <2>4. ASSUME p \notin DOMAIN refined PROVE SaysRight(p)'
    <3>1. SaysRight(p)
      BY <2>4, OneGrab
    <3>2. p \in busy
      BY <2>4
    <3>3. probes'[p].always \subseteq HeldBy(WM)' /\ HeldBy(WM)' \subseteq probes'[p].ever
      BY <1>4, <1>5, <3>1, <3>2 DEF SaysRight
    <3>4. probes'[p].always \subseteq probes[p].always /\ probes[p].ever \subseteq probes'[p].ever
      BY <1>4, <3>2
    <3> QED BY <1>4, <3>1, <3>3, <3>4 DEF SaysRight, Tried, Untried
  <2> QED BY <2>2, <2>3, <2>4
<1> QED BY <1>2, <1>4, <1>6, <1>7 DEF GrabIInv

\* A probe is started, when the answer of the last one was taken.
LEMMA RefineKeeps == GrabIInv /\ Refine => GrabIInv'
<1> SUFFICES ASSUME GrabIInv, Refine PROVE GrabIInv'
  OBVIOUS
<1> DEFINE new == [pc |-> "core", at |-> 1, todo |-> Variants,
                   conflicts |-> {}, found |-> FALSE, failed |-> FALSE,
                   always |-> HeldBy(WM), ever |-> HeldBy(WM),
                   alone |-> \A q \in DOMAIN probes : probes[q].pc = "closed"]
<1>1. probes' = Append(probes, new) /\ UNCHANGED <<server, xserver, refined>> /\ ~Waiting
  BY DEF Refine
<1>2. PICK n \in Nat : n = Len(probes) /\ n = Len(refined) /\ DOMAIN probes = 1 .. n
                       /\ DOMAIN refined = 1 .. n /\ probes \in Seq(ProbeRecords)
  BY <1>1, ProbeNumbers DEF GrabIInv, GrabTypes, Waiting
<1>3. new \in ProbeRecords
  BY DEF ProbeRecords, Variants, HeldBy
<1> HIDE DEF new
<1>4. /\ probes' \in Seq(ProbeRecords) /\ Len(probes') = n + 1 /\ DOMAIN probes' = 1 .. (n + 1)
      /\ probes'[n + 1] = new /\ \A p \in 1 .. n : probes'[p] = probes[p]
  BY <1>1, <1>2, <1>3, AppendProperties
<1>5. server \in [Grabs -> {Nobody, WM} \cup 1 .. n] /\ \A g \in Grabs : server[g] = WM => Exists(g)
  BY <1>2 DEF GrabIInv, GrabTypes
<1>6. GrabTypes'
  <2>1. \A g \in Grabs : server'[g] = WM => Exists(g)'
    BY <1>1, <1>5 DEF Exists
  <2>2. server' \in [Grabs -> {Nobody, WM} \cup DOMAIN probes']
    <3>1. 1 .. n \subseteq DOMAIN probes'
      BY <1>4
    <3> QED BY <1>1, <1>5, <3>1
  <2>3. refined' \in Seq({"failed", "grabbed", "free"}) /\ Len(refined') = n
    BY <1>1, <1>2 DEF GrabIInv, GrabTypes
  <2> QED BY <1>4, <2>1, <2>2, <2>3 DEF GrabTypes
<1>7. ASSUME NEW p \in 1 .. n PROVE HoldsOwn(p)' /\ SaidRight(p)'
  <2>1. probes'[p] = probes[p] /\ p \in DOMAIN probes /\ p \in DOMAIN refined
    BY <1>2, <1>4
  <2>2. HoldsOwn(p)'
    BY <1>1, <2>1, OneGrab, ProbeRests
  <2>3. SaidRight(p)'
    BY <1>1, <2>1 DEF SaidRight, GrabIInv
  <2> QED BY <2>2, <2>3
<1>8. HoldsOwn(n + 1)' /\ SaysRight(n + 1)'
  <2>1. HeldBy(n + 1)' = {} /\ HeldBy(WM)' = HeldBy(WM)
    BY <1>1, <1>5 DEF HeldBy, Nobody, WM
  <2>2. Untried(new) = {"plain", "lock"}
    BY TodoFacts DEF Untried, new
  <2>3. HoldsOwn(n + 1)'
    BY <1>4, <2>1, <2>2 DEF HoldsOwn, new
  <2>4. ASSUME NEW g \in new.always PROVE ~Tried(new, g)
    <3>1. g \in Grabs
      BY <2>4 DEF new, HeldBy
    <3> QED BY <2>2, <3>1, GrabFacts DEF Tried, new
  <2>5. new.alone => \A q \in 1 .. n : probes[q].pc = "closed"
    BY <1>2 DEF new
  <2>6. DOMAIN probes' \ {n + 1} = 1 .. n
    BY <1>4
  <2>7. new.always = HeldBy(WM) /\ new.ever = HeldBy(WM) /\ ~new.found /\ ~new.failed
    BY DEF new
  <2> QED BY <1>4, <2>1, <2>3, <2>4, <2>5, <2>6, <2>7 DEF SaysRight
<1> QED
  <2>1. DOMAIN refined' = 1 .. n
    BY <1>1, <1>2
  <2>2. DOMAIN probes' = 1 .. n \cup {n + 1} /\ n + 1 \notin 1 .. n
    BY <1>4
  <2> QED BY <1>6, <1>7, <1>8, <2>1, <2>2 DEF GrabIInv

\* The answer of a probe is taken, as it is.
LEMMA TakesKeeps ==
    ASSUME GrabIInv, Waiting, NEW observed \in {"failed", "grabbed", "free"}, Takes(observed),
           observed = "free" => probes[Len(probes)].always = {},
           observed = "grabbed" /\ probes[Len(probes)].alone => probes[Len(probes)].ever # {}
    PROVE  GrabIInv'
<1>1. refined' = Append(refined, observed) /\ UNCHANGED <<server, xserver, probes>>
  BY DEF Takes
<1>2. PICK n \in Nat : n = Len(refined) /\ n + 1 = Len(probes) /\ DOMAIN refined = 1 .. n
                       /\ DOMAIN probes = 1 .. (n + 1) /\ refined \in Seq({"failed", "grabbed", "free"})
  BY ProbeNumbers DEF GrabIInv, GrabTypes, Waiting
<1>3. /\ refined' \in Seq({"failed", "grabbed", "free"}) /\ Len(refined') = n + 1
      /\ refined'[n + 1] = observed /\ \A p \in 1 .. n : refined'[p] = refined[p]
      /\ DOMAIN refined' = 1 .. (n + 1)
  BY <1>1, <1>2, AppendProperties
<1>4. GrabTypes'
  <2>1. \A g \in Grabs : server'[g] = WM => Exists(g)'
    BY <1>1 DEF GrabIInv, GrabTypes, Exists
  <2> QED BY <1>1, <1>2, <1>3, <2>1 DEF GrabIInv, GrabTypes
<1>5. ASSUME NEW p \in 1 .. (n + 1) PROVE HoldsOwn(p)'
  BY <1>1, <1>2, OneGrab, ProbeRests
<1>6. ASSUME NEW p \in 1 .. n PROVE SaidRight(p)'
  BY <1>1, <1>2, <1>3 DEF SaidRight, GrabIInv
<1>7. SaidRight(n + 1)'
  BY <1>1, <1>2, <1>3 DEF SaidRight
<1>8. 1 .. (n + 1) = 1 .. n \cup {n + 1}
  OBVIOUS
<1> QED BY <1>1, <1>2, <1>3, <1>4, <1>5, <1>6, <1>7, <1>8 DEF GrabIInv

\* A probe answers in time.
LEMMA ProbeAnswersKeeps == GrabIInv /\ ProbeAnswers => GrabIInv'
<1> SUFFICES ASSUME GrabIInv, ProbeAnswers PROVE GrabIInv'
  OBVIOUS
<1>1. PICK p \in DOMAIN probes : p = Len(probes) /\ p \notin DOMAIN refined
  BY ProbeNumbers DEF GrabIInv, GrabTypes, ProbeAnswers, Waiting
<1>2. Waiting /\ probes[p].pc \in {"closing", "closed"} /\ Takes(Observed(p))
  BY <1>1 DEF ProbeAnswers
<1>3. HoldsOwn(p) /\ SaysRight(p) /\ probes[p] \in ProbeRecords
  BY <1>1, OneGrab
<1>4. ASSUME Observed(p) = "free" PROVE probes[p].always = {}
  <2>1. ~probes[p].failed /\ ~probes[p].found
    BY <1>4 DEF Observed
  <2>2. probes[p].at = 2
    BY <1>2, <1>3, <2>1 DEF HoldsOwn
  <2>3. \A g \in Grabs : Tried(probes[p], g)
    BY <1>2, <2>2, GrabFacts DEF Tried, Untried, Path
  <2> QED BY <1>3, <2>1, <2>3 DEF SaysRight, ProbeRecords
<1>5. ASSUME Observed(p) = "grabbed", probes[p].alone PROVE probes[p].ever # {}
  BY <1>3, <1>5 DEF Observed, SaysRight
<1>6. Observed(p) \in {"failed", "grabbed", "free"}
  BY DEF Observed
<1> QED BY <1>1, <1>2, <1>4, <1>5, <1>6, TakesKeeps

\* A probe that is late has failed, and goes on.
LEMMA ProbeIsLateKeeps == GrabIInv /\ ProbeIsLate => GrabIInv'
BY TakesKeeps DEF ProbeIsLate

\* A step of nobody.
LEMMA GrabRests == GrabIInv /\ UNCHANGED grabVars => GrabIInv'
<1> SUFFICES ASSUME GrabIInv, UNCHANGED grabVars PROVE GrabIInv'
  OBVIOUS
<1>1. UNCHANGED <<server, xserver, probes, refined>>
  BY DEF grabVars
<1>2. GrabTypes'
  <2>1. \A g \in Grabs : server'[g] = WM => Exists(g)'
    BY <1>1 DEF GrabIInv, GrabTypes, Exists
  <2> QED BY <1>1, <2>1 DEF GrabIInv, GrabTypes
<1>3. ASSUME NEW p \in DOMAIN probes
      PROVE  HoldsOwn(p)' /\ IF p \in DOMAIN refined THEN SaidRight(p)' ELSE SaysRight(p)'
  <2>1. HoldsOwn(p)'
    BY <1>1, OneGrab, ProbeRests
  <2>2. HeldBy(WM)' = HeldBy(WM)
    BY <1>1 DEF HeldBy
  <2> QED BY <1>1, <2>1, <2>2 DEF GrabIInv, SaidRight, SaysRight, Tried, Untried
<1> QED BY <1>1, <1>2, <1>3 DEF GrabIInv

\* Every step of the probes, the server and the window manager keeps it.
LEMMA GrabsKeep == GrabIInv /\ (GrabNext \/ UNCHANGED grabVars) => GrabIInv'
<1> SUFFICES ASSUME GrabIInv, GrabNext \/ UNCHANGED grabVars PROVE GrabIInv'
  OBVIOUS
<1>1. CASE WindowManager \/ Refine \/ ProbeAnswers \/ ProbeIsLate
  BY <1>1, WindowManagerKeeps, RefineKeeps, ProbeAnswersKeeps, ProbeIsLateKeeps
<1>2. ASSUME NEW p \in DOMAIN probes,
             GrabCore(p) \/ UngrabCore(p) \/ GrabXi2(p) \/ NextWindow(p) \/ ProbeFails(p) \/ ServerCloses(p)
      PROVE  GrabIInv'
  BY <1>2, GrabCoreKeeps, UngrabCoreKeeps, GrabXi2Keeps, NextWindowKeeps, ProbeFailsKeeps,
     ServerClosesKeeps
<1> QED BY <1>1, <1>2, GrabRests DEF GrabNext

\* A verdict follows from what the probe said; the grabs of one that is gone are free.
LEMMA GrabsAreJust == GrabIInv => VerdictIsJust /\ NothingStaysGrabbed
<1> SUFFICES ASSUME GrabIInv PROVE VerdictIsJust /\ NothingStaysGrabbed
  OBVIOUS
<1>1. VerdictIsJust
  <2> SUFFICES ASSUME NEW p \in DOMAIN refined, NEW adapter \in Outcomes
               PROVE  LET outcome == Refined("X11", adapter, refined[p]) IN
                      /\ outcome = "Pass" => probes[p].always = {}
                      /\ outcome = "Consumed" /\ probes[p].alone
                            => probes[p].ever # {} \/ (refined[p] = "failed" /\ adapter = "Consumed")
    BY DEF VerdictIsJust
  <2>1. p \in DOMAIN probes /\ refined[p] \in {"failed", "grabbed", "free"} /\ SaidRight(p)
    BY ProbeNumbers DEF GrabIInv, GrabTypes
  <2> QED BY <2>1 DEF Refined, X11Result, SaidRight, Outcomes
<1>2. NothingStaysGrabbed
  BY DEF NothingStaysGrabbed, GrabIInv, HoldsOwn
<1> QED BY <1>1, <1>2

-----------------------------------------------------------------------------
(* The deadlines of nested operations.                                     *)
\* A DeadlineGuard: its deadline, and the one it puts back.
Operations == [previous : Nat \cup {None}, deadline : Nat]

\* Each operation remembers the deadline of the one around it.
PreviousIsOuter ==
    \A i \in 1 .. Len(deadlines) :
        deadlines[i].previous = IF i = 1 THEN None ELSE deadlines[i - 1].deadline

\* No operation outlives one around it.
InnerEndsFirst ==
    \A i \in 1 .. Len(deadlines) : \A j \in 1 .. i : deadlines[i].deadline <= deadlines[j].deadline

\* A command got no more time than was left of the active deadline, and it
\* is waited for no longer than that.
CommandFits ==
    /\ pc \in {"starting", "running"} =>
          begun <= now /\ (active # None => begun + limit <= active)
    /\ pc = "running" => begun <= started /\ started <= now /\ now <= GiveUpAt

\* The stack of deadlines and the command that runs under it.
BudgetIInv ==
    /\ {now, limit, begun, started} \subseteq Nat
    /\ pc \in {"idle", "starting", "running"}
    /\ active \in Nat \cup {None}
    /\ deadlines \in Seq(Operations)
    /\ PreviousIsOuter /\ InnerEndsFirst /\ CommandFits
    /\ active = IF deadlines = <<>> THEN None ELSE deadlines[Len(deadlines)].deadline

\* No operation and no command has begun.
LEMMA BudgetBegins == BudgetInit => BudgetIInv
BY DEF BudgetInit, BudgetIInv, PreviousIsOuter, InnerEndsFirst, CommandFits

\* The stack by its length, with its deadlines in order.
LEMMA DeadlinesOf ==
    ASSUME BudgetIInv
    PROVE  \E n \in Nat : /\ n = Len(deadlines) /\ deadlines \in Seq(Operations)
                          /\ \A i \in 1 .. n : /\ deadlines[i] \in Operations /\ deadlines[i].deadline \in Nat
                                               /\ deadlines[i].previous \in Nat \cup {None}
                          /\ active = IF n = 0 THEN None ELSE deadlines[n].deadline
                          /\ n = 0 <=> deadlines = <<>>
<1>1. PICK n \in Nat : n = Len(deadlines) /\ deadlines \in Seq(Operations)
  BY DEF BudgetIInv
<1>2. n = 0 <=> deadlines = <<>>
  BY <1>1, EmptySeq
<1>3. \A i \in 1 .. n : deadlines[i] \in Operations
  BY <1>1
<1>4. \A op \in Operations : op.deadline \in Nat /\ op.previous \in Nat \cup {None}
  BY DEF Operations
<1> QED BY <1>1, <1>2, <1>3, <1>4 DEF BudgetIInv

\* An operation begins: its deadline is at most the active one.
LEMMA EnterKeeps == BudgetIInv /\ Enter => BudgetIInv'
<1> SUFFICES ASSUME BudgetIInv, Enter PROVE BudgetIInv'
  OBVIOUS
<1>1. PICK d \in Durations :
         /\ active' = Effective(now + d)
         /\ deadlines' = Append(deadlines, [previous |-> active, deadline |-> Effective(now + d)])
  BY DEF Enter
<1>2. pc = "idle" /\ UNCHANGED <<now, pc, limit, begun, started>>
  BY DEF Enter
<1> DEFINE last == Effective(now + d)
           new == [previous |-> active, deadline |-> last]
<1>3. last \in Nat /\ (active # None => last <= active)
  BY BudgetAssumption, SMTT(30) DEF Effective, AtMost, BudgetIInv, None
<1> HIDE DEF last
<1>4. PICK n \in Nat : /\ n = Len(deadlines) /\ deadlines \in Seq(Operations)
                       /\ \A i \in 1 .. n : deadlines[i].deadline \in Nat
                       /\ active = IF n = 0 THEN None ELSE deadlines[n].deadline
  BY DeadlinesOf
<1>0. /\ PreviousIsOuter /\ InnerEndsFirst
      /\ \A i \in 1 .. n : deadlines[i].previous = IF i = 1 THEN None ELSE deadlines[i - 1].deadline
      /\ \A i \in 1 .. n : \A j \in 1 .. i : deadlines[i].deadline <= deadlines[j].deadline
  <2>1. PreviousIsOuter /\ InnerEndsFirst
    BY DEF BudgetIInv
  <2> QED BY <1>4, <2>1 DEF PreviousIsOuter, InnerEndsFirst
<1>5. new \in Operations /\ new.previous = active /\ new.deadline = last
  BY <1>3 DEF Operations, BudgetIInv
<1>11. deadlines' = Append(deadlines, new) /\ active' = last
  BY <1>1 DEF last
<1> HIDE DEF new
<1>6. /\ deadlines' \in Seq(Operations) /\ Len(deadlines') = n + 1 /\ deadlines' # <<>>
      /\ deadlines'[n + 1] = new /\ \A i \in 1 .. n : deadlines'[i] = deadlines[i]
  BY <1>4, <1>5, <1>11, AppendProperties
<1>7. PreviousIsOuter'
  <2> SUFFICES ASSUME NEW i \in 1 .. (n + 1)
               PROVE  deadlines'[i].previous = IF i = 1 THEN None ELSE deadlines'[i - 1].deadline
    BY <1>6 DEF PreviousIsOuter
  <2>1. CASE i = n + 1
    BY <2>1, <1>4, <1>5, <1>6, <1>11
  <2>2. CASE i \in 1 .. n
    <3>1. deadlines[i].previous = IF i = 1 THEN None ELSE deadlines[i - 1].deadline
      BY <1>0, <2>2
    <3>2. i # 1 => i - 1 \in 1 .. n
      BY <2>2
    <3> QED BY <2>2, <3>1, <3>2, <1>6
  <2> QED BY <2>1, <2>2
<1>8. InnerEndsFirst'
  <2> SUFFICES ASSUME NEW i \in 1 .. (n + 1), NEW j \in 1 .. i
               PROVE  deadlines'[i].deadline <= deadlines'[j].deadline
    BY <1>6 DEF InnerEndsFirst
  <2>1. CASE i \in 1 .. n
    <3>1. deadlines[i].deadline <= deadlines[j].deadline
      BY <1>0, <2>1
    <3>2. j \in 1 .. n
      BY <2>1
    <3> QED BY <3>1, <3>2, <2>1, <1>6
  <2>2. CASE i = n + 1 /\ j = n + 1
    BY <2>2, <1>3, <1>5, <1>6, <1>11
  <2>3. CASE i = n + 1 /\ j \in 1 .. n
    <3>1. deadlines[n].deadline <= deadlines[j].deadline /\ active = deadlines[n].deadline
      BY <1>4, <1>0, <2>3
    <3>2. deadlines[n].deadline \in Nat /\ deadlines[j].deadline \in Nat /\ active # None
      BY <1>4, <2>3, <3>1 DEF None
    <3> QED BY <2>3, <3>1, <3>2, <1>3, <1>5, <1>6, <1>11
  <2> QED BY <2>1, <2>2, <2>3
<1>9. active' = IF deadlines' = <<>> THEN None ELSE deadlines'[Len(deadlines')].deadline
  BY <1>5, <1>6, <1>11
<1> QED BY <1>2, <1>3, <1>6, <1>7, <1>8, <1>9, <1>11 DEF BudgetIInv, CommandFits

\* An operation ends: the deadline of the one around it is active again.
LEMMA LeaveKeeps == BudgetIInv /\ Leave => BudgetIInv'
<1> SUFFICES ASSUME BudgetIInv, Leave PROVE BudgetIInv'
  OBVIOUS
<1>1. PICK n \in Nat : /\ n = Len(deadlines) /\ deadlines \in Seq(Operations) /\ n > 0
                       /\ \A i \in 1 .. n : deadlines[i].deadline \in Nat
  BY DeadlinesOf DEF Leave
<1>2. /\ pc = "idle" /\ UNCHANGED <<now, pc, limit, begun, started>>
      /\ active' = deadlines[n].previous /\ deadlines' = SubSeq(deadlines, 1, n - 1)
  BY <1>1 DEF Leave
<1>3. /\ deadlines' \in Seq(Operations) /\ Len(deadlines') = n - 1
      /\ \A i \in 1 .. (n - 1) : deadlines'[i] = deadlines[i]
  BY <1>1, <1>2, SubSeqProperties
<1>4. active' = IF n = 1 THEN None ELSE deadlines[n - 1].deadline
  BY <1>1, <1>2 DEF BudgetIInv, PreviousIsOuter
<1>0. /\ PreviousIsOuter /\ InnerEndsFirst
      /\ \A i \in 1 .. n : deadlines[i].previous = IF i = 1 THEN None ELSE deadlines[i - 1].deadline
      /\ \A i \in 1 .. n : \A j \in 1 .. i : deadlines[i].deadline <= deadlines[j].deadline
  <2>1. PreviousIsOuter /\ InnerEndsFirst
    BY DEF BudgetIInv
  <2> QED BY <1>1, <2>1 DEF PreviousIsOuter, InnerEndsFirst
<1>5. active' \in Nat \cup {None}
  BY <1>1, <1>4
<1>6. PreviousIsOuter'
  <2>1. \A i \in 1 .. (n - 1) : i \in 1 .. n /\ (i # 1 => i - 1 \in 1 .. (n - 1))
    BY <1>1
  <2> QED BY <1>3, <1>0, <2>1 DEF PreviousIsOuter
<1>7. InnerEndsFirst'
  <2>1. \A i \in 1 .. (n - 1) : i \in 1 .. n /\ 1 .. i \subseteq 1 .. (n - 1)
    BY <1>1
  <2> QED BY <1>3, <1>0, <2>1 DEF InnerEndsFirst
<1>8. active' = IF deadlines' = <<>> THEN None ELSE deadlines'[Len(deadlines')].deadline
  <2>1. deadlines' = <<>> <=> n = 1
    BY <1>1, <1>3, EmptySeq
  <2> QED BY <1>1, <1>3, <1>4, <2>1
<1> QED BY <1>2, <1>3, <1>5, <1>6, <1>7, <1>8 DEF BudgetIInv, CommandFits

\* Operations, commands and the clock keep it.
LEMMA BudgetKeeps == BudgetIInv /\ (BudgetNext \/ UNCHANGED budgetVars) => BudgetIInv'
<1> SUFFICES ASSUME BudgetIInv, BudgetNext \/ UNCHANGED budgetVars PROVE BudgetIInv'
  OBVIOUS
<1>1. ASSUME UNCHANGED <<active, deadlines>>
      PROVE  (PreviousIsOuter' <=> PreviousIsOuter) /\ (InnerEndsFirst' <=> InnerEndsFirst)
  BY <1>1 DEF PreviousIsOuter, InnerEndsFirst
<1>2. CASE UNCHANGED budgetVars
  BY <1>1, <1>2 DEF budgetVars, BudgetIInv, CommandFits, GiveUpAt
<1>3. CASE StartCommand
  <2>1. limit' \in Nat /\ (active # None => now + limit' <= active)
    BY <1>3, BudgetAssumption, SMTT(30) DEF StartCommand, Budget, Remaining, Exhausted, AtMost, BudgetIInv, None
  <2> QED BY <1>1, <1>3, <2>1 DEF StartCommand, BudgetIInv, CommandFits
<1>4. CASE CommandStarted
  BY <1>1, <1>4 DEF CommandStarted, BudgetIInv, CommandFits, GiveUpAt
<1>5. CASE CommandEnds
  BY <1>1, <1>5 DEF CommandEnds, BudgetIInv, CommandFits
<1>6. CASE Tick
  BY <1>1, <1>6 DEF Tick, BudgetIInv, CommandFits, GiveUpAt
<1> QED BY <1>2, <1>3, <1>4, <1>5, <1>6, EnterKeeps, LeaveKeeps DEF BudgetNext

\* The innermost deadline is the earliest, and a command gets no more than was left of it.
LEMMA BudgetIsKept == BudgetIInv => InnermostRules /\ CommandsEndInBudget
<1> SUFFICES ASSUME BudgetIInv PROVE InnermostRules /\ CommandsEndInBudget
  OBVIOUS
<1>1. PICK n \in Nat : /\ n = Len(deadlines) /\ deadlines \in Seq(Operations)
                       /\ \A i \in 1 .. n : deadlines[i].deadline \in Nat
                       /\ active = IF n = 0 THEN None ELSE deadlines[n].deadline
  BY DeadlinesOf
<1>2. InnermostRules
  BY <1>1 DEF BudgetIInv, InnermostRules, InnerEndsFirst
<1>3. CommandsEndInBudget
  <2> SUFFICES ASSUME pc = "running", NEW i \in 1 .. n
               PROVE  now <= deadlines[i].deadline + (started - begun)
    BY <1>1 DEF CommandsEndInBudget
  <2>1. active = deadlines[n].deadline /\ active <= deadlines[i].deadline /\ active # None
    BY <1>1 DEF BudgetIInv, InnerEndsFirst, None
  <2>2. begun + limit <= active /\ now <= started + limit
    BY <2>1 DEF BudgetIInv, CommandFits, GiveUpAt
  <2> QED BY <1>1, <2>1, <2>2, SMTT(30) DEF BudgetIInv
<1> QED BY <1>2, <1>3

-----------------------------------------------------------------------------
(* The capture with Sway.                                                  *)
\* The pieces of the frames: two of a reply, three of an event.
SwayTokens == {"magic", "subscribe", "binding", "press", "release"}
              \cup [trigger : {"none"}, changed : BOOLEAN, ambiguous : BOOLEAN]
\* A binding that ran, and what whykey can no longer know of it.
SwayEvents == [trigger : {"press", "release"}, changed : BOOLEAN, ambiguous : BOOLEAN]

\* The tokens that were sent and not decoded, read or not.
TokenAt(i) == IF i <= Len(swayBuffer) THEN swayBuffer[i] ELSE swayWire[i - Len(swayBuffer)]

\* They are whole frames: Sway's reply, if it is still there, and one of each event
\* that is not shown.
FramesWith(replies) ==
    /\ Len(swayBuffer) + Len(swayWire) = 3 * (replies + Len(happened) - Len(swayShown))
    /\ \A f \in Nat : f < replies + Len(happened) - Len(swayShown) =>
          /\ TokenAt(3 * f + 1) = "magic"
          /\ TokenAt(3 * f + 2) = IF f < replies THEN "subscribe" ELSE "binding"

\* The events not yet shown that nothing has overtaken ran in the mode and with the
\* bindings that are still in force.
RanAsBound(i) ==
    ~happened[i].changed =>
        /\ happened[i].ambiguous <=> BoundIn(swayMode, "press") # {}
        /\ BoundIn(swayMode, happened[i].trigger) # {}

\* A report that is not excused says how the binding ran.
ShownRight(i) ==
    ~happened[i].changed /\ ~(happened[i].trigger = "release" /\ happened[i].ambiguous)
        => swayShown[i] = happened[i].trigger

\* The configuration, the two ends of the socket, and what ran.
SwayTypes ==
    /\ swayConfig \subseteq SwayBind
    /\ releases = NoBind \/ (releases \in swayConfig /\ releases.trigger = "release")
    /\ swayBuffer \in Seq(SwayTokens) /\ swayWire \in Seq(SwayTokens)
    /\ happened \in Seq(SwayEvents) /\ swayShown \in Seq({"press", "release"})
    /\ Len(swayShown) <= Len(happened)

\* The bytes not parsed yet are whole frames, one for each event that is not shown.
SwayIInv ==
    /\ SwayTypes
    /\ \E replies \in {0, 1} : FramesWith(replies)
    /\ \A i \in 1 .. Len(swayShown) : ShownRight(i)
    /\ \A i \in Len(swayShown) + 1 .. Len(happened) : RanAsBound(i)

\* The reply to the subscription is on its way.
LEMMA SwayBegins == SwayInit => SwayIInv
<1> SUFFICES ASSUME SwayInit PROVE SwayIInv
  OBVIOUS
<1> DEFINE reply == [trigger |-> "none", changed |-> FALSE, ambiguous |-> FALSE]
<1>1. /\ swayWire = <<"magic", "subscribe", reply>> /\ swayBuffer = <<>> /\ happened = <<>> /\ swayShown = <<>>
      /\ swayConfig \in SwayConfigs /\ releases = NoBind
  BY DEF SwayInit, SwayFrame
<1>2. reply \in SwayTokens
  BY DEF SwayTokens
<1> HIDE DEF reply
<1>3. swayWire \in Seq(SwayTokens) /\ Len(swayWire) = 3 /\ swayWire[1] = "magic" /\ swayWire[2] = "subscribe"
  BY <1>1, <1>2 DEF SwayTokens
<1>4. FramesWith(1)
  BY <1>1, <1>3 DEF FramesWith, TokenAt
<1> QED BY <1>1, <1>3, <1>4 DEF SwayIInv, SwayTypes, SwayConfigs

\* A frame of three tokens is appended.
LEMMA FrameFollows ==
    ASSUME NEW S, NEW queue \in Seq(S), NEW x \in S, NEW y \in S, NEW z \in S
    PROVE  /\ queue \o <<x, y, z>> \in Seq(S) /\ Len(queue \o <<x, y, z>>) = Len(queue) + 3
           /\ \A i \in 1 .. Len(queue) : (queue \o <<x, y, z>>)[i] = queue[i]
           /\ (queue \o <<x, y, z>>)[Len(queue) + 1] = x /\ (queue \o <<x, y, z>>)[Len(queue) + 2] = y
OBVIOUS

\* An event is sent: it is the last one, and a change of the mode overtakes those that
\* are not shown.
LEMMA ExecuteKeeps ==
    ASSUME SwayIInv, NEW b \in swayConfig, Execute(b), UNCHANGED swayConfig, Whykey,
           releases' = NoBind \/ (releases' \in swayConfig /\ releases'.trigger = "release")
    PROVE  SwayIInv'
<1> DEFINE event == SwayEvent(b)
           events == Append(happened, event)
<1>1. PICK n \in Nat, k \in Nat :
         /\ n = Len(happened) /\ k = Len(swayShown) /\ k <= n
         /\ happened \in Seq(SwayEvents) /\ swayShown \in Seq({"press", "release"})
         /\ swayBuffer \in Seq(SwayTokens) /\ swayWire \in Seq(SwayTokens)
  BY DEF SwayIInv, SwayTypes
<1>2. UNCHANGED <<swayBuffer, swayShown, swayConfig>>
  BY DEF Whykey
<1>3. /\ b.trigger \in {"press", "release"} /\ b.mode \in SwayModes /\ b.to \in SwayModes
  BY DEF SwayIInv, SwayTypes, SwayBind
<1>4. /\ event \in SwayEvents /\ event.trigger = b.trigger /\ event.changed = (b.mode # swayMode)
      /\ event.ambiguous = (BoundIn(b.mode, "press") # {})
  BY <1>3 DEF SwayEvent, SwayEvents
<1> HIDE DEF event
<1>5. /\ events \in Seq(SwayEvents) /\ Len(events) = n + 1 /\ events[n + 1] = event
      /\ \A i \in 1 .. n : events[i] = happened[i]
  BY <1>1, <1>4, AppendProperties
<1> HIDE DEF events
<1>6. /\ happened' \in Seq(SwayEvents) /\ Len(happened') = n + 1
      /\ \A i \in 1 .. k : happened'[i] = happened[i]
      /\ b.to # swayMode => \A i \in k + 1 .. n + 1 : happened'[i].changed
      /\ b.to = swayMode => happened' = events
  <2>1. CASE b.to = swayMode
    BY <1>1, <1>5, <2>1 DEF Execute, events, event
  <2>2. CASE b.to # swayMode
    <3>1. happened' = Overtaken(events)
      BY <2>2 DEF Execute, events, event
    <3>2. ASSUME NEW i \in 1 .. n + 1
          PROVE  /\ events[i] \in SwayEvents /\ [events[i] EXCEPT !.changed = TRUE] \in SwayEvents
                 /\ [events[i] EXCEPT !.changed = TRUE].changed
      <4>1. events[i] \in SwayEvents
        BY <1>5
      <4> QED BY <4>1 DEF SwayEvents
    <3>3. happened' = [i \in 1 .. n + 1 |-> IF i > k THEN [events[i] EXCEPT !.changed = TRUE] ELSE events[i]]
      BY <1>1, <1>5, <3>1 DEF Overtaken
    <3>4. happened' \in [1 .. n + 1 -> SwayEvents]
      BY <3>2, <3>3
    <3>5. happened' \in Seq(SwayEvents) /\ Len(happened') = n + 1
      BY <3>4
    <3> QED BY <1>1, <1>5, <2>2, <3>2, <3>3, <3>5
  <2> QED BY <2>1, <2>2
<1>7. /\ swayWire' \in Seq(SwayTokens) /\ Len(swayWire') = Len(swayWire) + 3
      /\ \A i \in 1 .. Len(swayWire) : swayWire'[i] = swayWire[i]
      /\ swayWire'[Len(swayWire) + 1] = "magic" /\ swayWire'[Len(swayWire) + 2] = "binding"
  <2>1. swayWire' = swayWire \o <<"magic", "binding", b.trigger>>
    BY DEF Execute, SwayFrame
  <2>2. {"magic", "binding", b.trigger} \subseteq SwayTokens
    BY <1>3 DEF SwayTokens
  <2> QED BY <1>1, <2>1, <2>2, FrameFollows
<1>8. \E replies \in {0, 1} : FramesWith(replies)'
  <2>1. PICK replies \in {0, 1} : FramesWith(replies)
    BY DEF SwayIInv
  <2>2. PICK r \in Nat, m \in Nat : r = Len(swayBuffer) /\ m = Len(swayWire)
    BY <1>1
  <2>3. r + m = 3 * (replies + n - k)
    BY <1>1, <2>1, <2>2 DEF FramesWith
  <2>4. r + Len(swayWire') = 3 * (replies + (n + 1) - k)
    BY <1>7, <2>2, <2>3
  <2>5. ASSUME NEW f \in Nat, f < replies + (n + 1) - k
        PROVE  /\ TokenAt(3 * f + 1)' = "magic"
               /\ TokenAt(3 * f + 2)' = IF f < replies THEN "subscribe" ELSE "binding"
    <3>1. CASE f < replies + n - k
      <4>1. 3 * f + 1 <= r + m /\ 3 * f + 2 <= r + m
        BY <2>3, <3>1, <1>1
      <4>2. \A i \in 1 .. r + m : TokenAt(i)' = TokenAt(i)
        <5> SUFFICES ASSUME NEW i \in 1 .. r + m PROVE TokenAt(i)' = TokenAt(i)
          OBVIOUS
        <5>1. TokenAt(i) = IF i <= r THEN swayBuffer[i] ELSE swayWire[i - r]
          BY <2>2 DEF TokenAt
        <5>2. TokenAt(i)' = IF i <= r THEN swayBuffer[i] ELSE swayWire'[i - r]
          BY <1>2, <2>2 DEF TokenAt
        <5>3. ~(i <= r) => i - r \in 1 .. m
          OBVIOUS
        <5> QED BY <5>1, <5>2, <5>3, <1>7, <2>2
      <4>3. /\ TokenAt(3 * f + 1) = "magic"
            /\ TokenAt(3 * f + 2) = IF f < replies THEN "subscribe" ELSE "binding"
        BY <2>1, <3>1, <1>1 DEF FramesWith
      <4> QED BY <4>1, <4>2, <4>3
    <3>2. CASE f = replies + n - k
      <4>1. 3 * f = r + m /\ ~(f < replies)
        BY <2>3, <3>2, <1>1
      <4>2. /\ ~(3 * f + 1 <= r) /\ ~(3 * f + 2 <= r)
            /\ (3 * f + 1) - r = m + 1 /\ (3 * f + 2) - r = m + 2
        BY <4>1
      <4>3. Len(swayBuffer') = r
        BY <1>2, <2>2
      <4>4. TokenAt(3 * f + 1)' = swayWire'[m + 1] /\ TokenAt(3 * f + 2)' = swayWire'[m + 2]
        BY <4>2, <4>3 DEF TokenAt
      <4> QED BY <4>1, <4>4, <1>7, <2>2
    <3>3. f < replies + n - k \/ f = replies + n - k
      <4>1. replies \in Nat
        OBVIOUS
      <4> QED BY <2>5, <4>1, <1>1
    <3> QED BY <3>1, <3>2, <3>3
  <2>6. FramesWith(replies)'
    BY <1>1, <1>2, <1>6, <2>2, <2>4, <2>5 DEF FramesWith
  <2> QED BY <2>6
<1>9. \A i \in 1 .. k : ShownRight(i)'
  <2>1. \A i \in 1 .. k : ShownRight(i)
    BY <1>1 DEF SwayIInv
  <2> QED BY <1>2, <1>6, <2>1 DEF ShownRight
<1>10. \A i \in k + 1 .. n + 1 : RanAsBound(i)'
  <2>1. CASE b.to # swayMode
    BY <1>6, <2>1 DEF RanAsBound
  <2>2. CASE b.to = swayMode
    <3>1. swayMode' = swayMode /\ \A mode, trigger : BoundIn(mode, trigger)' = BoundIn(mode, trigger)
      BY <1>2, <2>2 DEF Execute, BoundIn
    <3>2. ASSUME NEW i \in k + 1 .. n PROVE RanAsBound(i)'
      <4>1. RanAsBound(i) /\ happened'[i] = happened[i]
        <5>1. i \in Len(swayShown) + 1 .. Len(happened) /\ i \in 1 .. n
          BY <1>1
        <5> QED BY <5>1, <1>5, <1>6, <2>2 DEF SwayIInv
      <4> QED BY <3>1, <4>1 DEF RanAsBound
    <3>3. RanAsBound(n + 1)'
      <4>1. b.mode = swayMode => b \in BoundIn(swayMode, b.trigger)
        BY DEF BoundIn
      <4>2. happened'[n + 1] = event
        BY <1>5, <1>6, <2>2
      <4>3. ~event.changed => b.mode = swayMode
        BY <1>4
      <4> QED BY <1>4, <3>1, <4>1, <4>2, <4>3 DEF RanAsBound
    <3> QED BY <1>1, <3>2, <3>3
  <2> QED BY <2>1, <2>2
<1>11. SwayTypes'
  BY <1>1, <1>2, <1>6, <1>7 DEF SwayTypes, SwayIInv
<1> QED BY <1>1, <1>2, <1>6, <1>8, <1>9, <1>10, <1>11 DEF SwayIInv

\* Nothing is sent or decoded.
LEMMA NoFrameMoves ==
    ASSUME UNCHANGED <<swayBuffer, swayWire, swayShown>>, Len(happened') = Len(happened), NEW replies
    PROVE  FramesWith(replies)' <=> FramesWith(replies)
<1>1. \A i \in Nat : TokenAt(i)' = TokenAt(i)
  BY DEF TokenAt
<1>2. \A f \in Nat : /\ TokenAt(3 * f + 1)' = TokenAt(3 * f + 1) /\ TokenAt(3 * f + 2)' = TokenAt(3 * f + 2)
  BY <1>1
<1> QED BY <1>2 DEF FramesWith

\* A step that sends nothing and shows nothing.
LEMMA SwayRests ==
    ASSUME SwayIInv, UNCHANGED <<swayConfig, swayMode, happened, swayWire, swayBuffer, swayShown>>,
           releases' = NoBind \/ (releases' \in swayConfig /\ releases'.trigger = "release")
    PROVE  SwayIInv'
<1>1. \A replies : FramesWith(replies)' <=> FramesWith(replies)
  BY NoFrameMoves
<1>2. \A mode, trigger : BoundIn(mode, trigger)' = BoundIn(mode, trigger)
  BY DEF BoundIn
<1>3. \A i : (RanAsBound(i)' <=> RanAsBound(i)) /\ (ShownRight(i)' <=> ShownRight(i))
  BY <1>2 DEF RanAsBound, ShownRight
<1>4. SwayTypes'
  BY DEF SwayTypes, SwayIInv
<1> QED BY <1>1, <1>3, <1>4 DEF SwayIInv

\* A key goes down and may run a binding.
LEMMA PressKeyKeeps == SwayIInv /\ PressKey => SwayIInv'
<1> SUFFICES ASSUME SwayIInv, PressKey PROVE SwayIInv'
  OBVIOUS
<1>1. UNCHANGED swayConfig /\ Whykey
  BY DEF PressKey, Stroke
<1>2. releases' = NoBind \/ (releases' \in swayConfig /\ releases'.trigger = "release")
  BY DEF PressKey, BoundIn
<1>3. CASE \E b \in BoundIn(swayMode, "press") : Execute(b)
  BY <1>1, <1>2, <1>3, ExecuteKeeps DEF BoundIn
<1>4. CASE UNCHANGED <<swayMode, swayWire, happened>>
  BY <1>1, <1>2, <1>4, SwayRests DEF Whykey
<1> QED BY <1>3, <1>4 DEF PressKey

\* A key goes up and may run a binding of its release.
LEMMA ReleaseKeyKeeps == SwayIInv /\ ReleaseKey => SwayIInv'
<1> SUFFICES ASSUME SwayIInv, ReleaseKey PROVE SwayIInv'
  OBVIOUS
<1>1. UNCHANGED swayConfig /\ Whykey /\ releases' = NoBind
  BY DEF ReleaseKey, Stroke
<1>2. CASE releases # NoBind /\ Execute(releases)
  BY <1>1, <1>2, ExecuteKeeps DEF SwayIInv, SwayTypes
<1>3. CASE UNCHANGED <<swayMode, swayWire, happened>>
  BY <1>1, <1>3, SwayRests DEF Whykey
<1> QED BY <1>2, <1>3 DEF ReleaseKey

\* The configuration is loaded again: what is under way may be looked up wrongly.
LEMMA ReloadKeeps == SwayIInv /\ Reload => SwayIInv'
<1> SUFFICES ASSUME SwayIInv, Reload PROVE SwayIInv'
  OBVIOUS
<1>1. PICK n \in Nat, k \in Nat :
         /\ n = Len(happened) /\ k = Len(swayShown) /\ k <= n /\ happened \in Seq(SwayEvents)
  BY DEF SwayIInv, SwayTypes
<1>2. /\ UNCHANGED <<swayBuffer, swayWire, swayShown>> /\ releases' = NoBind
      /\ swayConfig' \in SwayConfigs /\ happened' = Overtaken(happened)
  BY DEF Reload, Whykey
<1>3. /\ happened' \in Seq(SwayEvents) /\ Len(happened') = n
      /\ \A i \in 1 .. k : happened'[i] = happened[i]
      /\ \A i \in k + 1 .. n : happened'[i].changed
  <2>1. ASSUME NEW i \in 1 .. n
        PROVE  /\ happened[i] \in SwayEvents /\ [happened[i] EXCEPT !.changed = TRUE] \in SwayEvents
               /\ [happened[i] EXCEPT !.changed = TRUE].changed
    <3>1. happened[i] \in SwayEvents
      BY <1>1
    <3> QED BY <3>1 DEF SwayEvents
  <2>2. happened' = [i \in 1 .. n |-> IF i > k THEN [happened[i] EXCEPT !.changed = TRUE] ELSE happened[i]]
    BY <1>1, <1>2 DEF Overtaken
  <2>3. happened' \in [1 .. n -> SwayEvents]
    BY <2>1, <2>2
  <2>4. happened' \in Seq(SwayEvents) /\ Len(happened') = n
    BY <2>3
  <2> QED BY <1>1, <2>1, <2>2, <2>4
<1>4. \A replies : FramesWith(replies)' <=> FramesWith(replies)
  BY <1>1, <1>2, <1>3, NoFrameMoves
<1>5. \A i \in 1 .. k : ShownRight(i)'
  <2>1. \A i \in 1 .. k : ShownRight(i)
    BY <1>1 DEF SwayIInv
  <2> QED BY <1>2, <1>3, <2>1 DEF ShownRight
<1>6. \A i \in k + 1 .. n : RanAsBound(i)'
  BY <1>3 DEF RanAsBound
<1>7. SwayTypes'
  BY <1>1, <1>2, <1>3 DEF SwayTypes, SwayIInv, SwayConfigs
<1> QED BY <1>1, <1>2, <1>3, <1>4, <1>5, <1>6, <1>7 DEF SwayIInv

\* Some bytes are read: the same pieces lie in the buffer and on the wire.
LEMMA ReadIncomingKeeps == SwayIInv /\ ReadIncoming => SwayIInv'
<1> SUFFICES ASSUME SwayIInv, ReadIncoming PROVE SwayIInv'
  OBVIOUS
<1>1. PICK r \in Nat, m \in Nat :
         /\ r = Len(swayBuffer) /\ m = Len(swayWire) /\ DOMAIN swayWire = 1 .. m
         /\ swayBuffer \in Seq(SwayTokens) /\ swayWire \in Seq(SwayTokens)
  BY DEF SwayIInv, SwayTypes
<1>2. UNCHANGED <<swayConfig, swayMode, releases, happened, swayShown>>
  BY DEF ReadIncoming, Sway
<1>3. PICK n \in 1 .. m :
         /\ swayBuffer' = swayBuffer \o SubSeq(swayWire, 1, n)
         /\ swayWire' = SubSeq(swayWire, n + 1, m)
  BY <1>1 DEF ReadIncoming
<1>4. /\ SubSeq(swayWire, 1, n) \in Seq(SwayTokens) /\ Len(SubSeq(swayWire, 1, n)) = n
      /\ \A i \in 1 .. n : SubSeq(swayWire, 1, n)[i] = swayWire[i]
  BY <1>1
<1>5. /\ swayWire' \in Seq(SwayTokens) /\ Len(swayWire') = m - n
      /\ \A i \in 1 .. (m - n) : swayWire'[i] = swayWire[n + i]
  BY <1>1, <1>3
<1>6. /\ swayBuffer' \in Seq(SwayTokens) /\ Len(swayBuffer') = r + n
      /\ \A i \in 1 .. (r + n) : swayBuffer'[i] = IF i <= r THEN swayBuffer[i] ELSE swayWire[i - r]
  <2> DEFINE got == SubSeq(swayWire, 1, n)
  <2>0. /\ got \in Seq(SwayTokens) /\ Len(got) = n /\ \A i \in 1 .. n : got[i] = swayWire[i]
        /\ swayBuffer' = swayBuffer \o got
    BY <1>3, <1>4
  <2> HIDE DEF got
  <2>1. /\ swayBuffer \o got \in Seq(SwayTokens) /\ Len(swayBuffer \o got) = r + n
        /\ \A i \in 1 .. (r + n) : (swayBuffer \o got)[i] = IF i <= r THEN swayBuffer[i] ELSE got[i - r]
    BY <1>1, <2>0, ConcatProperties
  <2>2. \A i \in 1 .. (r + n) : ~(i <= r) => i - r \in 1 .. n
    BY <1>1
  <2> QED BY <2>0, <2>1, <2>2
<1>7. \A i \in 1 .. (r + m) : TokenAt(i)' = TokenAt(i)
  <2> SUFFICES ASSUME NEW i \in 1 .. (r + m) PROVE TokenAt(i)' = TokenAt(i)
    OBVIOUS
  <2>1. TokenAt(i) = IF i <= r THEN swayBuffer[i] ELSE swayWire[i - r]
    BY <1>1 DEF TokenAt
  <2>2. TokenAt(i)' = IF i <= r + n THEN swayBuffer'[i] ELSE swayWire'[i - (r + n)]
    BY <1>6 DEF TokenAt
  <2>3. ~(i <= r + n) => i - (r + n) \in 1 .. (m - n) /\ n + (i - (r + n)) = i - r /\ ~(i <= r)
    OBVIOUS
  <2> QED BY <2>1, <2>2, <2>3, <1>5, <1>6
<1>8. ASSUME NEW replies \in {0, 1}, FramesWith(replies) PROVE FramesWith(replies)'
  <2>0. PICK h \in Nat, s \in Nat : h = Len(happened) /\ s = Len(swayShown)
    BY DEF SwayIInv, SwayTypes
  <2>4. replies \in Nat
    OBVIOUS
  <2>1. PICK k \in Int : k = replies + Len(happened) - Len(swayShown)
    <3>1. replies + h - s \in Int
      BY <2>4
    <3> QED BY <2>0, <3>1
  <2>2. r + m = 3 * k /\ Len(swayBuffer') + Len(swayWire') = 3 * k
    <3>1. r + m = 3 * k
      BY <1>1, <1>8, <2>1 DEF FramesWith
    <3>2. Len(swayBuffer') + Len(swayWire') = r + m
      BY <1>5, <1>6
    <3> QED BY <3>1, <3>2
  <2>3. ASSUME NEW f \in Nat, f < k
        PROVE  TokenAt(3 * f + 1)' = TokenAt(3 * f + 1) /\ TokenAt(3 * f + 2)' = TokenAt(3 * f + 2)
    <3>1. 3 * f + 1 \in 1 .. (r + m) /\ 3 * f + 2 \in 1 .. (r + m)
      BY <2>2, <2>3
    <3> QED BY <3>1, <1>7
  <2> QED BY <1>2, <1>8, <2>1, <2>2, <2>3 DEF FramesWith
<1>9. \A mode, trigger : BoundIn(mode, trigger)' = BoundIn(mode, trigger)
  BY <1>2 DEF BoundIn
<1>10. \A i : (RanAsBound(i)' <=> RanAsBound(i)) /\ (ShownRight(i)' <=> ShownRight(i))
  BY <1>2, <1>9 DEF RanAsBound, ShownRight
<1>11. SwayTypes'
  BY <1>2, <1>5, <1>6 DEF SwayTypes, SwayIInv
<1> QED BY <1>2, <1>8, <1>10, <1>11 DEF SwayIInv

\* Nothing in the buffer but whole frames, of which the first is decoded.
LEMMA ParseEventKeeps == SwayIInv /\ ParseEvent => SwayIInv'
<1> SUFFICES ASSUME SwayIInv, ParseEvent PROVE SwayIInv'
  OBVIOUS
<1>1. PICK r \in Nat, m \in Nat, n \in Nat, k \in Nat :
         /\ r = Len(swayBuffer) /\ m = Len(swayWire) /\ n = Len(happened) /\ k = Len(swayShown)
         /\ swayBuffer \in Seq(SwayTokens) /\ swayWire \in Seq(SwayTokens) /\ k <= n
         /\ happened \in Seq(SwayEvents) /\ swayShown \in Seq({"press", "release"})
  BY DEF SwayIInv, SwayTypes
<1>2. /\ UNCHANGED <<swayConfig, swayMode, releases, happened, swayWire>>
      /\ r >= 3 /\ swayBuffer' = SubSeq(swayBuffer, 4, r)
  BY <1>1 DEF ParseEvent, Sway, FrameLength
<1>3. /\ swayBuffer' \in Seq(SwayTokens) /\ Len(swayBuffer') = r - 3
      /\ \A i \in 1 .. (r - 3) : swayBuffer'[i] = swayBuffer[i + 3]
  BY <1>1, <1>2
<1>4. \A i \in Nat : i > 0 => TokenAt(i)' = TokenAt(i + 3)
  <2> SUFFICES ASSUME NEW i \in Nat, i > 0 PROVE TokenAt(i)' = TokenAt(i + 3)
    OBVIOUS
  <2>1. TokenAt(i + 3) = IF i + 3 <= r THEN swayBuffer[i + 3] ELSE swayWire[(i + 3) - r]
    BY <1>1 DEF TokenAt
  <2>2. TokenAt(i)' = IF i <= r - 3 THEN swayBuffer'[i] ELSE swayWire[i - (r - 3)]
    BY <1>2, <1>3 DEF TokenAt
  <2>3. (i + 3 <= r <=> i <= r - 3) /\ (i + 3) - r = i - (r - 3)
    BY <1>1
  <2> QED BY <2>1, <2>2, <2>3, <1>1, <1>3
<1>5. PICK replies \in {0, 1} : FramesWith(replies)
  BY DEF SwayIInv
<1>6. PICK w \in Nat : w = replies + n - k
  <2>1. replies \in Nat
    OBVIOUS
  <2>2. replies + n - k \in Nat
    BY <1>1, <2>1
  <2> QED BY <2>2
<1>7. /\ r + m = 3 * w /\ w >= 1
      /\ \A f \in Nat : f < w => /\ TokenAt(3 * f + 1) = "magic"
                                 /\ TokenAt(3 * f + 2) = IF f < replies THEN "subscribe" ELSE "binding"
  <2>1. r + m = 3 * w
    BY <1>1, <1>5, <1>6 DEF FramesWith
  <2>2. w >= 1
    BY <1>1, <1>2, <2>1
  <2> QED BY <1>1, <1>5, <1>6, <2>1, <2>2 DEF FramesWith
<1>8. \A f \in Nat : f < w - 1 =>
         /\ TokenAt(3 * f + 1)' = "magic"
         /\ TokenAt(3 * f + 2)' = IF f + 1 < replies THEN "subscribe" ELSE "binding"
  <2> SUFFICES ASSUME NEW f \in Nat, f < w - 1
               PROVE  /\ TokenAt(3 * f + 1)' = "magic"
                      /\ TokenAt(3 * f + 2)' = IF f + 1 < replies THEN "subscribe" ELSE "binding"
    OBVIOUS
  <2>1. /\ f + 1 \in Nat /\ f + 1 < w /\ 3 * (f + 1) + 1 = (3 * f + 1) + 3 /\ 3 * (f + 1) + 2 = (3 * f + 2) + 3
        /\ 3 * f + 1 > 0 /\ 3 * f + 2 > 0
    OBVIOUS
  <2>2. TokenAt(3 * f + 1)' = TokenAt((3 * f + 1) + 3) /\ TokenAt(3 * f + 2)' = TokenAt((3 * f + 2) + 3)
    BY <1>4, <2>1
  <2>3. /\ TokenAt(3 * (f + 1) + 1) = "magic"
        /\ TokenAt(3 * (f + 1) + 2) = IF f + 1 < replies THEN "subscribe" ELSE "binding"
    BY <1>7, <2>1
  <2> QED BY <2>1, <2>2, <2>3
<1>9. swayBuffer[2] = IF 0 < replies THEN "subscribe" ELSE "binding"
  <2>1. TokenAt(3 * 0 + 2) = IF 0 < replies THEN "subscribe" ELSE "binding"
    BY <1>7
  <2>2. TokenAt(2) = swayBuffer[2]
    BY <1>1, <1>2 DEF TokenAt
  <2> QED BY <2>1, <2>2
<1>10. CASE replies = 1
  <2>1. UNCHANGED swayShown
    BY <1>9, <1>10 DEF ParseEvent
  <2>2. FramesWith(0)'
    <3>1. w - 1 = 0 + n - k /\ (r - 3) + m = 3 * (0 + n - k)
      BY <1>1, <1>2, <1>6, <1>7, <1>10
    <3>2. \A f \in Nat : ~(f + 1 < replies) /\ ~(f < 0)
      BY <1>10
    <3> QED BY <1>1, <1>2, <1>3, <1>8, <2>1, <3>1, <3>2 DEF FramesWith
  <2>3. \A mode, trigger : BoundIn(mode, trigger)' = BoundIn(mode, trigger)
    BY <1>2 DEF BoundIn
  <2>4. \A i : (RanAsBound(i)' <=> RanAsBound(i)) /\ (ShownRight(i)' <=> ShownRight(i))
    BY <1>2, <2>1, <2>3 DEF RanAsBound, ShownRight
  <2>5. SwayTypes'
    BY <1>2, <1>3, <2>1 DEF SwayTypes, SwayIInv
  <2> QED BY <1>2, <2>1, <2>2, <2>4, <2>5 DEF SwayIInv
<1>11. CASE replies = 0
  <2> DEFINE word == IF ReleaseFlag THEN "release" ELSE "press"
  <2>1. swayShown' = Append(swayShown, word)
    BY <1>9, <1>11 DEF ParseEvent
  <2>2. word \in {"press", "release"}
    OBVIOUS
  <2> HIDE DEF word
  <2>3. /\ swayShown' \in Seq({"press", "release"}) /\ Len(swayShown') = k + 1
        /\ swayShown'[k + 1] = word /\ \A i \in 1 .. k : swayShown'[i] = swayShown[i]
    BY <1>1, <2>1, <2>2, AppendProperties
  <2>4. k + 1 <= n
    BY <1>1, <1>6, <1>7, <1>11
  <2>5. FramesWith(0)'
    <3>1. w - 1 = 0 + n - (k + 1) /\ (r - 3) + m = 3 * (0 + n - (k + 1))
      BY <1>1, <1>2, <1>6, <1>7, <1>11
    <3>2. \A f \in Nat : ~(f + 1 < replies) /\ ~(f < 0)
      BY <1>11
    <3> QED BY <1>1, <1>2, <1>3, <1>8, <2>3, <3>1, <3>2 DEF FramesWith
  <2>6. \A mode, trigger : BoundIn(mode, trigger)' = BoundIn(mode, trigger)
    BY <1>2 DEF BoundIn
  <2>7. \A i \in k + 2 .. n : RanAsBound(i)'
    <3>1. \A i \in k + 1 .. n : RanAsBound(i)
      BY <1>1 DEF SwayIInv
    <3>2. \A i \in k + 2 .. n : i \in k + 1 .. n
      BY <1>1
    <3> QED BY <1>2, <2>6, <3>1, <3>2 DEF RanAsBound
  <2>8. ASSUME NEW i \in 1 .. k PROVE ShownRight(i)'
    <3>1. ShownRight(i)
      BY <1>1 DEF SwayIInv
    <3> QED BY <1>2, <2>3, <3>1 DEF ShownRight
  <2>9. ShownRight(k + 1)'
    <3>1. RanAsBound(k + 1) /\ happened[k + 1] \in SwayEvents
      BY <1>1, <2>4 DEF SwayIInv
    <3>2. happened[k + 1].trigger \in {"press", "release"}
      BY <3>1 DEF SwayEvents
    <3>3. ~happened[k + 1].changed /\ ~(happened[k + 1].trigger = "release" /\ happened[k + 1].ambiguous)
             => word = happened[k + 1].trigger
      BY <3>1, <3>2 DEF RanAsBound, ReleaseFlag, word
    <3> QED BY <3>3, <1>2, <2>3 DEF ShownRight
  <2>10. SwayTypes'
    BY <1>1, <1>2, <1>3, <2>3, <2>4 DEF SwayTypes, SwayIInv
  <2>11. \A i \in 1 .. (k + 1) : i \in 1 .. k \/ i = k + 1
    BY <1>1
  <2>12. Len(swayShown') + 1 = k + 2 /\ Len(happened') = n
    BY <1>1, <1>2, <2>3
  <2> QED BY <2>3, <2>5, <2>7, <2>8, <2>9, <2>10, <2>11, <2>12 DEF SwayIInv
<1> QED BY <1>10, <1>11

\* The keyboard, Sway and whykey keep it.
LEMMA SwayKeeps == SwayIInv /\ (SwayNext \/ UNCHANGED swayVars) => SwayIInv'
<1> SUFFICES ASSUME SwayIInv, SwayNext \/ UNCHANGED swayVars PROVE SwayIInv'
  OBVIOUS
<1>1. CASE UNCHANGED <<swayConfig, swayMode, releases, happened, swayWire, swayBuffer, swayShown>>
  BY <1>1, SwayRests DEF SwayIInv, SwayTypes
<1>2. ASSUME CloseSway \/ UNCHANGED swayVars
      PROVE  UNCHANGED <<swayConfig, swayMode, releases, happened, swayWire, swayBuffer, swayShown>>
  BY <1>2 DEF CloseSway, Sway, swayVars
<1> QED BY <1>1, <1>2, PressKeyKeeps, ReleaseKeyKeeps, ReloadKeeps, ReadIncomingKeeps, ParseEventKeeps
        DEF SwayNext

\* What is shown is as many of what ran, in order, each as it ran.
LEMMA SwayIsRight == SwayIInv => SwayReportsAreRight
<1> SUFFICES ASSUME SwayIInv PROVE SwayReportsAreRight
  OBVIOUS
<1>1. PICK r \in Nat, n \in Nat, k \in Nat :
         /\ r = Len(swayBuffer) /\ n = Len(happened) /\ k = Len(swayShown) /\ k <= n
         /\ DOMAIN swayShown = 1 .. k
  BY DEF SwayIInv, SwayTypes
<1>2. ASSUME swayWire = <<>>, r < FrameLength PROVE swayBuffer = <<>> /\ k = n
  <2>1. PICK replies \in {0, 1} : FramesWith(replies)
    BY DEF SwayIInv
  <2>2. r + 0 = 3 * (replies + n - k) /\ replies \in Nat
    <3>1. Len(swayWire) = 0
      BY <1>2
    <3> QED BY <1>1, <2>1, <3>1, SMTT(30) DEF FramesWith
  <2>3. r = 0 /\ k = n
    BY <1>1, <1>2, <2>2 DEF FrameLength
  <2> QED BY <1>1, <2>3, EmptySeq DEF SwayIInv, SwayTypes
<1> QED BY <1>1, <1>2 DEF SwayIInv, ShownRight, SwayReportsAreRight

-----------------------------------------------------------------------------
(* The bytes of the terminal.                                              *)
\* What may end a sequence.
Closing == Alphabetic \cup {"~"}

\* The forms of more than two tokens: an Escape, a token that is none, tokens that end
\* nothing, and one that does.
LongForms == {"ss3", "csi", "tilde", "kitty", "kittyNew", "kittyModifier"}

\* The kinds of tokens, parameters apart.
Glyphs == {"esc", "[", "O", "A", "a", "~", "u", "lead", "cont", "a-code", "shift-code", "new-code"}
\* A token: a piece of the encoding of one key, that may come late.
TokensOfUnit == [t : Glyphs \cup {"params"}, event : Events \cup {"none"}, late : BOOLEAN]

\* The tokens as they lie in the queue.
Shape(form, tokens) ==
    /\ form = "text" => Len(tokens) = 1 /\ tokens[1].t = "a"
    /\ form = "utf8" => Len(tokens) = 2 /\ tokens[1].t = "lead"
    /\ form = "escape" => Len(tokens) = 1 /\ tokens[1].t = "esc"
    /\ form = "alt" => Len(tokens) = 2 /\ tokens[1].t = "esc" /\ tokens[2].t = "a"
    /\ form \in LongForms =>
          /\ Len(tokens) > 2 /\ tokens[1].t = "esc" /\ tokens[2].t # "esc"
          /\ \A k \in 3 .. Len(tokens) - 1 : tokens[k].t \notin Closing
          /\ tokens[Len(tokens)].t \in Closing

\* A token of a kind is of it and in time.
LEMMA TokenFields ==
    \A k \in Glyphs : T(k) \in TokensOfUnit /\ T(k).t = k /\ ~T(k).late
BY DEF T, TokensOfUnit

\* Parameters carry their event.
LEMMA ParamsFields ==
    \A event \in Events : Params(event) \in TokensOfUnit /\ Params(event).t = "params" /\ ~Params(event).late
BY DEF Params, TokensOfUnit, Events

\* A late key has a late first token, and is otherwise the same.
LEMMA AfterFirst ==
    ASSUME NEW tokens \in Seq(TokensOfUnit), Len(tokens) > 0, NEW late \in BOOLEAN
    PROVE  /\ After(late, tokens) \in Seq(TokensOfUnit) /\ Len(After(late, tokens)) = Len(tokens)
           /\ After(late, tokens)[1].late = late
           /\ \A k \in 1 .. Len(tokens) : After(late, tokens)[k].t = tokens[k].t
           /\ \A k \in 2 .. Len(tokens) : After(late, tokens)[k] = tokens[k]
<1> DEFINE first == [tokens[1] EXCEPT !.late = late]
<1>1. tokens[1] \in TokensOfUnit
  OBVIOUS
<1>2. first \in TokensOfUnit /\ first.t = tokens[1].t /\ first.late = late
  BY <1>1 DEF TokensOfUnit
<1>3. After(late, tokens) = [tokens EXCEPT ![1] = first]
  BY DEF After
<1> HIDE DEF first
<1>4. 1 \in 1 .. Len(tokens)
  OBVIOUS
<1>5. /\ [tokens EXCEPT ![1] = first] \in Seq(TokensOfUnit)
      /\ Len([tokens EXCEPT ![1] = first]) = Len(tokens)
      /\ \A k \in 1 .. Len(tokens) : [tokens EXCEPT ![1] = first][k] = IF k = 1 THEN first ELSE tokens[k]
  BY <1>2, <1>4, ExceptSeq
<1> QED BY <1>2, <1>3, <1>5

\* The encoding of a key has the shape of its form.
LEMMA TokensOfForms ==
    ASSUME NEW form \in AllForms, NEW event \in Events
    PROVE  LET tokens == Tokens(form, event) IN
           /\ tokens \in Seq(TokensOfUnit) /\ Len(tokens) > 0
           /\ \A k \in 2 .. Len(tokens) : ~tokens[k].late
           /\ Shape(form, tokens)
<1> USE TokenFields, ParamsFields
<1>1. CASE form = "text"
  <2>1. Tokens(form, event) = <<T("a")>>
    BY <1>1 DEF Tokens
  <2>2. Tokens(form, event) \in Seq(TokensOfUnit) /\ Len(Tokens(form, event)) = 1
    BY <2>1 DEF Glyphs
  <2> QED BY <1>1, <2>1, <2>2 DEF Shape, Glyphs, LongForms
<1>2. CASE form = "utf8"
  <2>1. Tokens(form, event) = <<T("lead"), T("cont")>>
    BY <1>2 DEF Tokens
  <2>2. Tokens(form, event) \in Seq(TokensOfUnit) /\ Len(Tokens(form, event)) = 2
    BY <2>1 DEF Glyphs
  <2> QED BY <1>2, <2>1, <2>2 DEF Shape, Glyphs, LongForms
<1>3. CASE form = "escape"
  <2>1. Tokens(form, event) = <<T("esc")>>
    BY <1>3 DEF Tokens, Esc
  <2>2. Tokens(form, event) \in Seq(TokensOfUnit) /\ Len(Tokens(form, event)) = 1
    BY <2>1 DEF Glyphs
  <2> QED BY <1>3, <2>1, <2>2 DEF Shape, Glyphs, LongForms
<1>4. CASE form = "alt"
  <2>1. Tokens(form, event) = <<T("esc"), T("a")>>
    BY <1>4 DEF Tokens, Esc
  <2>2. Tokens(form, event) \in Seq(TokensOfUnit) /\ Len(Tokens(form, event)) = 2
    BY <2>1 DEF Glyphs
  <2> QED BY <1>4, <2>1, <2>2 DEF Shape, Glyphs, LongForms
<1>5. CASE form = "ss3"
  <2>1. Tokens(form, event) = <<T("esc"), T("O"), T("A")>>
    BY <1>5 DEF Tokens, Esc
  <2>2. Tokens(form, event) \in Seq(TokensOfUnit) /\ Len(Tokens(form, event)) = 3
    BY <2>1 DEF Glyphs
  <2>3. /\ Tokens(form, event)[1] = T("esc") /\ Tokens(form, event)[2] = T("O")
        /\ Tokens(form, event)[3] = T("A")
    BY <2>1
  <2>4. {"esc", "O", "A"} \subseteq Glyphs /\ "A" \in Closing
    BY DEF Glyphs, Closing, Alphabetic
  <2>5. \A k \in 2 .. 3 : ~Tokens(form, event)[k].late
    BY <2>3, <2>4
  <2>6. Shape(form, Tokens(form, event))
    BY <1>5, <2>2, <2>3, <2>4 DEF Shape, LongForms
  <2> QED BY <2>2, <2>5, <2>6
<1>6. ASSUME NEW last \in {"A", "~"}, form \in {"csi", "tilde"},
             Tokens(form, event) = <<T("esc"), T("["), Params(event), T(last)>>
      PROVE  LET tokens == Tokens(form, event) IN
             /\ tokens \in Seq(TokensOfUnit) /\ Len(tokens) > 0
             /\ \A k \in 2 .. Len(tokens) : ~tokens[k].late
             /\ Shape(form, tokens)
  <2>2. Tokens(form, event) \in Seq(TokensOfUnit) /\ Len(Tokens(form, event)) = 4
    BY <1>6 DEF Glyphs
  <2>3. /\ Tokens(form, event)[1] = T("esc") /\ Tokens(form, event)[2] = T("[")
        /\ Tokens(form, event)[3] = Params(event) /\ Tokens(form, event)[4] = T(last)
    BY <1>6
  <2>4. last \in Glyphs /\ last \in Closing /\ "params" \notin Closing /\ "esc" \in Glyphs /\ "[" \in Glyphs
    BY <1>6 DEF Glyphs, Closing, Alphabetic
  <2>5. \A k \in 2 .. 4 : ~Tokens(form, event)[k].late
    BY <2>3, <2>4
  <2>6. Shape(form, Tokens(form, event))
    BY <1>6, <2>2, <2>3, <2>4 DEF Shape, LongForms
  <2> QED BY <2>2, <2>5, <2>6
<1>7. ASSUME NEW code \in {"a-code", "shift-code", "new-code"}, form \in {"kitty", "kittyNew", "kittyModifier"},
             Tokens(form, event) = <<T("esc"), T("["), T(code), Params(event), T("u")>>
      PROVE  LET tokens == Tokens(form, event) IN
             /\ tokens \in Seq(TokensOfUnit) /\ Len(tokens) > 0
             /\ \A k \in 2 .. Len(tokens) : ~tokens[k].late
             /\ Shape(form, tokens)
  <2>2. Tokens(form, event) \in Seq(TokensOfUnit) /\ Len(Tokens(form, event)) = 5
    BY <1>7 DEF Glyphs
  <2> QED BY <1>7, <2>2 DEF Shape, Glyphs, LongForms, Closing, Alphabetic
<1>8. form = "csi" => Tokens(form, event) = <<T("esc"), T("["), Params(event), T("A")>>
  BY DEF Tokens, Esc
<1>9. form = "tilde" => Tokens(form, event) = <<T("esc"), T("["), Params(event), T("~")>>
  BY DEF Tokens, Esc
<1>10. form = "kitty" => Tokens(form, event) = <<T("esc"), T("["), T("a-code"), Params(event), T("u")>>
  BY DEF Tokens, Esc
<1>11. form = "kittyNew" => Tokens(form, event) = <<T("esc"), T("["), T("new-code"), Params(event), T("u")>>
  BY DEF Tokens, Esc
<1>12. form = "kittyModifier" => Tokens(form, event) = <<T("esc"), T("["), T("shift-code"), Params(event), T("u")>>
  BY DEF Tokens, Esc
<1> QED BY <1>1, <1>2, <1>3, <1>4, <1>5, <1>6, <1>7, <1>8, <1>9, <1>10, <1>11, <1>12 DEF AllForms

\* What is sent for a key has the shape of its form, and its kinds are its frame.
LEMMA UnitFacts ==
    ASSUME NEW u \in Units
    PROVE  /\ UnitTokens(u) \in Seq(TokensOfUnit) /\ Len(UnitTokens(u)) \in Nat /\ Len(UnitTokens(u)) > 0
           /\ UnitTokens(u)[1].late = u.late
           /\ \A k \in 2 .. Len(UnitTokens(u)) : ~UnitTokens(u)[k].late
           /\ Shape(u.form, UnitTokens(u)) /\ u.form \in AllForms
           /\ KindsOf(u) = [k \in 1 .. Len(UnitTokens(u)) |-> UnitTokens(u)[k].t]
<1> DEFINE tokens == Tokens(u.form, u.event)
<1>1. u.form \in AllForms /\ u.event \in Events /\ u.late \in BOOLEAN
  BY TerminalInputAssumption DEF Units
<1>2. /\ tokens \in Seq(TokensOfUnit) /\ Len(tokens) > 0 /\ \A k \in 2 .. Len(tokens) : ~tokens[k].late
      /\ Shape(u.form, tokens)
  BY <1>1, TokensOfForms
<1> HIDE DEF tokens
<1>3. UnitTokens(u) = After(u.late, tokens)
  BY DEF UnitTokens, tokens
<1>4. /\ UnitTokens(u) \in Seq(TokensOfUnit) /\ Len(UnitTokens(u)) = Len(tokens)
      /\ UnitTokens(u)[1].late = u.late
      /\ \A k \in 1 .. Len(tokens) : UnitTokens(u)[k].t = tokens[k].t
      /\ \A k \in 2 .. Len(tokens) : UnitTokens(u)[k] = tokens[k]
  <2>1. tokens \in Seq(TokensOfUnit) /\ Len(tokens) > 0 /\ u.late \in BOOLEAN
    BY <1>1, <1>2
  <2>2. PICK late : late = u.late
    OBVIOUS
  <2>3. /\ After(late, tokens) \in Seq(TokensOfUnit) /\ Len(After(late, tokens)) = Len(tokens)
        /\ After(late, tokens)[1].late = late
        /\ \A k \in 1 .. Len(tokens) : After(late, tokens)[k].t = tokens[k].t
        /\ \A k \in 2 .. Len(tokens) : After(late, tokens)[k] = tokens[k]
    BY <2>1, <2>2, AfterFirst
  <2> QED BY <1>3, <2>2, <2>3
<1>5. PICK n \in Nat : n = Len(tokens) /\ n > 0
  BY <1>2
<1>6. Shape(u.form, UnitTokens(u))
  BY <1>2, <1>4, <1>5 DEF Shape
<1>7. KindsOf(u) = [k \in 1 .. Len(UnitTokens(u)) |-> UnitTokens(u)[k].t]
  BY <1>4 DEF KindsOf
<1> QED BY <1>1, <1>2, <1>4, <1>5, <1>6, <1>7

\* The tokens of a typed key are the first ones in the queue, and those of the next one
\* follow.
Leads(u) ==
    /\ Len(UnitTokens(u)) <= Len(stream)
    /\ \A k \in 1 .. Len(UnitTokens(u)) : stream[k] = UnitTokens(u)[k]

\* Nothing follows, or what follows shows that the key is over.
Parted(u) ==
    LET after == Len(UnitTokens(u)) + 1 IN
    after <= Len(stream) =>
        /\ u.form = "alt" => stream[after].late
        /\ u.form = "escape" => stream[after].late \/ stream[after].t = "esc"

\* The next event is the first key that was typed, whole and alone.
LEMMA ReadsOneKey ==
    ASSUME stream \in Seq(TokensOfUnit), NEW u \in Units, Leads(u), Parted(u)
    PROVE  EventLength = Len(UnitTokens(u))
<1>1. PICK n \in Nat, m \in Nat : n = Len(UnitTokens(u)) /\ m = Len(stream) /\ 0 < n /\ n <= m
  BY UnitFacts DEF Leads
<1>2. /\ \A k \in 1 .. n : stream[k] = UnitTokens(u)[k]
      /\ \A k \in 2 .. n : ~stream[k].late
      /\ Shape(u.form, UnitTokens(u)) /\ u.form \in AllForms
  BY <1>1, UnitFacts DEF Leads
<1>3. Head(stream) = stream[1]
  BY <1>1
<1>4. \A k \in 1 .. n - 1 : HasMore(k)
  BY <1>1, <1>2 DEF HasMore
<1>12. stream[1] = UnitTokens(u)[1] /\ (n >= 2 => stream[2] = UnitTokens(u)[2])
  BY <1>1, <1>2
<1>5. CASE u.form = "text"
  <2>1. n = 1 /\ stream[1].t = "a"
    <3>1. n = 1 /\ UnitTokens(u)[1].t = "a"
      BY <1>1, <1>2, <1>5 DEF Shape
    <3> QED BY <3>1, <1>4, <1>12
  <2> QED BY <1>1, <1>3, <2>1 DEF EventLength
<1>6. CASE u.form = "utf8"
  <2>1. n = 2 /\ stream[1].t = "lead" /\ HasMore(1)
    <3>1. n = 2 /\ UnitTokens(u)[1].t = "lead"
      BY <1>1, <1>2, <1>6 DEF Shape
    <3> QED BY <3>1, <1>4, <1>12
  <2> QED BY <1>1, <1>3, <2>1 DEF EventLength
<1>7. CASE u.form = "escape"
  <2>1. n = 1 /\ stream[1].t = "esc"
    <3>1. n = 1 /\ UnitTokens(u)[1].t = "esc"
      BY <1>1, <1>2, <1>7 DEF Shape
    <3> QED BY <3>1, <1>4, <1>12
  <2>2. ~HasMore(1) \/ stream[2].t = "esc"
    BY <1>1, <1>7, <2>1 DEF HasMore, Parted
  <2>3. EscapeLength = 1
    BY <2>2 DEF EscapeLength
  <2> QED BY <1>1, <1>3, <2>1, <2>3 DEF EventLength
<1> DEFINE ends(k) == IsCompleteEscapeSequence(SubSeq(stream, 1, k))
           takes(k) == /\ \A i \in 2 .. k - 1 : HasMore(i) /\ ~ends(i)
                       /\ ends(k) \/ ~HasMore(k)
<1>8. \A k \in 1 .. m : ends(k) <=> k > 2 /\ stream[k].t \in Closing
  <2> SUFFICES ASSUME NEW k \in 1 .. m PROVE ends(k) <=> k > 2 /\ stream[k].t \in Closing
    OBVIOUS
  <2>1. Len(SubSeq(stream, 1, k)) = k /\ SubSeq(stream, 1, k)[k] = stream[k]
    BY <1>1
  <2>2. Last(SubSeq(stream, 1, k)) = stream[k]
    BY <2>1 DEF Last
  <2> QED BY <2>1, <2>2 DEF IsCompleteEscapeSequence, Closing
<1>9. ASSUME HasMore(1), stream[1].t = "esc", stream[2].t # "esc", n >= 2, takes(n),
             \A k \in 2 .. n - 1 : HasMore(k) /\ ~ends(k)
      PROVE  EventLength = n
  <2> HIDE DEF ends
  <2>1. \A k \in 2 .. m : takes(k) => k = n
    BY <1>1, <1>9
  <2>2. EscapeLength = CHOOSE k \in 2 .. m : takes(k)
    BY <1>1, <1>9 DEF EscapeLength, ends
  <2>3. n \in 2 .. m
    BY <1>1, <1>9
  <2> HIDE DEF takes
  <2>4. (CHOOSE k \in 2 .. m : takes(k)) = n
    BY <1>9, <2>1, <2>3
  <2>5. Head(stream).t = "esc"
    BY <1>3, <1>9
  <2> QED BY <2>2, <2>4, <2>5 DEF EventLength
<1>10. CASE u.form = "alt"
  <2>1. n = 2 /\ stream[1].t = "esc" /\ stream[2].t = "a" /\ HasMore(1)
    <3>1. n = 2 /\ UnitTokens(u)[1].t = "esc" /\ UnitTokens(u)[2].t = "a"
      BY <1>1, <1>2, <1>10 DEF Shape
    <3> QED BY <3>1, <1>4, <1>12
  <2>2. ~HasMore(2)
    BY <1>1, <1>10, <2>1 DEF HasMore, Parted
  <2> QED BY <1>1, <1>9, <2>1, <2>2
<1>11. CASE u.form \in LongForms
  <2>1. /\ n > 2 /\ stream[1].t = "esc" /\ stream[2].t # "esc" /\ stream[n].t \in Closing
        /\ \A k \in 3 .. n - 1 : stream[k].t \notin Closing
    <3>1. /\ n > 2 /\ UnitTokens(u)[1].t = "esc" /\ UnitTokens(u)[2].t # "esc"
          /\ UnitTokens(u)[n].t \in Closing
          /\ \A k \in 3 .. n - 1 : UnitTokens(u)[k].t \notin Closing
      BY <1>1, <1>2, <1>11 DEF Shape
    <3> QED BY <1>2, <3>1
  <2>2. ends(n) /\ \A k \in 2 .. n - 1 : ~ends(k)
    BY <1>1, <1>8, <2>1
  <2>3. HasMore(1) /\ \A k \in 2 .. n - 1 : HasMore(k)
    BY <1>4, <2>1
  <2> HIDE DEF ends
  <2>4. takes(n)
    BY <2>2, <2>3
  <2> QED BY <1>1, <1>9, <2>1, <2>2, <2>3, <2>4
<1> QED BY <1>2, <1>5, <1>6, <1>7, <1>10, <1>11 DEF AllForms, LongForms

\* Where the keys that were typed and not read end in the queue.
Cuts(cut) ==
    LET unread == Len(sent) - Len(frames) IN
    /\ cut \in [0 .. unread -> Nat] /\ cut[0] = 0 /\ cut[unread] = Len(stream)
    /\ \A i \in 0 .. unread : \A j \in i .. unread : cut[i] <= cut[j]
    /\ \A j \in 1 .. unread :
          LET tokens == UnitTokens(sent[Len(frames) + j]) IN
          /\ cut[j] = cut[j - 1] + Len(tokens)
          /\ \A k \in 1 .. Len(tokens) : stream[cut[j - 1] + k] = tokens[k]

\* The queue holds the keys that were not read, one after the other.
QueueIsTyped ==
    /\ stream \in Seq(TokensOfUnit) /\ frames \in Seq(Seq(Glyphs \cup {"params"}))
    /\ Len(frames) <= Len(sent)
    /\ \A i \in 1 .. Len(frames) : frames[i] = KindsOf(sent[i])
    /\ \E cut : Cuts(cut)

\* The queue is what was typed and not framed, cut where keys begin.
TerminalIInv ==
    /\ sent \in Seq(Units) /\ inputPc \in {"query", "push", "reading"}
    /\ inputPc # "reading" => sent = <<>> /\ frames = <<>>
    /\ answer = "none" /\ inputPc = "reading" /\ Delimited(sent) => QueueIsTyped

\* Nothing has been typed.
LEMMA TerminalBegins == InputInit => TerminalIInv
BY DEF InputInit, TerminalIInv

\* A key is typed: its tokens follow in the queue.
LEMMA TypesKeeps == TerminalIInv /\ Types => TerminalIInv'
<1> SUFFICES ASSUME TerminalIInv, Types PROVE TerminalIInv'
  OBVIOUS
<1>1. PICK u \in Units : sent' = Append(sent, u) /\ stream' = stream \o UnitTokens(u)
  BY DEF Types
<1>2. inputPc = "reading" /\ UNCHANGED <<inputPc, answer, frames>>
  BY DEF Types
<1>3. PICK n \in Nat : n = Len(sent) /\ sent \in Seq(Units)
  BY DEF TerminalIInv
<1>4. /\ sent' \in Seq(Units) /\ Len(sent') = n + 1 /\ sent'[n + 1] = u
      /\ \A i \in 1 .. n : sent'[i] = sent[i]
  BY <1>1, <1>3, AppendProperties
<1>5. ASSUME answer = "none", Delimited(sent)' PROVE QueueIsTyped'
  <2>1. Delimited(sent)
    BY <1>3, <1>4, <1>5 DEF Delimited
  <2>2. QueueIsTyped
    BY <1>2, <1>5, <2>1 DEF TerminalIInv
  <2>0. PICK f \in Nat, m \in Nat : f = Len(frames) /\ m = Len(stream) /\ f <= n
    BY <1>3, <2>2 DEF QueueIsTyped
  <2>3. PICK w \in Nat : f = Len(frames) /\ m = Len(stream) /\ f <= n /\ w = n - f
    <3>1. n - f \in Nat
      BY <2>0
    <3> QED BY <2>0, <3>1
  <2>4. PICK cut : Cuts(cut)
    BY <2>2 DEF QueueIsTyped
  <2>5. PICK l \in Nat : /\ l = Len(UnitTokens(u)) /\ UnitTokens(u) \in Seq(TokensOfUnit)
    BY UnitFacts
  <2>6. /\ stream' \in Seq(TokensOfUnit) /\ Len(stream') = m + l
        /\ \A i \in 1 .. m : stream'[i] = stream[i]
        /\ \A k \in 1 .. l : stream'[m + k] = UnitTokens(u)[k]
    <3>1. stream \in Seq(TokensOfUnit) /\ stream' = stream \o UnitTokens(u)
      BY <1>1, <2>2 DEF QueueIsTyped
    <3>2. /\ stream' \in Seq(TokensOfUnit) /\ Len(stream') = m + l
          /\ \A i \in 1 .. m + l : stream'[i] = IF i <= m THEN stream[i] ELSE UnitTokens(u)[i - m]
      BY <2>3, <2>5, <3>1, ConcatProperties
    <3>3. \A k \in 1 .. l : m + k \in 1 .. m + l /\ ~(m + k <= m) /\ (m + k) - m = k
      OBVIOUS
    <3> QED BY <3>2, <3>3
  <2>7. /\ cut \in [0 .. w -> Nat] /\ cut[0] = 0 /\ cut[w] = m
        /\ \A i \in 0 .. w : \A j \in i .. w : cut[i] <= cut[j]
        /\ \A j \in 1 .. w :
              /\ cut[j] = cut[j - 1] + Len(UnitTokens(sent[f + j]))
              /\ \A k \in 1 .. Len(UnitTokens(sent[f + j])) : stream[cut[j - 1] + k] = UnitTokens(sent[f + j])[k]
    BY <1>3, <2>3, <2>4 DEF Cuts
  <2> DEFINE next == [j \in 0 .. w + 1 |-> IF j <= w THEN cut[j] ELSE m + l]
  <2>8. /\ next \in [0 .. w + 1 -> Nat] /\ next[w + 1] = m + l
        /\ \A j \in 0 .. w : next[j] = cut[j]
    BY <2>7
  <2> HIDE DEF next
  <2>9. \A j \in 0 .. w : cut[j] <= m /\ cut[j] \in Nat
    BY <2>7
  <2>10. \A i \in 0 .. w + 1 : \A j \in i .. w + 1 : next[i] <= next[j]
    <3> SUFFICES ASSUME NEW i \in 0 .. w + 1, NEW j \in i .. w + 1 PROVE next[i] <= next[j]
      OBVIOUS
    <3>1. CASE j \in i .. w
      BY <2>7, <2>8, <3>1
    <3>2. CASE j = w + 1
      BY <2>8, <2>9, <3>2
    <3> QED BY <3>1, <3>2
  <2>11. ASSUME NEW j \in 1 .. w + 1
         PROVE  /\ next[j] = next[j - 1] + Len(UnitTokens(sent'[f + j]))
                /\ \A k \in 1 .. Len(UnitTokens(sent'[f + j])) :
                      stream'[next[j - 1] + k] = UnitTokens(sent'[f + j])[k]
    <3>1. CASE j \in 1 .. w
      <4>1. /\ sent'[f + j] = sent[f + j] /\ sent[f + j] \in Units /\ next[j] = cut[j]
            /\ next[j - 1] = cut[j - 1]
        <5>1. f + j \in 1 .. n /\ j \in 0 .. w /\ j - 1 \in 0 .. w
          BY <2>3, <3>1
        <5>2. next[j] = cut[j] /\ next[j - 1] = cut[j - 1]
          BY <2>8, <5>1
        <5> QED BY <1>3, <1>4, <5>1, <5>2
      <4>2. PICK lj \in Nat : lj = Len(UnitTokens(sent[f + j]))
        BY <4>1, UnitFacts
      <4>3. /\ cut[j] = cut[j - 1] + lj /\ cut[j] <= m /\ cut[j - 1] \in Nat
            /\ \A k \in 1 .. lj : stream[cut[j - 1] + k] = UnitTokens(sent[f + j])[k]
        <5>1. j \in 0 .. w /\ j - 1 \in 0 .. w
          BY <3>1
        <5>2. cut[j] <= m /\ cut[j - 1] \in Nat
          BY <2>9, <5>1
        <5>3. PICK tokens : tokens = UnitTokens(sent[f + j])
          OBVIOUS
        <5>4. /\ cut[j] = cut[j - 1] + Len(tokens)
              /\ \A k \in 1 .. Len(tokens) : stream[cut[j - 1] + k] = tokens[k]
          BY <2>7, <3>1, <5>3
        <5> QED BY <4>2, <5>2, <5>3, <5>4
      <4>4. \A k \in 1 .. lj : cut[j - 1] + k \in 1 .. m
        BY <4>3
      <4> QED BY <2>6, <4>1, <4>2, <4>3, <4>4
    <3>2. CASE j = w + 1
      <4>1. f + j = n + 1 /\ j - 1 = w
        BY <2>3, <3>2
      <4>2. next[j] = m + l /\ next[j - 1] = m
        BY <2>7, <2>8, <3>2, <4>1
      <4> QED BY <1>4, <2>5, <2>6, <4>1, <4>2
    <3> QED BY <3>1, <3>2
  <2>12. Cuts(next)'
    <3>1. Len(sent') - Len(frames') = w + 1 /\ Len(frames') = f
      BY <1>2, <1>4, <2>3
    <3>2. next[0] = 0
      BY <2>7, <2>8
    <3> QED BY <2>6, <2>8, <2>10, <2>11, <3>1, <3>2 DEF Cuts
  <2>13. \A i \in 1 .. f : frames'[i] = KindsOf(sent'[i])
    BY <1>2, <1>4, <2>2, <2>3 DEF QueueIsTyped
  <2> QED BY <1>2, <1>4, <2>2, <2>3, <2>6, <2>12, <2>13 DEF QueueIsTyped
<1> QED BY <1>2, <1>4, <1>5 DEF TerminalIInv

\* An event is read: it is the first key of the queue, and the next one begins after it.
LEMMA ReadEventKeeps == TerminalIInv /\ ReadEvent => TerminalIInv'
<1> SUFFICES ASSUME TerminalIInv, ReadEvent PROVE TerminalIInv'
  OBVIOUS
<1>1. /\ inputPc = "reading" /\ stream # <<>> /\ UNCHANGED <<sent, inputPc, answer>>
      /\ frames' = Append(frames, TokenKinds(SubSeq(stream, 1, EventLength)))
      /\ stream' = SubSeq(stream, EventLength + 1, Len(stream))
  BY DEF ReadEvent
<1>2. ASSUME answer = "none", Delimited(sent) PROVE QueueIsTyped'
  <2>1. QueueIsTyped
    BY <1>1, <1>2 DEF TerminalIInv
  <2>2. PICK n \in Nat, f \in Nat, m \in Nat, w \in Nat :
            /\ f = Len(frames) /\ m = Len(stream) /\ n = Len(sent) /\ f <= n /\ w = n - f
    BY <2>1 DEF QueueIsTyped, TerminalIInv
  <2>3. PICK cut : Cuts(cut)
    BY <2>1 DEF QueueIsTyped
  <2>4. /\ cut \in [0 .. w -> Nat] /\ cut[0] = 0 /\ cut[w] = m
        /\ \A i \in 0 .. w : \A j \in i .. w : cut[i] <= cut[j]
        /\ \A j \in 1 .. w :
              /\ cut[j] = cut[j - 1] + Len(UnitTokens(sent[f + j]))
              /\ \A k \in 1 .. Len(UnitTokens(sent[f + j])) : stream[cut[j - 1] + k] = UnitTokens(sent[f + j])[k]
    BY <2>2, <2>3 DEF Cuts
  <2>5. m > 0 /\ w >= 1 /\ stream \in Seq(TokensOfUnit) /\ sent \in Seq(Units)
        /\ frames \in Seq(Seq(Glyphs \cup {"params"}))
    <3>1. /\ stream \in Seq(TokensOfUnit) /\ sent \in Seq(Units)
          /\ frames \in Seq(Seq(Glyphs \cup {"params"}))
      BY <2>1 DEF QueueIsTyped, TerminalIInv
    <3>2. m > 0
      BY <1>1, <2>2, <3>1, EmptySeq
    <3>3. w # 0
      BY <2>4, <3>2
    <3> QED BY <3>1, <3>2, <3>3
  <2>6. PICK u \in Units : u = sent[f + 1]
    BY <2>2, <2>5
  <2>7. PICK l \in Nat : /\ l = Len(UnitTokens(u)) /\ l > 0
                         /\ KindsOf(u) = [k \in 1 .. l |-> UnitTokens(u)[k].t]
    BY UnitFacts
  <2>8. /\ cut[1] = l /\ l <= m /\ \A k \in 1 .. l : stream[k] = UnitTokens(u)[k]
    <3>1. 1 \in 1 .. w /\ 1 - 1 = 0 /\ 1 \in 0 .. w /\ w \in 1 .. w
      BY <2>5
    <3>2. cut[1] = cut[1 - 1] + l /\ \A k \in 1 .. l : stream[cut[1 - 1] + k] = UnitTokens(u)[k]
      BY <2>4, <2>6, <2>7, <3>1
    <3>3. cut[1] <= cut[w]
      BY <2>4, <3>1
    <3> QED BY <2>4, <3>1, <3>2, <3>3
  <2>9. Leads(u)
    BY <2>2, <2>7, <2>8 DEF Leads
  <2>10. Parted(u)
    <3> SUFFICES ASSUME l + 1 <= m
                 PROVE  /\ u.form = "alt" => stream[l + 1].late
                        /\ u.form = "escape" => stream[l + 1].late \/ stream[l + 1].t = "esc"
      BY <2>2, <2>7 DEF Parted
    <3>1. w >= 2
      BY <2>4, <2>5, <2>8
    <3>2. PICK v \in Units : v = sent[f + 2]
      BY <2>2, <2>5, <3>1
    <3>3. PICK lv \in Nat : /\ lv = Len(UnitTokens(v)) /\ lv > 0 /\ UnitTokens(v)[1].late = v.late
                            /\ KindsOf(v)[1] = UnitTokens(v)[1].t
      BY UnitFacts
    <3>4. stream[l + 1] = UnitTokens(v)[1]
      <4>1. \A k \in 1 .. lv : stream[cut[2 - 1] + k] = UnitTokens(v)[k]
        <5>1. 2 \in 1 .. w
          BY <3>1
        <5> QED BY <2>4, <3>2, <3>3, <5>1
      <4>2. 2 - 1 = 1 /\ 1 \in 1 .. lv
        BY <3>3
      <4> QED BY <2>8, <4>1, <4>2
    <3>5. /\ u.form = "alt" => v.late
          /\ u.form = "escape" => v.late \/ KindsOf(v)[1] = "esc"
      <4>1. f + 1 \in 1 .. n - 1 /\ (f + 1) + 1 = f + 2
        BY <2>2, <3>1
      <4> QED BY <1>2, <2>2, <2>6, <3>2, <4>1 DEF Delimited
    <3> QED BY <3>3, <3>4, <3>5
  <2>11. EventLength = l
    BY <2>5, <2>7, <2>9, <2>10, ReadsOneKey
  <2>12. /\ stream' \in Seq(TokensOfUnit) /\ Len(stream') = m - l
         /\ \A i \in 1 .. m - l : stream'[i] = stream[l + i]
    BY <1>1, <2>2, <2>5, <2>8, <2>11
  <2>13. TokenKinds(SubSeq(stream, 1, l)) = KindsOf(u) /\ KindsOf(u) \in Seq(Glyphs \cup {"params"})
    <3>1. /\ DOMAIN SubSeq(stream, 1, l) = 1 .. l
          /\ \A k \in 1 .. l : SubSeq(stream, 1, l)[k] = stream[k]
      BY <2>2, <2>5, <2>8
    <3>2. TokenKinds(SubSeq(stream, 1, l)) = KindsOf(u)
      BY <2>7, <2>8, <3>1 DEF TokenKinds
    <3>3. \A k \in 1 .. l : UnitTokens(u)[k].t \in Glyphs \cup {"params"}
      <4>1. UnitTokens(u) \in Seq(TokensOfUnit)
        BY UnitFacts
      <4>2. \A token \in TokensOfUnit : token.t \in Glyphs \cup {"params"}
        BY DEF TokensOfUnit
      <4> QED BY <2>7, <4>1, <4>2
    <3> QED BY <2>7, <3>2, <3>3
  <2>14. /\ frames' \in Seq(Seq(Glyphs \cup {"params"})) /\ Len(frames') = f + 1
         /\ frames'[f + 1] = KindsOf(u) /\ \A i \in 1 .. f : frames'[i] = frames[i]
    BY <1>1, <2>2, <2>5, <2>11, <2>13, AppendProperties
  <2>15. \A i \in 1 .. f + 1 : frames'[i] = KindsOf(sent'[i])
    <3>1. \A i \in 1 .. f : frames[i] = KindsOf(sent[i])
      BY <2>1, <2>2 DEF QueueIsTyped
    <3>2. \A i \in 1 .. f + 1 : i \in 1 .. f \/ i = f + 1
      OBVIOUS
    <3> QED BY <1>1, <2>6, <2>14, <3>1, <3>2
  <2> DEFINE next == [j \in 0 .. w - 1 |-> cut[j + 1] - l]
  <2>16. \A j \in 0 .. w - 1 : cut[j + 1] \in Nat /\ l <= cut[j + 1] /\ next[j] = cut[j + 1] - l
    <3> SUFFICES ASSUME NEW j \in 0 .. w - 1
                 PROVE  cut[j + 1] \in Nat /\ l <= cut[j + 1] /\ next[j] = cut[j + 1] - l
      OBVIOUS
    <3>1. j + 1 \in 0 .. w /\ j + 1 \in 1 .. w /\ 1 \in 0 .. w
      OBVIOUS
    <3>2. cut[1] <= cut[j + 1] /\ cut[j + 1] \in Nat
      BY <2>4, <3>1
    <3> QED BY <2>8, <3>2
  <2>17. next \in [0 .. w - 1 -> Nat]
    BY <2>16
  <2> HIDE DEF next
  <2>18. next[0] = 0 /\ next[w - 1] = m - l
    <3>1. 0 \in 0 .. w - 1 /\ w - 1 \in 0 .. w - 1 /\ (w - 1) + 1 = w /\ 0 + 1 = 1
      BY <2>5
    <3>2. next[0] = cut[0 + 1] - l /\ next[w - 1] = cut[(w - 1) + 1] - l
      BY <2>16, <3>1
    <3> QED BY <2>4, <2>8, <3>1, <3>2
  <2>19. \A i \in 0 .. w - 1 : \A j \in i .. w - 1 : next[i] <= next[j]
    <3> SUFFICES ASSUME NEW i \in 0 .. w - 1, NEW j \in i .. w - 1 PROVE next[i] <= next[j]
      OBVIOUS
    <3>1. i + 1 \in 0 .. w /\ j + 1 \in i + 1 .. w /\ j \in 0 .. w - 1
      OBVIOUS
    <3>2. cut[i + 1] <= cut[j + 1]
      BY <2>4, <3>1
    <3>3. /\ next[i] = cut[i + 1] - l /\ next[j] = cut[j + 1] - l
          /\ cut[i + 1] \in Nat /\ cut[j + 1] \in Nat
      BY <2>16, <3>1
    <3> QED BY <3>2, <3>3
  <2>20. ASSUME NEW j \in 1 .. w - 1
         PROVE  /\ next[j] = next[j - 1] + Len(UnitTokens(sent[(f + 1) + j]))
                /\ \A k \in 1 .. Len(UnitTokens(sent[(f + 1) + j])) :
                      stream'[next[j - 1] + k] = UnitTokens(sent[(f + 1) + j])[k]
    <3>1. /\ (f + 1) + j = f + (j + 1) /\ j + 1 \in 1 .. w /\ (j + 1) - 1 = j /\ (j - 1) + 1 = j
          /\ j \in 0 .. w - 1 /\ j - 1 \in 0 .. w - 1 /\ j \in 0 .. w
      OBVIOUS
    <3>2. PICK tokens : tokens = UnitTokens(sent[f + (j + 1)])
      OBVIOUS
    <3>3. PICK lj \in Nat : lj = Len(tokens)
      <4>1. sent[f + (j + 1)] \in Units
        BY <2>2, <2>5, <3>1
      <4> QED BY <3>2, <4>1, UnitFacts
    <3>4. /\ cut[j + 1] = cut[j] + lj
          /\ \A k \in 1 .. lj : stream[cut[j] + k] = tokens[k]
      <4>1. /\ cut[j + 1] = cut[(j + 1) - 1] + Len(tokens)
            /\ \A k \in 1 .. Len(tokens) : stream[cut[(j + 1) - 1] + k] = tokens[k]
        BY <2>4, <3>1, <3>2
      <4> QED BY <3>1, <3>3, <4>1
    <3>5. /\ next[j] = cut[j + 1] - l /\ next[j - 1] = cut[j] - l /\ cut[j] \in Nat /\ l <= cut[j]
          /\ cut[j + 1] <= m /\ cut[j + 1] \in Nat
      <4>1. cut[j + 1] <= cut[w] /\ cut[w] = m
        <5>1. j + 1 \in 0 .. w /\ w \in j + 1 .. w
          OBVIOUS
        <5> QED BY <2>4, <5>1
      <4>2. next[j] = cut[j + 1] - l /\ cut[j + 1] \in Nat
        BY <2>16, <3>1
      <4>3. next[j - 1] = cut[(j - 1) + 1] - l /\ cut[(j - 1) + 1] \in Nat /\ l <= cut[(j - 1) + 1]
        BY <2>16, <3>1
      <4> QED BY <3>1, <4>1, <4>2, <4>3
    <3>6. ASSUME NEW k \in 1 .. lj PROVE stream'[next[j - 1] + k] = tokens[k]
      <4>1. next[j - 1] + k \in 1 .. m - l /\ l + (next[j - 1] + k) = cut[j] + k
        BY <3>4, <3>5
      <4> QED BY <2>12, <3>4, <4>1
    <3> QED BY <3>1, <3>2, <3>3, <3>4, <3>5, <3>6
  <2>21. Cuts(next)'
    <3>1. Len(sent') - Len(frames') = w - 1 /\ Len(frames') = f + 1
      BY <1>1, <2>2, <2>14
    <3>2. sent' = sent
      BY <1>1
    <3>3. ASSUME NEW j \in 1 .. w - 1
          PROVE  /\ next[j] = next[j - 1] + Len(UnitTokens(sent'[(f + 1) + j]))
                 /\ \A k \in 1 .. Len(UnitTokens(sent'[(f + 1) + j])) :
                       stream'[next[j - 1] + k] = UnitTokens(sent'[(f + 1) + j])[k]
      BY <2>20, <3>2
    <3>4. PICK x \in Nat, g \in Nat : x = w - 1 /\ g = f + 1
      BY <2>5
    <3>5. Len(sent') - Len(frames') = x /\ Len(frames') = g /\ Len(stream') = m - l
      BY <2>12, <3>1, <3>4
    <3>6. /\ next \in [0 .. x -> Nat] /\ next[0] = 0 /\ next[x] = m - l
          /\ \A i \in 0 .. x : \A j \in i .. x : next[i] <= next[j]
      BY <2>17, <2>18, <2>19, <3>4
    <3>7. \A j \in 1 .. x :
             /\ next[j] = next[j - 1] + Len(UnitTokens(sent'[g + j]))
             /\ \A k \in 1 .. Len(UnitTokens(sent'[g + j])) :
                   stream'[next[j - 1] + k] = UnitTokens(sent'[g + j])[k]
      BY <3>3, <3>4
    <3> QED BY <3>5, <3>6, <3>7 DEF Cuts
  <2>22. Len(frames') <= Len(sent')
    BY <1>1, <2>2, <2>5, <2>14
  <2> QED BY <2>12, <2>14, <2>15, <2>21, <2>22 DEF QueueIsTyped
<1> QED BY <1>1, <1>2 DEF TerminalIInv

\* Typing, reading and the question of the protocol keep it.
LEMMA TerminalKeeps == TerminalIInv /\ (InputNext \/ UNCHANGED inputVars) => TerminalIInv'
<1> SUFFICES ASSUME TerminalIInv, InputNext \/ UNCHANGED inputVars PROVE TerminalIInv'
  OBVIOUS
<1>1. CASE UNCHANGED inputVars
  <2>1. UNCHANGED <<sent, stream, inputPc, answer, frames>>
    BY <1>1 DEF inputVars
  <2>2. (Delimited(sent)' <=> Delimited(sent)) /\ \A cut : Cuts(cut)' <=> Cuts(cut)
    BY <2>1 DEF Delimited, Cuts
  <2>3. QueueIsTyped' <=> QueueIsTyped
    BY <2>1, <2>2 DEF QueueIsTyped
  <2> QED BY <2>1, <2>2, <2>3 DEF TerminalIInv
<1>2. CASE TerminalAnswers
  BY <1>2 DEF TerminalAnswers, TerminalIInv
<1>3. CASE QueryKeyboardProtocol
  BY <1>3 DEF QueryKeyboardProtocol, TerminalIInv
<1>4. CASE CaptureReady
  <2>1. /\ sent = <<>> /\ frames = <<>> /\ stream' = <<>> /\ inputPc' = "reading"
        /\ UNCHANGED <<sent, answer, frames>>
    BY <1>4 DEF CaptureReady, TerminalIInv
  <2> DEFINE cut == [j \in {0} |-> 0]
  <2>2. Cuts(cut)'
    BY <2>1 DEF Cuts
  <2>3. QueueIsTyped'
    BY <2>1, <2>2 DEF QueueIsTyped
  <2> QED BY <2>1, <2>3 DEF TerminalIInv
<1> QED BY <1>1, <1>2, <1>3, <1>4, TypesKeeps, ReadEventKeeps DEF InputNext

\* The frames are the first keys that were typed.
LEMMA TerminalIsRight == TerminalIInv => FramesAreKeys
<1> SUFFICES ASSUME TerminalIInv, Delimited(sent), answer = "none"
             PROVE  Len(frames) <= Len(sent) /\ \A i \in DOMAIN frames : frames[i] = KindsOf(sent[i])
  BY DEF FramesAreKeys
<1>1. CASE inputPc = "reading"
  <2>1. QueueIsTyped
    BY <1>1 DEF TerminalIInv
  <2>2. DOMAIN frames = 1 .. Len(frames)
    BY <2>1 DEF QueueIsTyped
  <2> QED BY <2>1, <2>2 DEF QueueIsTyped
<1>2. CASE inputPc # "reading"
  BY <1>2 DEF TerminalIInv
<1> QED BY <1>1, <1>2

-----------------------------------------------------------------------------
(* The probe window: what the chord tracker has yet to see.                *)
\* The modifiers, and the keys.
Mods == {"shift", "ctrl"}
KeyNames == {"lshift", "rshift", "ctrl", "letter"}

\* The events of a display server, of the window, and both.
WireEvents ==
    [kind : {"key"}, key : KeyNames, press : BOOLEAN, state : SUBSET Mods, ended : SUBSET Mods]
        \cup [kind : {"modifiers"}, mask : SUBSET Mods, ended : SUBSET Mods]
        \cup [kind : {"enter", "leave", "gained", "lost"}]
ProbeEvents ==
    [kind : {"press", "release", "modifier", "modifiers"}, mask : SUBSET Mods, ended : SUBSET Mods]
QueuedEvents == WireEvents \cup ProbeEvents

\* A chord: the modifiers held, and whether a key came since the first of them.
Chords == {c \in [held : SUBSET Mods, came : BOOLEAN] : c.held = {} => ~c.came}
\* No chord, and the chord the tracker has seen.
Idle == [held |-> {}, came |-> FALSE]
Tracked == [held |-> tracker.held, came |-> tracker.held # {} /\ tracker.keySeen]

\* A key comes; the modifiers are mask.
KeyComes(c) == [held |-> c.held, came |-> c.held # {}]
MaskIs(c, mask) == IF mask = {} THEN Idle ELSE [held |-> c.held \cup mask, came |-> c.came]

\* What is said when the modifiers become mask.
Tells(c, mask) == IF mask = {} /\ ~c.came THEN c.held ELSE {}

\* What becomes of the chord with one event, of the display server p or, with p = "probe",
\* of the window.
ChordAfter(p, c, e) ==
    IF e.kind = "press" THEN KeyComes(c)
    ELSE IF e.kind = "modifiers" THEN MaskIs(c, e.mask)
    ELSE IF e.kind # "key" THEN c
    ELSE IF e.key = "letter" THEN (IF e.press THEN KeyComes(c) ELSE c)
    ELSE IF p = "x11" THEN MaskIs(c, StateAfter(e)) ELSE c

\* The event says rightly what ended with it.
EndsRightly(p, c, e) ==
    /\ e.kind = "modifiers" => e.ended = Tells(c, e.mask)
    /\ e.kind = "key" /\ p = "x11" /\ e.key # "letter" => e.ended = Tells(c, StateAfter(e))
    /\ e.kind = "enter" /\ p = "x11" => c = Idle
    /\ e.kind \in {"press", "release", "modifier"} => e.ended = {}

\* The queue leads from one chord to another.
LeadsTo(p, queue, from, to) ==
    \E c \in [0 .. Len(queue) -> Chords] :
        /\ c[0] = from /\ c[Len(queue)] = to
        /\ \A i \in 1 .. Len(queue) :
              EndsRightly(p, c[i - 1], queue[i]) /\ c[i] = ChordAfter(p, c[i - 1], queue[i])

\* With an empty queue the chord is what it was.
LEMMA LeadsNowhere ==
    /\ \A p : \A c \in Chords : LeadsTo(p, <<>>, c, c)
    /\ \A p, from, to : LeadsTo(p, <<>>, from, to) => from = to /\ from \in Chords
<1>1. ASSUME NEW p, NEW c \in Chords PROVE LeadsTo(p, <<>>, c, c)
  <2> DEFINE path == [i \in 0 .. 0 |-> c]
  <2>1. path \in [0 .. 0 -> Chords] /\ path[0] = c
    OBVIOUS
  <2> HIDE DEF path
  <2>2. Len(<<>>) = 0 /\ 1 .. 0 = {}
    OBVIOUS
  <2> QED BY <2>1, <2>2 DEF LeadsTo
<1>2. ASSUME NEW p, NEW from, NEW to, LeadsTo(p, <<>>, from, to) PROVE from = to /\ from \in Chords
  BY <1>2 DEF LeadsTo
<1> QED BY <1>1, <1>2

\* An event that ends rightly what the queue led to is appended.
LEMMA LeadsOn ==
    ASSUME NEW p, NEW S, NEW queue \in Seq(S), NEW e \in S, NEW from, NEW to,
           LeadsTo(p, queue, from, to), EndsRightly(p, to, e), ChordAfter(p, to, e) \in Chords
    PROVE  LeadsTo(p, Append(queue, e), from, ChordAfter(p, to, e))
<1>1. PICK n \in Nat : n = Len(queue)
  OBVIOUS
<1>2. PICK c \in [0 .. n -> Chords] :
         /\ c[0] = from /\ c[n] = to
         /\ \A i \in 1 .. n : EndsRightly(p, c[i - 1], queue[i]) /\ c[i] = ChordAfter(p, c[i - 1], queue[i])
  BY <1>1 DEF LeadsTo
<1>3. PICK longer : longer = Append(queue, e)
  OBVIOUS
<1>4. Len(longer) = n + 1 /\ longer[n + 1] = e /\ \A i \in 1 .. n : longer[i] = queue[i]
  BY <1>1, <1>3, AppendProperties
<1> DEFINE path == [i \in 0 .. n + 1 |-> IF i <= n THEN c[i] ELSE ChordAfter(p, to, e)]
<1>5. /\ path \in [0 .. n + 1 -> Chords] /\ path[n + 1] = ChordAfter(p, to, e)
      /\ \A i \in 0 .. n : path[i] = c[i]
  BY <1>2
<1> HIDE DEF path
<1>6. ASSUME NEW i \in 1 .. n + 1
      PROVE  EndsRightly(p, path[i - 1], longer[i]) /\ path[i] = ChordAfter(p, path[i - 1], longer[i])
  <2>1. CASE i \in 1 .. n
    <3>1. i - 1 \in 0 .. n /\ i \in 0 .. n
      BY <2>1
    <3>2. path[i - 1] = c[i - 1] /\ path[i] = c[i] /\ longer[i] = queue[i]
      BY <1>4, <1>5, <2>1, <3>1
    <3> QED BY <1>2, <2>1, <3>2
  <2>2. CASE i = n + 1
    <3>1. path[i - 1] = to /\ path[i] = ChordAfter(p, to, e) /\ longer[i] = e
      BY <1>2, <1>4, <1>5, <2>2
    <3> QED BY <3>1
  <2> QED BY <2>1, <2>2
<1>7. path[0] = from
  BY <1>2, <1>5
<1>8. LeadsTo(p, longer, from, ChordAfter(p, to, e))
  BY <1>4, <1>5, <1>6, <1>7 DEF LeadsTo
<1> QED BY <1>3, <1>8

\* The first event of the queue is taken.
LEMMA LeadsFirst ==
    ASSUME NEW p, NEW S, NEW queue \in Seq(S), queue # <<>>, NEW from, NEW to, LeadsTo(p, queue, from, to)
    PROVE  /\ from \in Chords /\ EndsRightly(p, from, Head(queue))
           /\ LeadsTo(p, Tail(queue), ChordAfter(p, from, Head(queue)), to)
<1>1. PICK n \in Nat : n = Len(queue) /\ n >= 1
  BY EmptySeq
<1>2. PICK c \in [0 .. n -> Chords] :
         /\ c[0] = from /\ c[n] = to
         /\ \A i \in 1 .. n : EndsRightly(p, c[i - 1], queue[i]) /\ c[i] = ChordAfter(p, c[i - 1], queue[i])
  BY <1>1 DEF LeadsTo
<1>3. PICK rest : rest = Tail(queue)
  OBVIOUS
<1>4. Len(rest) = n - 1 /\ Head(queue) = queue[1] /\ \A i \in 1 .. n - 1 : rest[i] = queue[i + 1]
  BY <1>1, <1>3
<1>5. EndsRightly(p, from, queue[1]) /\ c[1] = ChordAfter(p, from, queue[1]) /\ from \in Chords
  <2>1. 1 \in 1 .. n /\ 1 - 1 = 0 /\ 0 \in 0 .. n
    BY <1>1
  <2> QED BY <1>2, <2>1
<1> DEFINE path == [i \in 0 .. n - 1 |-> c[i + 1]]
<1>6. path \in [0 .. n - 1 -> Chords] /\ path[0] = c[1] /\ path[n - 1] = to
  <2>1. path[0] = c[0 + 1] /\ path[n - 1] = c[(n - 1) + 1] /\ (n - 1) + 1 = n
    BY <1>1
  <2> QED BY <1>1, <1>2, <2>1
<1>7. \A i \in 1 .. n - 1 :
         EndsRightly(p, path[i - 1], rest[i]) /\ path[i] = ChordAfter(p, path[i - 1], rest[i])
  <2> SUFFICES ASSUME NEW i \in 1 .. n - 1
               PROVE  EndsRightly(p, path[i - 1], rest[i]) /\ path[i] = ChordAfter(p, path[i - 1], rest[i])
    OBVIOUS
  <2>1. /\ i + 1 \in 1 .. n /\ (i + 1) - 1 = i /\ i - 1 \in 0 .. n - 1 /\ (i - 1) + 1 = i
        /\ i \in 0 .. n - 1
    OBVIOUS
  <2>2. path[i - 1] = c[(i - 1) + 1] /\ path[i] = c[i + 1]
    BY <2>1
  <2> HIDE DEF path
  <2>3. EndsRightly(p, c[(i + 1) - 1], queue[i + 1]) /\ c[i + 1] = ChordAfter(p, c[(i + 1) - 1], queue[i + 1])
    BY <1>2, <2>1
  <2> QED BY <1>4, <2>1, <2>2, <2>3
<1> HIDE DEF path
<1>8. LeadsTo(p, rest, c[1], to)
  BY <1>4, <1>6, <1>7 DEF LeadsTo
<1> QED BY <1>3, <1>4, <1>5, <1>8

\* The fields of the events, by their kind.
LEMMA KindsOfEvents ==
    /\ \A e \in ProbeEvents : /\ e.kind \in {"press", "release", "modifier", "modifiers"}
                              /\ e.mask \subseteq Mods /\ e.ended \subseteq Mods
    /\ \A e \in WireEvents :
          /\ e.kind \in {"key", "modifiers", "enter", "leave", "gained", "lost"}
          /\ e.kind = "key" => /\ e.key \in KeyNames /\ e.press \in BOOLEAN
                               /\ e.state \subseteq Mods /\ e.ended \subseteq Mods
          /\ e.kind = "modifiers" => e.mask \subseteq Mods /\ e.ended \subseteq Mods
BY DEF ProbeEvents, WireEvents

\* The modifiers of keys that are held.
LEMMA BitsOfMods ==
    /\ \A key \in {"lshift", "rshift", "ctrl"} : BitOf(key) \in Mods
    /\ \A keys \in SUBSET {"lshift", "rshift", "ctrl"} :
          Bits(keys) \subseteq Mods /\ (Bits(keys) = {} <=> keys = {})
BY DEF BitOf, Bits, Mods

\* An event makes a chord of a chord.
LEMMA ChordAfterIsChord ==
    ASSUME NEW p, NEW c \in Chords, NEW e \in QueuedEvents
    PROVE  ChordAfter(p, c, e) \in Chords
<1>1. KeyComes(c) \in Chords /\ \A mask \in SUBSET Mods : MaskIs(c, mask) \in Chords
  BY DEF KeyComes, MaskIs, Chords, Idle
<1>2. e.kind = "modifiers" => e.mask \subseteq Mods
  BY KindsOfEvents DEF QueuedEvents
<1>3. e.kind = "key" /\ e.key # "letter" => StateAfter(e) \subseteq Mods
  BY KindsOfEvents, BitsOfMods DEF QueuedEvents, StateAfter, KeyNames
<1> QED BY <1>1, <1>2, <1>3 DEF ChordAfter

\* The window has still to hear that it has the focus.
Entering == \E i \in 1 .. Len(wire) : wire[i].kind = "enter"

\* The queues, the tracker and what is held.
WindowTypes ==
    /\ wire \in Seq(WireEvents) /\ pending \in Seq(ProbeEvents)
    /\ tracker \in [held : SUBSET Mods, keySeen : BOOLEAN]
    /\ holds \subseteq ModKeys /\ chord \subseteq Mods /\ modmask \subseteq Mods
    /\ arrived \in BOOLEAN /\ blurred \in BOOLEAN
    /\ hasFocus \in BOOLEAN /\ hasKeyboard \in BOOLEAN

\* The chord that goes on, as the window can know it.
ToldChord == IF Focused THEN [held |-> chord, came |-> arrived] ELSE Idle

\* The events that are under way take the tracker from what it has seen to the chord that
\* goes on; an X11 window that is about to have the focus finds no modifier held.
OnItsWay ==
    /\ \E between : /\ LeadsTo("probe", pending, Tracked, between)
                    /\ LeadsTo(protocol, wire, between, ToldChord)
    /\ protocol = "x11" /\ Entering => holds = {}

\* The window is closed with nothing under way, or open with the events of its chord under
\* way, as long as nobody can say otherwise.
WindowIInv ==
    /\ WindowTypes
    /\ probePc = "open" => protocol \in {"wayland", "x11"}
    /\ probePc # "open" => wire = <<>> /\ pending = <<>> /\ holds = {} /\ tracker = NoChord
    /\ chord = {} <=> holds = {}
    /\ holds = {} => ~arrived
    /\ ~blurred \/ Quiet => OnItsWay

\* The keys that are modifiers have modifiers.
LEMMA ModKeyFacts ==
    /\ ModKeys \subseteq {"lshift", "rshift", "ctrl"}
    /\ \A keys \in SUBSET ModKeys : Bits(keys) \subseteq Mods /\ (Bits(keys) = {} <=> keys = {})
BY ProbeAssumption, BitsOfMods

\* The window is closed.
LEMMA WindowBegins == ProbeInit => WindowIInv
<1> SUFFICES ASSUME ProbeInit PROVE WindowIInv
  OBVIOUS
<1>1. /\ chord = {} /\ ~arrived /\ holds = {} /\ wire = <<>> /\ pending = <<>>
      /\ tracker = NoChord /\ probePc = "closed" /\ modmask = {} /\ arrived = FALSE
      /\ blurred = FALSE /\ hasFocus = FALSE /\ hasKeyboard = TRUE
  BY DEF ProbeInit
<1>2. WindowTypes
  <2>1. wire \in Seq(WireEvents) /\ pending \in Seq(ProbeEvents)
    BY <1>1
  <2>2. tracker \in [held : SUBSET Mods, keySeen : BOOLEAN]
    BY <1>1 DEF NoChord
  <2> QED BY <1>1, <2>1, <2>2 DEF WindowTypes
<1>3. Tracked = Idle /\ ToldChord = Idle /\ Idle \in Chords
  BY <1>1 DEF Tracked, NoChord, ToldChord, Focused, Idle, Chords
<1>4. OnItsWay
  <2>1. LeadsTo("probe", pending, Tracked, Idle) /\ LeadsTo(protocol, wire, Idle, ToldChord)
    BY <1>1, <1>3, LeadsNowhere
  <2> QED BY <1>1, <2>1 DEF OnItsWay
<1> QED BY <1>1, <1>2, <1>4 DEF WindowIInv

\* What is left to show of a step: with nothing under way, the invariant says nothing new.
LEMMA EnoughForWindow ==
    ASSUME WindowTypes', chord' = {} <=> holds' = {}, holds' = {} => ~arrived',
           ~blurred' => OnItsWay' \/ Quiet',
           probePc' = "open" => protocol' \in {"wayland", "x11"},
           probePc' # "open" =>
               wire' = <<>> /\ pending' = <<>> /\ holds' = {} /\ tracker' = NoChord
    PROVE  WindowIInv'
<1>1. ASSUME Quiet' PROVE OnItsWay'
  <2>1. wire' = <<>> /\ pending' = <<>> /\ holds' = {} /\ tracker'.held = {}
    BY <1>1 DEF Quiet
  <2>2. chord' = {} /\ arrived' = FALSE
    BY <2>1 DEF WindowTypes
  <2>3. Tracked' = Idle /\ ToldChord' = Idle /\ Idle \in Chords
    BY <2>1, <2>2 DEF Tracked, ToldChord, Idle, Chords
  <2>4. LeadsTo("probe", pending', Tracked', Idle) /\ LeadsTo(protocol', wire', Idle, ToldChord')
    BY <2>1, <2>3, LeadsNowhere
  <2> QED BY <2>1, <2>4 DEF OnItsWay
<1> QED BY <1>1 DEF WindowIInv

\* An event is appended, and the queue leads on.
LEMMA ConcatOne ==
    ASSUME NEW S, NEW queue \in Seq(S), NEW e \in S
    PROVE  queue \o <<e>> = Append(queue, e) /\ Append(queue, e) \in Seq(S)
BY AppendIsConcat, AppendProperties

\* What the window can know is a chord.
LEMMA ToldIsChord ==
    ASSUME WindowIInv
    PROVE  /\ ToldChord \in Chords /\ ToldChord = [held |-> ToldChord.held, came |-> ToldChord.came]
           /\ Focused => ToldChord.held = chord /\ ToldChord.came = arrived
           /\ holds = {} => ToldChord = Idle
BY DEF WindowIInv, WindowTypes, ToldChord, Chords, Idle

\* The state of an X11 key event and the key give the modifiers that are held after it,
\* unless two keys are one modifier.
LEMMA StateAfterIsExact ==
    ASSUME NEW keys \in SUBSET ModKeys, NEW key \in ModKeys,
           ~ \E k \in keys \ {key} : BitOf(k) = BitOf(key)
    PROVE  /\ Bits(keys) \cup {BitOf(key)} = Bits(keys \cup {key})
           /\ Bits(keys) \ {BitOf(key)} = Bits(keys \ {key})
BY DEF Bits

\* A modifier key goes down or up: the event says so, or an event after it.
LEMMA ModifierKeepsWindow ==
    ASSUME WindowIInv, probePc = "open", NEW key \in ModKeys, hasKeyboard, ModifierGoes(key),
           UNCHANGED <<hasFocus, hasKeyboard, openVars, clientVars>>
    PROVE  WindowIInv'
<1> DEFINE press == key \notin holds
<1> DEFINE after == IF press THEN holds \cup {key} ELSE holds \ {key}
<1> DEFINE first == KeyEvent(key, press, Ended(after))
<1> DEFINE second == Mask(after, Ended(after))
<1>1. /\ holds' = after /\ chord' = (IF after = {} THEN {} ELSE chord \cup Bits(after))
      /\ arrived' = (IF after = {} THEN FALSE ELSE arrived)
      /\ wire' = IF ~Focused THEN wire
                 ELSE wire \o <<first>> \o IF protocol = "wayland" THEN <<second>> ELSE <<>>
      /\ ~blurred' => (~blurred \/ Quiet) /\ ~AsksLate /\ ~ \E k \in holds \ {key} : BitOf(k) = BitOf(key)
  BY DEF ModifierGoes, ChordGoesOn
<1>2. /\ hasFocus' = hasFocus /\ hasKeyboard' = hasKeyboard /\ pending' = pending
      /\ tracker' = tracker /\ modmask' = modmask /\ protocol' = protocol /\ probePc' = "open"
      /\ blurred' \in BOOLEAN
  BY DEF openVars, clientVars, ModifierGoes
<1>3. after \in SUBSET ModKeys /\ holds \in SUBSET ModKeys /\ (press \in BOOLEAN) /\ chord \subseteq Mods
  BY DEF WindowIInv, WindowTypes
<1>4. /\ Bits(after) \subseteq Mods /\ Bits(holds) \subseteq Mods
      /\ Bits(after) = {} <=> after = {}
  BY <1>3, ModKeyFacts
<1>5. Ended(after) \subseteq Mods
  BY <1>3 DEF Ended
<1>6. key \in KeyNames /\ key # "letter" /\ key \in {"lshift", "rshift", "ctrl"}
  BY ModKeyFacts DEF KeyNames
<1>7. first \in WireEvents /\ second \in WireEvents
  <2> HIDE DEF press, after
  <2>1. first \in WireEvents
    BY <1>3, <1>4, <1>5, <1>6 DEF KeyEvent, WireEvents
  <2>2. second \in WireEvents
    BY <1>4, <1>5 DEF Mask, WireEvents
  <2> QED BY <2>1, <2>2
<1>8. first.kind = "key" /\ first.key = key /\ (first.press <=> press) /\ first.state = Bits(holds)
      /\ first.ended = Ended(after)
      /\ second.kind = "modifiers" /\ second.mask = Bits(after) /\ second.ended = Ended(after)
  BY DEF KeyEvent, Mask
<1> HIDE DEF first, second
<1>9. wire \in Seq(WireEvents) /\ (chord = {} <=> holds = {}) /\ (holds = {} => arrived = FALSE)
  BY DEF WindowIInv, WindowTypes
<1>10. \/ ~Focused /\ wire' = wire
       \/ Focused /\ protocol = "wayland" /\ wire' = Append(Append(wire, first), second)
       \/ Focused /\ protocol = "x11" /\ wire' = Append(wire, first)
  <2>1. wire \o <<first>> = Append(wire, first) /\ Append(wire, first) \in Seq(WireEvents)
    BY <1>7, <1>9, ConcatOne
  <2>2. Append(wire, first) \o <<second>> = Append(Append(wire, first), second)
    BY <1>7, <2>1, ConcatOne
  <2>3. Append(wire, first) \o <<>> = Append(wire, first)
    BY <2>1, ConcatEmptySeq
  <2>4. protocol \in {"wayland", "x11"}
    BY DEF WindowIInv
  <2> HIDE DEF press, after
  <2> QED BY <1>1, <2>1, <2>2, <2>3, <2>4
<1>11. WindowTypes'
  <2>1. wire' \in Seq(WireEvents)
    BY <1>7, <1>9, <1>10, AppendProperties
  <2>2. chord' \subseteq Mods /\ arrived' \in BOOLEAN
    BY <1>1, <1>3, <1>4 DEF WindowIInv, WindowTypes
  <2> HIDE DEF press, after
  <2> QED BY <1>1, <1>2, <1>3, <2>1, <2>2 DEF WindowIInv, WindowTypes
<1>12. chord' = {} <=> holds' = {}
  BY <1>1, <1>4
<1>13. ASSUME ~blurred' PROVE OnItsWay'
  <2>1. OnItsWay /\ ~AsksLate /\ ~ \E k \in holds \ {key} : BitOf(k) = BitOf(key)
    BY <1>1, <1>13 DEF WindowIInv
  <2>2. PICK between : /\ LeadsTo("probe", pending, Tracked, between)
                       /\ LeadsTo(protocol, wire, between, ToldChord)
    BY <2>1 DEF OnItsWay
  <2>3. Tracked' = Tracked /\ (Focused' <=> Focused)
    BY <1>2 DEF Tracked, Focused
  <2>4. CASE ~Focused
    <3>1. wire' = wire /\ ToldChord' = ToldChord
      BY <1>10, <2>3, <2>4 DEF ToldChord
    <3>2. protocol = "x11" => ~Entering
      BY <2>1, <1>9 DEF AsksLate, Entering
    <3>3. protocol' = "x11" => ~Entering'
      BY <1>2, <3>1, <3>2 DEF Entering
    <3>4. LeadsTo("probe", pending', Tracked', between) /\ LeadsTo(protocol', wire', between, ToldChord')
      BY <1>2, <2>2, <2>3, <3>1
    <3> QED BY <3>3, <3>4 DEF OnItsWay
  <2>5. CASE Focused
    <3>1. PICK told : told = ToldChord
      OBVIOUS
    <3>2. told \in Chords /\ told = [held |-> chord, came |-> arrived]
      BY <2>5, <3>1, ToldIsChord
    <3>3. ToldChord' = MaskIs(told, Bits(after)) /\ Ended(after) = Tells(told, Bits(after))
      <4>1. ToldChord' = [held |-> chord', came |-> arrived']
        BY <2>3, <2>5 DEF ToldChord
      <4>2. MaskIs(told, Bits(after)) = [held |-> chord', came |-> arrived']
        <5> HIDE DEF press, after
        <5> QED BY <1>1, <1>4, <3>2 DEF MaskIs, Idle
      <4>3. Ended(after) = Tells(told, Bits(after))
        <5> HIDE DEF press, after
        <5> QED BY <1>4, <1>9, <3>2 DEF Ended, Tells
      <4> QED BY <4>1, <4>2, <4>3
    <3>4. MaskIs(told, Bits(after)) \in Chords
      <4> HIDE DEF press, after
      <4> QED BY <1>4, <3>2 DEF MaskIs, Idle, Chords
    <3>5. CASE protocol = "wayland"
      <4>1. EndsRightly(protocol, told, first) /\ ChordAfter(protocol, told, first) = told
        BY <1>6, <1>8, <3>5 DEF EndsRightly, ChordAfter
      <4>2. EndsRightly(protocol, told, second)
            /\ ChordAfter(protocol, told, second) = MaskIs(told, Bits(after))
        BY <1>8, <3>3 DEF EndsRightly, ChordAfter
      <4>3. LeadsTo(protocol, Append(wire, first), between, told)
        BY <1>7, <1>9, <2>2, <3>1, <3>2, <4>1, LeadsOn
      <4>4. Append(wire, first) \in Seq(WireEvents)
        BY <1>7, <1>9, AppendProperties
      <4>5. LeadsTo(protocol, Append(Append(wire, first), second), between, MaskIs(told, Bits(after)))
        BY <1>7, <3>4, <4>2, <4>3, <4>4, LeadsOn
      <4>6. LeadsTo(protocol', wire', between, ToldChord')
        BY <1>2, <1>10, <2>5, <3>3, <3>5, <4>5
      <4>7. protocol' # "x11" /\ LeadsTo("probe", pending', Tracked', between)
        BY <1>2, <2>2, <2>3, <3>5
      <4> QED BY <4>6, <4>7 DEF OnItsWay
    <3>6. CASE protocol = "x11"
      <4>1. StateAfter(first) = Bits(after)
        BY <1>3, <1>6, <1>8, <2>1, StateAfterIsExact, ZenonT(30) DEF StateAfter
      <4>2. EndsRightly(protocol, told, first)
            /\ ChordAfter(protocol, told, first) = MaskIs(told, Bits(after))
        <5> HIDE DEF press, after
        <5> QED BY <1>6, <1>8, <3>3, <3>6, <4>1 DEF EndsRightly, ChordAfter
      <4>3. LeadsTo(protocol, Append(wire, first), between, MaskIs(told, Bits(after)))
        BY <1>7, <1>9, <2>2, <3>1, <3>4, <4>2, LeadsOn
      <4>4. LeadsTo(protocol', wire', between, ToldChord')
        BY <1>2, <1>10, <2>5, <3>3, <3>6, <4>3
      <4>5. LeadsTo("probe", pending', Tracked', between)
        BY <1>2, <2>2, <2>3
      <4>6. ~Entering'
        <5>1. PICK n \in Nat : n = Len(wire)
          BY <1>9
        <5>2. \A i \in 1 .. n : wire[i].kind # "enter"
          BY <1>9, <2>1, <3>6, <5>1 DEF AsksLate
        <5>3. wire' = Append(wire, first)
          BY <1>10, <2>5, <3>6
        <5>4. Len(wire') = n + 1 /\ wire'[n + 1] = first /\ \A i \in 1 .. n : wire'[i] = wire[i]
          BY <1>7, <1>9, <5>1, <5>3, AppendProperties
        <5> QED BY <1>8, <5>2, <5>4 DEF Entering
      <4> QED BY <4>4, <4>5, <4>6 DEF OnItsWay
    <3>7. protocol \in {"wayland", "x11"}
      BY DEF WindowIInv
    <3> QED BY <3>5, <3>6, <3>7
  <2> QED BY <2>4, <2>5
<1>14. (holds' = {} => ~arrived') /\ protocol' \in {"wayland", "x11"}
  <2>1. holds' = {} => arrived' = FALSE
    <3> HIDE DEF press, after
    <3> QED BY <1>1
  <2> QED BY <1>2, <2>1 DEF WindowIInv
<1> QED BY <1>2, <1>11, <1>12, <1>13, <1>14, EnoughForWindow

\* Two events in one go are appended one after the other.
LEMMA ConcatTwo ==
    ASSUME NEW S, NEW queue \in Seq(S), NEW a \in S, NEW b \in S
    PROVE  queue \o <<a, b>> = Append(Append(queue, a), b)
<1>1. <<a>> \in Seq(S) /\ <<b>> \in Seq(S) /\ <<a, b>> \in Seq(S)
  OBVIOUS
<1>2. <<a>> \o <<b>> = <<a, b>>
  <2>1. PICK joined : joined = <<a>> \o <<b>>
    OBVIOUS
  <2>2. joined \in Seq(S)
    BY <1>1, <2>1, ConcatProperties
  <2>3. Len(joined) = 2 /\ joined[1] = a /\ joined[2] = b
    BY <1>1, <2>1
  <2>4. PICK pair : pair = <<a, b>>
    OBVIOUS
  <2>5. pair \in Seq(S) /\ Len(pair) = 2 /\ pair[1] = a /\ pair[2] = b
    BY <1>1, <2>4
  <2>6. \A i \in 1 .. 2 : joined[i] = pair[i]
    BY <2>3, <2>5
  <2>7. joined = pair
    BY <2>2, <2>3, <2>5, <2>6, SeqEqual
  <2> QED BY <2>1, <2>4, <2>7
<1>3. Append(queue, a) = queue \o <<a>> /\ Append(queue, a) \in Seq(S)
  BY ConcatOne
<1>4. Append(Append(queue, a), b) = (queue \o <<a>>) \o <<b>>
  BY <1>3, ConcatOne
<1>5. (queue \o <<a>>) \o <<b>> = queue \o (<<a>> \o <<b>>)
  BY <1>1, ConcatAssociative
<1> QED BY <1>2, <1>4, <1>5

\* A key is typed: it comes to the window, or a binding takes it.
LEMMA LetterKeepsWindow ==
    ASSUME WindowIInv, probePc = "open", hasKeyboard, LetterTapped,
           UNCHANGED <<hasFocus, hasKeyboard, openVars, clientVars>>
    PROVE  WindowIInv'
<1> DEFINE down == KeyEvent("letter", TRUE, {})
<1> DEFINE up == KeyEvent("letter", FALSE, {})
<1>1. /\ holds' = holds /\ chord' = chord /\ blurred' = blurred
      /\ \/ wire' = wire /\ arrived' = arrived
         \/ Focused /\ arrived' = (holds # {}) /\ wire' = wire \o <<down, up>>
  BY DEF LetterTapped
<1>2. /\ hasFocus' = hasFocus /\ hasKeyboard' = hasKeyboard /\ pending' = pending
      /\ tracker' = tracker /\ modmask' = modmask /\ protocol' = protocol /\ probePc' = "open"
  BY DEF openVars, clientVars
<1>3. wire \in Seq(WireEvents) /\ (chord = {} <=> holds = {}) /\ holds \in SUBSET ModKeys
  BY DEF WindowIInv, WindowTypes
<1>4. down \in WireEvents /\ up \in WireEvents
  <2>1. Bits(holds) \subseteq Mods
    BY <1>3, ModKeyFacts
  <2> QED BY <2>1 DEF KeyEvent, WireEvents, KeyNames
<1>5. /\ down.kind = "key" /\ down.key = "letter" /\ down.press = TRUE
      /\ up.kind = "key" /\ up.key = "letter" /\ up.press = FALSE
  BY DEF KeyEvent
<1> HIDE DEF down, up
<1>6. wire \o <<down, up>> = Append(Append(wire, down), up)
  BY <1>3, <1>4, ConcatTwo
<1>7. WindowTypes'
  <2>1. wire' \in Seq(WireEvents)
    BY <1>1, <1>3, <1>4, <1>6, AppendProperties
  <2> QED BY <1>1, <1>2, <2>1 DEF WindowIInv, WindowTypes
<1>8. (chord' = {} <=> holds' = {}) /\ (holds' = {} => ~arrived')
  <2>1. CASE arrived' = arrived
    BY <1>1, <2>1 DEF WindowIInv
  <2>2. CASE arrived' = (holds # {})
    BY <1>1, <1>3, <2>2
  <2> QED BY <1>1, <2>1, <2>2
<1>9. ASSUME ~blurred' PROVE OnItsWay'
  <2>1. OnItsWay
    BY <1>1, <1>9 DEF WindowIInv
  <2>2. PICK between : /\ LeadsTo("probe", pending, Tracked, between)
                       /\ LeadsTo(protocol, wire, between, ToldChord)
    BY <2>1 DEF OnItsWay
  <2>3. Tracked' = Tracked /\ (Focused' <=> Focused)
    BY <1>2 DEF Tracked, Focused
  <2>4. CASE wire' = wire /\ arrived' = arrived
    <3>1. ToldChord' = ToldChord /\ (Entering' => Entering)
      BY <1>1, <2>3, <2>4 DEF ToldChord, Entering
    <3>2. protocol' = "x11" /\ Entering' => holds' = {}
      BY <1>1, <1>2, <2>1, <3>1 DEF OnItsWay
    <3>3. LeadsTo("probe", pending', Tracked', between) /\ LeadsTo(protocol', wire', between, ToldChord')
      BY <1>2, <2>2, <2>3, <2>4, <3>1
    <3> QED BY <3>2, <3>3 DEF OnItsWay
  <2>5. CASE Focused /\ arrived' = (holds # {}) /\ wire' = wire \o <<down, up>>
    <3>1. PICK told : told = ToldChord
      OBVIOUS
    <3>2. told \in Chords /\ told.held = chord
      BY <2>5, <3>1, ToldIsChord
    <3>3. ToldChord' = KeyComes(told) /\ KeyComes(told) \in Chords
      BY <1>1, <1>3, <2>3, <2>5, <3>2 DEF ToldChord, KeyComes, Chords
    <3>4. EndsRightly(protocol, told, down) /\ ChordAfter(protocol, told, down) = KeyComes(told)
      BY <1>5 DEF EndsRightly, ChordAfter
    <3>5. /\ EndsRightly(protocol, KeyComes(told), up)
          /\ ChordAfter(protocol, KeyComes(told), up) = KeyComes(told)
      BY <1>5 DEF EndsRightly, ChordAfter
    <3>6. LeadsTo(protocol, Append(wire, down), between, KeyComes(told))
      BY <1>3, <1>4, <2>2, <3>1, <3>3, <3>4, LeadsOn
    <3>7. Append(wire, down) \in Seq(WireEvents)
      BY <1>3, <1>4, AppendProperties
    <3>8. LeadsTo(protocol, Append(Append(wire, down), up), between, KeyComes(told))
      BY <1>4, <3>3, <3>5, <3>6, <3>7, LeadsOn
    <3>9. LeadsTo(protocol', wire', between, ToldChord') /\ LeadsTo("probe", pending', Tracked', between)
      BY <1>2, <1>6, <2>2, <2>3, <2>5, <3>3, <3>8
    <3>10. protocol' = "x11" /\ Entering' => holds' = {}
      <4>1. ASSUME protocol = "x11", Entering' PROVE Entering
        <5>1. PICK n \in Nat : n = Len(wire)
          BY <1>3
        <5>2. PICK one : one = Append(wire, down)
          OBVIOUS
        <5>3. Len(one) = n + 1 /\ one[n + 1] = down /\ \A i \in 1 .. n : one[i] = wire[i]
          BY <1>3, <1>4, <5>1, <5>2, AppendProperties
        <5>4. wire' = Append(one, up) /\ one \in Seq(WireEvents)
          BY <1>6, <2>5, <3>7, <5>2
        <5>5. Len(wire') = n + 2 /\ wire'[n + 2] = up /\ \A i \in 1 .. n + 1 : wire'[i] = one[i]
          BY <1>4, <5>3, <5>4, AppendProperties
        <5>6. PICK i \in 1 .. n + 2 : wire'[i].kind = "enter"
          BY <4>1, <5>5 DEF Entering
        <5>7. i \in 1 .. n /\ wire[i].kind = "enter"
          BY <1>5, <5>3, <5>5, <5>6
        <5> QED BY <5>1, <5>7 DEF Entering
      <4> QED BY <1>1, <1>2, <2>1, <4>1 DEF OnItsWay
    <3> QED BY <3>9, <3>10 DEF OnItsWay
  <2> QED BY <1>1, <2>4, <2>5
<1>10. protocol' \in {"wayland", "x11"}
  BY <1>2 DEF WindowIInv
<1> QED BY <1>2, <1>7, <1>8, <1>9, <1>10, EnoughForWindow

\* With no modifier held, an event that has no part in a chord is sent.
LEMMA FocusKeepsWindow ==
    ASSUME WindowIInv, probePc = "open", FocusMoves, UNCHANGED <<openVars, clientVars>>
    PROVE  WindowIInv'
<1> DEFINE moved == [kind |-> IF hasFocus' THEN "enter" ELSE "leave"]
<1> DEFINE told == Mask(holds, {})
<1>1. /\ hasFocus' = ~hasFocus /\ hasKeyboard' = hasKeyboard /\ holds' = holds /\ chord' = chord
      /\ arrived' = arrived
      /\ ~blurred' => /\ ~blurred \/ Quiet
                      /\ holds = {} /\ (protocol = "x11" => wire = <<>>)
      /\ wire' = Append(wire, moved)
                 \o IF hasFocus' /\ protocol = "wayland" THEN <<told>> ELSE <<>>
      /\ blurred' \in BOOLEAN
  BY DEF FocusMoves
<1>2. /\ pending' = pending /\ tracker' = tracker /\ modmask' = modmask
      /\ protocol' = protocol /\ probePc' = "open"
  BY DEF openVars, clientVars
<1>3. wire \in Seq(WireEvents) /\ holds \in SUBSET ModKeys
  BY DEF WindowIInv, WindowTypes
<1>4. moved \in WireEvents /\ told \in WireEvents
  <2>1. Bits(holds) \subseteq Mods
    BY <1>3, ModKeyFacts
  <2>2. told \in WireEvents
    BY <2>1 DEF Mask, WireEvents
  <2>3. moved \in WireEvents
    BY DEF WireEvents
  <2> QED BY <2>2, <2>3
<1>5. /\ moved.kind \in {"enter", "leave"}
      /\ told.kind = "modifiers" /\ told.mask = Bits(holds) /\ told.ended = {}
  BY DEF Mask
<1> HIDE DEF moved, told
<1>6. Append(wire, moved) \in Seq(WireEvents)
  BY <1>3, <1>4, AppendProperties
<1>7. \/ wire' = Append(wire, moved)
      \/ protocol = "wayland" /\ wire' = Append(Append(wire, moved), told)
  <2>1. Append(wire, moved) \o <<told>> = Append(Append(wire, moved), told)
    BY <1>4, <1>6, ConcatOne
  <2>2. Append(wire, moved) \o <<>> = Append(wire, moved)
    BY <1>6, ConcatEmptySeq
  <2> QED BY <1>1, <2>1, <2>2
<1>8. WindowTypes'
  <2>1. wire' \in Seq(WireEvents)
    BY <1>4, <1>6, <1>7, AppendProperties
  <2> QED BY <1>1, <1>2, <2>1 DEF WindowIInv, WindowTypes
<1>9. (chord' = {} <=> holds' = {}) /\ (holds' = {} => ~arrived')
  BY <1>1 DEF WindowIInv
<1>10. ASSUME ~blurred' PROVE OnItsWay'
  <2>1. OnItsWay /\ holds = {} /\ chord = {} /\ arrived = FALSE /\ Idle \in Chords
    BY <1>1, <1>10 DEF WindowIInv, WindowTypes, Idle, Chords
  <2>2. ToldChord = Idle /\ ToldChord' = Idle /\ Tracked' = Tracked
    BY <1>1, <1>2, <2>1 DEF ToldChord, Idle, Tracked
  <2>3. PICK between : /\ LeadsTo("probe", pending, Tracked, between)
                       /\ LeadsTo(protocol, wire, between, Idle)
    BY <2>1, <2>2 DEF OnItsWay
  <2>4. EndsRightly(protocol, Idle, moved) /\ ChordAfter(protocol, Idle, moved) = Idle
    BY <1>5 DEF EndsRightly, ChordAfter
  <2>5. LeadsTo(protocol, Append(wire, moved), between, Idle)
    BY <1>3, <1>4, <2>1, <2>3, <2>4, LeadsOn
  <2>6. EndsRightly("wayland", Idle, told) /\ ChordAfter("wayland", Idle, told) = Idle
    <3>1. Bits(holds) = {}
      BY <2>1 DEF Bits
    <3> QED BY <1>5, <3>1 DEF EndsRightly, ChordAfter, Tells, MaskIs, Idle
  <2>7. LeadsTo(protocol, wire', between, Idle)
    <3>1. CASE wire' = Append(wire, moved)
      BY <2>5, <3>1
    <3>2. CASE protocol = "wayland" /\ wire' = Append(Append(wire, moved), told)
      BY <1>4, <1>6, <2>1, <2>5, <2>6, <3>2, LeadsOn
    <3> QED BY <1>7, <3>1, <3>2
  <2>8. LeadsTo("probe", pending', Tracked', between) /\ LeadsTo(protocol', wire', between, ToldChord')
    BY <1>2, <2>2, <2>3, <2>7
  <2> QED BY <1>1, <2>1, <2>8 DEF OnItsWay
<1>11. protocol' \in {"wayland", "x11"}
  BY <1>2 DEF WindowIInv
<1> QED BY <1>2, <1>8, <1>9, <1>10, <1>11, EnoughForWindow

\* The keyboard of the seat goes or comes: no key is held then.
LEMMA SeatKeepsWindow ==
    ASSUME WindowIInv, probePc = "open", SeatChanges, UNCHANGED <<openVars, clientVars>>
    PROVE  WindowIInv'
<1> DEFINE changed == [kind |-> IF hasKeyboard' THEN "gained" ELSE "lost"]
<1>1. /\ hasFocus' = FALSE /\ hasKeyboard' = ~hasKeyboard /\ holds' = {} /\ chord' = {}
      /\ arrived' = FALSE /\ wire' = Append(wire, changed)
      /\ ~blurred' => (~blurred \/ Quiet) /\ holds = {}
      /\ blurred' \in BOOLEAN /\ protocol = "wayland"
  BY DEF SeatChanges, ChordGoesOn
<1>2. /\ pending' = pending /\ tracker' = tracker /\ modmask' = modmask
      /\ protocol' = protocol /\ probePc' = "open"
  BY DEF openVars, clientVars
<1>3. changed \in WireEvents /\ changed.kind \in {"gained", "lost"}
  BY DEF WireEvents
<1> HIDE DEF changed
<1>4. WindowTypes'
  <2>1. wire' \in Seq(WireEvents)
    BY <1>1, <1>3, AppendProperties DEF WindowIInv, WindowTypes
  <2> QED BY <1>1, <1>2, <2>1 DEF WindowIInv, WindowTypes
<1>5. ASSUME ~blurred' PROVE OnItsWay'
  <2>1. OnItsWay /\ holds = {} /\ chord = {} /\ arrived = FALSE /\ Idle \in Chords
    BY <1>1, <1>5 DEF WindowIInv, WindowTypes, Idle, Chords
  <2>2. ToldChord = Idle /\ ToldChord' = Idle /\ Tracked' = Tracked
    BY <1>1, <1>2, <2>1 DEF ToldChord, Idle, Tracked
  <2>3. PICK between : /\ LeadsTo("probe", pending, Tracked, between)
                       /\ LeadsTo(protocol, wire, between, Idle)
    BY <2>1, <2>2 DEF OnItsWay
  <2>4. EndsRightly(protocol, Idle, changed) /\ ChordAfter(protocol, Idle, changed) = Idle
    BY <1>3 DEF EndsRightly, ChordAfter
  <2>5. wire \in Seq(WireEvents)
    BY DEF WindowIInv, WindowTypes
  <2>6. LeadsTo(protocol, wire', between, Idle)
    BY <1>1, <1>3, <2>1, <2>3, <2>4, <2>5, LeadsOn
  <2>7. LeadsTo("probe", pending', Tracked', between) /\ LeadsTo(protocol', wire', between, ToldChord')
    BY <1>2, <2>2, <2>3, <2>6
  <2> QED BY <1>1, <2>7 DEF OnItsWay
<1>6. protocol' \in {"wayland", "x11"}
  BY <1>2 DEF WindowIInv
<1> QED BY <1>1, <1>2, <1>4, <1>5, <1>6, EnoughForWindow

\* X11: one event handled is one or two of the window's.
LEMMA X11HandleLeads ==
    ASSUME NEW event \in WireEvents, X11Handle(event), pending = <<>>, modmask \subseteq Mods,
           NEW told \in Chords, EndsRightly("x11", told, event), event.kind = "enter" => holds = {}
    PROVE  /\ pending' \in Seq(ProbeEvents) /\ modmask' \subseteq Mods
           /\ LeadsTo("probe", pending', told, ChordAfter("x11", told, event))
<1>1. LeadsTo("probe", <<>>, told, told) /\ <<>> \in Seq(ProbeEvents)
  BY LeadsNowhere
<1>2. event.kind \in {"key", "enter", "leave"}
  BY DEF X11Handle
<1>3. CASE event.kind = "leave"
  <2>1. pending' = <<>> /\ modmask' = modmask
    BY <1>3 DEF X11Handle
  <2>2. ChordAfter("x11", told, event) = told
    BY <1>3 DEF ChordAfter
  <2> QED BY <1>1, <2>1, <2>2
<1>4. CASE event.kind = "enter"
  <2>1. Bits(holds) = {} /\ told = Idle /\ ChordAfter("x11", told, event) = Idle
    BY <1>4 DEF Bits, EndsRightly, ChordAfter
  <2>2. PICK word : word = Probe("modifiers", Bits(holds), {})
    OBVIOUS
  <2>3. word \in ProbeEvents /\ word.kind = "modifiers" /\ word.mask = {} /\ word.ended = {}
    BY <2>1, <2>2 DEF Probe, ProbeEvents
  <2>4. EndsRightly("probe", told, word) /\ ChordAfter("probe", told, word) = Idle
    BY <2>1, <2>3 DEF EndsRightly, ChordAfter, Tells, MaskIs, Idle
  <2>5. LeadsTo("probe", Append(<<>>, word), told, Idle)
    BY <1>1, <2>1, <2>3, <2>4, LeadsOn
  <2>6. (pending' = <<>> \/ pending' = Append(<<>>, word)) /\ modmask' = {}
    BY <1>4, <2>1, <2>2 DEF X11Handle, X11Enter
  <2>7. Append(<<>>, word) \in Seq(ProbeEvents)
    BY <1>1, <2>3, AppendProperties
  <2> QED BY <1>1, <2>1, <2>5, <2>6, <2>7
<1>5. CASE event.kind = "key"
  <2>1. event.key \in KeyNames /\ event.press \in BOOLEAN /\ event.state \subseteq Mods /\ event.ended \subseteq Mods
    BY <1>5, KindsOfEvents
  <2>2. StateAfter(event) \subseteq Mods
    BY <2>1, BitsOfMods DEF StateAfter, KeyNames
  <2>3. PICK key : key = Probe(KeyKind(event), event.state, {})
    OBVIOUS
  <2>4. key \in ProbeEvents /\ key.kind = KeyKind(event) /\ key.ended = {}
    BY <2>1, <2>3 DEF Probe, ProbeEvents, KeyKind
  <2>5. PICK word : word = Probe("modifiers", StateAfter(event), event.ended)
    OBVIOUS
  <2>6. /\ word \in ProbeEvents /\ word.kind = "modifiers" /\ word.mask = StateAfter(event)
        /\ word.ended = event.ended
    BY <2>1, <2>2, <2>5 DEF Probe, ProbeEvents
  <2>7. /\ modmask' = StateAfter(event)
        /\ pending' = (<<>> \o <<key>>) \o IF event.key = "letter" THEN <<>> ELSE <<word>>
    BY <1>5, <2>3, <2>5 DEF X11Handle, X11Key
  <2>8. <<>> \o <<key>> = Append(<<>>, key) /\ Append(<<>>, key) \in Seq(ProbeEvents)
    BY <1>1, <2>4, ConcatOne
  <2>9. CASE event.key = "letter"
    <3>1. pending' = Append(<<>>, key)
      BY <2>7, <2>8, <2>9, ConcatEmptySeq
    <3>2. key.kind \in {"press", "release"} /\ (key.kind = "press" <=> event.press)
      BY <2>1, <2>4, <2>9 DEF KeyKind
    <3>3. /\ EndsRightly("probe", told, key)
          /\ ChordAfter("probe", told, key) = ChordAfter("x11", told, event)
      BY <1>5, <2>4, <2>9, <3>2 DEF EndsRightly, ChordAfter
    <3>4. ChordAfter("x11", told, event) \in Chords
      BY ChordAfterIsChord DEF QueuedEvents
    <3>5. LeadsTo("probe", pending', told, ChordAfter("x11", told, event))
      BY <1>1, <2>4, <3>1, <3>3, <3>4, LeadsOn
    <3> QED BY <2>2, <2>7, <2>8, <3>1, <3>5
  <2>10. CASE event.key # "letter"
    <3>1. pending' = Append(Append(<<>>, key), word)
      <4>1. Append(<<>>, key) \o <<word>> = Append(Append(<<>>, key), word)
        BY <2>6, <2>8, ConcatOne
      <4> QED BY <2>7, <2>8, <2>10, <4>1
    <3>2. key.kind \in {"release", "modifier"}
      BY <2>1, <2>4, <2>10 DEF KeyKind
    <3>3. EndsRightly("probe", told, key) /\ ChordAfter("probe", told, key) = told
      BY <2>4, <3>2 DEF EndsRightly, ChordAfter
    <3>4. /\ EndsRightly("probe", told, word)
          /\ ChordAfter("probe", told, word) = ChordAfter("x11", told, event)
      BY <1>5, <2>6, <2>10 DEF EndsRightly, ChordAfter
    <3>5. ChordAfter("x11", told, event) \in Chords
      BY ChordAfterIsChord DEF QueuedEvents
    <3>6. LeadsTo("probe", Append(<<>>, key), told, told)
      BY <1>1, <2>4, <3>3, LeadsOn
    <3>7. LeadsTo("probe", pending', told, ChordAfter("x11", told, event))
      BY <2>6, <2>8, <3>1, <3>4, <3>5, <3>6, LeadsOn
    <3>8. pending' \in Seq(ProbeEvents)
      BY <2>6, <2>8, <3>1, AppendProperties
    <3> QED BY <2>2, <2>7, <3>7, <3>8
  <2> QED BY <2>9, <2>10
<1> QED BY <1>2, <1>3, <1>4, <1>5

\* Wayland: one event handled is one of the window's, or none.
LEMMA WaylandHandleLeads ==
    ASSUME NEW event \in WireEvents, WaylandHandle(event), pending = <<>>, modmask \subseteq Mods,
           NEW told \in Chords, EndsRightly("wayland", told, event)
    PROVE  /\ pending' \in Seq(ProbeEvents) /\ modmask' \subseteq Mods
           /\ LeadsTo("probe", pending', told, ChordAfter("wayland", told, event))
<1>1. LeadsTo("probe", <<>>, told, told) /\ <<>> \in Seq(ProbeEvents)
  BY LeadsNowhere
<1>2. ChordAfter("wayland", told, event) \in Chords
  BY ChordAfterIsChord DEF QueuedEvents
<1>3. CASE event.kind \in {"enter", "leave", "gained", "lost"}
  <2>1. pending' = <<>> /\ modmask' = modmask
    BY <1>3 DEF WaylandHandle
  <2>2. ChordAfter("wayland", told, event) = told
    BY <1>3 DEF ChordAfter
  <2> QED BY <1>1, <2>1, <2>2
<1>4. ASSUME NEW word \in ProbeEvents, pending' = Append(pending, word),
             EndsRightly("probe", told, word),
             ChordAfter("probe", told, word) = ChordAfter("wayland", told, event)
      PROVE  /\ pending' \in Seq(ProbeEvents)
             /\ LeadsTo("probe", pending', told, ChordAfter("wayland", told, event))
  <2>1. LeadsTo("probe", Append(<<>>, word), told, ChordAfter("probe", told, word))
    BY <1>1, <1>2, <1>4, LeadsOn
  <2>2. Append(<<>>, word) \in Seq(ProbeEvents)
    BY <1>1, AppendProperties
  <2> QED BY <1>4, <2>1, <2>2
<1>5. CASE event.kind = "modifiers"
  <2>1. PICK word : word = Probe("modifiers", event.mask, event.ended)
    OBVIOUS
  <2>2. event.mask \subseteq Mods /\ event.ended \subseteq Mods
    BY <1>5, KindsOfEvents
  <2>3. /\ word \in ProbeEvents /\ word.kind = "modifiers" /\ word.mask = event.mask
        /\ word.ended = event.ended
    BY <2>1, <2>2 DEF Probe, ProbeEvents
  <2>4. pending' = Append(pending, word) /\ modmask' = event.mask
    BY <1>5, <2>1 DEF WaylandHandle
  <2>5. /\ EndsRightly("probe", told, word)
        /\ ChordAfter("probe", told, word) = ChordAfter("wayland", told, event)
    BY <1>5, <2>3 DEF EndsRightly, ChordAfter
  <2> QED BY <1>4, <2>2, <2>3, <2>4, <2>5
<1>6. CASE event.kind = "key"
  <2>1. PICK word : word = Probe(KeyKind(event), modmask, {})
    OBVIOUS
  <2>2. event.key \in KeyNames /\ event.press \in BOOLEAN
    BY <1>6, KindsOfEvents
  <2>3. /\ word \in ProbeEvents /\ word.kind = KeyKind(event) /\ word.ended = {}
        /\ word.kind \in {"press", "release", "modifier"}
        /\ word.kind = "press" <=> event.press /\ event.key = "letter"
    BY <2>1, <2>2 DEF Probe, ProbeEvents, KeyKind
  <2>4. pending' = Append(pending, word) /\ modmask' = modmask
    BY <1>6, <2>1 DEF WaylandHandle
  <2>5. /\ EndsRightly("probe", told, word)
        /\ ChordAfter("probe", told, word) = ChordAfter("wayland", told, event)
    BY <1>6, <2>3 DEF EndsRightly, ChordAfter
  <2> QED BY <1>4, <2>3, <2>4, <2>5
<1> QED BY <1>3, <1>5, <1>6 DEF WaylandHandle

\* The window takes an event of the display server and says what it makes of it.
LEMMA HandleKeepsWindow == ASSUME WindowIInv, Handle PROVE WindowIInv'
<1>1. /\ probePc = "open" /\ pending = <<>> /\ wire # <<>> /\ wire' = Tail(wire)
      /\ probePc' = probePc /\ protocol' = protocol /\ tracker' = tracker /\ blurred' = blurred
      /\ holds' = holds /\ hasFocus' = hasFocus /\ hasKeyboard' = hasKeyboard
      /\ chord' = chord /\ arrived' = arrived
  BY DEF Handle, WindowIsOpen, serverVars, openVars
<1>2. wire \in Seq(WireEvents) /\ modmask \subseteq Mods /\ protocol \in {"wayland", "x11"}
  BY <1>1 DEF WindowIInv, WindowTypes
<1>3. PICK event : event = Head(wire)
  OBVIOUS
<1>4. event \in WireEvents /\ wire' \in Seq(WireEvents)
  BY <1>1, <1>2, <1>3, HeadTailProperties
<1>5. IF protocol = "x11" THEN X11Handle(event) ELSE WaylandHandle(event)
  BY <1>3 DEF Handle
<1>6. pending' \in Seq(ProbeEvents) /\ modmask' \subseteq Mods
  <2>1. <<>> \in Seq(ProbeEvents) /\ \A e \in ProbeEvents : Append(<<>>, e) \in Seq(ProbeEvents)
    <3>1. <<>> \in Seq(ProbeEvents)
      OBVIOUS
    <3> QED BY <3>1, AppendProperties
  <2>2. ASSUME protocol = "wayland" PROVE pending' \in Seq(ProbeEvents) /\ modmask' \subseteq Mods
    <3>1. WaylandHandle(event)
      BY <1>5, <2>2
    <3>2. Probe(KeyKind(event), modmask, {}) \in ProbeEvents
      BY <1>2 DEF Probe, ProbeEvents, KeyKind
    <3>3. event.kind = "modifiers" =>
             /\ event.mask \subseteq Mods
             /\ Probe("modifiers", event.mask, event.ended) \in ProbeEvents
      BY <1>4, KindsOfEvents DEF Probe, ProbeEvents
    <3>4. \/ /\ event.kind = "key"
             /\ pending' = Append(<<>>, Probe(KeyKind(event), modmask, {})) /\ modmask' = modmask
          \/ /\ event.kind = "modifiers"
             /\ pending' = Append(<<>>, Probe("modifiers", event.mask, event.ended))
             /\ modmask' = event.mask
          \/ pending' = <<>> /\ modmask' = modmask
      BY <1>1, <3>1 DEF WaylandHandle
    <3> QED BY <1>2, <2>1, <3>2, <3>3, <3>4
  <2>3. ASSUME protocol = "x11" PROVE pending' \in Seq(ProbeEvents) /\ modmask' \subseteq Mods
    <3>1. X11Handle(event)
      BY <1>5, <2>3
    <3>2. CASE event.kind = "leave"
      <4>1. pending' = <<>> /\ modmask' = modmask
        BY <1>1, <3>1, <3>2 DEF X11Handle
      <4> QED BY <1>2, <4>1
    <3>3. CASE event.kind = "enter"
      <4>1. Bits(holds) \subseteq Mods
        BY ModKeyFacts DEF WindowIInv, WindowTypes
      <4>2. Probe("modifiers", Bits(holds), {}) \in ProbeEvents
        BY <4>1 DEF Probe, ProbeEvents
      <4>3. /\ modmask' = Bits(holds)
            /\ pending' = <<>> \/ pending' = Append(<<>>, Probe("modifiers", Bits(holds), {}))
        BY <1>1, <3>1, <3>3 DEF X11Handle, X11Enter
      <4> QED BY <2>1, <4>1, <4>2, <4>3
    <3>4. CASE event.kind = "key"
      <4>1. /\ event.key \in KeyNames /\ event.press \in BOOLEAN
            /\ event.state \subseteq Mods /\ event.ended \subseteq Mods
        BY <1>4, <3>4, KindsOfEvents
      <4>2. StateAfter(event) \subseteq Mods
        BY <4>1, BitsOfMods DEF StateAfter, KeyNames
      <4>3. PICK key, word : /\ key = Probe(KeyKind(event), event.state, {})
                             /\ word = Probe("modifiers", StateAfter(event), event.ended)
        OBVIOUS
      <4>4. key \in ProbeEvents /\ word \in ProbeEvents
        BY <4>1, <4>2, <4>3 DEF Probe, ProbeEvents, KeyKind
      <4>5. /\ modmask' = StateAfter(event)
            /\ pending' = (<<>> \o <<key>>) \o IF event.key = "letter" THEN <<>> ELSE <<word>>
        BY <1>1, <3>1, <3>4, <4>3 DEF X11Handle, X11Key
      <4>6. (<<>> \o <<key>>) \in Seq(ProbeEvents) /\ <<word>> \in Seq(ProbeEvents)
        BY <4>4, ConcatOne
      <4>7. (<<>> \o <<key>>) \o <<word>> \in Seq(ProbeEvents)
            /\ (<<>> \o <<key>>) \o <<>> \in Seq(ProbeEvents)
        BY <4>6, ConcatProperties
      <4> QED BY <4>2, <4>5, <4>7
    <3> QED BY <3>1, <3>2, <3>3, <3>4 DEF X11Handle
  <2> QED BY <1>2, <2>2, <2>3
<1>7. WindowTypes'
  BY <1>1, <1>4, <1>6 DEF WindowIInv, WindowTypes
<1>8. ASSUME ~blurred' PROVE OnItsWay'
  <2>1. OnItsWay
    BY <1>1, <1>8 DEF WindowIInv
  <2>2. PICK told, between : /\ told = Tracked /\ LeadsTo("probe", <<>>, told, between)
                             /\ LeadsTo(protocol, wire, between, ToldChord)
    BY <1>1, <2>1 DEF OnItsWay
  <2>3. between = told
    BY <2>2, LeadsNowhere
  <2>4. /\ told \in Chords /\ EndsRightly(protocol, told, event)
        /\ LeadsTo(protocol, wire', ChordAfter(protocol, told, event), ToldChord)
    BY <1>1, <1>2, <1>3, <2>2, <2>3, LeadsFirst
  <2>5. ToldChord' = ToldChord /\ Tracked' = told
    BY <1>1, <2>2 DEF ToldChord, Focused, Tracked
  <2>6. LeadsTo("probe", pending', told, ChordAfter(protocol, told, event))
    <3>1. CASE protocol = "wayland"
      BY <1>1, <1>2, <1>4, <1>5, <2>4, <3>1, WaylandHandleLeads
    <3>2. CASE protocol = "x11"
      <4>1. event.kind = "enter" => Entering
        <5>1. Head(wire) = wire[1] /\ 1 \in 1 .. Len(wire)
          BY <1>1, <1>2, EmptySeq
        <5> QED BY <1>3, <5>1 DEF Entering
      <4>2. event.kind = "enter" => holds = {}
        BY <2>1, <3>2, <4>1 DEF OnItsWay
      <4> QED BY <1>1, <1>2, <1>4, <1>5, <2>4, <3>2, <4>2, X11HandleLeads
    <3> QED BY <1>2, <3>1, <3>2
  <2>7. Entering' => Entering
    <3>1. PICK n \in Nat : n = Len(wire) /\ n >= 1
      BY <1>1, <1>2, EmptySeq
    <3>2. PICK rest : rest = Tail(wire)
      OBVIOUS
    <3>3. Len(rest) = n - 1 /\ \A i \in 1 .. n - 1 : rest[i] = wire[i + 1] /\ i + 1 \in 1 .. n
      BY <1>2, <3>1, <3>2
    <3> QED BY <1>1, <3>1, <3>2, <3>3 DEF Entering
  <2>8. /\ LeadsTo("probe", pending', Tracked', ChordAfter(protocol, told, event))
        /\ LeadsTo(protocol', wire', ChordAfter(protocol, told, event), ToldChord')
    BY <1>1, <2>4, <2>5, <2>6
  <2>9. protocol' = "x11" /\ Entering' => holds' = {}
    BY <1>1, <2>1, <2>7 DEF OnItsWay
  <2> QED BY <2>8, <2>9 DEF OnItsWay
<1>9. (chord' = {} <=> holds' = {}) /\ (holds' = {} => ~arrived')
  BY <1>1 DEF WindowIInv
<1> QED BY <1>1, <1>2, <1>7, <1>8, <1>9, EnoughForWindow

\* ChordTracker::observe takes the tracker where the event leads.
LEMMA ObserveFollows ==
    ASSUME WindowIInv, Observe
    PROVE  /\ tracker' \in [held : SUBSET Mods, keySeen : BOOLEAN]
           /\ Tracked' = ChordAfter("probe", Tracked, Head(pending))
           /\ EndsRightly("probe", Tracked, Head(pending)) => withheld' = Head(pending).ended
<1>1. PICK event : event = Head(pending)
  OBVIOUS
<1>2. event \in ProbeEvents
  BY <1>1, HeadTailProperties DEF Observe, WindowIInv, WindowTypes
<1>3. event.kind \in {"press", "release", "modifier", "modifiers"} /\ event.mask \subseteq Mods
  BY <1>2, KindsOfEvents
<1>4. tracker \in [held : SUBSET Mods, keySeen : BOOLEAN]
  BY DEF WindowIInv, WindowTypes
<1>5. CASE event.kind = "press"
  <2>1. tracker' = [tracker EXCEPT !.keySeen = TRUE] /\ withheld' = {}
    BY <1>1, <1>5 DEF Observe
  <2>2. tracker'.held = tracker.held /\ tracker'.keySeen = TRUE
    BY <1>4, <2>1
  <2>3. Tracked' = KeyComes(Tracked)
    BY <2>2 DEF Tracked, KeyComes
  <2>4. tracker' \in [held : SUBSET Mods, keySeen : BOOLEAN]
    BY <1>4, <2>1
  <2> QED BY <1>1, <1>5, <2>1, <2>3, <2>4 DEF ChordAfter, EndsRightly
<1>6. CASE event.kind \in {"modifier", "release"}
  <2>1. tracker' = tracker /\ withheld' = {}
    BY <1>1, <1>6 DEF Observe
  <2>2. Tracked' = Tracked
    BY <2>1 DEF Tracked
  <2> QED BY <1>1, <1>4, <1>6, <2>1, <2>2 DEF ChordAfter, EndsRightly
<1>7. CASE event.kind = "modifiers" /\ event.mask # {}
  <2>1. tracker' = Accumulates(event.mask) /\ withheld' = {}
    BY <1>1, <1>7 DEF Observe
  <2>2. tracker'.held = tracker.held \cup event.mask
        /\ tracker'.keySeen = (tracker.held # {} /\ tracker.keySeen)
    BY <2>1 DEF Accumulates
  <2>3. Tracked' = MaskIs(Tracked, event.mask)
    BY <1>7, <2>2 DEF Tracked, MaskIs
  <2>4. tracker' \in [held : SUBSET Mods, keySeen : BOOLEAN]
    BY <1>3, <1>4, <2>1 DEF Accumulates
  <2>5. Tells(Tracked, event.mask) = {}
    BY <1>7 DEF Tells
  <2> QED BY <1>1, <1>7, <2>1, <2>3, <2>4, <2>5 DEF ChordAfter, EndsRightly
<1>8. CASE event.kind = "modifiers" /\ event.mask = {}
  <2>1. tracker' = NoChord /\ withheld' = IF tracker.keySeen THEN {} ELSE tracker.held
    BY <1>1, <1>8 DEF Observe
  <2>2. Tracked' = Idle /\ MaskIs(Tracked, event.mask) = Idle
    BY <1>8, <2>1 DEF Tracked, MaskIs, Idle, NoChord
  <2>3. tracker' \in [held : SUBSET Mods, keySeen : BOOLEAN]
    BY <2>1 DEF NoChord
  <2>4. withheld' = Tells(Tracked, event.mask)
    BY <1>4, <1>8, <2>1 DEF Tells, Tracked
  <2> QED BY <1>1, <1>8, <2>2, <2>3, <2>4 DEF ChordAfter, EndsRightly
<1> QED BY <1>3, <1>5, <1>6, <1>7, <1>8

\* The tracker takes an event of the window, and says rightly what ended with it.
LEMMA ObserveKeepsWindow ==
    ASSUME WindowIInv, Observe
    PROVE  WindowIInv' /\ (~blurred => withheld' = Head(pending).ended)
<1>1. /\ pending # <<>> /\ pending' = Tail(pending) /\ wire' = wire /\ modmask' = modmask
      /\ probePc' = probePc /\ protocol' = protocol /\ blurred' = blurred
      /\ holds' = holds /\ hasFocus' = hasFocus /\ hasKeyboard' = hasKeyboard
      /\ chord' = chord /\ arrived' = arrived
  BY DEF Observe, serverVars, openVars
<1>2. pending \in Seq(ProbeEvents) /\ pending' \in Seq(ProbeEvents)
  BY <1>1, HeadTailProperties DEF WindowIInv, WindowTypes
<1>3. probePc = "open"
  BY <1>1 DEF WindowIInv
<1>4. WindowTypes'
  BY <1>1, <1>2, ObserveFollows DEF WindowIInv, WindowTypes
<1>5. PICK was, event : was = Tracked /\ event = Head(pending)
  OBVIOUS
<1>6. ASSUME ~blurred PROVE OnItsWay' /\ EndsRightly("probe", was, event)
  <2>1. OnItsWay
    BY <1>6 DEF WindowIInv
  <2>2. PICK between : /\ LeadsTo("probe", pending, was, between)
                       /\ LeadsTo(protocol, wire, between, ToldChord)
    BY <1>5, <2>1 DEF OnItsWay
  <2>3. EndsRightly("probe", was, event) /\ LeadsTo("probe", pending', ChordAfter("probe", was, event), between)
    BY <1>1, <1>2, <1>5, <2>2, LeadsFirst
  <2>4. Tracked' = ChordAfter("probe", was, event)
    BY <1>5, ObserveFollows
  <2>5. ToldChord' = ToldChord /\ (Entering' <=> Entering)
    BY <1>1 DEF ToldChord, Focused, Entering
  <2>6. LeadsTo("probe", pending', Tracked', between) /\ LeadsTo(protocol', wire', between, ToldChord')
    BY <1>1, <2>2, <2>3, <2>4, <2>5
  <2>7. protocol' = "x11" /\ Entering' => holds' = {}
    BY <1>1, <2>1, <2>5 DEF OnItsWay
  <2> QED BY <2>3, <2>6, <2>7 DEF OnItsWay
<1>7. ~blurred => withheld' = Head(pending).ended
  BY <1>5, <1>6, ObserveFollows
<1>8. (chord' = {} <=> holds' = {}) /\ (holds' = {} => ~arrived') /\ protocol' \in {"wayland", "x11"}
  BY <1>1, <1>3 DEF WindowIInv
<1>9. WindowIInv'
  BY <1>1, <1>3, <1>4, <1>6, <1>8, EnoughForWindow
<1> QED BY <1>7, <1>9

\* While the window is being opened nothing is under way.
LEMMA OpeningKeepsWindow ==
    ASSUME WindowIInv, OpenWindow \/ WaylandOpens \/ X11Opens
    PROVE  WindowIInv' /\ pending = <<>>
<1>1. /\ probePc # "open"
      /\ probePc' = "open" => protocol' \in {"wayland", "x11"}
      /\ wire' = wire /\ pending' = pending /\ modmask' = modmask /\ tracker' = tracker
      /\ holds' = holds /\ hasFocus' = hasFocus /\ hasKeyboard' = hasKeyboard
      /\ chord' = chord /\ arrived' = arrived /\ blurred' = blurred
  BY DEF OpenWindow, WaylandOpens, X11Opens, FallsBack, serverVars, clientVars
<1>2. wire = <<>> /\ pending = <<>> /\ holds = {} /\ tracker = NoChord
  BY <1>1 DEF WindowIInv
<1>3. WindowTypes'
  BY <1>1 DEF WindowIInv, WindowTypes
<1>4. Quiet'
  BY <1>1, <1>2 DEF Quiet, NoChord
<1>5. (chord' = {} <=> holds' = {}) /\ (holds' = {} => ~arrived')
  BY <1>1 DEF WindowIInv
<1> QED BY <1>1, <1>2, <1>3, <1>4, <1>5, EnoughForWindow

\* The keyboard, the focus and the seat.
LEMMA ServerKeepsWindow ==
    ASSUME WindowIInv, ServerGoes
    PROVE  WindowIInv' /\ pending' = pending
<1>1. probePc = "open" /\ UNCHANGED <<openVars, clientVars>>
  BY DEF ServerGoes, WindowIsOpen
<1>2. pending' = pending
  BY <1>1 DEF clientVars
<1>3. CASE \E k \in ModKeys : hasKeyboard /\ ModifierGoes(k) /\ UNCHANGED <<hasFocus, hasKeyboard>>
  BY <1>1, <1>2, <1>3, ModifierKeepsWindow
<1>4. CASE hasKeyboard /\ LetterTapped /\ UNCHANGED <<hasFocus, hasKeyboard>>
  BY <1>1, <1>2, <1>4, LetterKeepsWindow
<1>5. CASE FocusMoves
  BY <1>1, <1>2, <1>5, FocusKeepsWindow
<1>6. CASE SeatChanges
  BY <1>1, <1>2, <1>6, SeatKeepsWindow
<1> QED BY <1>3, <1>4, <1>5, <1>6 DEF ServerGoes

\* A step of the probe window keeps the invariant and, if it takes an event from the queue,
\* says what the event ended.
LEMMA WindowKeeps ==
    ASSUME WindowIInv, ProbeNext \/ UNCHANGED probeVars
    PROVE  WindowIInv' /\ NamesTheChord
<1>1. pending \in Seq(ProbeEvents)
  BY DEF WindowIInv, WindowTypes
<1>2. pending # <<>> => Tail(pending) # pending
  <2>1. PICK n \in Nat : n = Len(pending)
    BY <1>1
  <2>2. pending # <<>> => Len(Tail(pending)) = n - 1
    BY <1>1, <2>1, HeadTailProperties
  <2> QED BY <2>1, <2>2
<1>3. CASE OpenWindow \/ WaylandOpens \/ X11Opens
  BY <1>3, OpeningKeepsWindow DEF NamesTheChord
<1>4. CASE ServerGoes
  BY <1>2, <1>4, ServerKeepsWindow DEF NamesTheChord
<1>5. CASE Handle
  BY <1>5, HandleKeepsWindow DEF NamesTheChord, Handle
<1>6. CASE Observe
  BY <1>6, ObserveKeepsWindow DEF NamesTheChord
<1>7. CASE UNCHANGED probeVars
  <2>1. /\ wire' = wire /\ pending' = pending /\ modmask' = modmask /\ tracker' = tracker
        /\ holds' = holds /\ hasFocus' = hasFocus /\ hasKeyboard' = hasKeyboard
        /\ chord' = chord /\ arrived' = arrived /\ blurred' = blurred
        /\ probePc' = probePc /\ protocol' = protocol
    BY <1>7 DEF probeVars, serverVars, openVars, clientVars
  <2>2. WindowTypes'
    BY <2>1 DEF WindowIInv, WindowTypes
  <2>3. ToldChord' = ToldChord /\ Tracked' = Tracked /\ (Entering' <=> Entering) /\ (Quiet' <=> Quiet)
    BY <2>1 DEF ToldChord, Focused, Tracked, Entering, Quiet
  <2>4. ~blurred' \/ Quiet' => OnItsWay'
    BY <2>1, <2>3 DEF WindowIInv, OnItsWay
  <2>5. WindowIInv'
    BY <2>1, <2>2, <2>4 DEF WindowIInv
  <2> QED BY <1>2, <2>1, <2>5 DEF NamesTheChord
<1> QED BY <1>3, <1>4, <1>5, <1>6, <1>7 DEF ProbeNext

-----------------------------------------------------------------------------
(* The evdev session: the keyboards, their queues and what it believes of them. *)
\* What lies in the kernel's queue of an open file.
KernelEvents == Down \cup {SynReport, Dropped}

\* The modifiers of a keyboard are right with what is unread, or will be asked for.
CaughtUp(p) ==
    p \in resync \/ Dropped \in ToSet(queued[p]) \/ AfterEvents(p) = Snapshot(p)

\* The session's files, and what they have for it.
EvdevTypes ==
    /\ plugged \subseteq Paths
    /\ keysDown \in [Paths -> SUBSET (ModCodes \cup {"letter"})]
    /\ pressed \in [Paths -> SUBSET ModCodes]
    /\ queued \in [Paths -> Seq(KernelEvents)]
    /\ devices \in Seq(Paths)
    /\ resync \subseteq Paths
    /\ ready \subseteq ToSet(devices) /\ \A p \in ready : HasNews(p)

\* Every keyboard that is there is caught up with.
EvdevIInv == EvdevTypes /\ \A p \in ToSet(devices) \ unplugged : CaughtUp(p)

\* A device is at a path.
LEMMA DevicesArePaths == ASSUME NEW s \in Seq(Paths) PROVE ToSet(s) \subseteq Paths
BY DEF ToSet

LEMMA InOrderIsSeq ==
    ASSUME NEW S, IsFiniteSet(S), NEW s \in InOrder(S)
    PROVE s \in Seq(S)
<1>1. Cardinality(S) \in Nat
  BY FS_CardinalityType
<1> QED BY <1>1 DEF InOrder

LEMMA SelectedIsSeq ==
    ASSUME NEW S, NEW seq \in Seq(S), NEW P \in SUBSET DOMAIN seq, NEW t \in Selected(seq, P)
    PROVE t \in Seq(S) /\ \A k \in DOMAIN t : \E i \in P : t[k] = seq[i]
<1>1. PICK s \in InOrder(P) : t = [k \in DOMAIN s |-> seq[s[k]]]
  BY DEF Selected
<1>2. IsFiniteSet(P)
  <2>1. IsFiniteSet(1 .. Len(seq))
    BY FS_Interval
  <2> QED BY <2>1, FS_Subset
<1>3. s \in [1 .. Cardinality(P) -> P] /\ Cardinality(P) \in Nat
  BY <1>2, FS_CardinalityType DEF InOrder
<1>4. t = [k \in 1 .. Cardinality(P) |-> seq[s[k]]]
  BY <1>1, <1>3
<1>5. \A k \in 1 .. Cardinality(P) : s[k] \in P /\ seq[s[k]] \in S
  BY <1>3
<1>6. DOMAIN t = 1 .. Cardinality(P) /\ \A k \in DOMAIN t : t[k] = seq[s[k]] /\ t[k] \in S
  BY <1>3, <1>4, <1>5
<1>7. t \in Seq(S)
  <2>1. t \in [1 .. Cardinality(P) -> S]
    BY <1>4, <1>5
  <2> QED BY <2>1, <1>3
<1> QED BY <1>5, <1>6, <1>7

LEMMA CaughtUpStays ==
    ASSUME NEW p \in Paths, CaughtUp(p), queued'[p] = queued[p], pressed'[p] = pressed[p],
           keysDown'[p] = keysDown[p], p \in resync => p \in resync'
    PROVE CaughtUp(p)'
<1>1. AfterEvents(p)' = AfterEvents(p)
  BY DEF AfterEvents, EventsOf
<1> QED BY <1>1 DEF CaughtUp, Snapshot

LEMMA AfreshIsRight ==
    ASSUME NEW p \in Paths, EvdevTypes,
           \A i \in DOMAIN queued'[p] : ~IsDown(queued'[p][i]),
           pressed'[p] = Snapshot(p)'
    PROVE CaughtUp(p)'
<1>1. \A c \in ModCodes : EventsOf(p, c)' = {}
  BY DEF EventsOf
<1>2. AfterEvents(p)' = {c \in ModCodes : c \in Snapshot(p)'}
  BY <1>1 DEF AfterEvents
<1>3. AfterEvents(p)' = Snapshot(p)'
  BY <1>2 DEF Snapshot
<1> QED BY <1>3 DEF CaughtUp

LEMMA PushedIsQueue ==
    ASSUME NEW q \in Seq(KernelEvents), NEW e \in KernelEvents
    PROVE  /\ Pushed(q, e) \in Seq(KernelEvents) /\ Pushed(q, e) # <<>>
           /\ Pushed(q, e) = Append(q, e) \/ Pushed(q, e) = <<Dropped, e>>
<1>1. Append(q, e) \in Seq(KernelEvents) /\ Append(q, e) # <<>>
  <2>1. Append(q, e) \in Seq(KernelEvents)
    OBVIOUS
  <2>2. Len(Append(q, e)) = Len(q) + 1 /\ Len(q) \in Nat
    OBVIOUS
  <2> QED BY <2>1, <2>2
<1>2. Dropped \in KernelEvents
  BY DEF KernelEvents
<1>3. <<Dropped, e>> \in Seq(KernelEvents) /\ <<Dropped, e>> # <<>>
  BY <1>2
<1> QED BY <1>1, <1>3 DEF Pushed

LEMMA QueueAfterKey ==
    ASSUME NEW q \in Seq(KernelEvents), NEW e \in Down
    PROVE  LET fresh == Pushed(Pushed(q, e), SynReport) IN
           /\ fresh \in Seq(KernelEvents) /\ fresh # <<>>
           /\ \/ Dropped \in ToSet(fresh)
              \/ fresh = Append(Append(q, e), SynReport)
<1> DEFINE mid == Pushed(q, e)
           fresh == Pushed(mid, SynReport)
<1>1. e \in KernelEvents /\ SynReport \in KernelEvents /\ Dropped \in KernelEvents
  BY DEF KernelEvents
<1>2. mid \in Seq(KernelEvents) /\ (mid = Append(q, e) \/ mid = <<Dropped, e>>)
  BY <1>1, PushedIsQueue
<1> HIDE DEF mid
<1>4. fresh = Append(mid, SynReport) \/ fresh = <<Dropped, SynReport>>
  BY <1>1, <1>2, PushedIsQueue
<1>5. fresh \in Seq(KernelEvents) /\ fresh # <<>>
  BY <1>1, <1>2, PushedIsQueue
<1> HIDE DEF fresh
<1>6. CASE fresh = <<Dropped, SynReport>>
  <2>1. 1 \in DOMAIN fresh /\ fresh[1] = Dropped
    BY <1>6
  <2>2. Dropped \in ToSet(fresh)
    BY <2>1 DEF ToSet
  <2> QED BY <1>5, <2>2 DEF fresh, mid
<1>7. CASE fresh = Append(mid, SynReport) /\ mid = <<Dropped, e>>
  <2>1. 1 \in DOMAIN fresh /\ fresh[1] = Dropped
    BY <1>2, <1>7
  <2>2. Dropped \in ToSet(fresh)
    BY <2>1 DEF ToSet
  <2> QED BY <1>5, <2>2 DEF fresh, mid
<1>8. CASE fresh = Append(mid, SynReport) /\ mid = Append(q, e)
  BY <1>5, <1>8 DEF fresh, mid
<1> QED BY <1>2, <1>4, <1>6, <1>7, <1>8

\* A key whose events are appended: the last word on its code.
LEMMA KeyIsAppended ==
    ASSUME EvdevTypes, EvdevAssumption, NEW p \in Paths, NEW dir \in {"down", "up"},
           NEW c \in ModCodes \cup {"letter"}, (dir = "up") = (c \in keysDown[p]),
           pressed' = pressed,
           keysDown'[p] = IF dir = "down" THEN keysDown[p] \cup {c} ELSE keysDown[p] \ {c},
           queued'[p] = Append(Append(queued[p], [kind |-> dir, code |-> c]), SynReport),
           resync' = resync, CaughtUp(p)
    PROVE  CaughtUp(p)'
<1> DEFINE q == queued[p]
           fresh == queued'[p]
           e == [kind |-> dir, code |-> c]
           n == Len(q)
<1>1. q \in Seq(KernelEvents) /\ n \in Nat /\ e \in Down /\ IsDown(e) /\ ~IsDown(SynReport)
  BY DEF EvdevTypes, Down, IsDown, SynReport
<1>2. fresh = Append(Append(q, e), SynReport)
  OBVIOUS
<1> HIDE DEF e
<1>3. /\ DOMAIN q = 1 .. n /\ DOMAIN fresh = 1 .. n + 2
      /\ fresh[n + 1] = e /\ fresh[n + 2] = SynReport /\ \A i \in 1 .. n : fresh[i] = q[i]
  BY <1>1, <1>2 DEF KernelEvents
<1> HIDE DEF q, fresh, n
<1>4. CASE p \in resync
  BY <1>4 DEF CaughtUp
<1>5. CASE Dropped \in ToSet(q)
  <2>1. PICK i \in 1 .. n : q[i] = Dropped
    BY <1>3, <1>5 DEF ToSet
  <2>2. i \in DOMAIN fresh /\ fresh[i] = Dropped
    BY <1>1, <1>3, <2>1
  <2> QED BY <2>2 DEF CaughtUp, ToSet, fresh
<1>6. CASE AfterEvents(p) = Snapshot(p)
  <2>1. e.kind = dir /\ e.code = c
    BY DEF e
  <2>2. /\ \A code \in ModCodes : code # c => EventsOf(p, code)' = EventsOf(p, code)
        /\ EventsOf(p, c)' = EventsOf(p, c) \cup {n + 1}
    BY <1>1, <1>3, <2>1 DEF EventsOf, q, fresh
  <2>3. \A code : EventsOf(p, code) \in SUBSET (1 .. n)
    BY <1>3 DEF EventsOf, q
  <2>4. ASSUME NEW code \in ModCodes
        PROVE  code \in AfterEvents(p)' <=> code \in Snapshot(p)'
    <3>1. code \in AfterEvents(p) <=> code \in keysDown[p]
      BY <1>6 DEF Snapshot
    <3>2. CASE code # c
      <4>1. EventsOf(p, code)' = EventsOf(p, code)
        BY <2>2, <3>2
      <4>2. \A i \in EventsOf(p, code) : queued'[p][i] = queued[p][i]
        BY <1>3, <2>3 DEF q, fresh
      <4>3. code \in AfterEvents(p)' <=> code \in AfterEvents(p)
        BY <4>1, <4>2 DEF AfterEvents
      <4>4. code \in keysDown'[p] <=> code \in keysDown[p]
        BY <3>2
      <4> QED BY <3>1, <4>3, <4>4 DEF Snapshot
    <3>3. CASE code = c
      <4>1. n + 1 \in EventsOf(p, code)' /\ \A j \in EventsOf(p, code)' : j <= n + 1
        BY <1>1, <2>2, <2>3, <3>3
      <4>2. queued'[p][n + 1].kind = dir
        BY <1>3, <2>1 DEF fresh
      <4>3. \A i \in EventsOf(p, code)' : (\A j \in EventsOf(p, code)' : j <= i) => i = n + 1
        <5>1. n + 1 \in EventsOf(p, code)' /\ EventsOf(p, code)' \subseteq 1 .. n + 1
          BY <1>1, <2>2, <2>3, <3>3
        <5> QED BY <1>1, <5>1
      <4>4. code \in AfterEvents(p)' <=> dir = "down"
        BY <4>1, <4>2, <4>3 DEF AfterEvents
      <4>5. code \in keysDown'[p] <=> dir = "down"
        BY <3>3
      <4> QED BY <4>4, <4>5 DEF Snapshot
    <3> QED BY <3>2, <3>3
  <2>5. AfterEvents(p)' = Snapshot(p)'
    BY <2>4 DEF AfterEvents, Snapshot
  <2> QED BY <2>5 DEF CaughtUp
<1> QED BY <1>4, <1>5, <1>6 DEF CaughtUp, q

\* An event that is read is applied, or the device is asked for its modifiers later.
LEMMA EventIsRead ==
    ASSUME EvdevTypes, NEW p \in Paths, queued[p] # <<>>, CaughtUp(p),
           keysDown'[p] = keysDown[p], queued'[p] = Tail(queued[p]),
           NEW e, e = Head(queued[p]),
           resync' = (IF e = Dropped THEN resync \cup {p} ELSE resync),
           pressed'[p] = IF ~Applies(p, e) \/ e.code \notin ModCodes THEN pressed[p]
                         ELSE IF e.kind = "down" THEN pressed[p] \cup {e.code}
                         ELSE pressed[p] \ {e.code}
    PROVE  CaughtUp(p)'
<1> DEFINE q == queued[p]
           fresh == queued'[p]
           n == Len(q)
<1>1. q \in Seq(KernelEvents) /\ n \in Nat \ {0} /\ DOMAIN q = 1 .. n
  BY DEF EvdevTypes
<1>2. /\ DOMAIN fresh = 1 .. n - 1 /\ \A i \in 1 .. n - 1 : fresh[i] = q[i + 1]
      /\ e = q[1] /\ e \in KernelEvents
  BY <1>1
<1> HIDE DEF q, fresh, n
<1>3. CASE p \in resync \/ e = Dropped
  BY <1>3 DEF CaughtUp
<1>4. CASE Dropped \in ToSet(q) /\ e # Dropped
  <2>1. PICK i \in 1 .. n : q[i] = Dropped
    BY <1>1, <1>4 DEF ToSet
  <2>2. i # 1
    BY <1>2, <1>4, <2>1
  <2>3. i - 1 \in DOMAIN fresh /\ fresh[i - 1] = Dropped
    BY <1>1, <1>2, <2>1, <2>2
  <2> QED BY <2>3 DEF CaughtUp, ToSet, fresh
<1>5. CASE AfterEvents(p) = Snapshot(p) /\ p \notin resync /\ e # Dropped
  <2>1. ASSUME NEW c \in ModCodes
        PROVE  c \in AfterEvents(p)' <=> c \in AfterEvents(p)
    <3> DEFINE Ev == EventsOf(p, c)
               Later == EventsOf(p, c)'
    <3>1. Ev \subseteq 1 .. n /\ Later \subseteq 1 .. n - 1
      BY <1>1, <1>2 DEF EventsOf, q, fresh
    <3>2. \A i \in 1 .. n - 1 : i \in Later <=> i + 1 \in Ev
      BY <1>1, <1>2 DEF EventsOf, q, fresh
    <3>3. 1 \in Ev <=> IsDown(e) /\ e.code = c
      BY <1>1, <1>2 DEF EventsOf, q
    <3>4. /\ 1 \in Ev => (c \in pressed'[p] <=> e.kind = "down")
          /\ 1 \notin Ev => (c \in pressed'[p] <=> c \in pressed[p])
      <4>1. IsDown(e) => Applies(p, e)
        BY <1>5 DEF Applies
      <4>2. ~IsDown(e) => ~Applies(p, e)
        BY DEF Applies
      <4> QED BY <3>3, <4>1, <4>2
    <3>5. /\ c \in AfterEvents(p) <=>
                \/ \E i \in Ev : q[i].kind = "down" /\ \A j \in Ev : j <= i
                \/ Ev = {} /\ c \in pressed[p]
          /\ c \in AfterEvents(p)' <=>
                \/ \E i \in Later : fresh[i].kind = "down" /\ \A j \in Later : j <= i
                \/ Later = {} /\ c \in pressed'[p]
      BY DEF AfterEvents, q, fresh
    <3> HIDE DEF Ev, Later
    <3>6. CASE Later # {}
      <4>1. (\E i \in Ev : q[i].kind = "down" /\ \A j \in Ev : j <= i) <=>
            (\E i \in Later : fresh[i].kind = "down" /\ \A j \in Later : j <= i)
        <5>1. ASSUME NEW i \in Ev, q[i].kind = "down", \A j \in Ev : j <= i
              PROVE  \E k \in Later : fresh[k].kind = "down" /\ \A j \in Later : j <= k
          <6>1. PICK l \in Later : TRUE
            BY <3>6
          <6>2. i \in 1 .. n /\ i - 1 >= 1
            BY <1>1, <3>1, <3>2, <5>1, <6>1
          <6>3. i - 1 \in Later /\ fresh[i - 1].kind = "down"
            BY <1>1, <1>2, <3>2, <5>1, <6>2
          <6>4. \A j \in Later : j <= i - 1
            BY <1>1, <3>1, <3>2, <5>1, <6>2
          <6> QED BY <6>3, <6>4
        <5>2. ASSUME NEW i \in Later, fresh[i].kind = "down", \A j \in Later : j <= i
              PROVE  \E k \in Ev : q[k].kind = "down" /\ \A j \in Ev : j <= k
          <6>1. i + 1 \in Ev /\ q[i + 1].kind = "down"
            BY <1>2, <3>1, <3>2, <5>2
          <6>2. \A j \in Ev : j <= i + 1
            <7> TAKE j \in Ev
            <7>1. j \in 1 .. n /\ i \in 1 .. n - 1
              BY <3>1
            <7>2. CASE j = 1
              BY <1>1, <7>1, <7>2
            <7>3. CASE j # 1
              <8>1. j - 1 \in 1 .. n - 1 /\ (j - 1) + 1 = j
                BY <1>1, <7>1, <7>3
              <8>2. j - 1 \in Later
                BY <3>2, <8>1
              <8> QED BY <1>1, <5>2, <7>1, <8>1, <8>2
            <7> QED BY <7>2, <7>3
          <6> QED BY <6>1, <6>2
        <5> QED BY <5>1, <5>2
      <4>2. Ev # {}
        BY <3>1, <3>2, <3>6
      <4> QED BY <3>5, <3>6, <4>1, <4>2
    <3>7. CASE Later = {}
      <4>1. Ev \subseteq {1}
        <5> SUFFICES ASSUME NEW j \in Ev, j # 1 PROVE FALSE
          OBVIOUS
        <5>1. j - 1 \in 1 .. n - 1 /\ (j - 1) + 1 = j
          BY <1>1, <3>1
        <5> QED BY <3>2, <3>7, <5>1
      <4>2. CASE 1 \in Ev
        <5>1. Ev = {1}
          BY <4>1, <4>2
        <5>2. c \in AfterEvents(p) <=> q[1].kind = "down"
          BY <3>5, <5>1
        <5> QED BY <1>2, <3>4, <3>5, <3>7, <4>2, <5>2
      <4>3. CASE 1 \notin Ev
        <5>1. Ev = {}
          BY <4>1, <4>3
        <5> QED BY <3>4, <3>5, <3>7, <5>1
      <4> QED BY <4>2, <4>3
    <3> QED BY <3>6, <3>7
  <2>2. AfterEvents(p)' = AfterEvents(p)
    BY <2>1 DEF AfterEvents
  <2>3. Snapshot(p)' = Snapshot(p)
    BY DEF Snapshot
  <2> QED BY <1>5, <2>2, <2>3 DEF CaughtUp
<1> QED BY <1>3, <1>4, <1>5 DEF CaughtUp, q

\* Files are opened with a snapshot, and the others stay as they are.
LEMMA OpensWell ==
    ASSUME EvdevTypes, NEW have \in Seq(Paths), NEW fresh \in Seq(Paths),
           ToSet(have) \subseteq ToSet(devices),
           \A p \in ToSet(devices) \ unplugged : CaughtUp(p),
           UNCHANGED keysDown, Opens(have, fresh)
    PROVE  /\ pressed' \in [Paths -> SUBSET ModCodes] /\ queued' \in [Paths -> Seq(KernelEvents)]
           /\ devices' \in Seq(Paths) /\ resync' \subseteq Paths
           /\ \A p \in ToSet(devices') \ unplugged' : CaughtUp(p)'
<1> DEFINE new == ToSet(fresh) \ ToSet(have)
<1>1. \A p \in Paths : Snapshot(p) \in SUBSET ModCodes
  BY DEF Snapshot
<1>2. <<>> \in Seq(KernelEvents)
  OBVIOUS
<1>3. /\ devices' = fresh /\ resync' = resync \ new /\ unplugged' = unplugged \cap ToSet(have)
      /\ pressed' = [p \in Paths |-> IF p \in new THEN Snapshot(p) ELSE pressed[p]]
      /\ queued' = [p \in Paths |-> IF p \in new THEN <<>> ELSE queued[p]]
  BY DEF Opens
<1> HIDE DEF new
<1>4. pressed' \in [Paths -> SUBSET ModCodes]
  BY <1>1, <1>3 DEF EvdevTypes
<1>5. queued' \in [Paths -> Seq(KernelEvents)]
  BY <1>2, <1>3 DEF EvdevTypes
<1>6. ASSUME NEW p \in ToSet(fresh), p \notin unplugged'
      PROVE  CaughtUp(p)'
  <2>1. p \in Paths
    BY DevicesArePaths
  <2>2. CASE p \in new
    <3>1. queued'[p] = <<>> /\ pressed'[p] = Snapshot(p)
      BY <1>3, <2>1, <2>2
    <3>2. Snapshot(p)' = Snapshot(p)
      BY DEF Snapshot
    <3>3. \A i \in DOMAIN queued'[p] : ~IsDown(queued'[p][i])
      BY <3>1
    <3> QED BY <2>1, <3>1, <3>2, <3>3, AfreshIsRight
  <2>3. CASE p \notin new
    <3>1. p \in ToSet(have) /\ p \notin unplugged
      BY <1>3, <1>6, <2>3 DEF new
    <3>2. CaughtUp(p)
      BY <3>1
    <3>3. queued'[p] = queued[p] /\ pressed'[p] = pressed[p] /\ (p \in resync => p \in resync')
      BY <1>3, <2>1, <2>3
    <3> QED BY <2>1, <3>2, <3>3, CaughtUpStays
  <2> QED BY <2>2, <2>3
<1> QED BY <1>3, <1>4, <1>5, <1>6 DEF EvdevTypes

\* The session begins with every keyboard open, and its modifiers known.
LEMMA EvdevBegins == EvdevInit => EvdevIInv
<1> SUFFICES ASSUME EvdevInit PROVE EvdevIInv
  OBVIOUS
<1>1. devices \in Seq(Paths)
  <2>1. CASE devices \in {<<p>> : p \in plugged}
    <3>1. PICK p \in Paths : devices = <<p>>
      BY <2>1 DEF EvdevInit
    <3> QED BY <3>1
  <2>2. CASE devices \in InOrder(plugged)
    <3>1. IsFiniteSet(plugged) /\ plugged \subseteq Paths
      BY EvdevAssumption, FS_Subset DEF EvdevAssumption, EvdevInit
    <3>2. devices \in Seq(plugged)
      BY <2>2, <3>1, InOrderIsSeq
    <3> QED BY <3>1, <3>2
  <2> QED BY <2>1, <2>2 DEF EvdevInit
<1>2. EvdevTypes
  <2>1. <<>> \in Seq(KernelEvents)
    OBVIOUS
  <2>2. keysDown \in [Paths -> SUBSET (ModCodes \cup {"letter"})]
    BY DEF EvdevInit
  <2>3. \A p \in Paths : Snapshot(p) \in SUBSET ModCodes
    BY DEF Snapshot
  <2> QED BY <1>1, <2>1, <2>2, <2>3 DEF EvdevInit, EvdevTypes
<1>3. ASSUME NEW p \in ToSet(devices) PROVE CaughtUp(p)
  <2>1. p \in Paths
    BY <1>1, DevicesArePaths
  <2>2. queued[p] = <<>> /\ pressed[p] = Snapshot(p)
    BY <2>1 DEF EvdevInit
  <2>3. \A c \in ModCodes : EventsOf(p, c) = {}
    BY <2>2 DEF EventsOf
  <2>4. AfterEvents(p) = Snapshot(p)
    BY <2>2, <2>3 DEF AfterEvents, Snapshot
  <2> QED BY <2>4 DEF CaughtUp
<1> QED BY <1>2, <1>3 DEF EvdevIInv

\* Keys and plugs: a file that is read learns of the key, or that it lost something.
LEMMA KernelKeeps ==
    ASSUME EvdevIInv, NEW path \in Paths,
           \/ \E dir \in {"down", "up"}, c \in ModCodes \cup {"letter"} : KeyGoes(path, dir, c)
           \/ Unplug(path) \/ Plug(path)
    PROVE  EvdevIInv'
<1>1. ASSUME NEW dir \in {"down", "up"}, NEW c \in ModCodes \cup {"letter"}, KeyGoes(path, dir, c)
      PROVE  EvdevIInv'
  <2> DEFINE e == [kind |-> dir, code |-> c]
             longer == Pushed(Pushed(queued[path], e), SynReport)
  <2>1. /\ UNCHANGED <<plugged, devices, pressed, resync, unplugged, ready>>
        /\ (dir = "up") = (c \in keysDown[path])
        /\ keysDown' = [keysDown EXCEPT ![path] =
                           IF dir = "down" THEN @ \cup {c} ELSE @ \ {c}]
        /\ Delivers(path, e)
    BY <1>1 DEF KeyGoes, callVars
  <2>2. e \in Down /\ queued[path] \in Seq(KernelEvents)
    BY DEF Down, EvdevIInv, EvdevTypes
  <2>3. /\ longer \in Seq(KernelEvents) /\ longer # <<>>
        /\ Dropped \in ToSet(longer) \/ longer = Append(Append(queued[path], e), SynReport)
    BY <2>2, QueueAfterKey
  <2>4. queued' = (IF IsOpen(path) /\ path \notin unplugged
                   THEN [queued EXCEPT ![path] = longer] ELSE queued)
    BY <2>1 DEF Delivers
  <2> HIDE DEF longer, e
  <2>5. queued' \in [Paths -> Seq(KernelEvents)] /\ \A p \in Paths : queued'[p] = <<>> => queued[p] = <<>>
    BY <2>3, <2>4 DEF EvdevIInv, EvdevTypes
  <2>6. keysDown' \in [Paths -> SUBSET (ModCodes \cup {"letter"})]
    BY <2>1 DEF EvdevIInv, EvdevTypes
  <2>7. EvdevTypes'
    <3>1. ToSet(devices) \subseteq Paths
      BY DevicesArePaths DEF EvdevIInv, EvdevTypes
    <3>2. \A p \in ready : HasNews(p)'
      BY <2>1, <2>5, <3>1 DEF EvdevIInv, EvdevTypes, HasNews
    <3> QED BY <2>1, <2>5, <2>6, <3>2 DEF EvdevIInv, EvdevTypes
  <2>8. ASSUME NEW p \in ToSet(devices), p \notin unplugged PROVE CaughtUp(p)'
    <3>1. p \in Paths /\ CaughtUp(p)
      BY <2>8, DevicesArePaths DEF EvdevIInv, EvdevTypes
    <3>2. CASE p # path
      <4>1. queued'[p] = queued[p] /\ keysDown'[p] = keysDown[p] /\ pressed'[p] = pressed[p]
            /\ (p \in resync => p \in resync')
        BY <2>1, <2>4, <3>1, <3>2 DEF EvdevIInv, EvdevTypes
      <4> QED BY <3>1, <4>1, CaughtUpStays
    <3>3. CASE p = path /\ Dropped \in ToSet(longer)
      <4>1. queued'[p] = longer
        BY <2>4, <2>8, <3>3 DEF IsOpen, EvdevIInv, EvdevTypes
      <4> QED BY <3>3, <4>1 DEF CaughtUp
    <3>4. CASE p = path /\ longer = Append(Append(queued[path], e), SynReport)
      <4>1. queued'[p] = Append(Append(queued[p], [kind |-> dir, code |-> c]), SynReport)
        BY <2>4, <2>8, <3>4 DEF IsOpen, EvdevIInv, EvdevTypes, e
      <4>2. keysDown'[p] = IF dir = "down" THEN keysDown[p] \cup {c} ELSE keysDown[p] \ {c}
        BY <2>1, <3>1, <3>4 DEF EvdevIInv, EvdevTypes
      <4> QED BY <2>1, <3>1, <3>4, <4>1, <4>2, KeyIsAppended, EvdevAssumption DEF EvdevIInv
    <3> QED BY <2>3, <3>2, <3>3, <3>4
  <2> QED BY <2>1, <2>7, <2>8 DEF EvdevIInv
<1>2. CASE Unplug(path)
  <2>1. /\ UNCHANGED <<devices, pressed, resync, queued, ready>>
        /\ plugged' = plugged \ {path}
        /\ keysDown' = [keysDown EXCEPT ![path] = {}]
        /\ unplugged' = IF IsOpen(path) THEN unplugged \cup {path} ELSE unplugged
    BY <1>2 DEF Unplug, callVars
  <2>2. EvdevTypes'
    BY <2>1 DEF EvdevIInv, EvdevTypes, HasNews
  <2>3. ASSUME NEW p \in ToSet(devices), p \notin unplugged' PROVE CaughtUp(p)'
    <3>1. p \in Paths /\ CaughtUp(p) /\ p # path
      BY <2>1, <2>3, DevicesArePaths DEF EvdevIInv, EvdevTypes, IsOpen
    <3>2. queued'[p] = queued[p] /\ keysDown'[p] = keysDown[p] /\ pressed'[p] = pressed[p]
          /\ (p \in resync => p \in resync')
      BY <2>1, <3>1 DEF EvdevIInv, EvdevTypes
    <3> QED BY <3>1, <3>2, CaughtUpStays
  <2> QED BY <2>1, <2>2, <2>3 DEF EvdevIInv
<1>3. CASE Plug(path)
  <2>1. /\ UNCHANGED <<keysDown, devices, pressed, resync, queued, unplugged, ready>>
        /\ plugged' = plugged \cup {path}
    BY <1>3 DEF Plug, deviceVars, callVars
  <2>2. EvdevTypes'
    BY <2>1 DEF EvdevIInv, EvdevTypes, HasNews
  <2>3. ASSUME NEW p \in ToSet(devices) \ unplugged PROVE CaughtUp(p)'
    <3>1. p \in Paths
      BY DevicesArePaths DEF EvdevIInv, EvdevTypes
    <3> QED BY <2>1, <3>1, CaughtUpStays DEF EvdevIInv
  <2> QED BY <2>1, <2>2, <2>3 DEF EvdevIInv
<1> QED BY <1>1, <1>2, <1>3

\* The queue of a file without its key events.
LEMMA NoKeysAreLeft ==
    ASSUME NEW q \in Seq(KernelEvents), NEW rest \in NoKeys(q)
    PROVE  rest \in Seq(KernelEvents) /\ \A i \in DOMAIN rest : ~IsDown(rest[i])
<1>1. {i \in DOMAIN q : ~IsDown(q[i])} \in SUBSET DOMAIN q
  OBVIOUS
<1> QED BY <1>1, SelectedIsSeq DEF NoKeys

\* One event is read.
LEMMA ReadKeeps ==
    ASSUME EvdevIInv, NEW path \in Paths, ReadOne(path)
    PROVE  EvdevIInv'
<1> DEFINE e == Head(queued[path])
<1>1. path \in ready /\ path \in ToSet(devices) /\ UNCHANGED <<plugged, devices, unplugged, keysDown>>
  BY DEF ReadOne, IsNext, kernelVars, EvdevIInv, EvdevTypes
<1>2. ready' \subseteq ready \ {path}
  BY DEF ReadOne
<1>3. \A p \in ToSet(devices) : p \in Paths
  BY DevicesArePaths DEF EvdevIInv, EvdevTypes
<1>4. CASE path \in unplugged
  <2>1. UNCHANGED <<queued, pressed, resync>>
    BY <1>4 DEF ReadOne
  <2>2. EvdevTypes'
    BY <1>1, <1>2, <2>1 DEF EvdevIInv, EvdevTypes, HasNews
  <2>3. ASSUME NEW p \in ToSet(devices) \ unplugged PROVE CaughtUp(p)'
    BY <1>1, <1>3, <2>1, CaughtUpStays DEF EvdevIInv
  <2> QED BY <1>1, <2>2, <2>3 DEF EvdevIInv
<1>5. CASE path \notin unplugged
  <2>1. queued[path] # <<>> /\ queued[path] \in Seq(KernelEvents) /\ e \in KernelEvents
    BY <1>1, <1>5 DEF EvdevIInv, EvdevTypes, HasNews
  <2> HIDE DEF e
  <2>2. \/ e.kind = "report" /\ path \in resync
           /\ RefreshDeviceModifiers(path) /\ resync' = resync \ {path}
        \/ /\ ~(e.kind = "report" /\ path \in resync)
           /\ queued' = [queued EXCEPT ![path] = Tail(@)]
           /\ resync' = IF e = Dropped THEN resync \cup {path} ELSE resync
           /\ pressed' = IF ~Applies(path, e) \/ e.code \notin ModCodes THEN pressed
                         ELSE [pressed EXCEPT ![path] = IF e.kind = "down"
                                  THEN @ \cup {e.code} ELSE @ \ {e.code}]
    BY <1>5 DEF ReadOne, e
  <2>3. CASE e.kind = "report" /\ path \in resync
           /\ RefreshDeviceModifiers(path) /\ resync' = resync \ {path}
    <3>1. PICK rest \in NoKeys(Tail(queued[path])) : queued' = [queued EXCEPT ![path] = rest]
      BY <2>3 DEF RefreshDeviceModifiers
    <3>2. Tail(queued[path]) \in Seq(KernelEvents)
      BY <2>1
    <3>3. rest \in Seq(KernelEvents) /\ \A i \in DOMAIN rest : ~IsDown(rest[i])
      BY <3>2, NoKeysAreLeft
    <3>4. pressed' = [pressed EXCEPT ![path] = Snapshot(path)]
      BY <2>3 DEF RefreshDeviceModifiers
    <3>5. EvdevTypes'
      <4>1. Snapshot(path) \in SUBSET ModCodes
        BY DEF Snapshot
      <4>2. queued' \in [Paths -> Seq(KernelEvents)] /\ pressed' \in [Paths -> SUBSET ModCodes]
        BY <3>1, <3>3, <3>4, <4>1 DEF EvdevIInv, EvdevTypes
      <4>3. \A p \in ready' : HasNews(p)'
        BY <1>1, <1>2, <1>3, <3>1 DEF EvdevIInv, EvdevTypes, HasNews
      <4> QED BY <1>1, <1>2, <2>3, <4>2, <4>3 DEF EvdevIInv, EvdevTypes
    <3>6. CaughtUp(path)'
      <4>1. queued'[path] = rest /\ pressed'[path] = Snapshot(path)'
        BY <1>1, <3>1, <3>4 DEF EvdevIInv, EvdevTypes, Snapshot
      <4> QED BY <3>3, <4>1, AfreshIsRight DEF EvdevIInv
    <3>7. ASSUME NEW p \in ToSet(devices) \ unplugged, p # path PROVE CaughtUp(p)'
      <4>1. queued'[p] = queued[p] /\ pressed'[p] = pressed[p] /\ (p \in resync => p \in resync')
        BY <1>3, <2>3, <3>1, <3>4, <3>7 DEF EvdevIInv, EvdevTypes
      <4> QED BY <1>1, <1>3, <4>1, CaughtUpStays DEF EvdevIInv
    <3> QED BY <1>1, <3>5, <3>6, <3>7 DEF EvdevIInv
  <2>4. CASE /\ queued' = [queued EXCEPT ![path] = Tail(@)]
             /\ resync' = IF e = Dropped THEN resync \cup {path} ELSE resync
             /\ pressed' = IF ~Applies(path, e) \/ e.code \notin ModCodes THEN pressed
                           ELSE [pressed EXCEPT ![path] = IF e.kind = "down"
                                    THEN @ \cup {e.code} ELSE @ \ {e.code}]
    <3>1. /\ queued'[path] = Tail(queued[path])
          /\ pressed'[path] = IF ~Applies(path, e) \/ e.code \notin ModCodes THEN pressed[path]
                              ELSE IF e.kind = "down" THEN pressed[path] \cup {e.code}
                              ELSE pressed[path] \ {e.code}
          /\ \A p \in Paths \ {path} : queued'[p] = queued[p] /\ pressed'[p] = pressed[p]
      BY <2>4 DEF EvdevIInv, EvdevTypes
    <3>2. EvdevTypes'
      <4>1. Tail(queued[path]) \in Seq(KernelEvents)
        BY <2>1
      <4>2. queued' \in [Paths -> Seq(KernelEvents)]
        BY <2>4, <4>1 DEF EvdevIInv, EvdevTypes
      <4>3. pressed' \in [Paths -> SUBSET ModCodes]
        BY <2>4 DEF EvdevIInv, EvdevTypes
      <4>4. \A p \in ready' : HasNews(p)'
        BY <1>1, <1>2, <1>3, <3>1 DEF EvdevIInv, EvdevTypes, HasNews
      <4>5. resync' \subseteq Paths
        BY <2>4 DEF EvdevIInv, EvdevTypes
      <4> QED BY <1>1, <1>2, <4>2, <4>3, <4>4, <4>5 DEF EvdevIInv, EvdevTypes
    <3>3. CaughtUp(path)'
      <4>1. CaughtUp(path) /\ EvdevTypes /\ keysDown'[path] = keysDown[path] /\ e = Head(queued[path])
        BY <1>1, <1>5 DEF EvdevIInv, e
      <4> QED BY <2>1, <2>4, <3>1, <4>1, EventIsRead
    <3>4. ASSUME NEW p \in ToSet(devices) \ unplugged, p # path PROVE CaughtUp(p)'
      <4>1. p \in Paths /\ CaughtUp(p) /\ (p \in resync => p \in resync')
        BY <1>3, <2>4 DEF EvdevIInv
      <4>2. queued'[p] = queued[p] /\ pressed'[p] = pressed[p] /\ keysDown'[p] = keysDown[p]
        BY <1>1, <3>1, <3>4, <4>1
      <4> QED BY <4>1, <4>2, CaughtUpStays
    <3> QED BY <1>1, <3>2, <3>3, <3>4 DEF EvdevIInv
  <2> QED BY <2>2, <2>3, <2>4
<1> QED BY <1>4, <1>5

\* What a scan finds.
LEMMA ScanIsPaths ==
    ASSUME plugged \subseteq Paths, NEW have \in Seq(Paths), NEW fresh \in ScansDue(have)
    PROVE  fresh \in Seq(Paths)
<1>1. CASE fresh = have
  BY <1>1
<1>2. ASSUME NEW new \in Hotplugged(have), fresh = have \o new PROVE fresh \in Seq(Paths)
  <2>1. IsFiniteSet(plugged \ ToSet(have)) /\ plugged \ ToSet(have) \subseteq Paths
    BY EvdevAssumption, FS_Subset DEF EvdevAssumption
  <2>2. new \in Seq(plugged \ ToSet(have))
    BY <1>2, <2>1, InOrderIsSeq DEF Hotplugged
  <2>3. new \in Seq(Paths)
    BY <2>1, <2>2
  <2> QED BY <1>2, <2>3
<1> QED BY <1>1, <1>2 DEF ScansDue

\* A call begins and ends: files are opened, or the failed ones dropped.
LEMMA CallsKeep ==
    ASSUME EvdevIInv, BeginRead \/ EndRead
    PROVE  EvdevIInv'
<1>1. UNCHANGED <<plugged, keysDown>>
  BY DEF BeginRead, EndRead, kernelVars
<1>2. ASSUME BeginRead PROVE EvdevIInv'
  <2>1. PICK fresh \in ScansDue(devices) : Opens(devices, fresh)
    BY <1>2 DEF BeginRead
  <2>2. fresh \in Seq(Paths)
    BY ScanIsPaths DEF EvdevIInv, EvdevTypes
  <2>3. /\ pressed' \in [Paths -> SUBSET ModCodes] /\ queued' \in [Paths -> Seq(KernelEvents)]
        /\ devices' \in Seq(Paths) /\ resync' \subseteq Paths
        /\ \A p \in ToSet(devices') \ unplugged' : CaughtUp(p)'
    BY <1>1, <2>1, <2>2, OpensWell DEF EvdevIInv, EvdevTypes
  <2>4. ready' \subseteq ToSet(devices') /\ \A p \in ready' : HasNews(p)'
    BY <1>2 DEF BeginRead
  <2> QED BY <1>1, <2>3, <2>4 DEF EvdevIInv, EvdevTypes
<1>3. ASSUME EndRead PROVE EvdevIInv'
  <2>0. PICK left \in Selected(devices, {i \in DOMAIN devices : devices[i] \notin failing}) :
             \E fresh \in IF left = <<>> THEN ScansDue(left) ELSE {left} : Opens(left, fresh)
    BY <1>3 DEF EndRead
  <2>1. PICK fresh \in IF left = <<>> THEN ScansDue(left) ELSE {left} : Opens(left, fresh)
    BY <2>0
  <2>2. left \in Seq(Paths) /\ ToSet(left) \subseteq ToSet(devices)
    <3>1. {i \in DOMAIN devices : devices[i] \notin failing} \in SUBSET DOMAIN devices
      OBVIOUS
    <3>2. left \in Seq(Paths) /\ \A k \in DOMAIN left : \E i \in DOMAIN devices : left[k] = devices[i]
      BY <2>0, <3>1, SelectedIsSeq DEF EvdevIInv, EvdevTypes
    <3> QED BY <3>2 DEF ToSet
  <2>3. fresh \in Seq(Paths)
    BY <2>1, <2>2, ScanIsPaths DEF EvdevIInv, EvdevTypes
  <2>4. /\ pressed' \in [Paths -> SUBSET ModCodes] /\ queued' \in [Paths -> Seq(KernelEvents)]
        /\ devices' \in Seq(Paths) /\ resync' \subseteq Paths
        /\ \A p \in ToSet(devices') \ unplugged' : CaughtUp(p)'
    BY <1>1, <2>1, <2>2, <2>3, OpensWell DEF EvdevIInv
  <2>5. ready' = {}
    BY <1>3 DEF EndRead
  <2> QED BY <1>1, <2>4, <2>5 DEF EvdevIInv, EvdevTypes
<1> QED BY <1>2, <1>3

\* The keyboards and the calls keep it.
LEMMA EvdevKeeps == EvdevIInv /\ [EvdevNext]_evdevVars => EvdevIInv'
<1> SUFFICES ASSUME EvdevIInv, [EvdevNext]_evdevVars PROVE EvdevIInv'
  OBVIOUS
<1>1. CASE UNCHANGED evdevVars
  <2>1. UNCHANGED <<plugged, keysDown, devices, pressed, resync, queued, unplugged, ready>>
    BY <1>1 DEF evdevVars, kernelVars, deviceVars, callVars
  <2>2. EvdevTypes'
    BY <2>1 DEF EvdevIInv, EvdevTypes, HasNews
  <2>3. ASSUME NEW p \in ToSet(devices) \ unplugged PROVE CaughtUp(p)'
    <3>1. p \in Paths
      BY DevicesArePaths DEF EvdevIInv, EvdevTypes
    <3> QED BY <2>1, <3>1, CaughtUpStays DEF EvdevIInv
  <2> QED BY <2>1, <2>2, <2>3 DEF EvdevIInv
<1>2. CASE EvdevNext
  BY <1>2, KernelKeeps, ReadKeeps, CallsKeep DEF EvdevNext
<1> QED BY <1>1, <1>2

LEMMA EvdevIsRight == EvdevIInv => ModifiersCatchUp
BY DEF EvdevIInv, ModifiersCatchUp, CaughtUp

-----------------------------------------------------------------------------
(* The user's adapters.                                                    *)
\* Natural numbers have a least one among them.
LEMMA LeastNatural ==
    ASSUME NEW I \in SUBSET Nat, I # {}
    PROVE  \E x \in I : \A y \in I : x <= y
<1> DEFINE Below == {0 .. n : n \in I}
<1>1. Below \subseteq FiniteSubsetsOf(Nat) /\ Below # {}
  <2>1. \A n \in I : 0 .. n \in SUBSET Nat /\ IsFiniteSet(0 .. n)
    BY FS_Interval
  <2> QED BY <2>1 DEF FiniteSubsetsOf
<1>2. PICK X \in Below : \A Y \in Below : ~ (<<Y, X>> \in StrictSubsetOrdering(Nat))
  BY <1>1, FS_StrictSubsetOrderingWellFounded, WFMin
<1>3. PICK x \in I : X = 0 .. x
  BY <1>2
<1>4. ASSUME NEW y \in I PROVE x <= y
  <2>1. ~ (<<0 .. y, 0 .. x>> \in StrictSubsetOrdering(Nat))
    BY <1>2, <1>3
  <2>2. ~ (0 .. y \subseteq 0 .. x /\ 0 .. y # 0 .. x)
    BY <2>1 DEF StrictSubsetOrdering
  <2>3. ASSUME y < x PROVE FALSE
    <3>1. 0 .. y \subseteq 0 .. x
      BY <2>3
    <3>2. x \in 0 .. x /\ x \notin 0 .. y
      BY <2>3
    <3> QED BY <2>2, <3>1, <3>2
  <2> QED BY <2>3
<1> QED BY <1>4

\* FirstBest is what it says: the first of those that have the best score.
LEMMA FirstOfTheBest ==
    ASSUME NEW S \in SUBSET Nat, S # {}, NEW scores \in [S -> 0 .. 6]
    PROVE  /\ FirstBest(scores) \in S
           /\ \A j \in S : \/ scores[j] < scores[FirstBest(scores)]
                           \/ scores[j] = scores[FirstBest(scores)] /\ FirstBest(scores) <= j
<1> DEFINE Short == {6 - scores[i] : i \in S}
<1>1. Short \in SUBSET Nat /\ Short # {}
  <2>1. \A i \in S : 6 - scores[i] \in Nat
    OBVIOUS
  <2> QED BY <2>1
<1>2. PICK i \in S : \A j \in S : 6 - scores[i] <= 6 - scores[j]
  BY <1>1, LeastNatural
<1> DEFINE Best == {j \in S : scores[j] = scores[i]}
<1>3. Best \in SUBSET Nat /\ Best # {}
  OBVIOUS
<1>4. PICK first \in Best : \A j \in Best : first <= j
  BY <1>3, LeastNatural
<1>5. \A j \in S : scores[j] < scores[first] \/ (scores[j] = scores[first] /\ first <= j)
  BY <1>2, <1>4
<1>6. DOMAIN scores = S /\ first \in S
  OBVIOUS
<1> QED BY <1>5, <1>6 DEF FirstBest

\* What Append does to a sequence of anything.
LEMMA AppendedLast ==
    ASSUME NEW s, s \in Seq(ToSet(s)), NEW e
    PROVE  /\ Append(s, e) \in Seq(ToSet(Append(s, e)))
           /\ DOMAIN s = 1 .. Len(s) /\ Len(s) \in Nat
           /\ DOMAIN Append(s, e) = 1 .. Len(s) + 1
           /\ \A i \in DOMAIN s : Append(s, e)[i] = s[i]
           /\ Append(s, e)[Len(s) + 1] = e
<1> DEFINE Elements == ToSet(s) \cup {e}
<1>1. s \in Seq(Elements) /\ e \in Elements
  OBVIOUS
<1>2. /\ Append(s, e) \in Seq(Elements) /\ Len(Append(s, e)) = Len(s) + 1
      /\ \A i \in 1 .. Len(s) : Append(s, e)[i] = s[i]
      /\ Append(s, e)[Len(s) + 1] = e
  BY <1>1, AppendProperties
<1>3. DOMAIN s = 1 .. Len(s) /\ Len(s) \in Nat /\ DOMAIN Append(s, e) = 1 .. Len(s) + 1
  BY <1>1, <1>2
<1>4. Append(s, e) \in Seq(ToSet(Append(s, e)))
  BY <1>2, <1>3 DEF ToSet
<1> QED BY <1>2, <1>3, <1>4

\* A compiled-in adapter answers, or there is nobody else to ask; else the selected one is.
BuiltInAnswers == SelectedBuiltIn \notin {"none", "compositor"}
BuiltInSpeaks == BuiltInAnswers \/ ExtensionCandidates = {}
SelectedPlace == FirstBest([i \in ExtensionCandidates |-> ExtensionScore(adapters[i])])

\* The manifests are in the order of their files, and no two have one id.
AdaptersInOrder ==
    /\ filesLeft \in 0 .. MaxFiles
    /\ adapters \in Seq(ToSet(adapters))
    /\ \A i \in DOMAIN adapters : adapters[i].file \in 1 .. MaxFiles - filesLeft
    /\ \A i, j \in DOMAIN adapters : i < j =>
          adapters[i].file < adapters[j].file /\ adapters[i].id # adapters[j].id

\* A compiled-in adapter comes before the manifests.
BuiltInsFirst ==
    /\ (\E i \in DOMAIN builtIns : builtIns[i] # Generic) => BuiltInAnswers
    /\ purpose # "inspect" => builtIns = <<>>

\* What ran is what is kept, once by its id, of a manifest that is applicable and, in an
\* inspection, selected.
RanIsKept ==
    /\ ran \in Seq(ToSet(ran))
    /\ \A i \in DOMAIN ran : ran[i].id \in DOMAIN kept /\ kept[ran[i].id] = ran[i].report
    /\ \A id \in DOMAIN kept : \E i \in DOMAIN ran : ran[i].id = id
    /\ \A i, j \in DOMAIN ran : ran[i].id = ran[j].id => i = j
    /\ \A i \in DOMAIN ran : \E p \in ExtensionCandidates :
          /\ ran[i].id = adapters[p].id /\ ran[i].file = adapters[p].file
          /\ purpose = "inspect" => ~BuiltInSpeaks /\ p = SelectedPlace
    /\ purpose = "program" \/ stage = "discover" => ran = <<>>

\* What each of the three uses may have said.
InspectionSays(e) ==
    \/ \E by : e = [key |-> "focus", by |-> by]
    \/ \E key \in {"k", "l"} : BuiltInSpeaks /\ e = [key |-> key, by |-> BuiltIn]
    \/ \E key \in {"k", "l"}, j \in DOMAIN ran :
          ~BuiltInSpeaks /\ e = [key |-> key, by |-> ran[j].file, says |-> Finding(key, ran[j].report)]
ListingSays(e) ==
    \E j \in DOMAIN ran : \E rows, skips :
       /\ e = [key |-> "all", by |-> ran[j].file, rows |-> rows, skips |-> skips]
       /\ skips \/ rows = DOMAIN ran[j].report
ProgramSaid ==
    \/ said = <<>> \/ said = <<[key |-> "program", by |-> Nothing]>>
    \/ \E r \in Responses :
          said = <<[key |-> "program", by |-> Nothing, answer |-> r,
                    says |-> IF Valid(r) THEN FromParts(r.status, r.propagation) ELSE "error"]>>

\* What was said is what the commands that ran answered.
SaidOfRan ==
    /\ said \in Seq(ToSet(said))
    /\ stage = "discover" => said = <<>> /\ listing = {}
    /\ purpose = "inspect" => \A i \in DOMAIN said : InspectionSays(said[i])
    /\ purpose = "list" => \A i \in DOMAIN said : ListingSays(said[i])
    /\ purpose = "program" => ProgramSaid
    /\ listing \subseteq ExtensionCandidates
    /\ purpose = "list" /\ stage = "use" => \A p \in ExtensionCandidates \ listing :
          \E i \in DOMAIN said : said[i].by = adapters[p].file

ExtensionIInv ==
    /\ purpose \in {"inspect", "list", "program"}
    /\ AdaptersInOrder /\ BuiltInsFirst /\ RanIsKept /\ SaidOfRan

\* With one compiled-in adapter of a name before the one that has none, the first is selected.
LEMMA NamedIsFirst ==
    ASSUME NEW b \in [id : {"sway"}, ipc : BOOLEAN, hint : BOOLEAN, named : {FALSE}],
           builtIns = <<b>> \/ builtIns = <<b, Generic>>
    PROVE  BuiltInAnswers
<1> DEFINE scores == [i \in DOMAIN builtIns |-> BuiltInScore(builtIns[i])]
<1>1. DOMAIN builtIns \in SUBSET Nat /\ 1 \in DOMAIN builtIns /\ builtIns[1] = b
      /\ \A i \in DOMAIN builtIns : i = 1 \/ (i = 2 /\ builtIns[i] = Generic)
  OBVIOUS
<1>2. BuiltInScore(b) \in 0 .. 6 /\ BuiltInScore(Generic) = 0
  BY DEF BuiltInScore, Weight, Generic
<1>3. scores \in [DOMAIN builtIns -> 0 .. 6]
  BY <1>1, <1>2
<1>4. /\ FirstBest(scores) \in DOMAIN builtIns
      /\ \A j \in DOMAIN builtIns : \/ scores[j] < scores[FirstBest(scores)]
                                    \/ scores[j] = scores[FirstBest(scores)] /\ FirstBest(scores) <= j
  <2>1. DOMAIN builtIns \in SUBSET Nat /\ DOMAIN builtIns # {}
    BY <1>1
  <2> HIDE DEF scores
  <2> QED BY <2>1, <1>3, FirstOfTheBest
<1>5. FirstBest(scores) = 1
  BY <1>1, <1>2, <1>4
<1>6. builtIns # <<>>
  OBVIOUS
<1>7. SelectedBuiltIn = "sway"
  BY <1>1, <1>5, <1>6 DEF SelectedBuiltIn
<1> QED BY <1>7 DEF BuiltInAnswers

LEMMA ExtensionBegins == ExtensionInit => ExtensionIInv
<1> SUFFICES ASSUME ExtensionInit PROVE ExtensionIInv
  OBVIOUS
<1>1. purpose \in {"inspect", "list", "program"}
  BY DEF ExtensionInit
<1>2. AdaptersInOrder
  <2>1. adapters = <<>> /\ filesLeft \in 0 .. MaxFiles
    BY ExtensionsAssumption DEF ExtensionInit
  <2> QED BY <2>1 DEF AdaptersInOrder, ToSet
<1>3. BuiltInsFirst
  <2>1. CASE purpose # "inspect"
    BY <2>1 DEF ExtensionInit, BuiltInsFirst
  <2>2. CASE purpose = "inspect"
    <3>1. builtIns \in BuiltIns \union {Append(b, Generic) : b \in BuiltIns}
      BY <2>2 DEF ExtensionInit
    <3>2. PICK b \in BuiltIns : builtIns = b \/ builtIns = Append(b, Generic)
      BY <3>1
    <3> DEFINE Sways == [id : {"sway"}, ipc : BOOLEAN, hint : BOOLEAN, named : {FALSE}]
    <3>3. b \in UNION {[1 .. m -> Sways] : m \in 0 .. 1}
      BY DEF BuiltIns, BoundedSeq, SeqOf
    <3>4. b = <<>> \/ \E s \in Sways : b = <<s>>
      <4> HIDE DEF Sways
      <4>1. PICK m \in 0 .. 1 : b \in [1 .. m -> Sways]
        BY <3>3
      <4>0. m = 0 \/ m = 1
        BY <4>1
      <4>2. CASE m = 0
        <5>1. b \in [1 .. 0 -> Sways] /\ 1 .. 0 = {}
          BY <4>1, <4>2
        <5>2. b \in Seq(Sways) /\ Len(b) = 0
          BY <5>1
        <5>3. b = <<>>
          BY <5>2, EmptySeq
        <5> QED BY <5>3
      <4>3. CASE m = 1
        <5>1. b \in [1 .. 1 -> Sways]
          BY <4>1, <4>3
        <5>2. b[1] \in Sways /\ b = <<b[1]>>
          BY <5>1
        <5> QED BY <5>2
      <4> QED BY <4>0, <4>2, <4>3
    <3>5. CASE b = <<>>
      <4>1. builtIns = <<>> \/ builtIns = <<Generic>>
        BY <3>2, <3>5
      <4> QED BY <4>1, <2>2 DEF BuiltInsFirst
    <3>6. ASSUME NEW s \in Sways, b = <<s>> PROVE BuiltInsFirst
      <4>1. builtIns = <<s>> \/ builtIns = <<s, Generic>>
        BY <3>2, <3>6
      <4> QED BY <4>1, <2>2, NamedIsFirst DEF BuiltInsFirst
    <3> QED BY <3>4, <3>5, <3>6
  <2> QED BY <2>1, <2>2
<1>4. RanIsKept
  <2>1. ran = <<>> /\ kept = <<>>
    BY DEF ExtensionInit
  <2> QED BY <2>1 DEF RanIsKept, ToSet
<1>5. SaidOfRan
  <2>1. said = <<>> /\ listing = {} /\ stage = "discover"
    BY DEF ExtensionInit
  <2> QED BY <2>1 DEF SaidOfRan, ToSet, ProgramSaid
<1> QED BY <1>1, <1>2, <1>3, <1>4, <1>5 DEF ExtensionIInv

\* The adapter of an id is the one that has it.
LEMMA AdapterOfId ==
    ASSUME AdaptersInOrder, NEW p \in DOMAIN adapters
    PROVE  AdapterOf(adapters[p].id) = adapters[p]
<1>1. DOMAIN adapters = 1 .. Len(adapters) /\ Len(adapters) \in Nat
  BY DEF AdaptersInOrder
<1>2. \A i \in DOMAIN adapters : adapters[i].id = adapters[p].id => i = p
  BY <1>1 DEF AdaptersInOrder
<1>3. \A j \in 1 .. p - 1 : j \in DOMAIN adapters /\ j # p
  BY <1>1
<1> QED BY <1>2, <1>3 DEF AdapterOf

\* The selected one is applicable, and none has a better claim.
LEMMA SelectedIsBest ==
    ASSUME AdaptersInOrder, ExtensionCandidates # {}
    PROVE  /\ SelectedPlace \in ExtensionCandidates
           /\ SelectedExtension = adapters[SelectedPlace]
           /\ \A j \in ExtensionCandidates :
                 \/ ExtensionScore(adapters[j]) < ExtensionScore(adapters[SelectedPlace])
                 \/ /\ ExtensionScore(adapters[j]) = ExtensionScore(adapters[SelectedPlace])
                    /\ SelectedPlace <= j
<1> DEFINE scores == [i \in ExtensionCandidates |-> ExtensionScore(adapters[i])]
<1>1. ExtensionCandidates \in SUBSET Nat /\ ExtensionCandidates \subseteq DOMAIN adapters
  BY DEF AdaptersInOrder, ExtensionCandidates
<1>2. \A i \in ExtensionCandidates : ExtensionScore(adapters[i]) \in 0 .. 6
  BY DEF ExtensionScore, Weight
<1>3. scores \in [ExtensionCandidates -> 0 .. 6]
  BY <1>2
<1>4. /\ FirstBest(scores) \in ExtensionCandidates
      /\ \A j \in ExtensionCandidates : \/ scores[j] < scores[FirstBest(scores)]
                                        \/ scores[j] = scores[FirstBest(scores)] /\ FirstBest(scores) <= j
  <2> HIDE DEF scores
  <2> QED BY <1>1, <1>3, FirstOfTheBest
<1>5. FirstBest(scores) = SelectedPlace
  BY DEF SelectedPlace
<1>6. SelectedPlace \in ExtensionCandidates
  BY <1>4, <1>5
<1>7. SelectedExtension = adapters[SelectedPlace]
  BY <1>1, <1>5, <1>6, AdapterOfId DEF SelectedExtension
<1>8. \A j \in ExtensionCandidates :
        scores[j] = ExtensionScore(adapters[j])
  OBVIOUS
<1> QED BY <1>4, <1>5, <1>6, <1>7, <1>8

\* Once the manifests are read, a step leaves them and what the selection depends on alone.
LEMMA SelectionStays ==
    ASSUME UNCHANGED <<purpose, builtIns, filesLeft, adapters>>
    PROVE  /\ ExtensionCandidates' = ExtensionCandidates /\ SelectedPlace' = SelectedPlace
           /\ BuiltInAnswers' = BuiltInAnswers /\ BuiltInSpeaks' = BuiltInSpeaks
           /\ AdaptersInOrder => AdaptersInOrder'
           /\ BuiltInsFirst => BuiltInsFirst'
BY DEF ExtensionCandidates, SelectedPlace, SelectedBuiltIn, BuiltInAnswers, BuiltInSpeaks,
       AdaptersInOrder, BuiltInsFirst

\* A report that is taken is that of the command that ran, now or before.
LEMMA TakenIsKept ==
    ASSUME AdaptersInOrder, RanIsKept, purpose # "program", stage = "use", stage' # "discover",
           UNCHANGED <<purpose, builtIns, filesLeft, adapters>>,
           NEW p \in ExtensionCandidates, purpose = "inspect" => ~BuiltInSpeaks /\ p = SelectedPlace,
           NEW report, TakesReport(adapters[p], report)
    PROVE  /\ RanIsKept'
           /\ DOMAIN ran \subseteq DOMAIN ran' /\ \A i \in DOMAIN ran : ran'[i] = ran[i]
           /\ \E j \in DOMAIN ran' : ran'[j].file = adapters[p].file /\ ran'[j].report = report
<1> DEFINE a == adapters[p]
           entry == [file |-> a.file, id |-> a.id, report |-> report]
<1>0. p \in DOMAIN adapters
  BY DEF ExtensionCandidates
<1>1. CASE a.id \in DOMAIN kept
  <2>1. report = kept[a.id] /\ UNCHANGED <<kept, ran>>
    BY <1>1 DEF TakesReport
  <2>2. PICK j \in DOMAIN ran : ran[j].id = a.id
    BY <1>1 DEF RanIsKept
  <2>3. ran[j].report = report
    BY <2>1, <2>2 DEF RanIsKept
  <2>4. ran[j].file = a.file
    <3>1. PICK q \in ExtensionCandidates : ran[j].id = adapters[q].id /\ ran[j].file = adapters[q].file
      BY <2>2 DEF RanIsKept
    <3>2. q \in DOMAIN adapters /\ DOMAIN adapters = 1 .. Len(adapters) /\ Len(adapters) \in Nat
      BY <3>1 DEF ExtensionCandidates, AdaptersInOrder
    <3>3. q = p
      <4>1. adapters[q].id = adapters[p].id
        BY <2>2, <3>1
      <4>2. ~(q < p) /\ ~(p < q)
        BY <1>0, <3>2, <4>1 DEF AdaptersInOrder
      <4>3. q \in Nat /\ p \in Nat
        BY <1>0, <3>2
      <4> QED BY <4>2, <4>3
    <3> QED BY <3>1, <3>3
  <2>5. RanIsKept'
    BY <2>1, SelectionStays DEF RanIsKept
  <2> QED BY <2>1, <2>2, <2>3, <2>4, <2>5
<1>2. CASE a.id \notin DOMAIN kept
  <2>1. /\ ran' = Append(ran, entry)
        /\ kept' = [id \in DOMAIN kept \union {a.id} |-> IF id = a.id THEN report ELSE kept[id]]
    BY <1>2 DEF TakesReport
  <2>2. /\ ran' \in Seq(ToSet(ran')) /\ DOMAIN ran = 1 .. Len(ran) /\ Len(ran) \in Nat
        /\ DOMAIN ran' = 1 .. Len(ran) + 1
        /\ \A i \in DOMAIN ran : ran'[i] = ran[i]
        /\ ran'[Len(ran) + 1] = entry
    <3> HIDE DEF entry
    <3> QED BY <2>1, AppendedLast DEF RanIsKept
  <2>3. \A i \in DOMAIN ran' : i \in DOMAIN ran \/ i = Len(ran) + 1
    BY <2>2
  <2>4. \A i \in DOMAIN ran : ran[i].id # a.id
    BY <1>2 DEF RanIsKept
  <2>5. \A i \in DOMAIN ran' : ran'[i].id \in DOMAIN kept' /\ kept'[ran'[i].id] = ran'[i].report
    <3>1. \A i \in DOMAIN ran : ran[i].id \in DOMAIN kept' /\ kept'[ran[i].id] = ran[i].report
      BY <2>1, <2>4 DEF RanIsKept
    <3>2. entry.id \in DOMAIN kept' /\ kept'[entry.id] = entry.report
      BY <2>1
    <3> QED BY <2>2, <2>3, <3>1, <3>2
  <2>6. \A id \in DOMAIN kept' : \E i \in DOMAIN ran' : ran'[i].id = id
    <3>1. \A id \in DOMAIN kept' : id \in DOMAIN kept \/ id = a.id
      BY <2>1
    <3>2. \A id \in DOMAIN kept : \E i \in DOMAIN ran' : ran'[i].id = id
      BY <2>2 DEF RanIsKept
    <3>3. Len(ran) + 1 \in DOMAIN ran' /\ ran'[Len(ran) + 1].id = a.id
      BY <2>2
    <3> QED BY <3>1, <3>2, <3>3
  <2>7. \A i, j \in DOMAIN ran' : ran'[i].id = ran'[j].id => i = j
    <3>1. \A i, j \in DOMAIN ran : ran[i].id = ran[j].id => i = j
      BY DEF RanIsKept
    <3>2. entry.id = a.id
      OBVIOUS
    <3> HIDE DEF entry
    <3> QED BY <2>2, <2>3, <2>4, <3>1, <3>2
  <2>8. \A i \in DOMAIN ran' : \E q \in ExtensionCandidates :
          /\ ran'[i].id = adapters[q].id /\ ran'[i].file = adapters[q].file
          /\ purpose = "inspect" => ~BuiltInSpeaks /\ q = SelectedPlace
    <3>1. entry.id = adapters[p].id /\ entry.file = adapters[p].file
      OBVIOUS
    <3> HIDE DEF entry
    <3> QED BY <2>2, <2>3, <3>1 DEF RanIsKept
  <2>9. RanIsKept'
    BY <2>2, <2>5, <2>6, <2>7, <2>8, SelectionStays DEF RanIsKept
  <2>10. DOMAIN ran \subseteq DOMAIN ran' /\ Len(ran) + 1 \in DOMAIN ran'
         /\ ran'[Len(ran) + 1].file = a.file /\ ran'[Len(ran) + 1].report = report
    BY <2>2
  <2> QED BY <2>2, <2>9, <2>10
<1> QED BY <1>1, <1>2

\* What was said stays so when more commands run.
LEMMA SayingsStay ==
    ASSUME UNCHANGED <<purpose, builtIns, filesLeft, adapters>>, DOMAIN ran \subseteq DOMAIN ran',
           \A i \in DOMAIN ran : ran'[i] = ran[i]
    PROVE  \A e : (InspectionSays(e) => InspectionSays(e)') /\ (ListingSays(e) => ListingSays(e)')
<1>1. BuiltInSpeaks' = BuiltInSpeaks
  BY SelectionStays
<1>2. ASSUME NEW e, InspectionSays(e) PROVE InspectionSays(e)'
  BY <1>1, <1>2 DEF InspectionSays, Finding
<1>3. ASSUME NEW e, ListingSays(e) PROVE ListingSays(e)'
  BY <1>3 DEF ListingSays
<1> QED BY <1>2, <1>3

\* One more saying, as those before.
LEMMA OneMoreSaying ==
    ASSUME said \in Seq(ToSet(said)), NEW e, said' = Append(said, e),
           UNCHANGED <<purpose, builtIns, filesLeft, adapters>>, DOMAIN ran \subseteq DOMAIN ran',
           \A i \in DOMAIN ran : ran'[i] = ran[i]
    PROVE  /\ said' \in Seq(ToSet(said'))
           /\ \A i \in DOMAIN said : i \in DOMAIN said' /\ said'[i] = said[i]
           /\ \E i \in DOMAIN said' : said'[i] = e
           /\ (\A i \in DOMAIN said : InspectionSays(said[i])) /\ InspectionSays(e)' =>
                 (\A i \in DOMAIN said : InspectionSays(said[i]))'
           /\ (\A i \in DOMAIN said : ListingSays(said[i])) /\ ListingSays(e)' =>
                 (\A i \in DOMAIN said : ListingSays(said[i]))'
<1>1. /\ said' \in Seq(ToSet(said')) /\ DOMAIN said' = 1 .. Len(said) + 1
      /\ DOMAIN said = 1 .. Len(said) /\ Len(said) \in Nat
      /\ \A i \in DOMAIN said : said'[i] = said[i]
      /\ said'[Len(said) + 1] = e
  BY AppendedLast
<1>2. \A i \in DOMAIN said' : i \in DOMAIN said \/ said'[i] = e
  BY <1>1
<1>3. ASSUME \A i \in DOMAIN said : InspectionSays(said[i]), InspectionSays(e)', NEW i \in DOMAIN said'
      PROVE  InspectionSays(said[i])'
  <2>1. PICK x : x = said'[i]
    OBVIOUS
  <2>2. x = e \/ InspectionSays(x)
    BY <1>1, <1>2, <1>3, <2>1
  <2>3. InspectionSays(x)'
    BY <1>3, <2>2, SayingsStay
  <2> QED BY <2>1, <2>3 DEF InspectionSays
<1>4. ASSUME \A i \in DOMAIN said : ListingSays(said[i]), ListingSays(e)', NEW i \in DOMAIN said'
      PROVE  ListingSays(said[i])'
  <2>1. PICK x : x = said'[i]
    OBVIOUS
  <2>2. x = e \/ ListingSays(x)
    BY <1>1, <1>2, <1>4, <2>1
  <2>3. ListingSays(x)'
    BY <1>4, <2>2, SayingsStay
  <2> QED BY <2>1, <2>3 DEF ListingSays
<1>5. \A i \in DOMAIN said : i \in DOMAIN said' /\ said'[i] = said[i]
  BY <1>1
<1>6. \E i \in DOMAIN said' : said'[i] = e
  BY <1>1
<1> QED BY <1>1, <1>3, <1>4, <1>5, <1>6

LEMMA SayingsRest ==
    ASSUME UNCHANGED <<purpose, builtIns, filesLeft, adapters, ran, said>>
    PROVE  /\ (\A i \in DOMAIN said : InspectionSays(said[i])) =>
                 (\A i \in DOMAIN said : InspectionSays(said[i]))'
           /\ (\A i \in DOMAIN said : ListingSays(said[i])) => (\A i \in DOMAIN said : ListingSays(said[i]))'
<1>1. ASSUME \A i \in DOMAIN said : InspectionSays(said[i]), NEW i \in DOMAIN said'
      PROVE  InspectionSays(said[i])'
  <2>1. PICK x : x = said[i]
    OBVIOUS
  <2>2. InspectionSays(x)'
    BY <1>1, <2>1, SayingsStay
  <2> QED BY <2>1, <2>2 DEF InspectionSays
<1>2. ASSUME \A i \in DOMAIN said : ListingSays(said[i]), NEW i \in DOMAIN said'
      PROVE  ListingSays(said[i])'
  <2>1. PICK x : x = said[i]
    OBVIOUS
  <2>2. ListingSays(x)'
    BY <1>2, <2>1, SayingsStay
  <2> QED BY <2>1, <2>2 DEF ListingSays
<1> QED BY <1>1, <1>2

\* A manifest that is read comes after those that were, under an id of its own.
LEMMA ManifestKeeps == ExtensionIInv /\ ReadManifest => ExtensionIInv'
<1> SUFFICES ASSUME ExtensionIInv, ReadManifest PROVE ExtensionIInv'
  OBVIOUS
<1> DEFINE file == MaxFiles - filesLeft + 1
<1>1. /\ stage = "discover" /\ filesLeft > 0 /\ filesLeft' = filesLeft - 1
      /\ UNCHANGED <<purpose, builtIns, stage, kept, ran, said, listing>>
  BY DEF ReadManifest
<1>2. ran = <<>> /\ said = <<>> /\ listing = {}
  BY <1>1 DEF ExtensionIInv, RanIsKept, SaidOfRan
<1>3. AdaptersInOrder'
  <2>0. filesLeft \in 1 .. MaxFiles /\ filesLeft' \in 0 .. MaxFiles /\ MaxFiles \in Nat
    BY <1>1, ExtensionsAssumption DEF ExtensionIInv, AdaptersInOrder
  <2>1. CASE adapters' = adapters
    <3>1. \A i \in DOMAIN adapters : adapters[i].file \in 1 .. MaxFiles - filesLeft'
      BY <1>1, <2>0 DEF ExtensionIInv, AdaptersInOrder
    <3> QED BY <2>0, <2>1, <3>1 DEF ExtensionIInv, AdaptersInOrder
  <2>2. ASSUME NEW m \in ManifestsIn(file), Accepted(m), adapters' = Append(adapters, m)
        PROVE  AdaptersInOrder'
    <3>1. m.file = file
      BY <2>2 DEF ManifestsIn
    <3>2. \A i \in DOMAIN adapters : adapters[i].id # m.id
      BY <2>2 DEF Accepted
    <3>3. /\ adapters' \in Seq(ToSet(adapters')) /\ DOMAIN adapters = 1 .. Len(adapters)
          /\ Len(adapters) \in Nat /\ DOMAIN adapters' = 1 .. Len(adapters) + 1
          /\ \A i \in DOMAIN adapters : adapters'[i] = adapters[i]
          /\ adapters'[Len(adapters) + 1] = m
      BY <2>2, AppendedLast DEF ExtensionIInv, AdaptersInOrder
    <3>4. \A i \in DOMAIN adapters : adapters[i].file \in 1 .. MaxFiles - filesLeft
      BY DEF ExtensionIInv, AdaptersInOrder
    <3>5. \A i, j \in DOMAIN adapters : i < j =>
             adapters[i].file < adapters[j].file /\ adapters[i].id # adapters[j].id
      BY DEF ExtensionIInv, AdaptersInOrder
    <3>6. \A i \in DOMAIN adapters' : i \in DOMAIN adapters \/ i = Len(adapters) + 1
      BY <3>3
    <3>7. \A i \in DOMAIN adapters' : adapters'[i].file \in 1 .. MaxFiles - filesLeft'
      BY <1>1, <2>0, <3>1, <3>3, <3>4, <3>6
    <3>8. \A i, j \in DOMAIN adapters' : i < j =>
             adapters'[i].file < adapters'[j].file /\ adapters'[i].id # adapters'[j].id
      BY <2>0, <3>1, <3>2, <3>3, <3>4, <3>5, <3>6
    <3> QED BY <2>0, <3>3, <3>7, <3>8 DEF AdaptersInOrder
  <2> QED BY <2>1, <2>2 DEF ReadManifest
<1>4. BuiltInsFirst'
  BY <1>1 DEF ExtensionIInv, BuiltInsFirst, BuiltInAnswers, SelectedBuiltIn
<1>5. RanIsKept'
  BY <1>1, <1>2 DEF ExtensionIInv, RanIsKept
<1>6. SaidOfRan'
  BY <1>1, <1>2 DEF ExtensionIInv, SaidOfRan, ProgramSaid
<1> QED BY <1>1, <1>3, <1>4, <1>5, <1>6 DEF ExtensionIInv

LEMMA CollectedKeeps == ExtensionIInv /\ Collected => ExtensionIInv'
<1> SUFFICES ASSUME ExtensionIInv, Collected PROVE ExtensionIInv'
  OBVIOUS
<1>1. /\ stage = "discover" /\ stage' = "use"
      /\ listing' = IF purpose = "list" THEN ExtensionCandidates ELSE {}
      /\ UNCHANGED <<purpose, builtIns, filesLeft, adapters, refused, kept, ran, said>>
  BY DEF Collected
<1>2. ran = <<>> /\ said = <<>>
  BY <1>1 DEF ExtensionIInv, RanIsKept, SaidOfRan
<1>3. RanIsKept'
  BY <1>1, <1>2 DEF ExtensionIInv, RanIsKept
<1>4. SaidOfRan'
  BY <1>1, <1>2, SelectionStays DEF ExtensionIInv, SaidOfRan, ProgramSaid
<1> QED BY <1>1, <1>3, <1>4, SelectionStays DEF ExtensionIInv

LEMMA InspectKeeps == ExtensionIInv /\ InspectCompositor => ExtensionIInv'
<1> SUFFICES ASSUME ExtensionIInv, InspectCompositor PROVE ExtensionIInv'
  OBVIOUS
<1>1. /\ stage = "use" /\ purpose = "inspect"
      /\ UNCHANGED <<purpose, builtIns, filesLeft, adapters, refused, stage, listing>>
  BY DEF InspectCompositor
<1>2. \E e : /\ said' = Append(said, e) /\ RanIsKept' /\ InspectionSays(e)'
             /\ DOMAIN ran \subseteq DOMAIN ran' /\ \A i \in DOMAIN ran : ran'[i] = ran[i]
  <2>1. PICK key \in {"k", "l"} :
          IF BuiltInSpeaks
          THEN said' = Append(said, [key |-> key, by |-> BuiltIn]) /\ UNCHANGED <<kept, ran>>
          ELSE \E report \in Reports :
                 /\ TakesReport(SelectedExtension, report)
                 /\ said' = Append(said, [key |-> key, by |-> SelectedExtension.file, says |-> Finding(key, report)])
    BY DEF InspectCompositor, BuiltInSpeaks, BuiltInAnswers
  <2>2. CASE BuiltInSpeaks
    <3>1. said' = Append(said, [key |-> key, by |-> BuiltIn]) /\ UNCHANGED <<kept, ran>>
      BY <2>1, <2>2
    <3>2. RanIsKept'
      BY <1>1, <3>1, SelectionStays DEF ExtensionIInv, RanIsKept
    <3>3. InspectionSays([key |-> key, by |-> BuiltIn])'
      BY <1>1, <2>2, SelectionStays DEF InspectionSays
    <3> QED BY <3>1, <3>2, <3>3
  <2>3. CASE ~BuiltInSpeaks
    <3>1. PICK report \in Reports :
            /\ TakesReport(SelectedExtension, report)
            /\ said' = Append(said, [key |-> key, by |-> SelectedExtension.file, says |-> Finding(key, report)])
      BY <2>1, <2>3
    <3>2. SelectedPlace \in ExtensionCandidates /\ SelectedExtension = adapters[SelectedPlace]
      BY <2>3, SelectedIsBest DEF ExtensionIInv, BuiltInSpeaks
    <3>3. /\ RanIsKept' /\ DOMAIN ran \subseteq DOMAIN ran' /\ \A i \in DOMAIN ran : ran'[i] = ran[i]
          /\ \E j \in DOMAIN ran' : ran'[j].file = SelectedExtension.file /\ ran'[j].report = report
      BY <1>1, <2>3, <3>1, <3>2, TakenIsKept DEF ExtensionIInv
    <3>4. PICK j \in DOMAIN ran' : ran'[j].file = SelectedExtension.file /\ ran'[j].report = report
      BY <3>3
    <3>5. PICK e : e = [key |-> key, by |-> ran'[j].file, says |-> Finding(key, ran'[j].report)]
      OBVIOUS
    <3>6. BuiltInSpeaks' = BuiltInSpeaks
      BY <1>1, SelectionStays
    <3>7. InspectionSays(e)'
      BY <2>3, <3>5, <3>6 DEF InspectionSays, Finding
    <3>8. said' = Append(said, e)
      BY <3>1, <3>4, <3>5
    <3> QED BY <3>3, <3>7, <3>8
  <2> QED BY <2>2, <2>3
<1>3. PICK e : /\ said' = Append(said, e) /\ RanIsKept' /\ InspectionSays(e)'
               /\ DOMAIN ran \subseteq DOMAIN ran' /\ \A i \in DOMAIN ran : ran'[i] = ran[i]
  BY <1>2
<1>4. SaidOfRan'
  <2>1. said' \in Seq(ToSet(said')) /\ (\A i \in DOMAIN said : InspectionSays(said[i]))'
    BY <1>1, <1>3, OneMoreSaying DEF ExtensionIInv, SaidOfRan
  <2>2. listing' \subseteq ExtensionCandidates'
    BY <1>1, SelectionStays DEF ExtensionIInv, SaidOfRan
  <2> QED BY <1>1, <2>1, <2>2 DEF SaidOfRan
<1> QED BY <1>1, <1>3, <1>4, SelectionStays DEF ExtensionIInv

LEMMA FocusKeeps == ExtensionIInv /\ ResolveFocus => ExtensionIInv'
<1> SUFFICES ASSUME ExtensionIInv, ResolveFocus PROVE ExtensionIInv'
  OBVIOUS
<1>1. /\ stage = "use" /\ purpose = "inspect"
      /\ UNCHANGED <<purpose, builtIns, filesLeft, adapters, refused, stage, kept, ran, listing>>
  BY DEF ResolveFocus
<1>2. PICK by : said' = Append(said, [key |-> "focus", by |-> by])
  BY DEF ResolveFocus
<1> DEFINE e == [key |-> "focus", by |-> by]
<1>3. InspectionSays(e)'
  BY DEF InspectionSays
<1>4. RanIsKept'
  BY <1>1, SelectionStays DEF ExtensionIInv, RanIsKept
<1>5. SaidOfRan'
  <2>1. said' \in Seq(ToSet(said')) /\ (\A i \in DOMAIN said : InspectionSays(said[i]))'
    BY <1>1, <1>2, <1>3, OneMoreSaying DEF ExtensionIInv, SaidOfRan
  <2>2. listing' \subseteq ExtensionCandidates'
    BY <1>1, SelectionStays DEF ExtensionIInv, SaidOfRan
  <2> QED BY <1>1, <2>1, <2>2 DEF SaidOfRan
<1> QED BY <1>1, <1>4, <1>5, SelectionStays DEF ExtensionIInv

LEMMA ListKeeps == ExtensionIInv /\ ListAdapter => ExtensionIInv'
<1> SUFFICES ASSUME ExtensionIInv, ListAdapter PROVE ExtensionIInv'
  OBVIOUS
<1>1. /\ stage = "use" /\ purpose = "list"
      /\ UNCHANGED <<purpose, builtIns, filesLeft, adapters, refused>>
  BY DEF ListAdapter
<1>2. ASSUME NEW next \in listing, NEW report \in Reports, TakesReport(adapters[next], report),
             said' = Append(said, [key |-> "all", by |-> adapters[next].file,
                                   rows |-> {i \in DOMAIN report : report[i] \in {"k", "l"}},
                                   skips |-> Failed(report) \/ "malformed" \in ToSet(report)]),
             listing' = listing \ {next}, UNCHANGED stage
      PROVE  ExtensionIInv'
  <2>1. next \in ExtensionCandidates
    BY DEF ExtensionIInv, SaidOfRan
  <2>2. /\ RanIsKept' /\ DOMAIN ran \subseteq DOMAIN ran' /\ \A i \in DOMAIN ran : ran'[i] = ran[i]
        /\ \E j \in DOMAIN ran' : ran'[j].file = adapters[next].file /\ ran'[j].report = report
    BY <1>1, <1>2, <2>1, TakenIsKept DEF ExtensionIInv
  <2>3. PICK j \in DOMAIN ran' : ran'[j].file = adapters[next].file /\ ran'[j].report = report
    BY <2>2
  <2>4. PICK rows, skips :
          /\ rows = {i \in DOMAIN report : report[i] \in {"k", "l"}}
          /\ skips = (Failed(report) \/ "malformed" \in ToSet(report))
    OBVIOUS
  <2>5. skips \/ rows = DOMAIN report
    <3>1. Failed(report) \/ \A i \in DOMAIN report : report[i] \in {"k", "l", "malformed"}
      BY DEF Reports, Failed, BoundedSeq, SeqOf
    <3>2. CASE "malformed" \in ToSet(report) \/ Failed(report)
      BY <2>4, <3>2
    <3>3. CASE "malformed" \notin ToSet(report) /\ ~Failed(report)
      <4>1. \A i \in DOMAIN report : report[i] \in {"k", "l"}
        BY <3>1, <3>3 DEF ToSet
      <4> QED BY <2>4, <4>1
    <3> QED BY <3>2, <3>3
  <2>6. PICK e : e = [key |-> "all", by |-> ran'[j].file, rows |-> rows, skips |-> skips]
    OBVIOUS
  <2>7. ListingSays(e)'
    BY <2>3, <2>5, <2>6 DEF ListingSays
  <2>8. said' = Append(said, e) /\ e.by = adapters[next].file
    BY <1>2, <2>3, <2>4, <2>6
  <2>9. /\ said' \in Seq(ToSet(said')) /\ (\A i \in DOMAIN said : ListingSays(said[i]))'
        /\ \A i \in DOMAIN said : i \in DOMAIN said' /\ said'[i] = said[i]
        /\ \E i \in DOMAIN said' : said'[i] = e
    BY <1>1, <2>2, <2>7, <2>8, OneMoreSaying DEF ExtensionIInv, SaidOfRan
  <2>10. ASSUME NEW p \in ExtensionCandidates \ listing'
         PROVE  \E i \in DOMAIN said' : said'[i].by = adapters[p].file
    <3>1. p = next \/ p \in ExtensionCandidates \ listing
      BY <1>2, <2>10
    <3>2. CASE p = next
      BY <2>8, <2>9, <3>2
    <3>3. CASE p \in ExtensionCandidates \ listing
      BY <1>1, <2>9, <3>3 DEF ExtensionIInv, SaidOfRan
    <3> QED BY <3>1, <3>2, <3>3
  <2>11. listing' \subseteq ExtensionCandidates' /\ ExtensionCandidates' = ExtensionCandidates
    BY <1>1, <1>2, SelectionStays DEF ExtensionIInv, SaidOfRan
  <2>12. SaidOfRan'
    BY <1>1, <1>2, <2>9, <2>10, <2>11 DEF SaidOfRan
  <2> QED BY <1>1, <2>2, <2>12, SelectionStays DEF ExtensionIInv
<1>3. ASSUME stage' = "cut short", UNCHANGED <<kept, ran, said, listing>> PROVE ExtensionIInv'
  <2>1. RanIsKept'
    BY <1>1, <1>3, SelectionStays DEF ExtensionIInv, RanIsKept
  <2>2. (\A i \in DOMAIN said : ListingSays(said[i]))'
    BY <1>1, <1>3, SayingsRest DEF ExtensionIInv, SaidOfRan
  <2>3. SaidOfRan'
    BY <1>1, <1>3, <2>2, SelectionStays DEF ExtensionIInv, SaidOfRan
  <2> QED BY <1>1, <2>1, <2>3, SelectionStays DEF ExtensionIInv
<1> QED BY <1>2, <1>3 DEF ListAdapter

LEMMA ProgramKeeps == ExtensionIInv /\ RunProgram => ExtensionIInv'
<1> SUFFICES ASSUME ExtensionIInv, RunProgram PROVE ExtensionIInv'
  OBVIOUS
<1>1. /\ stage = "use" /\ purpose = "program" /\ stage' = "over"
      /\ UNCHANGED <<purpose, builtIns, filesLeft, adapters, refused, kept, ran, listing>>
  BY DEF RunProgram
<1>2. RanIsKept'
  BY <1>1, SelectionStays DEF ExtensionIInv, RanIsKept
<1>3. ProgramSaid'
  BY DEF RunProgram, ProgramSaid
<1>4. \E e : said' = <<e>>
  BY DEF RunProgram
<1>5. said' \in Seq(ToSet(said'))
  BY <1>4 DEF ToSet
<1>6. SaidOfRan'
  BY <1>1, <1>3, <1>5, SelectionStays DEF ExtensionIInv, SaidOfRan
<1> QED BY <1>1, <1>2, <1>6, SelectionStays DEF ExtensionIInv

LEMMA ExtensionRests == ExtensionIInv /\ UNCHANGED extensionVars => ExtensionIInv'
<1> SUFFICES ASSUME ExtensionIInv, UNCHANGED extensionVars PROVE ExtensionIInv'
  OBVIOUS
<1>1. UNCHANGED <<purpose, builtIns, filesLeft, adapters, refused, stage, kept, ran, said, listing>>
  BY DEF extensionVars
<1>2. RanIsKept'
  BY <1>1, SelectionStays DEF ExtensionIInv, RanIsKept
<1>3. (purpose = "inspect" => \A i \in DOMAIN said : InspectionSays(said[i]))'
  BY <1>1, SayingsRest DEF ExtensionIInv, SaidOfRan
<1>4. (purpose = "list" => \A i \in DOMAIN said : ListingSays(said[i]))'
  BY <1>1, SayingsRest DEF ExtensionIInv, SaidOfRan
<1>5. SaidOfRan'
  BY <1>1, <1>3, <1>4, SelectionStays DEF ExtensionIInv, SaidOfRan, ProgramSaid
<1> QED BY <1>1, <1>2, <1>5, SelectionStays DEF ExtensionIInv

LEMMA ExtensionKeeps == ExtensionIInv /\ (ExtensionNext \/ UNCHANGED extensionVars) => ExtensionIInv'
BY ManifestKeeps, CollectedKeeps, InspectKeeps, FocusKeeps, ListKeeps, ProgramKeeps, ExtensionRests
   DEF ExtensionNext

\* The invariant says all that is to be shown.
LEMMA SelectedRan == ExtensionIInv => OnlyTheSelectedRuns
<1> SUFFICES ASSUME ExtensionIInv PROVE OnlyTheSelectedRuns
  OBVIOUS
<1>0. DOMAIN adapters = 1 .. Len(adapters) /\ Len(adapters) \in Nat
  BY DEF ExtensionIInv, AdaptersInOrder
<1>1. \A i, j \in DOMAIN ran : ran[i].id = ran[j].id => i = j
  BY DEF ExtensionIInv, RanIsKept
<1>2. \A i \in DOMAIN ran : \E a \in ToSet(adapters) : a.file = ran[i].file /\ Applicable(a)
  <2> SUFFICES ASSUME NEW i \in DOMAIN ran PROVE \E a \in ToSet(adapters) : a.file = ran[i].file /\ Applicable(a)
    OBVIOUS
  <2>1. PICK p \in ExtensionCandidates : ran[i].file = adapters[p].file
    BY DEF ExtensionIInv, RanIsKept
  <2>2. adapters[p] \in ToSet(adapters) /\ Applicable(adapters[p])
    BY DEF ExtensionCandidates, ToSet
  <2> QED BY <2>1, <2>2
<1>3. (\E i \in DOMAIN builtIns : builtIns[i] # Generic) => ran = <<>>
  <2> SUFFICES ASSUME \E i \in DOMAIN builtIns : builtIns[i] # Generic PROVE ran = <<>>
    OBVIOUS
  <2>1. BuiltInAnswers /\ purpose = "inspect"
    BY DEF ExtensionIInv, BuiltInsFirst
  <2>2. DOMAIN ran = {}
    BY <2>1 DEF ExtensionIInv, RanIsKept, BuiltInSpeaks
  <2>3. ran \in Seq(ToSet(ran))
    BY DEF ExtensionIInv, RanIsKept
  <2>4. Len(ran) = 0
    BY <2>2, <2>3
  <2> QED BY <2>3, <2>4, EmptySeq
<1>4. ASSUME purpose = "inspect", NEW i \in DOMAIN ran, NEW a \in ToSet(adapters), NEW b \in ToSet(adapters),
             b.file = ran[i].file, Applicable(a)
      PROVE  /\ ExtensionScore(a) <= ExtensionScore(b)
             /\ ExtensionScore(a) = ExtensionScore(b) => b.file <= a.file
  <2>1. SelectedPlace \in ExtensionCandidates /\ ran[i].file = adapters[SelectedPlace].file
    BY <1>4 DEF ExtensionIInv, RanIsKept
  <2>2. PICK p \in DOMAIN adapters : a = adapters[p]
    BY DEF ToSet
  <2>3. PICK q \in DOMAIN adapters : b = adapters[q]
    BY DEF ToSet
  <2>4. p \in ExtensionCandidates /\ SelectedPlace \in DOMAIN adapters
    BY <1>4, <2>1, <2>2 DEF ExtensionCandidates
  <2>5. /\ \A k \in DOMAIN adapters : adapters[k].file \in Int
        /\ \A k, l \in DOMAIN adapters : k < l => adapters[k].file < adapters[l].file
    BY DEF ExtensionIInv, AdaptersInOrder
  <2>6. q = SelectedPlace
    <3>1. ~(q < SelectedPlace) /\ ~(SelectedPlace < q)
      BY <1>4, <2>1, <2>3, <2>4, <2>5
    <3> QED BY <1>0, <2>4, <3>1
  <2>7. \/ ExtensionScore(a) < ExtensionScore(b)
        \/ ExtensionScore(a) = ExtensionScore(b) /\ SelectedPlace <= p
    BY <2>2, <2>3, <2>4, <2>6, SelectedIsBest DEF ExtensionIInv
  <2>8. ExtensionScore(a) \in Int /\ ExtensionScore(b) \in Int
    BY DEF ExtensionScore, Weight
  <2>9. SelectedPlace <= p => b.file <= a.file
    BY <1>0, <2>2, <2>3, <2>4, <2>5, <2>6
  <2> QED BY <2>7, <2>8, <2>9
<1> QED BY <1>1, <1>2, <1>3, <1>4 DEF OnlyTheSelectedRuns

LEMMA AnsweredSo == ExtensionIInv => SaidAsAnswered /\ LayerSaysNoMore
<1> SUFFICES ASSUME ExtensionIInv PROVE SaidAsAnswered /\ LayerSaysNoMore
  OBVIOUS
<1>1. \A j \in DOMAIN ran : ran[j].report \in CommandAnswers(ran[j].file)
  BY DEF CommandAnswers
<1>2. CASE purpose = "inspect"
  <2>1. \A i \in DOMAIN said : InspectionSays(said[i])
    BY <1>2 DEF ExtensionIInv, SaidOfRan
  <2>2. ASSUME NEW i \in DOMAIN said, "says" \in DOMAIN said[i]
        PROVE  \E report \in CommandAnswers(said[i].by) : said[i].says = Finding(said[i].key, report)
    BY <1>1, <2>1, <2>2 DEF InspectionSays
  <2>3. \A j, k \in DOMAIN ran : j = k
    BY <1>2 DEF ExtensionIInv, RanIsKept
  <2>4. \A i, j \in DOMAIN said : said[i].key = said[j].key /\ said[i].key # "focus" => said[i] = said[j]
    BY <2>1, <2>3 DEF InspectionSays
  <2>5. \A i \in DOMAIN said : "rows" \notin DOMAIN said[i] /\ said[i].key # "program"
    BY <2>1 DEF InspectionSays
  <2> QED BY <1>2, <2>2, <2>4, <2>5 DEF SaidAsAnswered, LayerSaysNoMore
<1>3. CASE purpose = "list"
  <2>1. \A i \in DOMAIN said : ListingSays(said[i])
    BY <1>3 DEF ExtensionIInv, SaidOfRan
  <2>2. \A i \in DOMAIN said : "says" \notin DOMAIN said[i] /\ said[i].key # "program"
    BY <2>1 DEF ListingSays
  <2>3. \A i \in DOMAIN said : \E report \in CommandAnswers(said[i].by) :
           said[i].skips \/ said[i].rows = DOMAIN report
    BY <1>1, <2>1 DEF ListingSays
  <2>4. ASSUME stage = "use", listing = {}, NEW a \in ToSet(adapters), Applicable(a)
        PROVE  \E i \in DOMAIN said : said[i].by = a.file
    <3>1. PICK p \in ExtensionCandidates : a = adapters[p]
      BY <2>4 DEF ToSet, ExtensionCandidates
    <3> QED BY <1>3, <2>4, <3>1 DEF ExtensionIInv, SaidOfRan
  <2> QED BY <1>3, <2>2, <2>3, <2>4 DEF SaidAsAnswered, LayerSaysNoMore
<1>4. CASE purpose = "program"
  <2>1. ProgramSaid
    BY <1>4 DEF ExtensionIInv, SaidOfRan
  <2>2. \A i \in DOMAIN said : i = 1 /\ said[i].key = "program" /\ "rows" \notin DOMAIN said[i]
    BY <2>1 DEF ProgramSaid
  <2>3. SaidAsAnswered
    BY <1>4, <2>2 DEF SaidAsAnswered
  <2>4. ASSUME NEW i \in DOMAIN said, "says" \in DOMAIN said[i], Valid(said[i].answer)
        PROVE  LET r == said[i].answer IN
               /\ said[i].says \in {"Pass", "HandledAndPassed", "UncertainContinues"} => r.propagation = "continues"
               /\ said[i].says = "Consumed" => r.status = "handled" /\ r.propagation = "stops"
               /\ said[i].says = "Redirected" <=> r.propagation = "redirected"
    <3>1. PICK r \in Responses : /\ said[i].answer = r /\ Valid(r)
                                 /\ said[i].says = FromParts(r.status, r.propagation)
      BY <2>1, <2>2, <2>4 DEF ProgramSaid
    <3>2. r.status \in Statuses /\ r.propagation \in Propagations
      BY DEF Responses
    <3> QED BY <3>1, <3>2 DEF FromParts, Statuses, Propagations
  <2> QED BY <2>3, <2>4 DEF LayerSaysNoMore
<1> QED BY <1>2, <1>3, <1>4 DEF ExtensionIInv

-----------------------------------------------------------------------------
(* Recording and replay.                                                   *)
\* What can be asked, answered, stored and left to be answered.
Replies == UNION {LiveAnswers[k] : k \in Kinds}
Recorded == {RoundTrip(k, a) : k \in Kinds, a \in Replies}
Inputs == [list : BOOLEAN, responses : Seq(Recorded)]
Leftovers == [is : {"absent", "fixed", "ordered"}, queue : Seq(Recorded), asked : BOOLEAN]

RecordingTypes ==
    /\ recPc \in {"recording", "loading", "replaying", "ended"}
    /\ kind \in Kinds /\ outside \in [Questions -> Replies]
    /\ log \in [Questions -> Seq(Recorded)] /\ document \in [Questions -> Seq(Inputs)]
    /\ answers \in [Questions -> Leftovers]
    /\ seen \in [Questions -> Seq(Recorded \cup {"unrecorded"})]

\* Of what a question was answered, what is loaded and what is still in the document.
ToLoad(was, stored, left) ==
    \/ left = Absent /\ stored = Grouped(was)
    \/ /\ ~left.asked /\ Len(left.queue) + Len(stored) = Len(was)
       /\ \A i \in DOMAIN left.queue : left.queue[i] = was[i]
       /\ \A i \in DOMAIN stored :
             stored[i].list = FALSE /\ stored[i].responses = <<was[Len(left.queue) + i]>>
       /\ Len(left.queue) = 0 => left.is = "absent"
       /\ Len(left.queue) = 1 => left.is = "fixed"
       /\ Len(left.queue) > 1 => left.is = "ordered"
    \/ stored = <<>> /\ left = Fixed(<<was[1]>>) /\ was # <<>> /\ Same(was)
    \/ stored = <<>> /\ left = Ordered(was)

\* What a question is answered in the replay, and what is left for it.
Served(was, is, left) ==
    \/ left.is = "absent" /\ left.queue = <<>> /\ was = <<>> /\ is = <<>>
    \/ /\ left.is = "fixed" /\ left.queue = <<was[1]>> /\ was # <<>> /\ Same(was)
       /\ \A i \in DOMAIN is : is[i] = was[1]
       /\ left.asked => is # <<>>
    \/ /\ left.is = "ordered" /\ Len(is) + Len(left.queue) = Len(was)
       /\ \A i \in DOMAIN is : is[i] = was[i]
       /\ \A i \in DOMAIN left.queue : left.queue[i] = was[Len(is) + i]

\* The replay ended for want of an answer: the run did not get more of them.
LeftWithout(was, is) ==
    /\ Len(is) = Len(was) + 1 /\ is[Len(is)] = "unrecorded"
    /\ \A i \in 1 .. Len(was) : is[i] = was[i]

QuestionHolds(q) ==
    CASE recPc = "recording" -> document[q] = <<>> /\ answers[q] = Absent /\ seen[q] = <<>>
      [] recPc = "loading" -> ToLoad(log[q], document[q], answers[q]) /\ seen[q] = <<>>
      [] OTHER -> /\ document[q] = <<>>
                  /\ \/ Served(log[q], seen[q], answers[q])
                     \/ recExit = "unrecorded" /\ LeftWithout(log[q], seen[q])

RecordingIInv ==
    /\ RecordingTypes
    /\ \A q \in Questions : QuestionHolds(q)
    /\ recPc # "ended" => recExit = "none"
    /\ recExit = "code" => Unused = {}

\* An input that is loaded adds its answers to those before it.
LEMMA LoadedGoesOn ==
    ASSUME NEW was \in Seq(Recorded), NEW stored \in Seq(Inputs), NEW left \in Leftovers,
           ToLoad(was, stored, left), stored # <<>>
    PROVE  /\ ToLoad(was, Tail(stored), Loaded(left, Head(stored)))
           /\ Tail(stored) \in Seq(Inputs) /\ Loaded(left, Head(stored)) \in Leftovers
<1> DEFINE input == Head(stored)
<1>1. input \in Inputs /\ input = stored[1] /\ 1 \in DOMAIN stored /\ Tail(stored) \in Seq(Inputs)
      /\ Len(Tail(stored)) = Len(stored) - 1 /\ Len(stored) \in Nat \ {0}
      /\ \A i \in 1 .. Len(stored) - 1 : Tail(stored)[i] = stored[i + 1]
  BY HeadTailProperties, EmptySeq
<1>9. Len(stored) = 1 => Tail(stored) = <<>>
  <2>1. Len(stored) = 1 => Len(Tail(stored)) = 0
    BY <1>1
  <2> QED BY <1>1, <2>1, EmptySeq
<1>2. input.responses \in Seq(Recorded) /\ left.queue \in Seq(Recorded)
  BY <1>1 DEF Inputs, Leftovers
<1>3. left.queue \o input.responses \in Seq(Recorded)
  BY <1>2
<1>4. Loaded(left, input) \in Leftovers
  BY <1>2, <1>3 DEF Loaded, Fixed, Ordered, Leftovers
<1>5. CASE left = Absent /\ stored = Grouped(was)
  <2>1. was # <<>>
    BY <1>5 DEF Grouped
  <2>2. was[1] \in Recorded
    BY <2>1, EmptySeq
  <2>3. CASE Same(was)
    <3>1. stored = <<[list |-> FALSE, responses |-> <<was[1]>>]>>
      BY <1>5, <2>1, <2>3 DEF Grouped
    <3>2. input.list = FALSE /\ input.responses = <<was[1]>> /\ Len(stored) = 1
      BY <1>1, <3>1
    <3>3. Tail(stored) = <<>>
      BY <1>9, <3>2
    <3>4. Loaded(left, input) = Fixed(<<was[1]>>)
      BY <1>5, <3>2 DEF Loaded, Absent
    <3> QED BY <1>1, <1>4, <2>1, <2>3, <3>3, <3>4 DEF ToLoad
  <2>4. CASE ~Same(was)
    <3>1. stored = <<[list |-> TRUE, responses |-> was]>>
      BY <1>5, <2>1, <2>4 DEF Grouped
    <3>2. input.list = TRUE /\ input.responses = was /\ Len(stored) = 1
      BY <1>1, <3>1
    <3>3. Tail(stored) = <<>>
      BY <1>9, <3>2
    <3>4. Loaded(left, input) = Ordered(<<>> \o was)
      BY <1>5, <3>2 DEF Loaded, Absent
    <3>5. <<>> \o was = was
      BY ConcatEmptySeq
    <3> QED BY <1>1, <1>4, <3>3, <3>4, <3>5 DEF ToLoad
  <2> QED BY <2>3, <2>4
<1>6. CASE /\ ~left.asked /\ Len(left.queue) + Len(stored) = Len(was)
           /\ \A i \in DOMAIN left.queue : left.queue[i] = was[i]
           /\ \A i \in DOMAIN stored :
                 stored[i].list = FALSE /\ stored[i].responses = <<was[Len(left.queue) + i]>>
           /\ Len(left.queue) = 0 => left.is = "absent"
           /\ Len(left.queue) = 1 => left.is = "fixed"
           /\ Len(left.queue) > 1 => left.is = "ordered"
  <2> DEFINE n == Len(left.queue)
             next == Loaded(left, input)
  <2>0. ~left.asked /\ n \in Nat /\ left.is = (IF n = 0 THEN "absent" ELSE IF n = 1 THEN "fixed" ELSE "ordered")
    <3>1. n \in Nat
      BY <1>2
    <3>2. ~left.asked
      BY <1>6
    <3>3. (n = 0 => left.is = "absent") /\ (n = 1 => left.is = "fixed") /\ (n > 1 => left.is = "ordered")
      BY <1>6
    <3> HIDE DEF n
    <3> QED BY <3>1, <3>2, <3>3
  <2>1. n \in Nat /\ input.list = FALSE /\ input.responses = <<was[n + 1]>> /\ n + 1 <= Len(was)
    BY <1>1, <1>2, <1>6
  <2>2. was[n + 1] \in Recorded
    BY <2>1
  <2>3. /\ next.queue \in Seq(Recorded) /\ Len(next.queue) = n + 1
        /\ \A i \in DOMAIN next.queue : next.queue[i] = was[i]
    <3>1. CASE left.is = "absent"
      <4>1. n = 0
        BY <2>0, <3>1
      <4>2. next.queue = <<was[1]>>
        BY <2>1, <3>1, <4>1 DEF Loaded, Fixed
      <4>3. was[1] \in Recorded /\ n + 1 = 1
        BY <2>2, <4>1
      <4>4. <<was[1]>> \in Seq(Recorded) /\ Len(<<was[1]>>) = 1 /\ DOMAIN <<was[1]>> = {1} /\ <<was[1]>>[1] = was[1]
        BY <4>3
      <4> HIDE DEF next, n
      <4> QED BY <4>2, <4>3, <4>4
    <3>2. CASE left.is # "absent"
      <4>0. n # 0
        BY <2>0, <3>2
      <4>1. next.queue = left.queue \o <<was[n + 1]>>
        BY <2>1, <3>2 DEF Loaded, Ordered
      <4>5. <<was[n + 1]>> \in Seq(Recorded) /\ Len(<<was[n + 1]>>) = 1 /\ <<was[n + 1]>>[1] = was[n + 1]
        BY <2>2
      <4>2. /\ Len(next.queue) = n + 1 /\ next.queue \in Seq(Recorded)
            /\ \A i \in 1 .. n + 1 : next.queue[i] = IF i <= n THEN left.queue[i] ELSE was[n + 1]
        <5> HIDE DEF next
        <5> DEFINE one == <<was[n + 1]>>
        <5>1. one \in Seq(Recorded) /\ Len(one) = 1 /\ one[1] = was[n + 1]
          BY <4>5
        <5>2. next.queue = left.queue \o one
          BY <4>1
        <5> HIDE DEF one
        <5>3. /\ left.queue \o one \in Seq(Recorded) /\ Len(left.queue \o one) = n + 1
              /\ \A i \in 1 .. n + 1 : (left.queue \o one)[i] = IF i <= n THEN left.queue[i] ELSE one[i - n]
          <6>1. \A s1, s2 \in Seq(Recorded) :
                   /\ s1 \o s2 \in Seq(Recorded) /\ Len(s1 \o s2) = Len(s1) + Len(s2)
                   /\ \A i \in 1 .. Len(s1) + Len(s2) :
                         (s1 \o s2)[i] = IF i <= Len(s1) THEN s1[i] ELSE s2[i - Len(s1)]
            BY ConcatProperties
          <6>2. left.queue \in Seq(Recorded) /\ one \in Seq(Recorded)
            BY <1>2, <5>1
          <6> HIDE DEF next
          <6>3. /\ left.queue \o one \in Seq(Recorded) /\ Len(left.queue \o one) = Len(left.queue) + Len(one)
                /\ \A i \in 1 .. Len(left.queue) + Len(one) :
                      (left.queue \o one)[i] = IF i <= Len(left.queue) THEN left.queue[i] ELSE one[i - Len(left.queue)]
            BY <6>1, <6>2, Zenon
          <6> QED BY <5>1, <6>3
        <5>4. \A i \in 1 .. n + 1 : i <= n \/ i - n = 1
          BY <2>0
        <5> QED BY <5>1, <5>2, <5>3, <5>4
      <4>3. DOMAIN left.queue = 1 .. n /\ DOMAIN next.queue = 1 .. n + 1
        BY <1>2, <4>2
      <4>6. \A i \in 1 .. n : left.queue[i] = was[i]
        BY <1>6, <4>3
      <4>7. \A i \in 1 .. n + 1 : i \in 1 .. n \/ i = n + 1
        BY <2>0
      <4>8. \A i \in 1 .. n : i <= n
        OBVIOUS
      <4>9. ~(n + 1 <= n)
        BY <2>0
      <4> HIDE DEF next, n
      <4> QED BY <4>2, <4>3, <4>6, <4>7, <4>8, <4>9
    <3> QED BY <3>1, <3>2
  <2>4. ~next.asked /\ next.is = (IF n = 0 THEN "fixed" ELSE "ordered")
    BY <2>0, <2>1 DEF Loaded, Fixed, Ordered
  <2>5. \A i \in DOMAIN Tail(stored) :
           Tail(stored)[i].list = FALSE /\ Tail(stored)[i].responses = <<was[n + 1 + i]>>
    <3>1. ASSUME NEW i \in DOMAIN Tail(stored)
          PROVE  Tail(stored)[i].list = FALSE /\ Tail(stored)[i].responses = <<was[n + 1 + i]>>
      <4>0. i \in 1 .. Len(stored) - 1 /\ DOMAIN stored = 1 .. Len(stored)
        BY <1>1
      <4>1. i + 1 \in DOMAIN stored /\ Tail(stored)[i] = stored[i + 1] /\ n + 1 + i = n + (i + 1)
        BY <1>1, <2>0, <4>0
      <4> QED BY <1>6, <4>1
    <3> QED BY <3>1
  <2>6. Len(next.queue) + Len(Tail(stored)) = Len(was)
    BY <1>1, <1>6, <2>1, <2>3
  <2>7. ToLoad(was, Tail(stored), next)
    <3>1. \A i \in DOMAIN Tail(stored) :
             Tail(stored)[i].list = FALSE /\ Tail(stored)[i].responses = <<was[Len(next.queue) + i]>>
      BY <2>3, <2>5
    <3>2. /\ Len(next.queue) = 0 => next.is = "absent"
          /\ Len(next.queue) = 1 => next.is = "fixed"
          /\ Len(next.queue) > 1 => next.is = "ordered"
      BY <2>0, <2>3, <2>4
    <3> HIDE DEF next
    <3> QED BY <2>3, <2>4, <2>6, <3>1, <3>2 DEF ToLoad
  <2> QED BY <1>1, <1>4, <2>7
<1> QED BY <1>5, <1>6 DEF ToLoad

\* When nothing is left to be loaded, every answer is ready to be served.
LEMMA AllIsLoaded ==
    ASSUME NEW was \in Seq(Recorded), NEW left \in Leftovers, ToLoad(was, <<>>, left)
    PROVE  Served(was, <<>>, left)
<1>0. left.queue \in Seq(Recorded) /\ Len(<<>>) = 0 /\ DOMAIN <<>> = {}
  BY DEF Leftovers
<1>1. CASE left = Absent /\ <<>> = Grouped(was)
  <2>1. was = <<>>
    BY <1>1 DEF Grouped
  <2> QED BY <1>1, <2>1 DEF Served, Absent
<1>2. CASE /\ ~left.asked /\ Len(left.queue) + Len(<<>>) = Len(was)
           /\ \A i \in DOMAIN left.queue : left.queue[i] = was[i]
           /\ Len(left.queue) = 0 => left.is = "absent"
           /\ Len(left.queue) = 1 => left.is = "fixed"
           /\ Len(left.queue) > 1 => left.is = "ordered"
  <2>1. Len(left.queue) = Len(was) /\ Len(was) \in Nat
    BY <1>0, <1>2
  <2>2. CASE Len(was) = 0
    <3>1. left.queue = <<>> /\ was = <<>>
      BY <1>0, <2>1, <2>2, EmptySeq
    <3> QED BY <1>2, <2>1, <2>2, <3>1 DEF Served
  <2>3. CASE Len(was) = 1
    <3>1. left.queue = <<was[1]>> /\ Same(was) /\ was # <<>>
      BY <1>0, <1>2, <2>1, <2>3 DEF Same
    <3> QED BY <1>0, <1>2, <2>1, <2>3, <3>1 DEF Served
  <2>4. CASE Len(was) > 1
    <3>1. \A i \in DOMAIN left.queue : left.queue[i] = was[Len(<<>>) + i]
      <4>1. \A i \in DOMAIN left.queue : i \in Int /\ Len(<<>>) + i = i
        BY <1>0
      <4> QED BY <1>2, <4>1
    <3>2. left.is = "ordered" /\ Len(<<>>) + Len(left.queue) = Len(was)
      BY <1>0, <1>2, <2>1, <2>4
    <3>3. \A i \in DOMAIN <<>> : <<>>[i] = was[i]
      BY <1>0
    <3> QED BY <3>1, <3>2, <3>3, Zenon DEF Served
  <2>5. Len(was) = 0 \/ Len(was) = 1 \/ Len(was) > 1
    <3>1. \A m \in Nat : m = 0 \/ m = 1 \/ m > 1
      OBVIOUS
    <3> QED BY <2>1, <3>1
  <2> QED BY <2>2, <2>3, <2>4, <2>5
<1>3. CASE left = Fixed(<<was[1]>>) /\ was # <<>> /\ Same(was)
  BY <1>0, <1>3 DEF Fixed, Served
<1>4. CASE left = Ordered(was)
  <2>1. \A i \in DOMAIN was : 0 + i = i
    OBVIOUS
  <2> QED BY <1>0, <1>4, <2>1 DEF Ordered, Served
<1> QED BY <1>1, <1>2, <1>3, <1>4 DEF ToLoad

\* A question that is served is answered as in the run, once more, and goes on to be.
LEMMA ServedGoesOn ==
    ASSUME NEW was \in Seq(Recorded), NEW is \in Seq(Recorded \cup {"unrecorded"}), NEW left \in Leftovers,
           Served(was, is, left), left.queue # <<>>
    PROVE  /\ Served(was, Append(is, Head(left.queue)),
                     IF left.is = "fixed" THEN [left EXCEPT !.asked = TRUE]
                     ELSE [left EXCEPT !.queue = Tail(@)])
           /\ Head(left.queue) \in Recorded
           /\ (IF left.is = "fixed" THEN [left EXCEPT !.asked = TRUE]
               ELSE [left EXCEPT !.queue = Tail(@)]) \in Leftovers
<1> DEFINE more == Append(is, Head(left.queue))
<1>1. /\ left.queue \in Seq(Recorded) /\ Len(left.queue) \in Nat \ {0} /\ Head(left.queue) = left.queue[1]
      /\ Head(left.queue) \in Recorded /\ Tail(left.queue) \in Seq(Recorded)
      /\ Len(Tail(left.queue)) = Len(left.queue) - 1 /\ 1 \in DOMAIN left.queue
      /\ \A i \in 1 .. Len(left.queue) - 1 : Tail(left.queue)[i] = left.queue[i + 1]
  <2>1. left.queue \in Seq(Recorded)
    BY DEF Leftovers
  <2> QED BY <2>1, EmptySeq, HeadTailProperties
<1>2. /\ more \in Seq(Recorded \cup {"unrecorded"}) /\ Len(is) \in Nat /\ Len(more) = Len(is) + 1
      /\ DOMAIN is = 1 .. Len(is) /\ DOMAIN more = 1 .. Len(is) + 1 /\ more[Len(is) + 1] = left.queue[1]
      /\ \A i \in 1 .. Len(is) : more[i] = is[i]
  BY <1>1
<1>3. CASE /\ left.is = "fixed" /\ left.queue = <<was[1]>> /\ was # <<>> /\ Same(was)
           /\ \A i \in DOMAIN is : is[i] = was[1]
  <2> DEFINE next == [left EXCEPT !.asked = TRUE]
  <2>1. next.is = "fixed" /\ next.queue = <<was[1]>> /\ next \in Leftovers
    BY <1>3 DEF Leftovers
  <2>2. left.queue[1] = was[1]
    BY <1>3
  <2>3. \A i \in DOMAIN more : more[i] = was[1]
    BY <1>2, <1>3, <2>2
  <2>4. more # <<>>
    BY <1>2
  <2> HIDE DEF more, next
  <2>5. Served(was, more, next)
    BY <1>3, <2>1, <2>3, <2>4 DEF Served
  <2> QED BY <1>1, <1>3, <2>1, <2>5 DEF more, next
<1>4. CASE /\ left.is = "ordered" /\ Len(is) + Len(left.queue) = Len(was)
           /\ \A i \in DOMAIN is : is[i] = was[i]
           /\ \A i \in DOMAIN left.queue : left.queue[i] = was[Len(is) + i]
  <2> DEFINE next == [left EXCEPT !.queue = Tail(@)]
  <2>1. next.is = "ordered" /\ next.queue = Tail(left.queue) /\ next \in Leftovers
    BY <1>1, <1>4 DEF Leftovers
  <2>2. Len(more) + Len(next.queue) = Len(was)
    <3>1. Len(more) = Len(is) + 1 /\ Len(next.queue) = Len(left.queue) - 1
      BY <1>1, <1>2, <2>1
    <3>2. \A k, l \in Nat : (k + 1) + (l - 1) = k + l
      OBVIOUS
    <3> HIDE DEF more, next
    <3> QED BY <1>1, <1>2, <1>4, <3>1, <3>2
  <2>3. \A i \in DOMAIN more : more[i] = was[i]
    BY <1>1, <1>2, <1>4
  <2>4. \A i \in DOMAIN next.queue : next.queue[i] = was[Len(more) + i]
    <3>1. ASSUME NEW i \in DOMAIN next.queue PROVE next.queue[i] = was[Len(more) + i]
      <4>1. i \in 1 .. Len(left.queue) - 1
        BY <1>1, <2>1
      <4>2. i + 1 \in DOMAIN left.queue /\ next.queue[i] = left.queue[i + 1]
        BY <1>1, <2>1, <4>1
      <4>3. left.queue[i + 1] = was[Len(is) + (i + 1)] /\ Len(is) + (i + 1) = Len(more) + i
        BY <1>2, <1>4, <4>1, <4>2
      <4> QED BY <4>2, <4>3
    <3> QED BY <3>1
  <2> HIDE DEF more, next
  <2>5. Served(was, more, next)
    BY <2>1, <2>2, <2>3, <2>4 DEF Served
  <2> QED BY <1>1, <1>4, <2>1, <2>5 DEF more, next
<1> QED BY <1>3, <1>4 DEF Served

\* A replay that lacks an answer has given all of the run's.
LEMMA LacksNoMore ==
    ASSUME NEW was \in Seq(Recorded), NEW is \in Seq(Recorded \cup {"unrecorded"}), NEW left \in Leftovers,
           Served(was, is, left), left.queue = <<>>
    PROVE  LeftWithout(was, Append(is, "unrecorded"))
<1>1. Len(is) = Len(was) /\ \A i \in 1 .. Len(was) : is[i] = was[i]
  <2>1. left.is # "fixed"
    BY DEF Served
  <2>2. Len(<<>>) = 0
    OBVIOUS
  <2>3. CASE was = <<>> /\ is = <<>>
    BY <2>2, <2>3
  <2>4. CASE Len(is) + Len(left.queue) = Len(was) /\ \A i \in DOMAIN is : is[i] = was[i]
    BY <2>2, <2>4
  <2> QED BY <2>1, <2>3, <2>4 DEF Served
<1> QED BY <1>1 DEF LeftWithout

\* What the properties say of a question, from what is served of it.
LEMMA ServedIsTheRun ==
    ASSUME NEW was \in Seq(Recorded), NEW is \in Seq(Recorded \cup {"unrecorded"}), NEW left \in Leftovers,
           Served(was, is, left) \/ LeftWithout(was, is)
    PROVE  /\ \A i \in DOMAIN is :
                 \/ i \in DOMAIN was /\ is[i] = was[i]
                 \/ i > Len(was) /\ is[i] = "unrecorded"
                 \/ i > Len(was) /\ was # <<>> /\ Same(was) /\ is[i] = was[1]
           /\ Served(was, is, left) /\ (IF left.is = "fixed" THEN left.asked ELSE left.queue = <<>>) =>
                 Len(is) >= Len(was) \/ (is # <<>> /\ Same(was))
<1>0. left.queue \in Seq(Recorded) /\ Len(was) \in Nat /\ Len(is) \in Nat
      /\ DOMAIN was = 1 .. Len(was) /\ DOMAIN is = 1 .. Len(is) /\ Len(<<>>) = 0
  BY DEF Leftovers
<1>1. CASE left.is = "absent" /\ was = <<>> /\ is = <<>>
  BY <1>0, <1>1
<1>2. CASE /\ left.is = "fixed" /\ left.queue = <<was[1]>> /\ was # <<>> /\ Same(was)
           /\ \A i \in DOMAIN is : is[i] = was[1]
           /\ left.asked => is # <<>>
  <2>1. 1 \in DOMAIN was
    BY <1>2, EmptySeq
  <2>2. \A i \in DOMAIN was : was[i] = was[1]
    BY <1>2, <2>1 DEF Same
  <2>3. \A i \in DOMAIN is : i \in DOMAIN was \/ i > Len(was)
    BY <1>0
  <2> QED BY <1>2, <2>2, <2>3
<1>3. CASE /\ left.is = "ordered" /\ Len(is) + Len(left.queue) = Len(was)
           /\ \A i \in DOMAIN is : is[i] = was[i]
  <2>1. \A k, l, m \in Nat : k + l = m => 1 .. k \subseteq 1 .. m /\ (l = 0 => k = m)
    OBVIOUS
  <2>6. Len(left.queue) \in Nat
    BY <1>0
  <2>2. Len(left.queue) \in Nat /\ Len(is) + Len(left.queue) = Len(was)
    BY <2>6, <1>3, Zenon
  <2>3. 1 .. Len(is) \subseteq 1 .. Len(was) /\ (Len(left.queue) = 0 => Len(is) = Len(was))
    BY <1>0, <2>1, <2>2
  <2>4. \A i \in DOMAIN is : i \in DOMAIN was
    BY <1>0, <2>3
  <2>5. left.queue = <<>> => Len(is) >= Len(was)
    BY <1>0, <2>3
  <2> QED BY <1>3, <2>4, <2>5
<1>4. ASSUME LeftWithout(was, is), NEW i \in DOMAIN is
      PROVE  (i \in DOMAIN was /\ is[i] = was[i]) \/ (i > Len(was) /\ is[i] = "unrecorded")
  BY <1>0, <1>4 DEF LeftWithout
<1>5. CASE Served(was, is, left)
  BY <1>1, <1>2, <1>3, <1>5 DEF Served
<1>6. CASE ~Served(was, is, left)
  BY <1>4, <1>6
<1> QED BY <1>5, <1>6

LEMMA RecordingBegins == RecInit => RecordingIInv
<1> SUFFICES ASSUME RecInit PROVE RecordingIInv
  OBVIOUS
<1>1. /\ recPc = "recording" /\ kind \in Kinds /\ log = [q \in Questions |-> <<>>] /\ document = log
      /\ seen = log /\ answers = [q \in Questions |-> Absent] /\ recExit = "none"
  BY DEF RecInit
<1>2. "env" \in Kinds /\ Questions = {"env", kind}
  BY DEF Kinds, LiveAnswers, Questions
<1>3. outside \in [Questions -> Replies]
  <2>1. PICK a \in LiveAnswers["env"], b \in LiveAnswers[kind] :
           outside = IF kind = "env" THEN [env |-> a]
                     ELSE [q \in Questions |-> IF q = "env" THEN a ELSE b]
    BY DEF RecInit
  <2>2. a \in Replies /\ b \in Replies
    BY <1>1, <1>2 DEF Replies
  <2>3. CASE kind = "env"
    <3>1. outside = [q \in {"env"} |-> a]
      BY <2>1, <2>3
    <3> QED BY <1>2, <2>2, <2>3, <3>1
  <2>4. CASE kind # "env"
    BY <2>1, <2>2, <2>4
  <2> QED BY <2>3, <2>4
<1>4. Absent \in Leftovers /\ <<>> \in Seq(Recorded) /\ <<>> \in Seq(Inputs)
      /\ <<>> \in Seq(Recorded \cup {"unrecorded"})
  BY EmptySeq DEF Absent, Leftovers
<1>5. RecordingTypes
  BY <1>1, <1>3, <1>4 DEF RecordingTypes
<1>6. \A q \in Questions : QuestionHolds(q)
  BY <1>1 DEF QuestionHolds
<1> QED BY <1>1, <1>5, <1>6 DEF RecordingIInv

LEMMA OutsideKeeps == RecordingIInv /\ OutsideChanges => RecordingIInv'
<1> SUFFICES ASSUME RecordingIInv, OutsideChanges PROVE RecordingIInv'
  OBVIOUS
<1>1. /\ UNCHANGED <<recPc, kind, log, document, answers, seen, recExit>>
      /\ Questions' = Questions /\ Unused' = Unused
  BY DEF OutsideChanges, Questions, Unused
<1>2. outside' \in [Questions -> Replies]
  <2>1. PICK a \in LiveAnswers[kind] : outside' = [outside EXCEPT ![kind] = a]
    BY DEF OutsideChanges
  <2>2. a \in Replies
    BY DEF RecordingIInv, RecordingTypes, Replies
  <2> QED BY <2>1, <2>2 DEF RecordingIInv, RecordingTypes
<1>3. RecordingTypes'
  BY <1>1, <1>2 DEF RecordingIInv, RecordingTypes
<1>4. \A q \in Questions : QuestionHolds(q)'
  BY <1>1 DEF RecordingIInv, QuestionHolds
<1> QED BY <1>1, <1>3, <1>4 DEF RecordingIInv

LEMMA AskRecordedKeeps == ASSUME RecordingIInv, NEW q \in Questions, AskRecorded(q) PROVE RecordingIInv'
<1>1. /\ recPc = "recording" /\ UNCHANGED <<recPc, kind, outside, document, answers, seen, recExit>>
      /\ log' = [log EXCEPT ![q] = Append(@, RecordAnswer(q))]
      /\ Questions' = Questions /\ Unused' = Unused
  BY DEF AskRecorded, Questions, Unused
<1>2. RecordAnswer(q) \in Recorded
  <2>1. q \in Kinds
    BY DEF RecordingIInv, RecordingTypes, Questions, Kinds, LiveAnswers
  <2>2. outside[q] \in Replies
    BY DEF RecordingIInv, RecordingTypes
  <2> QED BY <2>1, <2>2 DEF RecordAnswer, Recorded
<1>3. log' \in [Questions -> Seq(Recorded)]
  BY <1>1, <1>2 DEF RecordingIInv, RecordingTypes
<1>4. RecordingTypes'
  BY <1>1, <1>3 DEF RecordingIInv, RecordingTypes
<1>5. \A p \in Questions : QuestionHolds(p)'
  BY <1>1 DEF RecordingIInv, QuestionHolds
<1> QED BY <1>1, <1>4, <1>5 DEF RecordingIInv

LEMMA OpenModeKeeps == RecordingIInv /\ OpenMode => RecordingIInv'
<1> SUFFICES ASSUME RecordingIInv, OpenMode PROVE RecordingIInv'
  OBVIOUS
<1>1. /\ recPc = "recording" /\ recPc' = "loading" /\ UNCHANGED <<kind, outside, log, answers, seen, recExit>>
      /\ Questions' = Questions /\ Unused' = Unused
      /\ document' \in {[q \in Questions |-> Grouped(log[q])], [q \in Questions |-> Ungrouped(log[q])]}
  BY DEF OpenMode, Questions, Unused
<1>2. ASSUME NEW q \in Questions
      PROVE  /\ Grouped(log[q]) \in Seq(Inputs) /\ Ungrouped(log[q]) \in Seq(Inputs)
             /\ ToLoad(log[q], Grouped(log[q]), Absent) /\ ToLoad(log[q], Ungrouped(log[q]), Absent)
  <2> DEFINE was == log[q]
  <2>1. was \in Seq(Recorded) /\ DOMAIN was = 1 .. Len(was) /\ Len(was) \in Nat
    BY DEF RecordingIInv, RecordingTypes
  <2>2. Grouped(was) \in Seq(Inputs)
    <3>1. CASE was = <<>>
      BY <3>1, EmptySeq DEF Grouped
    <3>2. CASE was # <<>> /\ Same(was)
      <4>1. was[1] \in Recorded
        BY <2>1, <3>2, EmptySeq
      <4>2. [list |-> FALSE, responses |-> <<was[1]>>] \in Inputs
        BY <4>1 DEF Inputs
      <4> QED BY <3>2, <4>2 DEF Grouped
    <3>3. CASE was # <<>> /\ ~Same(was)
      <4>1. [list |-> TRUE, responses |-> was] \in Inputs
        BY <2>1 DEF Inputs
      <4> QED BY <3>3, <4>1 DEF Grouped
    <3> QED BY <3>1, <3>2, <3>3
  <2>3. /\ Ungrouped(was) \in Seq(Inputs) /\ Len(Ungrouped(was)) = Len(was)
        /\ \A i \in DOMAIN Ungrouped(was) :
              Ungrouped(was)[i].list = FALSE /\ Ungrouped(was)[i].responses = <<was[i]>>
    <3>1. \A i \in DOMAIN was : [list |-> FALSE, responses |-> <<was[i]>>] \in Inputs
      BY <2>1 DEF Inputs
    <3> QED BY <2>1, <3>1 DEF Ungrouped
  <2>4. ToLoad(was, Grouped(was), Absent)
    BY DEF ToLoad
  <2>5. ToLoad(was, Ungrouped(was), Absent)
    <3>1. Absent.queue = <<>> /\ Absent.is = "absent" /\ ~Absent.asked /\ Len(<<>>) = 0 /\ DOMAIN <<>> = {}
      BY DEF Absent
    <3>2. \A i \in DOMAIN Ungrouped(was) : i \in Nat /\ 0 + i = i
      BY <2>3
    <3>3. /\ Len(Absent.queue) + Len(Ungrouped(was)) = Len(was)
          /\ \A i \in DOMAIN Ungrouped(was) : Ungrouped(was)[i].responses = <<was[Len(Absent.queue) + i]>>
      BY <2>1, <2>3, <3>1, <3>2
    <3> HIDE DEF was
    <3> QED BY <2>3, <3>1, <3>3 DEF ToLoad
  <2> QED BY <2>2, <2>3, <2>4, <2>5
<1>3. document' \in [Questions -> Seq(Inputs)]
  BY <1>1, <1>2
<1>4. RecordingTypes'
  BY <1>1, <1>3 DEF RecordingIInv, RecordingTypes
<1>5. ASSUME NEW q \in Questions PROVE QuestionHolds(q)'
  <2>1. answers[q] = Absent /\ seen[q] = <<>>
    BY <1>1 DEF RecordingIInv, QuestionHolds
  <2>2. document'[q] = Grouped(log[q]) \/ document'[q] = Ungrouped(log[q])
    BY <1>1
  <2>3. ToLoad(log'[q], document'[q], answers'[q]) /\ seen'[q] = <<>>
    BY <1>1, <1>2, <2>1, <2>2
  <2> QED BY <1>1, <2>3 DEF QuestionHolds
<1> QED BY <1>1, <1>4, <1>5 DEF RecordingIInv

LEMMA LoadKeeps == ASSUME RecordingIInv, NEW q \in Questions, LoadReplay(q) PROVE RecordingIInv'
<1>1. /\ recPc = "loading" /\ document[q] # <<>>
      /\ UNCHANGED <<recPc, kind, outside, log, seen, recExit>> /\ Questions' = Questions
      /\ answers' = [answers EXCEPT ![q] = Loaded(answers[q], Head(document[q]))]
      /\ document' = [document EXCEPT ![q] = Tail(document[q])]
  BY DEF LoadReplay, Questions
<1>2. /\ log[q] \in Seq(Recorded) /\ document[q] \in Seq(Inputs) /\ answers[q] \in Leftovers
      /\ ToLoad(log[q], document[q], answers[q]) /\ seen[q] = <<>>
  BY <1>1 DEF RecordingIInv, RecordingTypes, QuestionHolds
<1>3. /\ ToLoad(log[q], Tail(document[q]), Loaded(answers[q], Head(document[q])))
      /\ Tail(document[q]) \in Seq(Inputs) /\ Loaded(answers[q], Head(document[q])) \in Leftovers
  BY <1>1, <1>2, LoadedGoesOn
<1>4. answers' \in [Questions -> Leftovers] /\ document' \in [Questions -> Seq(Inputs)]
  BY <1>1, <1>3 DEF RecordingIInv, RecordingTypes
<1>5. RecordingTypes'
  BY <1>1, <1>4 DEF RecordingIInv, RecordingTypes
<1>6. ASSUME NEW p \in Questions PROVE QuestionHolds(p)'
  <2>1. CASE p = q
    <3>1. answers'[q] = Loaded(answers[q], Head(document[q])) /\ document'[q] = Tail(document[q])
      BY <1>1 DEF RecordingIInv, RecordingTypes
    <3>2. ToLoad(log'[q], document'[q], answers'[q]) /\ seen'[q] = <<>>
      BY <1>1, <1>2, <1>3, <3>1
    <3> QED BY <1>1, <2>1, <3>2 DEF QuestionHolds
  <2>2. CASE p # q
    <3>1. answers'[p] = answers[p] /\ document'[p] = document[p]
      BY <1>1, <2>2 DEF RecordingIInv, RecordingTypes
    <3> QED BY <1>1, <3>1 DEF RecordingIInv, QuestionHolds
  <2> QED BY <2>1, <2>2
<1>7. recExit = "none"
  BY <1>1 DEF RecordingIInv
<1> QED BY <1>1, <1>5, <1>6, <1>7 DEF RecordingIInv

LEMMA ReplayLoadedKeeps == RecordingIInv /\ ReplayLoaded => RecordingIInv'
<1> SUFFICES ASSUME RecordingIInv, ReplayLoaded PROVE RecordingIInv'
  OBVIOUS
<1>1. /\ recPc = "loading" /\ recPc' = "replaying" /\ \A q \in Questions : document[q] = <<>>
      /\ UNCHANGED <<kind, outside, log, document, answers, seen, recExit>>
      /\ Questions' = Questions /\ Unused' = Unused
  BY DEF ReplayLoaded, Questions, Unused
<1>2. RecordingTypes'
  BY <1>1 DEF RecordingIInv, RecordingTypes
<1>3. ASSUME NEW q \in Questions PROVE QuestionHolds(q)'
  <2>1. /\ log[q] \in Seq(Recorded) /\ answers[q] \in Leftovers /\ document[q] = <<>>
        /\ ToLoad(log[q], <<>>, answers[q]) /\ seen[q] = <<>>
    <3>1. document[q] = <<>>
      BY <1>1
    <3>2. ToLoad(log[q], document[q], answers[q]) /\ seen[q] = <<>>
      BY <1>1 DEF RecordingIInv, QuestionHolds
    <3>3. log[q] \in Seq(Recorded) /\ answers[q] \in Leftovers
      BY DEF RecordingIInv, RecordingTypes
    <3> QED BY <3>1, <3>2, <3>3
  <2>2. Served(log[q], <<>>, answers[q])
    BY <2>1, AllIsLoaded
  <2>3. document'[q] = <<>> /\ Served(log'[q], seen'[q], answers'[q])
    BY <1>1, <2>1, <2>2
  <2> QED BY <1>1, <2>3 DEF QuestionHolds
<1>4. recExit = "none"
  BY <1>1 DEF RecordingIInv
<1> QED BY <1>1, <1>2, <1>3, <1>4 DEF RecordingIInv

LEMMA AskReplayedKeeps == ASSUME RecordingIInv, NEW q \in Questions, AskReplayed(q) PROVE RecordingIInv'
<1>1. recPc = "replaying" /\ UNCHANGED <<kind, outside, log, document>> /\ Questions' = Questions
      /\ recExit = "none"
  BY DEF AskReplayed, Questions, RecordingIInv
<1>2. /\ log[q] \in Seq(Recorded) /\ seen[q] \in Seq(Recorded \cup {"unrecorded"}) /\ answers[q] \in Leftovers
      /\ document[q] = <<>> /\ Served(log[q], seen[q], answers[q])
  <2>1. QuestionHolds(q) /\ RecordingTypes
    BY DEF RecordingIInv
  <2> QED BY <1>1, <2>1 DEF RecordingTypes, QuestionHolds
<1>3. CASE Lacks(q)
  <2>1. /\ recPc' = "ended" /\ recExit' = "unrecorded" /\ UNCHANGED answers
        /\ seen' = [seen EXCEPT ![q] = Append(seen[q], "unrecorded")]
    BY <1>3 DEF AskReplayed
  <2>2. LeftWithout(log[q], Append(seen[q], "unrecorded"))
    BY <1>2, <1>3, LacksNoMore DEF Lacks
  <2>3. Append(seen[q], "unrecorded") \in Seq(Recorded \cup {"unrecorded"})
    BY <1>2
  <2>4. seen' \in [Questions -> Seq(Recorded \cup {"unrecorded"})]
    BY <2>1, <2>3 DEF RecordingIInv, RecordingTypes
  <2>5. RecordingTypes'
    BY <1>1, <2>1, <2>4 DEF RecordingIInv, RecordingTypes
  <2>6. ASSUME NEW p \in Questions PROVE QuestionHolds(p)'
    <3>1. QuestionHolds(p)
      BY DEF RecordingIInv
    <3>2. CASE p = q
      <4>1. seen'[q] = Append(seen[q], "unrecorded")
        BY <2>1 DEF RecordingIInv, RecordingTypes
      <4>2. LeftWithout(log'[q], seen'[q])
        BY <1>1, <2>2, <4>1
      <4> QED BY <1>1, <1>2, <2>1, <3>2, <4>2 DEF QuestionHolds
    <3>3. CASE p # q
      <4>1. seen'[p] = seen[p]
        BY <2>1, <3>3 DEF RecordingIInv, RecordingTypes
      <4>2. document[p] = <<>> /\ Served(log[p], seen[p], answers[p])
        BY <1>1, <3>1 DEF QuestionHolds
      <4>3. document'[p] = <<>> /\ Served(log'[p], seen'[p], answers'[p])
        BY <1>1, <2>1, <4>1, <4>2
      <4> QED BY <2>1, <4>3 DEF QuestionHolds
    <3> QED BY <3>2, <3>3
  <2> QED BY <1>1, <2>1, <2>5, <2>6 DEF RecordingIInv
<1>4. CASE ~Lacks(q)
  <2> DEFINE left == answers[q]
             next == IF left.is = "fixed" THEN [left EXCEPT !.asked = TRUE]
                     ELSE [left EXCEPT !.queue = Tail(@)]
  <2>1. /\ UNCHANGED <<recPc, recExit>>
        /\ seen' = [seen EXCEPT ![q] = Append(seen[q], Head(left.queue))]
        /\ answers' = [answers EXCEPT ![q] = next]
    BY <1>4 DEF AskReplayed, Serves
  <2>2. /\ Served(log[q], Append(seen[q], Head(left.queue)), next)
        /\ Head(left.queue) \in Recorded /\ next \in Leftovers
    BY <1>2, <1>4, ServedGoesOn DEF Lacks
  <2> HIDE DEF next
  <2>3. Append(seen[q], Head(left.queue)) \in Seq(Recorded \cup {"unrecorded"})
    BY <1>2, <2>2
  <2>4. seen' \in [Questions -> Seq(Recorded \cup {"unrecorded"})] /\ answers' \in [Questions -> Leftovers]
    BY <2>1, <2>2, <2>3 DEF RecordingIInv, RecordingTypes
  <2>5. RecordingTypes'
    BY <1>1, <2>1, <2>4 DEF RecordingIInv, RecordingTypes
  <2>6. ASSUME NEW p \in Questions PROVE QuestionHolds(p)'
    <3>1. QuestionHolds(p)
      BY DEF RecordingIInv
    <3>2. CASE p = q
      <4>1. seen'[q] = Append(seen[q], Head(left.queue)) /\ answers'[q] = next
        BY <2>1 DEF RecordingIInv, RecordingTypes
      <4>2. document'[q] = <<>> /\ Served(log'[q], seen'[q], answers'[q])
        BY <1>1, <1>2, <2>2, <4>1
      <4> QED BY <1>1, <2>1, <3>2, <4>2 DEF QuestionHolds
    <3>3. CASE p # q
      <4>1. seen'[p] = seen[p] /\ answers'[p] = answers[p]
        BY <2>1, <3>3 DEF RecordingIInv, RecordingTypes
      <4>2. document[p] = <<>> /\ Served(log[p], seen[p], answers[p])
        BY <1>1, <3>1 DEF QuestionHolds
      <4>3. document'[p] = <<>> /\ Served(log'[p], seen'[p], answers'[p])
        BY <1>1, <4>1, <4>2
      <4> QED BY <1>1, <2>1, <4>3 DEF QuestionHolds
    <3> QED BY <3>2, <3>3
  <2> QED BY <1>1, <2>1, <2>5, <2>6 DEF RecordingIInv
<1> QED BY <1>3, <1>4

LEMMA FinishKeeps == ASSUME RecordingIInv, NEW strict \in BOOLEAN, Finish(strict) PROVE RecordingIInv'
<1>1. /\ recPc = "replaying" /\ recPc' = "ended" /\ UNCHANGED <<kind, outside, log, document, answers, seen>>
      /\ recExit' = CASE Unused = {} -> "code" [] strict -> "unconsumed" [] OTHER -> "code, warned"
      /\ recExit = "none" /\ Questions' = Questions /\ Unused' = Unused
  BY DEF Finish, Questions, Unused, RecordingIInv
<1>2. RecordingTypes'
  BY <1>1 DEF RecordingIInv, RecordingTypes
<1>3. recExit' = "code" => Unused' = {}
  BY <1>1
<1>4. ASSUME NEW q \in Questions PROVE QuestionHolds(q)'
  <2>1. QuestionHolds(q)
    BY DEF RecordingIInv
  <2>2. document[q] = <<>> /\ Served(log[q], seen[q], answers[q])
    BY <1>1, <2>1 DEF QuestionHolds
  <2>3. document'[q] = <<>> /\ Served(log'[q], seen'[q], answers'[q])
    BY <1>1, <2>2
  <2> QED BY <1>1, <2>3 DEF QuestionHolds
<1> QED BY <1>1, <1>2, <1>3, <1>4 DEF RecordingIInv

LEMMA RecordingKeeps == RecordingIInv /\ (RecNext \/ UNCHANGED recVars) => RecordingIInv'
<1> SUFFICES ASSUME RecordingIInv, RecNext \/ UNCHANGED recVars PROVE RecordingIInv'
  OBVIOUS
<1>1. CASE UNCHANGED recVars
  <2>1. UNCHANGED <<recPc, kind, outside, log, document, answers, seen, recExit>>
        /\ Questions' = Questions /\ Unused' = Unused
    BY <1>1 DEF recVars, Questions, Unused
  <2>2. RecordingTypes'
    BY <2>1 DEF RecordingIInv, RecordingTypes
  <2>3. \A q \in Questions : QuestionHolds(q)'
    BY <2>1 DEF RecordingIInv, QuestionHolds
  <2> QED BY <2>1, <2>2, <2>3 DEF RecordingIInv
<1>2. CASE RecNext
  BY <1>2, OutsideKeeps, AskRecordedKeeps, OpenModeKeeps, LoadKeeps, ReplayLoadedKeeps, AskReplayedKeeps,
     FinishKeeps DEF RecNext
<1> QED BY <1>1, <1>2

LEMMA RecordingIsRight == RecordingIInv => ReplayIsTheRun
<1> SUFFICES ASSUME RecordingIInv, NEW q \in Questions
             PROVE  /\ \A i \in DOMAIN seen[q] :
                          \/ i \in DOMAIN log[q] /\ seen[q][i] = log[q][i]
                          \/ i > Len(log[q]) /\ seen[q][i] = "unrecorded"
                          \/ i > Len(log[q]) /\ log[q] # <<>> /\ Same(log[q]) /\ seen[q][i] = log[q][1]
                    /\ recExit = "code" => \/ Len(seen[q]) >= Len(log[q])
                                           \/ seen[q] # <<>> /\ Same(log[q])
  BY DEF ReplayIsTheRun
<1>1. /\ log[q] \in Seq(Recorded) /\ seen[q] \in Seq(Recorded \cup {"unrecorded"}) /\ answers[q] \in Leftovers
      /\ recPc \in {"recording", "loading", "replaying", "ended"} /\ QuestionHolds(q)
  BY DEF RecordingIInv, RecordingTypes
<1>2. CASE recPc \in {"recording", "loading"}
  <2>1. seen[q] = <<>> /\ recExit = "none"
    BY <1>1, <1>2 DEF RecordingIInv, QuestionHolds
  <2> QED BY <2>1
<1>3. CASE recPc \in {"replaying", "ended"}
  <2>1. \/ Served(log[q], seen[q], answers[q])
        \/ recExit = "unrecorded" /\ LeftWithout(log[q], seen[q])
    BY <1>1, <1>3 DEF QuestionHolds
  <2>2. recExit = "code" => IF answers[q].is = "fixed" THEN answers[q].asked ELSE answers[q].queue = <<>>
    BY DEF RecordingIInv, Unused
  <2>3. recExit = "code" => Served(log[q], seen[q], answers[q])
    BY <2>1
  <2> QED BY <1>1, <2>1, <2>2, <2>3, ServedIsTheRun
<1> QED BY <1>1, <1>2, <1>3

-----------------------------------------------------------------------------
(* The keymap, and the keys that are read in it.                           *)
\* The modifiers that whykey keeps of a type.
LEMMA KeptModifiers ==
    /\ \A names : names \subseteq {"Shift", "Lock", "LevelThree", "NumLock"} => ParseTypeModifiers(names) = names
    /\ ParseTypeModifiers({"Control", "Alt"}) = {"OTHER"}
    /\ ParseTypeModifiers({"Shift", "Control", "Alt", "LevelThree"}) = {"Shift", "OTHER", "LevelThree"}
<1>1. ASSUME NEW names, names \subseteq {"Shift", "Lock", "LevelThree", "NumLock"} PROVE ParseTypeModifiers(names) = names
  BY <1>1 DEF ParseTypeModifiers
<1>2. ParseTypeModifiers({"Control", "Alt"}) = {"OTHER"}
  BY DEF ParseTypeModifiers
<1>3. ParseTypeModifiers({"Shift", "Control", "Alt", "LevelThree"}) = {"Shift", "OTHER", "LevelThree"}
  BY DEF ParseTypeModifiers
<1> QED BY <1>1, <1>2, <1>3

\* xkb.rs: the types of the keymap as whykey reads them.
LEMMA TypesRead ==
    /\ KeyTypes["ONE_LEVEL"].modifiers = {}
    /\ KeyTypes["ONE_LEVEL"].map = {}
    /\ KeyTypes["TWO_LEVEL"].modifiers = {"Shift"}
    /\ KeyTypes["TWO_LEVEL"].map = {<<{"Shift"}, 2>>}
    /\ KeyTypes["ALPHABETIC"].modifiers = {"Shift", "Lock"}
    /\ KeyTypes["ALPHABETIC"].map = {<<{"Shift"}, 2>>, <<{"Lock"}, 2>>}
    /\ KeyTypes["KEYPAD"].modifiers = {"Shift", "NumLock"}
    /\ KeyTypes["KEYPAD"].map = {<<{"Shift"}, 2>>, <<{"NumLock"}, 2>>}
    /\ KeyTypes["FOUR_LEVEL"].modifiers = {"Shift", "LevelThree"}
    /\ KeyTypes["FOUR_LEVEL"].map = {<<{"Shift"}, 2>>, <<{"LevelThree"}, 3>>, <<{"Shift", "LevelThree"}, 4>>}
    /\ KeyTypes["FOUR_LEVEL_ALPHABETIC"].modifiers = {"Shift", "Lock", "LevelThree"}
    /\ KeyTypes["FOUR_LEVEL_ALPHABETIC"].map = {<<{"Shift"}, 2>>, <<{"Lock"}, 2>>, <<{"LevelThree"}, 3>>,
            <<{"Shift", "LevelThree"}, 4>>, <<{"Lock", "LevelThree"}, 4>>, <<{"Shift", "Lock", "LevelThree"}, 3>>}
    /\ KeyTypes["FOUR_LEVEL_SEMIALPHABETIC"].modifiers = {"Shift", "Lock", "LevelThree"}
    /\ KeyTypes["FOUR_LEVEL_SEMIALPHABETIC"].map = {<<{"Shift"}, 2>>, <<{"Lock"}, 2>>, <<{"LevelThree"}, 3>>,
            <<{"Shift", "LevelThree"}, 4>>, <<{"Lock", "LevelThree"}, 3>>, <<{"Shift", "Lock", "LevelThree"}, 4>>}
    /\ KeyTypes["CTRL+ALT"].modifiers = {"Shift", "OTHER", "LevelThree"}
    /\ KeyTypes["CTRL+ALT"].map = {<<{"Shift"}, 2>>, <<{"LevelThree"}, 3>>, <<{"Shift", "LevelThree"}, 4>>,
            <<{"OTHER"}, 5>>}
<1>1. \A t \in DOMAIN PrintedTypes :
         /\ KeyTypes[t].modifiers = ParseTypeModifiers(PrintedTypes[t].modifiers)
         /\ KeyTypes[t].map = {<<ParseTypeModifiers(entry[1]), entry[2]>> : entry \in PrintedTypes[t].map}
  BY DEF KeyTypes
<1>2. /\ KeyTypes["ONE_LEVEL"].modifiers = {}
      /\ KeyTypes["ONE_LEVEL"].map = {}
  <2>1. "ONE_LEVEL" \in DOMAIN PrintedTypes /\ PrintedTypes["ONE_LEVEL"] = PrintedType({}, {})
    BY DEF PrintedTypes
  <2>2. PrintedTypes["ONE_LEVEL"].modifiers = {} /\ PrintedTypes["ONE_LEVEL"].map = {}
    BY <2>1 DEF PrintedType
  <2>3. KeyTypes["ONE_LEVEL"].map = {<<ParseTypeModifiers(entry[1]), entry[2]>> : entry \in {}}
    BY <1>1, <2>1, <2>2
  <2>4. KeyTypes["ONE_LEVEL"].modifiers = ParseTypeModifiers({})
    BY <1>1, <2>1, <2>2
  <2>5. ParseTypeModifiers({}) = {}
    BY KeptModifiers
  <2>6. {<<ParseTypeModifiers(entry[1]), entry[2]>> : entry \in {}} = {}
    BY <2>5
  <2> QED BY <2>3, <2>4, <2>5, <2>6
<1>3. /\ KeyTypes["TWO_LEVEL"].modifiers = {"Shift"}
      /\ KeyTypes["TWO_LEVEL"].map = {<<{"Shift"}, 2>>}
  <2>1. "TWO_LEVEL" \in DOMAIN PrintedTypes /\ PrintedTypes["TWO_LEVEL"] = PrintedType({"Shift"}, {<<{"Shift"}, 2>>})
    BY DEF PrintedTypes
  <2>2. PrintedTypes["TWO_LEVEL"].modifiers = {"Shift"} /\ PrintedTypes["TWO_LEVEL"].map = {<<{"Shift"}, 2>>}
    BY <2>1 DEF PrintedType
  <2>3. KeyTypes["TWO_LEVEL"].map = {<<ParseTypeModifiers(entry[1]), entry[2]>> : entry \in {<<{"Shift"}, 2>>}}
    BY <1>1, <2>1, <2>2
  <2>4. KeyTypes["TWO_LEVEL"].modifiers = ParseTypeModifiers({"Shift"})
    BY <1>1, <2>1, <2>2
  <2>5. ParseTypeModifiers({"Shift"}) = {"Shift"} /\ ParseTypeModifiers({"Shift"}) = {"Shift"}
    BY KeptModifiers
  <2>6. {<<ParseTypeModifiers(entry[1]), entry[2]>> : entry \in {<<{"Shift"}, 2>>}} = {<<{"Shift"}, 2>>}
    BY <2>5
  <2> QED BY <2>3, <2>4, <2>5, <2>6
<1>4. /\ KeyTypes["ALPHABETIC"].modifiers = {"Shift", "Lock"}
      /\ KeyTypes["ALPHABETIC"].map = {<<{"Shift"}, 2>>, <<{"Lock"}, 2>>}
  <2>1. "ALPHABETIC" \in DOMAIN PrintedTypes /\ PrintedTypes["ALPHABETIC"] = PrintedType({"Shift", "Lock"}, {<<{"Shift"}, 2>>, <<{"Lock"}, 2>>})
    BY DEF PrintedTypes
  <2>2. PrintedTypes["ALPHABETIC"].modifiers = {"Shift", "Lock"} /\ PrintedTypes["ALPHABETIC"].map = {<<{"Shift"}, 2>>, <<{"Lock"}, 2>>}
    BY <2>1 DEF PrintedType
  <2>3. KeyTypes["ALPHABETIC"].map = {<<ParseTypeModifiers(entry[1]), entry[2]>> : entry \in {<<{"Shift"}, 2>>, <<{"Lock"}, 2>>}}
    BY <1>1, <2>1, <2>2
  <2>4. KeyTypes["ALPHABETIC"].modifiers = ParseTypeModifiers({"Shift", "Lock"})
    BY <1>1, <2>1, <2>2
  <2>5. ParseTypeModifiers({"Shift", "Lock"}) = {"Shift", "Lock"} /\ ParseTypeModifiers({"Shift"}) = {"Shift"} /\ ParseTypeModifiers({"Lock"}) = {"Lock"}
    BY KeptModifiers
  <2>6. {<<ParseTypeModifiers(entry[1]), entry[2]>> : entry \in {<<{"Shift"}, 2>>, <<{"Lock"}, 2>>}} = {<<{"Shift"}, 2>>, <<{"Lock"}, 2>>}
    BY <2>5
  <2> QED BY <2>3, <2>4, <2>5, <2>6
<1>5. /\ KeyTypes["KEYPAD"].modifiers = {"Shift", "NumLock"}
      /\ KeyTypes["KEYPAD"].map = {<<{"Shift"}, 2>>, <<{"NumLock"}, 2>>}
  <2>1. "KEYPAD" \in DOMAIN PrintedTypes /\ PrintedTypes["KEYPAD"] = PrintedType({"Shift", "NumLock"}, {<<{"Shift"}, 2>>, <<{"NumLock"}, 2>>})
    BY DEF PrintedTypes
  <2>2. PrintedTypes["KEYPAD"].modifiers = {"Shift", "NumLock"} /\ PrintedTypes["KEYPAD"].map = {<<{"Shift"}, 2>>, <<{"NumLock"}, 2>>}
    BY <2>1 DEF PrintedType
  <2>3. KeyTypes["KEYPAD"].map = {<<ParseTypeModifiers(entry[1]), entry[2]>> : entry \in {<<{"Shift"}, 2>>, <<{"NumLock"}, 2>>}}
    BY <1>1, <2>1, <2>2
  <2>4. KeyTypes["KEYPAD"].modifiers = ParseTypeModifiers({"Shift", "NumLock"})
    BY <1>1, <2>1, <2>2
  <2>5. ParseTypeModifiers({"Shift", "NumLock"}) = {"Shift", "NumLock"} /\ ParseTypeModifiers({"Shift"}) = {"Shift"} /\ ParseTypeModifiers({"NumLock"}) = {"NumLock"}
    BY KeptModifiers
  <2>6. {<<ParseTypeModifiers(entry[1]), entry[2]>> : entry \in {<<{"Shift"}, 2>>, <<{"NumLock"}, 2>>}} = {<<{"Shift"}, 2>>, <<{"NumLock"}, 2>>}
    BY <2>5
  <2> QED BY <2>3, <2>4, <2>5, <2>6
<1>6. /\ KeyTypes["FOUR_LEVEL"].modifiers = {"Shift", "LevelThree"}
      /\ KeyTypes["FOUR_LEVEL"].map = {<<{"Shift"}, 2>>, <<{"LevelThree"}, 3>>, <<{"Shift", "LevelThree"}, 4>>}
  <2>1. "FOUR_LEVEL" \in DOMAIN PrintedTypes /\ PrintedTypes["FOUR_LEVEL"] = PrintedType({"Shift", "LevelThree"}, {<<{"Shift"}, 2>>, <<{"LevelThree"}, 3>>, <<{"Shift", "LevelThree"}, 4>>})
    BY DEF PrintedTypes
  <2>2. PrintedTypes["FOUR_LEVEL"].modifiers = {"Shift", "LevelThree"} /\ PrintedTypes["FOUR_LEVEL"].map = {<<{"Shift"}, 2>>, <<{"LevelThree"}, 3>>, <<{"Shift", "LevelThree"}, 4>>}
    BY <2>1 DEF PrintedType
  <2>3. KeyTypes["FOUR_LEVEL"].map = {<<ParseTypeModifiers(entry[1]), entry[2]>> : entry \in {<<{"Shift"}, 2>>, <<{"LevelThree"}, 3>>, <<{"Shift", "LevelThree"}, 4>>}}
    BY <1>1, <2>1, <2>2
  <2>4. KeyTypes["FOUR_LEVEL"].modifiers = ParseTypeModifiers({"Shift", "LevelThree"})
    BY <1>1, <2>1, <2>2
  <2>5. ParseTypeModifiers({"Shift", "LevelThree"}) = {"Shift", "LevelThree"} /\ ParseTypeModifiers({"Shift"}) = {"Shift"} /\ ParseTypeModifiers({"LevelThree"}) = {"LevelThree"} /\ ParseTypeModifiers({"Shift", "LevelThree"}) = {"Shift", "LevelThree"}
    BY KeptModifiers
  <2>6. {<<ParseTypeModifiers(entry[1]), entry[2]>> : entry \in {<<{"Shift"}, 2>>, <<{"LevelThree"}, 3>>, <<{"Shift", "LevelThree"}, 4>>}} = {<<{"Shift"}, 2>>, <<{"LevelThree"}, 3>>, <<{"Shift", "LevelThree"}, 4>>}
    BY <2>5
  <2> QED BY <2>3, <2>4, <2>5, <2>6
<1>7. /\ KeyTypes["FOUR_LEVEL_ALPHABETIC"].modifiers = {"Shift", "Lock", "LevelThree"}
      /\ KeyTypes["FOUR_LEVEL_ALPHABETIC"].map = {<<{"Shift"}, 2>>, <<{"Lock"}, 2>>, <<{"LevelThree"}, 3>>, <<{"Shift", "LevelThree"}, 4>>, <<{"Lock", "LevelThree"}, 4>>, <<{"Shift", "Lock", "LevelThree"}, 3>>}
  <2>1. "FOUR_LEVEL_ALPHABETIC" \in DOMAIN PrintedTypes /\ PrintedTypes["FOUR_LEVEL_ALPHABETIC"] = PrintedType({"Shift", "Lock", "LevelThree"}, {<<{"Shift"}, 2>>, <<{"Lock"}, 2>>, <<{"LevelThree"}, 3>>, <<{"Shift", "LevelThree"}, 4>>, <<{"Lock", "LevelThree"}, 4>>, <<{"Shift", "Lock", "LevelThree"}, 3>>})
    BY DEF PrintedTypes
  <2>2. PrintedTypes["FOUR_LEVEL_ALPHABETIC"].modifiers = {"Shift", "Lock", "LevelThree"} /\ PrintedTypes["FOUR_LEVEL_ALPHABETIC"].map = {<<{"Shift"}, 2>>, <<{"Lock"}, 2>>, <<{"LevelThree"}, 3>>, <<{"Shift", "LevelThree"}, 4>>, <<{"Lock", "LevelThree"}, 4>>, <<{"Shift", "Lock", "LevelThree"}, 3>>}
    BY <2>1 DEF PrintedType
  <2>3. KeyTypes["FOUR_LEVEL_ALPHABETIC"].map = {<<ParseTypeModifiers(entry[1]), entry[2]>> : entry \in {<<{"Shift"}, 2>>, <<{"Lock"}, 2>>, <<{"LevelThree"}, 3>>, <<{"Shift", "LevelThree"}, 4>>, <<{"Lock", "LevelThree"}, 4>>, <<{"Shift", "Lock", "LevelThree"}, 3>>}}
    BY <1>1, <2>1, <2>2
  <2>4. KeyTypes["FOUR_LEVEL_ALPHABETIC"].modifiers = ParseTypeModifiers({"Shift", "Lock", "LevelThree"})
    BY <1>1, <2>1, <2>2
  <2>5. ParseTypeModifiers({"Shift", "Lock", "LevelThree"}) = {"Shift", "Lock", "LevelThree"} /\ ParseTypeModifiers({"Shift"}) = {"Shift"} /\ ParseTypeModifiers({"Lock"}) = {"Lock"} /\ ParseTypeModifiers({"LevelThree"}) = {"LevelThree"} /\ ParseTypeModifiers({"Shift", "LevelThree"}) = {"Shift", "LevelThree"} /\ ParseTypeModifiers({"Lock", "LevelThree"}) = {"Lock", "LevelThree"} /\ ParseTypeModifiers({"Shift", "Lock", "LevelThree"}) = {"Shift", "Lock", "LevelThree"}
    BY KeptModifiers
  <2>6. {<<ParseTypeModifiers(entry[1]), entry[2]>> : entry \in {<<{"Shift"}, 2>>, <<{"Lock"}, 2>>, <<{"LevelThree"}, 3>>, <<{"Shift", "LevelThree"}, 4>>, <<{"Lock", "LevelThree"}, 4>>, <<{"Shift", "Lock", "LevelThree"}, 3>>}} = {<<{"Shift"}, 2>>, <<{"Lock"}, 2>>, <<{"LevelThree"}, 3>>, <<{"Shift", "LevelThree"}, 4>>, <<{"Lock", "LevelThree"}, 4>>, <<{"Shift", "Lock", "LevelThree"}, 3>>}
    <3> DEFINE S == {<<{"Shift"}, 2>>, <<{"Lock"}, 2>>, <<{"LevelThree"}, 3>>, <<{"Shift", "LevelThree"}, 4>>, <<{"Lock", "LevelThree"}, 4>>, <<{"Shift", "Lock", "LevelThree"}, 3>>}
    <3>1. \A entry \in S : <<ParseTypeModifiers(entry[1]), entry[2]>> = entry
      BY <2>5
    <3> HIDE DEF S
    <3>2. {<<ParseTypeModifiers(entry[1]), entry[2]>> : entry \in S} = S
      BY <3>1
    <3> QED BY <3>2 DEF S
  <2> QED BY <2>3, <2>4, <2>5, <2>6
<1>8. /\ KeyTypes["FOUR_LEVEL_SEMIALPHABETIC"].modifiers = {"Shift", "Lock", "LevelThree"}
      /\ KeyTypes["FOUR_LEVEL_SEMIALPHABETIC"].map = {<<{"Shift"}, 2>>, <<{"Lock"}, 2>>, <<{"LevelThree"}, 3>>, <<{"Shift", "LevelThree"}, 4>>, <<{"Lock", "LevelThree"}, 3>>, <<{"Shift", "Lock", "LevelThree"}, 4>>}
  <2>1. "FOUR_LEVEL_SEMIALPHABETIC" \in DOMAIN PrintedTypes /\ PrintedTypes["FOUR_LEVEL_SEMIALPHABETIC"] = PrintedType({"Shift", "Lock", "LevelThree"}, {<<{"Shift"}, 2>>, <<{"Lock"}, 2>>, <<{"LevelThree"}, 3>>, <<{"Shift", "LevelThree"}, 4>>, <<{"Lock", "LevelThree"}, 3>>, <<{"Shift", "Lock", "LevelThree"}, 4>>})
    BY DEF PrintedTypes
  <2>2. PrintedTypes["FOUR_LEVEL_SEMIALPHABETIC"].modifiers = {"Shift", "Lock", "LevelThree"} /\ PrintedTypes["FOUR_LEVEL_SEMIALPHABETIC"].map = {<<{"Shift"}, 2>>, <<{"Lock"}, 2>>, <<{"LevelThree"}, 3>>, <<{"Shift", "LevelThree"}, 4>>, <<{"Lock", "LevelThree"}, 3>>, <<{"Shift", "Lock", "LevelThree"}, 4>>}
    BY <2>1 DEF PrintedType
  <2>3. KeyTypes["FOUR_LEVEL_SEMIALPHABETIC"].map = {<<ParseTypeModifiers(entry[1]), entry[2]>> : entry \in {<<{"Shift"}, 2>>, <<{"Lock"}, 2>>, <<{"LevelThree"}, 3>>, <<{"Shift", "LevelThree"}, 4>>, <<{"Lock", "LevelThree"}, 3>>, <<{"Shift", "Lock", "LevelThree"}, 4>>}}
    BY <1>1, <2>1, <2>2
  <2>4. KeyTypes["FOUR_LEVEL_SEMIALPHABETIC"].modifiers = ParseTypeModifiers({"Shift", "Lock", "LevelThree"})
    BY <1>1, <2>1, <2>2
  <2>5. ParseTypeModifiers({"Shift", "Lock", "LevelThree"}) = {"Shift", "Lock", "LevelThree"} /\ ParseTypeModifiers({"Shift"}) = {"Shift"} /\ ParseTypeModifiers({"Lock"}) = {"Lock"} /\ ParseTypeModifiers({"LevelThree"}) = {"LevelThree"} /\ ParseTypeModifiers({"Shift", "LevelThree"}) = {"Shift", "LevelThree"} /\ ParseTypeModifiers({"Lock", "LevelThree"}) = {"Lock", "LevelThree"} /\ ParseTypeModifiers({"Shift", "Lock", "LevelThree"}) = {"Shift", "Lock", "LevelThree"}
    BY KeptModifiers
  <2>6. {<<ParseTypeModifiers(entry[1]), entry[2]>> : entry \in {<<{"Shift"}, 2>>, <<{"Lock"}, 2>>, <<{"LevelThree"}, 3>>, <<{"Shift", "LevelThree"}, 4>>, <<{"Lock", "LevelThree"}, 3>>, <<{"Shift", "Lock", "LevelThree"}, 4>>}} = {<<{"Shift"}, 2>>, <<{"Lock"}, 2>>, <<{"LevelThree"}, 3>>, <<{"Shift", "LevelThree"}, 4>>, <<{"Lock", "LevelThree"}, 3>>, <<{"Shift", "Lock", "LevelThree"}, 4>>}
    <3> DEFINE S == {<<{"Shift"}, 2>>, <<{"Lock"}, 2>>, <<{"LevelThree"}, 3>>, <<{"Shift", "LevelThree"}, 4>>, <<{"Lock", "LevelThree"}, 3>>, <<{"Shift", "Lock", "LevelThree"}, 4>>}
    <3>1. \A entry \in S : <<ParseTypeModifiers(entry[1]), entry[2]>> = entry
      BY <2>5
    <3> HIDE DEF S
    <3>2. {<<ParseTypeModifiers(entry[1]), entry[2]>> : entry \in S} = S
      BY <3>1
    <3> QED BY <3>2 DEF S
  <2> QED BY <2>3, <2>4, <2>5, <2>6
<1>9. /\ KeyTypes["CTRL+ALT"].modifiers = {"Shift", "OTHER", "LevelThree"}
      /\ KeyTypes["CTRL+ALT"].map = {<<{"Shift"}, 2>>, <<{"LevelThree"}, 3>>, <<{"Shift", "LevelThree"}, 4>>, <<{"OTHER"}, 5>>}
  <2>1. "CTRL+ALT" \in DOMAIN PrintedTypes /\ PrintedTypes["CTRL+ALT"] = PrintedType({"Shift", "Control", "Alt", "LevelThree"}, {<<{"Shift"}, 2>>, <<{"LevelThree"}, 3>>, <<{"Shift", "LevelThree"}, 4>>, <<{"Control", "Alt"}, 5>>})
    BY DEF PrintedTypes
  <2>2. PrintedTypes["CTRL+ALT"].modifiers = {"Shift", "Control", "Alt", "LevelThree"} /\ PrintedTypes["CTRL+ALT"].map = {<<{"Shift"}, 2>>, <<{"LevelThree"}, 3>>, <<{"Shift", "LevelThree"}, 4>>, <<{"Control", "Alt"}, 5>>}
    BY <2>1 DEF PrintedType
  <2>3. KeyTypes["CTRL+ALT"].map = {<<ParseTypeModifiers(entry[1]), entry[2]>> : entry \in {<<{"Shift"}, 2>>, <<{"LevelThree"}, 3>>, <<{"Shift", "LevelThree"}, 4>>, <<{"Control", "Alt"}, 5>>}}
    BY <1>1, <2>1, <2>2
  <2>4. KeyTypes["CTRL+ALT"].modifiers = ParseTypeModifiers({"Shift", "Control", "Alt", "LevelThree"})
    BY <1>1, <2>1, <2>2
  <2>5. ParseTypeModifiers({"Shift", "Control", "Alt", "LevelThree"}) = {"Shift", "OTHER", "LevelThree"} /\ ParseTypeModifiers({"Shift"}) = {"Shift"} /\ ParseTypeModifiers({"LevelThree"}) = {"LevelThree"} /\ ParseTypeModifiers({"Shift", "LevelThree"}) = {"Shift", "LevelThree"} /\ ParseTypeModifiers({"Control", "Alt"}) = {"OTHER"}
    BY KeptModifiers
  <2>6. {<<ParseTypeModifiers(entry[1]), entry[2]>> : entry \in {<<{"Shift"}, 2>>, <<{"LevelThree"}, 3>>, <<{"Shift", "LevelThree"}, 4>>, <<{"Control", "Alt"}, 5>>}} = {<<{"Shift"}, 2>>, <<{"LevelThree"}, 3>>, <<{"Shift", "LevelThree"}, 4>>, <<{"OTHER"}, 5>>}
    BY <2>5
  <2> QED BY <2>3, <2>4, <2>5, <2>6
<1> QED BY <1>2, <1>3, <1>4, <1>5, <1>6, <1>7, <1>8, <1>9

\* An entry for exactly the active modifiers is the level.
LEMMA LevelOfEntry ==
    ASSUME NEW type, NEW held
    PROVE  LET E == KeyTypes[type].map
               M == held \cap KeyTypes[type].modifiers IN
           /\ \A n : <<M, n>> \in E /\ (\A entry \in E : entry[1] = M => entry = <<M, n>>) => Level(type, held) = n
           /\ (\A entry \in E : entry[1] # M) => Level(type, held) = 1
<1> DEFINE E == KeyTypes[type].map
           M == held \cap KeyTypes[type].modifiers
           entries == {entry \in E : entry[1] = M}
<1>1. Level(type, held) = IF entries = {} THEN 1 ELSE (CHOOSE entry \in entries : TRUE)[2]
  BY DEF Level
<1> HIDE DEF E, M
<1>2. ASSUME NEW n, <<M, n>> \in E, \A entry \in E : entry[1] = M => entry = <<M, n>> PROVE Level(type, held) = n
  <2>1. entries = {<<M, n>>}
    BY <1>2
  <2>2. (CHOOSE entry \in entries : TRUE) = <<M, n>> /\ entries # {}
    <3> HIDE DEF entries
    <3> QED BY <2>1
  <2>3. <<M, n>>[2] = n
    OBVIOUS
  <2> HIDE DEF entries
  <2> QED BY <1>1, <2>2, <2>3, Zenon
<1>3. ASSUME \A entry \in E : entry[1] # M PROVE Level(type, held) = 1
  <2>1. entries = {}
    BY <1>3
  <2> HIDE DEF entries
  <2> QED BY <1>1, <2>1
<1> QED BY <1>2, <1>3 DEF E, M

\* The modifiers of a type that what is held and locked sets.
LEMMA Held ==
    ASSUME NEW mods \in SUBSET Modifiers, NEW locks \in SUBSET Locks
    PROVE  /\ TypeModifiers(mods, locks) \subseteq {"Shift", "Lock", "LevelThree", "NumLock"}
           /\ "Shift" \in TypeModifiers(mods, locks) <=> "shift" \in mods
           /\ "Lock" \in TypeModifiers(mods, locks) <=> "caps" \in locks
           /\ "LevelThree" \in TypeModifiers(mods, locks) <=> "altgr" \in mods
           /\ "NumLock" \in TypeModifiers(mods, locks) <=> "num" \in locks
BY DEF TypeModifiers

\* select_level: the level that the type's table gives is the one that the type means.
LEMMA LevelIs ==
    ASSUME NEW type \in DOMAIN PrintedTypes, NEW mods \in SUBSET Modifiers, NEW locks \in SUBSET Locks
    PROVE  Level(type, TypeModifiers(mods, locks)) = XkbLevel(type, mods, locks)
<1> DEFINE H == TypeModifiers(mods, locks)
<1>1. /\ H \subseteq {"Shift", "Lock", "LevelThree", "NumLock"}
      /\ "Shift" \in H <=> "shift" \in mods
      /\ "Lock" \in H <=> "caps" \in locks
      /\ "LevelThree" \in H <=> "altgr" \in mods
      /\ "NumLock" \in H <=> "num" \in locks
  BY Held
<1> HIDE DEF H
<1>2. CASE type = "ONE_LEVEL"
  <2> DEFINE E == {}
             M == H \cap {}
  <2>1. KeyTypes[type].map = E /\ M = H \cap KeyTypes[type].modifiers
    BY <1>2, TypesRead
  <2>2. /\ \A l : <<M, l>> \in E /\ (\A entry \in E : entry[1] = M => entry = <<M, l>>) => Level(type, H) = l
        /\ (\A entry \in E : entry[1] # M) => Level(type, H) = 1
    <3> HIDE DEF E, M
    <3> QED BY <2>1, LevelOfEntry
  <2>3. CASE TRUE
    BY <1>1, <1>2, <2>2, <2>3 DEF XkbLevel, Pair, H
  <2> QED BY <2>3
<1>3. CASE type = "TWO_LEVEL"
  <2> DEFINE E == {<<{"Shift"}, 2>>}
             M == H \cap {"Shift"}
  <2>1. KeyTypes[type].map = E /\ M = H \cap KeyTypes[type].modifiers
    BY <1>3, TypesRead
  <2>2. /\ \A l : <<M, l>> \in E /\ (\A entry \in E : entry[1] = M => entry = <<M, l>>) => Level(type, H) = l
        /\ (\A entry \in E : entry[1] # M) => Level(type, H) = 1
    <3> HIDE DEF E, M
    <3> QED BY <2>1, LevelOfEntry
  <2>3. CASE ~("shift" \in mods)
    BY <1>1, <1>3, <2>2, <2>3 DEF XkbLevel, Pair, H
  <2>4. CASE "shift" \in mods
    BY <1>1, <1>3, <2>2, <2>4 DEF XkbLevel, Pair, H
  <2> QED BY <2>3, <2>4
<1>4. CASE type = "ALPHABETIC"
  <2> DEFINE E == {<<{"Shift"}, 2>>, <<{"Lock"}, 2>>}
             M == H \cap {"Shift", "Lock"}
  <2>1. KeyTypes[type].map = E /\ M = H \cap KeyTypes[type].modifiers
    BY <1>4, TypesRead
  <2>2. /\ \A l : <<M, l>> \in E /\ (\A entry \in E : entry[1] = M => entry = <<M, l>>) => Level(type, H) = l
        /\ (\A entry \in E : entry[1] # M) => Level(type, H) = 1
    <3> HIDE DEF E, M
    <3> QED BY <2>1, LevelOfEntry
  <2>3. CASE ~("shift" \in mods) /\ ~("caps" \in locks)
    BY <1>1, <1>4, <2>2, <2>3 DEF XkbLevel, Pair, H
  <2>4. CASE "shift" \in mods /\ ~("caps" \in locks)
    BY <1>1, <1>4, <2>2, <2>4 DEF XkbLevel, Pair, H
  <2>5. CASE ~("shift" \in mods) /\ "caps" \in locks
    BY <1>1, <1>4, <2>2, <2>5 DEF XkbLevel, Pair, H
  <2>6. CASE "shift" \in mods /\ "caps" \in locks
    BY <1>1, <1>4, <2>2, <2>6 DEF XkbLevel, Pair, H
  <2> QED BY <2>3, <2>4, <2>5, <2>6
<1>5. CASE type = "KEYPAD"
  <2> DEFINE E == {<<{"Shift"}, 2>>, <<{"NumLock"}, 2>>}
             M == H \cap {"Shift", "NumLock"}
  <2>1. KeyTypes[type].map = E /\ M = H \cap KeyTypes[type].modifiers
    BY <1>5, TypesRead
  <2>2. /\ \A l : <<M, l>> \in E /\ (\A entry \in E : entry[1] = M => entry = <<M, l>>) => Level(type, H) = l
        /\ (\A entry \in E : entry[1] # M) => Level(type, H) = 1
    <3> HIDE DEF E, M
    <3> QED BY <2>1, LevelOfEntry
  <2>3. CASE ~("shift" \in mods) /\ ~("num" \in locks)
    BY <1>1, <1>5, <2>2, <2>3 DEF XkbLevel, Pair, H
  <2>4. CASE "shift" \in mods /\ ~("num" \in locks)
    BY <1>1, <1>5, <2>2, <2>4 DEF XkbLevel, Pair, H
  <2>5. CASE ~("shift" \in mods) /\ "num" \in locks
    BY <1>1, <1>5, <2>2, <2>5 DEF XkbLevel, Pair, H
  <2>6. CASE "shift" \in mods /\ "num" \in locks
    BY <1>1, <1>5, <2>2, <2>6 DEF XkbLevel, Pair, H
  <2> QED BY <2>3, <2>4, <2>5, <2>6
<1>6. CASE type = "FOUR_LEVEL"
  <2> DEFINE E == {<<{"Shift"}, 2>>, <<{"LevelThree"}, 3>>, <<{"Shift", "LevelThree"}, 4>>}
             M == H \cap {"Shift", "LevelThree"}
  <2>1. KeyTypes[type].map = E /\ M = H \cap KeyTypes[type].modifiers
    BY <1>6, TypesRead
  <2>2. /\ \A l : <<M, l>> \in E /\ (\A entry \in E : entry[1] = M => entry = <<M, l>>) => Level(type, H) = l
        /\ (\A entry \in E : entry[1] # M) => Level(type, H) = 1
    <3> HIDE DEF E, M
    <3> QED BY <2>1, LevelOfEntry
  <2>3. CASE ~("shift" \in mods) /\ ~("altgr" \in mods)
    BY <1>1, <1>6, <2>2, <2>3 DEF XkbLevel, Pair, H
  <2>4. CASE "shift" \in mods /\ ~("altgr" \in mods)
    BY <1>1, <1>6, <2>2, <2>4 DEF XkbLevel, Pair, H
  <2>5. CASE ~("shift" \in mods) /\ "altgr" \in mods
    BY <1>1, <1>6, <2>2, <2>5 DEF XkbLevel, Pair, H
  <2>6. CASE "shift" \in mods /\ "altgr" \in mods
    BY <1>1, <1>6, <2>2, <2>6 DEF XkbLevel, Pair, H
  <2> QED BY <2>3, <2>4, <2>5, <2>6
<1>7. CASE type = "FOUR_LEVEL_ALPHABETIC"
  <2> DEFINE E == {<<{"Shift"}, 2>>, <<{"Lock"}, 2>>, <<{"LevelThree"}, 3>>, <<{"Shift", "LevelThree"}, 4>>, <<{"Lock", "LevelThree"}, 4>>, <<{"Shift", "Lock", "LevelThree"}, 3>>}
             M == H \cap {"Shift", "Lock", "LevelThree"}
  <2>1. KeyTypes[type].map = E /\ M = H \cap KeyTypes[type].modifiers
    BY <1>7, TypesRead
  <2>2. /\ \A l : <<M, l>> \in E /\ (\A entry \in E : entry[1] = M => entry = <<M, l>>) => Level(type, H) = l
        /\ (\A entry \in E : entry[1] # M) => Level(type, H) = 1
    <3> HIDE DEF E, M
    <3> QED BY <2>1, LevelOfEntry
  <2>3. CASE ~("shift" \in mods) /\ ~("caps" \in locks) /\ ~("altgr" \in mods)
    BY <1>1, <1>7, <2>2, <2>3 DEF XkbLevel, Pair, H
  <2>4. CASE "shift" \in mods /\ ~("caps" \in locks) /\ ~("altgr" \in mods)
    BY <1>1, <1>7, <2>2, <2>4 DEF XkbLevel, Pair, H
  <2>5. CASE ~("shift" \in mods) /\ "caps" \in locks /\ ~("altgr" \in mods)
    BY <1>1, <1>7, <2>2, <2>5 DEF XkbLevel, Pair, H
  <2>6. CASE ~("shift" \in mods) /\ ~("caps" \in locks) /\ "altgr" \in mods
    BY <1>1, <1>7, <2>2, <2>6 DEF XkbLevel, Pair, H
  <2>7. CASE "shift" \in mods /\ "caps" \in locks /\ ~("altgr" \in mods)
    BY <1>1, <1>7, <2>2, <2>7 DEF XkbLevel, Pair, H
  <2>8. CASE "shift" \in mods /\ ~("caps" \in locks) /\ "altgr" \in mods
    BY <1>1, <1>7, <2>2, <2>8 DEF XkbLevel, Pair, H
  <2>9. CASE ~("shift" \in mods) /\ "caps" \in locks /\ "altgr" \in mods
    BY <1>1, <1>7, <2>2, <2>9 DEF XkbLevel, Pair, H
  <2>10. CASE "shift" \in mods /\ "caps" \in locks /\ "altgr" \in mods
    BY <1>1, <1>7, <2>2, <2>10 DEF XkbLevel, Pair, H
  <2> QED BY <2>3, <2>4, <2>5, <2>6, <2>7, <2>8, <2>9, <2>10
<1>8. CASE type = "FOUR_LEVEL_SEMIALPHABETIC"
  <2> DEFINE E == {<<{"Shift"}, 2>>, <<{"Lock"}, 2>>, <<{"LevelThree"}, 3>>, <<{"Shift", "LevelThree"}, 4>>, <<{"Lock", "LevelThree"}, 3>>, <<{"Shift", "Lock", "LevelThree"}, 4>>}
             M == H \cap {"Shift", "Lock", "LevelThree"}
  <2>1. KeyTypes[type].map = E /\ M = H \cap KeyTypes[type].modifiers
    BY <1>8, TypesRead
  <2>2. /\ \A l : <<M, l>> \in E /\ (\A entry \in E : entry[1] = M => entry = <<M, l>>) => Level(type, H) = l
        /\ (\A entry \in E : entry[1] # M) => Level(type, H) = 1
    <3> HIDE DEF E, M
    <3> QED BY <2>1, LevelOfEntry
  <2>3. CASE ~("shift" \in mods) /\ ~("caps" \in locks) /\ ~("altgr" \in mods)
    BY <1>1, <1>8, <2>2, <2>3 DEF XkbLevel, Pair, H
  <2>4. CASE "shift" \in mods /\ ~("caps" \in locks) /\ ~("altgr" \in mods)
    BY <1>1, <1>8, <2>2, <2>4 DEF XkbLevel, Pair, H
  <2>5. CASE ~("shift" \in mods) /\ "caps" \in locks /\ ~("altgr" \in mods)
    BY <1>1, <1>8, <2>2, <2>5 DEF XkbLevel, Pair, H
  <2>6. CASE ~("shift" \in mods) /\ ~("caps" \in locks) /\ "altgr" \in mods
    BY <1>1, <1>8, <2>2, <2>6 DEF XkbLevel, Pair, H
  <2>7. CASE "shift" \in mods /\ "caps" \in locks /\ ~("altgr" \in mods)
    BY <1>1, <1>8, <2>2, <2>7 DEF XkbLevel, Pair, H
  <2>8. CASE "shift" \in mods /\ ~("caps" \in locks) /\ "altgr" \in mods
    BY <1>1, <1>8, <2>2, <2>8 DEF XkbLevel, Pair, H
  <2>9. CASE ~("shift" \in mods) /\ "caps" \in locks /\ "altgr" \in mods
    BY <1>1, <1>8, <2>2, <2>9 DEF XkbLevel, Pair, H
  <2>10. CASE "shift" \in mods /\ "caps" \in locks /\ "altgr" \in mods
    BY <1>1, <1>8, <2>2, <2>10 DEF XkbLevel, Pair, H
  <2> QED BY <2>3, <2>4, <2>5, <2>6, <2>7, <2>8, <2>9, <2>10
<1>9. CASE type = "CTRL+ALT"
  <2> DEFINE E == {<<{"Shift"}, 2>>, <<{"LevelThree"}, 3>>, <<{"Shift", "LevelThree"}, 4>>, <<{"OTHER"}, 5>>}
             M == H \cap {"Shift", "OTHER", "LevelThree"}
  <2>1. KeyTypes[type].map = E /\ M = H \cap KeyTypes[type].modifiers
    BY <1>9, TypesRead
  <2>2. /\ \A l : <<M, l>> \in E /\ (\A entry \in E : entry[1] = M => entry = <<M, l>>) => Level(type, H) = l
        /\ (\A entry \in E : entry[1] # M) => Level(type, H) = 1
    <3> HIDE DEF E, M
    <3> QED BY <2>1, LevelOfEntry
  <2>3. CASE ~("shift" \in mods) /\ ~("altgr" \in mods)
    BY <1>1, <1>9, <2>2, <2>3 DEF XkbLevel, Pair, H
  <2>4. CASE "shift" \in mods /\ ~("altgr" \in mods)
    BY <1>1, <1>9, <2>2, <2>4 DEF XkbLevel, Pair, H
  <2>5. CASE ~("shift" \in mods) /\ "altgr" \in mods
    BY <1>1, <1>9, <2>2, <2>5 DEF XkbLevel, Pair, H
  <2>6. CASE "shift" \in mods /\ "altgr" \in mods
    BY <1>1, <1>9, <2>2, <2>6 DEF XkbLevel, Pair, H
  <2> QED BY <2>3, <2>4, <2>5, <2>6
<1>10. type \in {"ONE_LEVEL", "TWO_LEVEL", "ALPHABETIC", "KEYPAD", "FOUR_LEVEL", "FOUR_LEVEL_ALPHABETIC", "FOUR_LEVEL_SEMIALPHABETIC", "CTRL+ALT"}
  BY DEF PrintedTypes
<1> QED BY <1>2, <1>3, <1>4, <1>5, <1>6, <1>7, <1>8, <1>9, <1>10

\* The levels of a key in a layout, and the type they have.
LEMMA LevelsRead ==
    /\ Len(Compiled["q"]) = 2
    /\ Compiled["q"][1] = Automatic(<<"q", "Q">>)
    /\ TypeOf["q"][1] = "ALPHABETIC"
    /\ Compiled["q"][2] = Automatic(<<"a", "A">>)
    /\ TypeOf["q"][2] = "ALPHABETIC"
    /\ Len(Compiled["e"]) = 2
    /\ Compiled["e"][1] = Automatic(<<"e", "E">>)
    /\ TypeOf["e"][1] = "ALPHABETIC"
    /\ Compiled["e"][2] = Automatic(<<"e", "E", "EuroSign", NoSymbol>>)
    /\ TypeOf["e"][2] = "FOUR_LEVEL_SEMIALPHABETIC"
    /\ Len(Compiled["o"]) = 2
    /\ Compiled["o"][1] = Automatic(<<"o", "O">>)
    /\ TypeOf["o"][1] = "ALPHABETIC"
    /\ Compiled["o"][2] = Automatic(<<"o", "O", "oe", "OE">>)
    /\ TypeOf["o"][2] = "FOUR_LEVEL_ALPHABETIC"
    /\ Len(Compiled["accent"]) = 2
    /\ Compiled["accent"][1] = Automatic(<<"apostrophe", "quotedbl">>)
    /\ TypeOf["accent"][1] = "TWO_LEVEL"
    /\ Compiled["accent"][2] = Automatic(<<"dead_acute", "dead_diaeresis", "apostrophe", "quotedbl">>)
    /\ TypeOf["accent"][2] = "FOUR_LEVEL"
    /\ Len(Compiled["bksl"]) = 2
    /\ Compiled["bksl"][1] = Automatic(<<"backslash", "bar">>)
    /\ TypeOf["bksl"][1] = "TWO_LEVEL"
    /\ Compiled["bksl"][2] = Automatic(<<"backslash", "bar", "ae", "AE">>)
    /\ TypeOf["bksl"][2] = "FOUR_LEVEL"
    /\ Len(Compiled["lsgt"]) = 2
    /\ Compiled["lsgt"][1] = Automatic(<<"backslash", "bar", "ae", "AE">>)
    /\ TypeOf["lsgt"][1] = "FOUR_LEVEL"
    /\ Compiled["lsgt"][2] = Automatic(<<"less", "greater", "bar", "brokenbar">>)
    /\ TypeOf["lsgt"][2] = "FOUR_LEVEL"
    /\ Len(Compiled["kp1"]) = 1
    /\ Compiled["kp1"][1] = Automatic(<<"KP_End", "KP_1">>)
    /\ TypeOf["kp1"][1] = "KEYPAD"
    /\ Len(Compiled["escape"]) = 1
    /\ Compiled["escape"][1] = Automatic(<<"Caps_Lock">>)
    /\ TypeOf["escape"][1] = "ONE_LEVEL"
    /\ Len(Compiled["f1"]) = 1
    /\ Compiled["f1"][1] = [explicit |-> "CTRL+ALT", levels |-> <<"F1", "F1", "F1", "F1", "XF86Switch_VT_1">>]
    /\ TypeOf["f1"][1] = "CTRL+ALT"
BY Zenon DEF Compiled, TypeOf

\* Which symbols of the keymap are small and capital letters.
LEMMA Cases ==
    /\ \A s \in {"q", "a", "e", "o", "oe", "ae"} : IsLower(s)
    /\ \A s \in {"apostrophe", "quotedbl", "dead_acute", "dead_diaeresis", "backslash", "bar", "less", "greater",
                "brokenbar", "KP_End", "KP_1", "EuroSign", "NoSymbol"} : ~IsLower(s)
    /\ \A s \in {"Q", "A", "E", "O", "OE", "AE"} : IsUpper(s)
    /\ ~IsUpper("NoSymbol")
<1>1. DOMAIN Capitals = {"q", "a", "e", "o", "oe", "ae"}
  BY DEF Capitals
<1>2. /\ Capitals["q"] = "Q" /\ Capitals["a"] = "A" /\ Capitals["e"] = "E" /\ Capitals["o"] = "O"
      /\ Capitals["oe"] = "OE" /\ Capitals["ae"] = "AE"
  BY DEF Capitals
<1> QED BY <1>1, <1>2 DEF IsLower, IsUpper

\* The type of levels, and that it has as many as its type.
HasType(l, type) ==
    /\ AutomaticType(l) = type /\ type \in DOMAIN PrintedTypes
    /\ \/ type = "ONE_LEVEL" /\ Len(l) >= 1
       \/ type \in {"TWO_LEVEL", "ALPHABETIC", "KEYPAD"} /\ Len(l) >= 2
       \/ Len(l) >= 4

\* xkb.rs: the type that a key without an explicit one has is the one it means.
LEMMA AutomaticIs ==
    /\ HasType(<<"q", "Q">>, "ALPHABETIC")
    /\ HasType(<<"a", "A">>, "ALPHABETIC")
    /\ HasType(<<"e", "E">>, "ALPHABETIC")
    /\ HasType(<<"e", "E", "EuroSign", NoSymbol>>, "FOUR_LEVEL_SEMIALPHABETIC")
    /\ HasType(<<"o", "O">>, "ALPHABETIC")
    /\ HasType(<<"o", "O", "oe", "OE">>, "FOUR_LEVEL_ALPHABETIC")
    /\ HasType(<<"apostrophe", "quotedbl">>, "TWO_LEVEL")
    /\ HasType(<<"dead_acute", "dead_diaeresis", "apostrophe", "quotedbl">>, "FOUR_LEVEL")
    /\ HasType(<<"backslash", "bar">>, "TWO_LEVEL")
    /\ HasType(<<"backslash", "bar", "ae", "AE">>, "FOUR_LEVEL")
    /\ HasType(<<"less", "greater", "bar", "brokenbar">>, "FOUR_LEVEL")
    /\ HasType(<<"KP_End", "KP_1">>, "KEYPAD")
    /\ HasType(<<"Caps_Lock">>, "ONE_LEVEL")
<1>0. DOMAIN PrintedTypes = {"ONE_LEVEL", "TWO_LEVEL", "ALPHABETIC", "KEYPAD", "FOUR_LEVEL",
                             "FOUR_LEVEL_ALPHABETIC", "FOUR_LEVEL_SEMIALPHABETIC", "CTRL+ALT"}
  BY DEF PrintedTypes
<1>1. HasType(<<"q", "Q">>, "ALPHABETIC")
  <2>1. PICK s : s = <<"q", "Q">>
    OBVIOUS
  <2>2. Len(s) = 2 /\ s[1] = "q" /\ s[2] = "Q"
    BY <2>1 DEF NoSymbol
  <2>3. AutomaticType(s) = "ALPHABETIC"
    BY <2>2, Cases DEF AutomaticType
  <2>4. HasType(s, "ALPHABETIC")
    BY <1>0, <2>2, <2>3 DEF HasType
  <2> QED BY <2>1, <2>4
<1>2. HasType(<<"a", "A">>, "ALPHABETIC")
  <2>1. PICK s : s = <<"a", "A">>
    OBVIOUS
  <2>2. Len(s) = 2 /\ s[1] = "a" /\ s[2] = "A"
    BY <2>1 DEF NoSymbol
  <2>3. AutomaticType(s) = "ALPHABETIC"
    BY <2>2, Cases DEF AutomaticType
  <2>4. HasType(s, "ALPHABETIC")
    BY <1>0, <2>2, <2>3 DEF HasType
  <2> QED BY <2>1, <2>4
<1>3. HasType(<<"e", "E">>, "ALPHABETIC")
  <2>1. PICK s : s = <<"e", "E">>
    OBVIOUS
  <2>2. Len(s) = 2 /\ s[1] = "e" /\ s[2] = "E"
    BY <2>1 DEF NoSymbol
  <2>3. AutomaticType(s) = "ALPHABETIC"
    BY <2>2, Cases DEF AutomaticType
  <2>4. HasType(s, "ALPHABETIC")
    BY <1>0, <2>2, <2>3 DEF HasType
  <2> QED BY <2>1, <2>4
<1>4. HasType(<<"e", "E", "EuroSign", NoSymbol>>, "FOUR_LEVEL_SEMIALPHABETIC")
  <2>1. PICK s : s = <<"e", "E", "EuroSign", NoSymbol>>
    OBVIOUS
  <2>2. Len(s) = 4 /\ s[1] = "e" /\ s[2] = "E" /\ s[3] = "EuroSign" /\ s[4] = "NoSymbol"
    BY <2>1 DEF NoSymbol
  <2>3. AutomaticType(s) = "FOUR_LEVEL_SEMIALPHABETIC"
    BY <2>2, Cases DEF AutomaticType
  <2>4. HasType(s, "FOUR_LEVEL_SEMIALPHABETIC")
    BY <1>0, <2>2, <2>3 DEF HasType
  <2> QED BY <2>1, <2>4
<1>5. HasType(<<"o", "O">>, "ALPHABETIC")
  <2>1. PICK s : s = <<"o", "O">>
    OBVIOUS
  <2>2. Len(s) = 2 /\ s[1] = "o" /\ s[2] = "O"
    BY <2>1 DEF NoSymbol
  <2>3. AutomaticType(s) = "ALPHABETIC"
    BY <2>2, Cases DEF AutomaticType
  <2>4. HasType(s, "ALPHABETIC")
    BY <1>0, <2>2, <2>3 DEF HasType
  <2> QED BY <2>1, <2>4
<1>6. HasType(<<"o", "O", "oe", "OE">>, "FOUR_LEVEL_ALPHABETIC")
  <2>1. PICK s : s = <<"o", "O", "oe", "OE">>
    OBVIOUS
  <2>2. Len(s) = 4 /\ s[1] = "o" /\ s[2] = "O" /\ s[3] = "oe" /\ s[4] = "OE"
    BY <2>1 DEF NoSymbol
  <2>3. AutomaticType(s) = "FOUR_LEVEL_ALPHABETIC"
    BY <2>2, Cases DEF AutomaticType
  <2>4. HasType(s, "FOUR_LEVEL_ALPHABETIC")
    BY <1>0, <2>2, <2>3 DEF HasType
  <2> QED BY <2>1, <2>4
<1>7. HasType(<<"apostrophe", "quotedbl">>, "TWO_LEVEL")
  <2>1. PICK s : s = <<"apostrophe", "quotedbl">>
    OBVIOUS
  <2>2. Len(s) = 2 /\ s[1] = "apostrophe" /\ s[2] = "quotedbl"
    BY <2>1 DEF NoSymbol
  <2>3. AutomaticType(s) = "TWO_LEVEL"
    BY <2>2, Cases DEF AutomaticType
  <2>4. HasType(s, "TWO_LEVEL")
    BY <1>0, <2>2, <2>3 DEF HasType
  <2> QED BY <2>1, <2>4
<1>8. HasType(<<"dead_acute", "dead_diaeresis", "apostrophe", "quotedbl">>, "FOUR_LEVEL")
  <2>1. PICK s : s = <<"dead_acute", "dead_diaeresis", "apostrophe", "quotedbl">>
    OBVIOUS
  <2>2. Len(s) = 4 /\ s[1] = "dead_acute" /\ s[2] = "dead_diaeresis" /\ s[3] = "apostrophe" /\ s[4] = "quotedbl"
    BY <2>1 DEF NoSymbol
  <2>3. AutomaticType(s) = "FOUR_LEVEL"
    BY <2>2, Cases DEF AutomaticType
  <2>4. HasType(s, "FOUR_LEVEL")
    BY <1>0, <2>2, <2>3 DEF HasType
  <2> QED BY <2>1, <2>4
<1>9. HasType(<<"backslash", "bar">>, "TWO_LEVEL")
  <2>1. PICK s : s = <<"backslash", "bar">>
    OBVIOUS
  <2>2. Len(s) = 2 /\ s[1] = "backslash" /\ s[2] = "bar"
    BY <2>1 DEF NoSymbol
  <2>3. AutomaticType(s) = "TWO_LEVEL"
    BY <2>2, Cases DEF AutomaticType
  <2>4. HasType(s, "TWO_LEVEL")
    BY <1>0, <2>2, <2>3 DEF HasType
  <2> QED BY <2>1, <2>4
<1>10. HasType(<<"backslash", "bar", "ae", "AE">>, "FOUR_LEVEL")
  <2>1. PICK s : s = <<"backslash", "bar", "ae", "AE">>
    OBVIOUS
  <2>2. Len(s) = 4 /\ s[1] = "backslash" /\ s[2] = "bar" /\ s[3] = "ae" /\ s[4] = "AE"
    BY <2>1 DEF NoSymbol
  <2>3. AutomaticType(s) = "FOUR_LEVEL"
    BY <2>2, Cases DEF AutomaticType
  <2>4. HasType(s, "FOUR_LEVEL")
    BY <1>0, <2>2, <2>3 DEF HasType
  <2> QED BY <2>1, <2>4
<1>11. HasType(<<"less", "greater", "bar", "brokenbar">>, "FOUR_LEVEL")
  <2>1. PICK s : s = <<"less", "greater", "bar", "brokenbar">>
    OBVIOUS
  <2>2. Len(s) = 4 /\ s[1] = "less" /\ s[2] = "greater" /\ s[3] = "bar" /\ s[4] = "brokenbar"
    BY <2>1 DEF NoSymbol
  <2>3. AutomaticType(s) = "FOUR_LEVEL"
    BY <2>2, Cases DEF AutomaticType
  <2>4. HasType(s, "FOUR_LEVEL")
    BY <1>0, <2>2, <2>3 DEF HasType
  <2> QED BY <2>1, <2>4
<1>12. HasType(<<"KP_End", "KP_1">>, "KEYPAD")
  <2>1. PICK s : s = <<"KP_End", "KP_1">>
    OBVIOUS
  <2>2. Len(s) = 2 /\ s[1] = "KP_End" /\ s[2] = "KP_1"
    BY <2>1 DEF NoSymbol
  <2>3. AutomaticType(s) = "KEYPAD"
    BY <2>2, Cases DEF AutomaticType
  <2>4. HasType(s, "KEYPAD")
    BY <1>0, <2>2, <2>3 DEF HasType
  <2> QED BY <2>1, <2>4
<1>13. HasType(<<"Caps_Lock">>, "ONE_LEVEL")
  <2>1. PICK s : s = <<"Caps_Lock">>
    OBVIOUS
  <2>2. Len(s) = 1 /\ s[1] = "Caps_Lock"
    BY <2>1 DEF NoSymbol
  <2>3. AutomaticType(s) = "ONE_LEVEL"
    BY <2>2, Cases DEF AutomaticType
  <2>4. HasType(s, "ONE_LEVEL")
    BY <1>0, <2>2, <2>3 DEF HasType
  <2> QED BY <2>1, <2>4
<1> QED BY <1>1, <1>2, <1>3, <1>4, <1>5, <1>6, <1>7, <1>8, <1>9, <1>10, <1>11, <1>12, <1>13

\* What select_level needs of a key's levels: the type, and a symbol on each of its levels.
TypeFits(c, type) ==
    /\ type = IF c.explicit # "none" THEN c.explicit ELSE AutomaticType(c.levels)
    /\ type \in DOMAIN PrintedTypes
    /\ \/ type = "ONE_LEVEL" /\ Len(c.levels) >= 1
       \/ type \in {"TWO_LEVEL", "ALPHABETIC", "KEYPAD"} /\ Len(c.levels) >= 2
       \/ Len(c.levels) >= 4

\* It holds of every key of the keymap.
LEMMA AllTypesFit ==
    ASSUME NEW k \in Keys, NEW g \in Groups, HasGroup(k, g)
    PROVE  TypeFits(Compiled[k][g + 1], TypeOf[k][g + 1])
<1>1. \A l, type : HasType(l, type) => TypeFits(Automatic(l), type)
  BY DEF TypeFits, Automatic, HasType
<1>2. DOMAIN PrintedTypes = {"ONE_LEVEL", "TWO_LEVEL", "ALPHABETIC", "KEYPAD", "FOUR_LEVEL",
                             "FOUR_LEVEL_ALPHABETIC", "FOUR_LEVEL_SEMIALPHABETIC", "CTRL+ALT"}
  BY DEF PrintedTypes
<1>3. g = 0 \/ g = 1
  BY DEF Groups
<1>4. g + 1 = IF g = 0 THEN 1 ELSE 2
  BY <1>3
<1>5. CASE k = "q"
  <2>1. TypeFits(Automatic(<<"q", "Q">>), "ALPHABETIC")
    BY <1>1, AutomaticIs, Zenon
  <2>2. TypeFits(Automatic(<<"a", "A">>), "ALPHABETIC")
    BY <1>1, AutomaticIs, Zenon
  <2> QED BY <1>3, <1>4, <1>5, <2>1, <2>2, LevelsRead
<1>6. CASE k = "e"
  <2>1. TypeFits(Automatic(<<"e", "E">>), "ALPHABETIC")
    BY <1>1, AutomaticIs, Zenon
  <2>2. TypeFits(Automatic(<<"e", "E", "EuroSign", NoSymbol>>), "FOUR_LEVEL_SEMIALPHABETIC")
    BY <1>1, AutomaticIs, Zenon
  <2> QED BY <1>3, <1>4, <1>6, <2>1, <2>2, LevelsRead
<1>7. CASE k = "o"
  <2>1. TypeFits(Automatic(<<"o", "O">>), "ALPHABETIC")
    BY <1>1, AutomaticIs, Zenon
  <2>2. TypeFits(Automatic(<<"o", "O", "oe", "OE">>), "FOUR_LEVEL_ALPHABETIC")
    BY <1>1, AutomaticIs, Zenon
  <2> QED BY <1>3, <1>4, <1>7, <2>1, <2>2, LevelsRead
<1>8. CASE k = "accent"
  <2>1. TypeFits(Automatic(<<"apostrophe", "quotedbl">>), "TWO_LEVEL")
    BY <1>1, AutomaticIs, Zenon
  <2>2. TypeFits(Automatic(<<"dead_acute", "dead_diaeresis", "apostrophe", "quotedbl">>), "FOUR_LEVEL")
    BY <1>1, AutomaticIs, Zenon
  <2> QED BY <1>3, <1>4, <1>8, <2>1, <2>2, LevelsRead
<1>9. CASE k = "bksl"
  <2>1. TypeFits(Automatic(<<"backslash", "bar">>), "TWO_LEVEL")
    BY <1>1, AutomaticIs, Zenon
  <2>2. TypeFits(Automatic(<<"backslash", "bar", "ae", "AE">>), "FOUR_LEVEL")
    BY <1>1, AutomaticIs, Zenon
  <2> QED BY <1>3, <1>4, <1>9, <2>1, <2>2, LevelsRead
<1>10. CASE k = "lsgt"
  <2>1. TypeFits(Automatic(<<"backslash", "bar", "ae", "AE">>), "FOUR_LEVEL")
    BY <1>1, AutomaticIs, Zenon
  <2>2. TypeFits(Automatic(<<"less", "greater", "bar", "brokenbar">>), "FOUR_LEVEL")
    BY <1>1, AutomaticIs, Zenon
  <2> QED BY <1>3, <1>4, <1>10, <2>1, <2>2, LevelsRead
<1>11. CASE k = "kp1"
  <2>0. g = 0
    BY <1>3, <1>11, LevelsRead DEF HasGroup
  <2>1. TypeFits(Automatic(<<"KP_End", "KP_1">>), "KEYPAD")
    BY <1>1, AutomaticIs, Zenon
  <2> QED BY <1>4, <1>11, <2>0, <2>1, LevelsRead
<1>12. CASE k = "escape"
  <2>0. g = 0
    BY <1>3, <1>12, LevelsRead DEF HasGroup
  <2>1. TypeFits(Automatic(<<"Caps_Lock">>), "ONE_LEVEL")
    BY <1>1, AutomaticIs, Zenon
  <2> QED BY <1>4, <1>12, <2>0, <2>1, LevelsRead
<1>13. CASE k = "f1"
  <2>0. g = 0
    BY <1>3, <1>13, LevelsRead DEF HasGroup
  <2>1. TypeFits([explicit |-> "CTRL+ALT", levels |-> <<"F1", "F1", "F1", "F1", "XF86Switch_VT_1">>], "CTRL+ALT")
    BY <1>2 DEF TypeFits
  <2> QED BY <1>4, <1>13, <2>0, <2>1, LevelsRead
<1>14. k \in {"q", "e", "o", "accent", "bksl", "lsgt", "kp1", "escape", "f1"}
  BY DEF Keys, Compiled
<1> QED BY <1>5, <1>6, <1>7, <1>8, <1>9, <1>10, <1>11, <1>12, <1>13, <1>14

\* select_level: the symbol that whykey reads of a key is the one that the key has.
LEMMA SymbolIs ==
    ASSUME NEW k \in Keys, NEW g \in Groups, HasGroup(k, g), NEW mods \in SUBSET Modifiers, NEW locks \in SUBSET Locks
    PROVE  SelectLevel(k, g, mods, locks).keysym = XkbSymbol(k, g, mods, locks)
<1> DEFINE c == Compiled[k][g + 1]
           type == TypeOf[k][g + 1]
           n == XkbLevel(type, mods, locks)
<1>1. TypeFits(c, type)
  BY AllTypesFit
<1>2. XkbSymbol(k, g, mods, locks) = c.levels[n]
  BY DEF XkbSymbol, XkbGroup, HasGroup
<1>3. SelectLevel(k, g, mods, locks).keysym
         = IF Level(type, TypeModifiers(mods, locks)) <= Len(c.levels)
           THEN c.levels[Level(type, TypeModifiers(mods, locks))] ELSE NoSymbol
  BY <1>1 DEF TypeFits, SelectLevel, LevelsOf
<1>4. Level(type, TypeModifiers(mods, locks)) = n
  BY <1>1, LevelIs DEF TypeFits
<1>5. n <= Len(c.levels)
  <2> HIDE DEF c, type
  <2> QED BY <1>1 DEF TypeFits, XkbLevel, Pair, PrintedTypes
<1> QED BY <1>2, <1>3, <1>4, <1>5

\* A key is named for its first level, which it has when nothing is held.
LEMMA OwnSymbolIs ==
    ASSUME NEW k \in Keys, NEW g \in Groups, HasGroup(k, g)
    PROVE  LevelsOf(k, g)[1] = XkbSymbol(k, g, {}, {})
<1>1. TypeFits(Compiled[k][g + 1], TypeOf[k][g + 1])
  BY AllTypesFit
<1>2. XkbLevel(TypeOf[k][g + 1], {}, {}) = 1
  BY <1>1 DEF TypeFits, XkbLevel, Pair, PrintedTypes
<1> QED BY <1>2 DEF XkbSymbol, XkbGroup, HasGroup, LevelsOf

\* level_text: the text of a key is that of its symbol.
LEMMA TextIs ==
    ASSUME NEW k \in Keys, NEW g \in Groups, NEW mods \in SUBSET Modifiers, NEW locks \in SUBSET Locks,
           LevelText(k, g, mods, locks).kind # "unresolved"
    PROVE  /\ LevelText(k, g, mods, locks).symbol = XkbSymbol(k, g, mods, locks)
           /\ (LevelText(k, g, mods, locks).kind = "dead") = IsDead(XkbSymbol(k, g, mods, locks))
<1> DEFINE t == LevelText(k, g, mods, locks)
           s == SelectLevel(k, g, mods, locks)
<1>1. Unresolved.kind = "unresolved"
  BY DEF Unresolved
<1>2. HasGroup(k, g)
  BY <1>1 DEF LevelText
<1>3. t = IF "altgr" \in mods /\ ~s.third THEN Unresolved
          ELSE IF IsDead(s.keysym) THEN [kind |-> "dead", symbol |-> s.keysym]
          ELSE IF HasText(s.keysym) THEN [kind |-> "text", symbol |-> s.keysym]
          ELSE Unresolved
  BY <1>2 DEF LevelText
<1>4. s.keysym = XkbSymbol(k, g, mods, locks)
  BY <1>2, SymbolIs
<1>5. IsDead(s.keysym) \in BOOLEAN
  BY DEF IsDead
<1> HIDE DEF s
<1>6. CASE IsDead(s.keysym)
  <2>1. t = [kind |-> "dead", symbol |-> s.keysym]
    BY <1>1, <1>3, <1>6
  <2>2. t.kind = "dead" /\ t.symbol = s.keysym
    <3> HIDE DEF t
    <3> QED BY <2>1
  <2> QED BY <1>4, <1>5, <1>6, <2>2
<1>7. CASE ~IsDead(s.keysym)
  <2>1. t = [kind |-> "text", symbol |-> s.keysym]
    BY <1>1, <1>3, <1>7
  <2>2. t.kind = "text" /\ t.symbol = s.keysym
    <3> HIDE DEF t
    <3> QED BY <2>1
  <2> QED BY <1>4, <1>5, <1>7, <2>2
<1> QED BY <1>6, <1>7

\* A text is what all these keys type.
TypedByAll(t, keycodes, g, mods, locks) ==
    t.kind # "unresolved" =>
        /\ keycodes # {} /\ \A k \in keycodes : t.symbol = XkbSymbol(k, g, mods, locks)
        /\ (t.kind = "dead") = IsDead(t.symbol)

\* altgr_encoding, resolve_text: a text is that of all keys that were meant.
LEMMA EncodingIs ==
    ASSUME NEW keycodes \in SUBSET Keys, NEW g \in Groups, NEW mods \in SUBSET Modifiers, NEW locks \in SUBSET Locks,
           NEW layout, NEW all
    PROVE  TypedByAll(AltgrEncoding(layout, keycodes, g, mods, locks, all), keycodes, g, mods, locks)
<1> DEFINE t == AltgrEncoding(layout, keycodes, g, mods, locks, all)
           outcomes == {LevelText(k, g, mods, locks) : k \in keycodes}
<1> SUFFICES ASSUME t.kind # "unresolved"
             PROVE  /\ keycodes # {} /\ \A k \in keycodes : t.symbol = XkbSymbol(k, g, mods, locks)
                    /\ (t.kind = "dead") = IsDead(t.symbol)
  BY DEF TypedByAll
<1>1. Unresolved.kind = "unresolved"
  BY DEF Unresolved
<1>2. t = ResolveText(keycodes, g, mods, locks)
  BY <1>1 DEF AltgrEncoding
<1>3. t = IF \E outcome \in outcomes : outcomes = {outcome} THEN CHOOSE outcome \in outcomes : TRUE ELSE Unresolved
  BY <1>2 DEF ResolveText
<1> HIDE DEF outcomes, t
<1>4. outcomes = {t}
  <2>1. PICK outcome \in outcomes : outcomes = {outcome}
    BY <1>1, <1>3
  <2>2. t \in outcomes
    BY <1>3, <2>1
  <2> QED BY <2>1, <2>2
<1>5. keycodes # {} /\ \A k \in keycodes : t = LevelText(k, g, mods, locks)
  BY <1>4 DEF outcomes
<1>6. ASSUME NEW k \in keycodes
      PROVE  t.symbol = XkbSymbol(k, g, mods, locks) /\ (t.kind = "dead") = IsDead(t.symbol)
  <2>1. k \in Keys /\ t = LevelText(k, g, mods, locks)
    BY <1>5
  <2> QED BY <2>1, TextIs
<1> QED BY <1>5, <1>6

\* keycodes_for_key: the keys that are asked about are those that the query names.
LEMMA NamedAre ==
    ASSUME snapshot \in Groups, NEW query
    PROVE  KeycodesForKey(query, snapshot) = NamedBy(query) /\ NamedBy(query) \subseteq Keys
BY OwnSymbolIs DEF KeycodesForKey, NamedBy

\* The text that a report tells is the one that the keys type.
LEMMA AnswersTyped ==
    ASSUME snapshot \in Groups, NEW keycodes \in SUBSET Keys, NEW mods \in SUBSET Modifiers, NEW locks \in SUBSET Locks,
           Answers(keycodes, keycodes, mods, locks), snapshot' = snapshot
    PROVE  AltgrTextIsTyped'
<1>1. PICK layout, all, t :
          /\ t = AltgrEncoding(layout, keycodes, snapshot, mods, locks, all)
          /\ altgrText' = [asked |-> keycodes, mods |-> mods, on |-> locks, kind |-> t.kind, symbol |-> t.symbol]
  BY DEF Answers
<1>2. /\ altgrText'.asked = keycodes /\ altgrText'.mods = mods /\ altgrText'.on = locks
      /\ altgrText'.kind = t.kind /\ altgrText'.symbol = t.symbol
  BY <1>1
<1>3. TypedByAll(t, keycodes, snapshot, mods, locks)
  BY <1>1, EncodingIs
<1>4. \A k, m, l : XkbSymbol(k, snapshot', m, l) = XkbSymbol(k, snapshot, m, l)
  OBVIOUS
<1> SUFFICES ASSUME altgrText'.kind # "unresolved"
             PROVE  /\ altgrText'.asked # {}
                    /\ \A k \in altgrText'.asked :
                          altgrText'.symbol = XkbSymbol(k, snapshot', altgrText'.mods, altgrText'.on)
                    /\ (altgrText'.kind = "dead") = IsDead(altgrText'.symbol)
  BY DEF AltgrTextIsTyped
<1> QED BY <1>2, <1>3, <1>4 DEF TypedByAll

\* The states of a keyboard, and the lines that the event socket may hold.
KeyStates == [group : Groups, on : SUBSET Locks]

\* The lines, a key with the states that it may be read in.
NoticeLines == [kind : {"activelayout", "lock"}] \cup [kind : {"key"}, since : SUBSET KeyStates]

\* A notice is ahead of a position, or unread at all.
Ahead(s, i, notice) == \E j \in 1 .. (i - 1) : s[j].kind = notice

\* It is unread.
Unread(s, notice) == \E j \in DOMAIN s : s[j].kind = notice

\* The keys that no notice is ahead of can be read with what is known.
KeysAreKnown(s, k, lost) ==
    \A i \in DOMAIN s : s[i].kind = "key" /\ ~Ahead(s, i, "activelayout") =>
        \E state \in s[i].since :
            /\ state.group = k.group
            /\ "locks" \notin lost /\ ~Ahead(s, i, "lock") => state.on = k.on

\* Without an unread notice the next key can be.
NextIsKnown(s, k, lost, state) ==
    ~Unread(s, "activelayout") =>
        /\ k.group = state.group
        /\ "locks" \notin lost /\ ~Unread(s, "lock") => k.on = state.on

\* Every unread key may be read with what the keyboard is now.
KeysMayBeNow(s, state) == \A i \in DOMAIN s : s[i].kind = "key" => state \in s[i].since

\* What was asked for just now is right for all of them.
LEMMA AskedIsKnown ==
    ASSUME NEW s, NEW k, NEW lost, NEW state, k.group = state.group, k.on = state.on, KeysMayBeNow(s, state)
    PROVE  KeysAreKnown(s, k, lost) /\ NextIsKnown(s, k, lost, state)
BY DEF KeysAreKnown, NextIsKnown, KeysMayBeNow

\* A line is taken that is not a change of the layout, nor one of a lock that goes unheard.
LEMMA TakenIsKnown ==
    ASSUME NEW s \in Seq(NoticeLines), s # <<>>, NEW k, NEW lost, NEW more, lost \subseteq more, NEW state
    PROVE  /\ KeysMayBeNow(s, state) => KeysMayBeNow(Tail(s), state)
           /\ Head(s).kind # "activelayout" /\ (Head(s).kind = "lock" => "locks" \in more) =>
                 /\ KeysAreKnown(s, k, lost) => KeysAreKnown(Tail(s), k, more)
                 /\ NextIsKnown(s, k, lost, state) => NextIsKnown(Tail(s), k, more, state)
<1> DEFINE t == Tail(s)
<1>1. /\ DOMAIN s = 1 .. Len(s) /\ Len(s) \in Nat /\ Len(s) >= 1 /\ DOMAIN t = 1 .. (Len(s) - 1)
      /\ \A i \in DOMAIN t : t[i] = s[i + 1] /\ i + 1 \in DOMAIN s
      /\ Head(s) = s[1]
  OBVIOUS
<1> HIDE DEF t
<1>2. KeysMayBeNow(s, state) => KeysMayBeNow(t, state)
  BY <1>1 DEF KeysMayBeNow
<1>3. ASSUME Head(s).kind # "activelayout", Head(s).kind = "lock" => "locks" \in more
      PROVE  /\ KeysAreKnown(s, k, lost) => KeysAreKnown(t, k, more)
             /\ NextIsKnown(s, k, lost, state) => NextIsKnown(t, k, more, state)
  <2>1. ASSUME NEW i \in DOMAIN t, NEW notice, Head(s).kind # notice
        PROVE  Ahead(s, i + 1, notice) => Ahead(t, i, notice)
    <3>1. SUFFICES ASSUME NEW j \in 1 .. i, s[j].kind = notice PROVE Ahead(t, i, notice)
      BY <1>1 DEF Ahead
    <3>2. j # 1
      BY <1>1, <2>1, <3>1
    <3>3. j - 1 \in 1 .. (i - 1) /\ j - 1 \in DOMAIN t /\ (j - 1) + 1 = j
      BY <1>1, <3>2
    <3>4. t[j - 1] = s[j]
      BY <1>1, <3>3
    <3> QED BY <3>1, <3>3, <3>4 DEF Ahead
  <2>2. ASSUME NEW notice, Head(s).kind # notice, Unread(s, notice) PROVE Unread(t, notice)
    <3>1. PICK j \in DOMAIN s : s[j].kind = notice
      BY <2>2 DEF Unread
    <3>2. j # 1
      BY <1>1, <2>2, <3>1
    <3>3. j - 1 \in DOMAIN t /\ (j - 1) + 1 = j
      BY <1>1, <3>2
    <3>4. t[j - 1] = s[j]
      BY <1>1, <3>3
    <3> QED BY <3>1, <3>3, <3>4 DEF Unread
  <2>3. ASSUME KeysAreKnown(s, k, lost), NEW i \in DOMAIN t, t[i].kind = "key", ~Ahead(t, i, "activelayout")
        PROVE  \E u \in t[i].since : u.group = k.group /\ ("locks" \notin more /\ ~Ahead(t, i, "lock") => u.on = k.on)
    <3>1. t[i] = s[i + 1] /\ i + 1 \in DOMAIN s /\ ~Ahead(s, i + 1, "activelayout")
      BY <1>1, <1>3, <2>1, <2>3
    <3>2. PICK u \in s[i + 1].since : u.group = k.group
              /\ ("locks" \notin lost /\ ~Ahead(s, i + 1, "lock") => u.on = k.on)
      BY <2>3, <3>1 DEF KeysAreKnown
    <3>3. "locks" \notin more /\ ~Ahead(t, i, "lock") => ~Ahead(s, i + 1, "lock")
      BY <1>3, <2>1
    <3> QED BY <3>1, <3>2, <3>3
  <2>4. KeysAreKnown(s, k, lost) => KeysAreKnown(t, k, more)
    BY <2>3 DEF KeysAreKnown
  <2>5. NextIsKnown(s, k, lost, state) => NextIsKnown(t, k, more, state)
    BY <1>3, <2>2 DEF NextIsKnown
  <2> QED BY <2>4, <2>5
<1> QED BY <1>2, <1>3 DEF t

\* A key or a notice is sent.
LEMMA SentIsKnown ==
    ASSUME NEW s \in Seq(NoticeLines), NEW k, NEW lost, NEW state, NEW x \in NoticeLines
    PROVE  /\ Append(s, x) \in Seq(NoticeLines)
           /\ KeysMayBeNow(s, state) /\ (x.kind = "key" => state \in x.since) => KeysMayBeNow(Append(s, x), state)
           /\ KeysAreKnown(s, k, lost) /\ (x.kind = "key" => NextIsKnown(s, k, lost, state) /\ x.since = {state})
                 => KeysAreKnown(Append(s, x), k, lost)
           /\ x.kind = "key" /\ NextIsKnown(s, k, lost, state) => NextIsKnown(Append(s, x), k, lost, state)
           /\ Unread(Append(s, x), x.kind)
           /\ \A notice : Unread(s, notice) => Unread(Append(s, x), notice)
<1> DEFINE t == Append(s, x)
           n == Len(s) + 1
<1>1. /\ t \in Seq(NoticeLines) /\ DOMAIN s = 1 .. Len(s) /\ Len(s) \in Nat /\ DOMAIN t = 1 .. n /\ n \in Nat
      /\ t[n] = x /\ n \in DOMAIN t /\ \A i \in DOMAIN s : t[i] = s[i] /\ i \in DOMAIN t
      /\ \A i \in DOMAIN t : i \in DOMAIN s \/ i = n
      /\ 1 .. (n - 1) = DOMAIN s /\ \A i \in DOMAIN s : 1 .. (i - 1) \subseteq DOMAIN s
  OBVIOUS
<1> HIDE DEF t, n
<1>2. KeysMayBeNow(s, state) /\ (x.kind = "key" => state \in x.since) => KeysMayBeNow(t, state)
  BY <1>1 DEF KeysMayBeNow
<1>3. \A i \in DOMAIN s : \A notice : Ahead(t, i, notice) <=> Ahead(s, i, notice)
  BY <1>1 DEF Ahead
<1>4. \A notice : Ahead(t, n, notice) <=> Unread(s, notice)
  BY <1>1 DEF Ahead, Unread
<1>5. ASSUME KeysAreKnown(s, k, lost), x.kind = "key" => NextIsKnown(s, k, lost, state) /\ x.since = {state}
      PROVE  KeysAreKnown(t, k, lost)
  <2> SUFFICES ASSUME NEW i \in DOMAIN t, t[i].kind = "key", ~Ahead(t, i, "activelayout")
               PROVE  \E u \in t[i].since : u.group = k.group /\ ("locks" \notin lost /\ ~Ahead(t, i, "lock") => u.on = k.on)
    BY DEF KeysAreKnown
  <2>1. CASE i \in DOMAIN s
    BY <1>1, <1>3, <1>5, <2>1 DEF KeysAreKnown
  <2>2. CASE i = n
    <3>1. state \in t[i].since /\ ~Unread(s, "activelayout") /\ NextIsKnown(s, k, lost, state)
      BY <1>1, <1>4, <1>5, <2>2
    <3> QED BY <1>4, <2>2, <3>1 DEF NextIsKnown
  <2> QED BY <1>1, <2>1, <2>2
<1>6. \A notice : Unread(t, notice) <=> Unread(s, notice) \/ x.kind = notice
  BY <1>1 DEF Unread
<1>7. x.kind = "key" /\ NextIsKnown(s, k, lost, state) => NextIsKnown(t, k, lost, state)
  BY <1>6 DEF NextIsKnown
<1> QED BY <1>1, <1>2, <1>5, <1>6, <1>7 DEF t

\* The lines after one more state of the keyboard.
SinceThen(s, state) ==
    [i \in DOMAIN s |-> IF s[i].kind = "key" THEN [s[i] EXCEPT !.since = @ \cup {state}] ELSE s[i]]

\* The keyboard changes: the keys that are unread may be of the state before or of the one after.
LEMMA MovedIsKnown ==
    ASSUME NEW s \in Seq(NoticeLines), NEW k, NEW lost, NEW more, lost \subseteq more, NEW state \in KeyStates
    PROVE  /\ SinceThen(s, state) \in Seq(NoticeLines) /\ KeysMayBeNow(SinceThen(s, state), state)
           /\ KeysAreKnown(s, k, lost) => KeysAreKnown(SinceThen(s, state), k, more)
           /\ \A notice : Unread(SinceThen(s, state), notice) <=> Unread(s, notice)
<1> DEFINE t == [i \in DOMAIN s |-> IF s[i].kind = "key" THEN [s[i] EXCEPT !.since = @ \cup {state}] ELSE s[i]]
<1>1. DOMAIN s = 1 .. Len(s) /\ Len(s) \in Nat /\ \A i \in DOMAIN s : s[i] \in NoticeLines
  OBVIOUS
<1>2. ASSUME NEW i \in DOMAIN s
      PROVE  /\ t[i] \in NoticeLines /\ t[i].kind = s[i].kind
             /\ s[i].kind = "key" => t[i].since = s[i].since \cup {state}
  <2>1. CASE s[i].kind = "key"
    <3>1. s[i] \in [kind : {"key"}, since : SUBSET KeyStates]
      BY <1>1, <2>1 DEF NoticeLines
    <3>2. t[i] = [kind |-> "key", since |-> s[i].since \cup {state}]
      BY <2>1, <3>1
    <3> HIDE DEF t
    <3> QED BY <2>1, <3>1, <3>2 DEF NoticeLines
  <2>2. CASE s[i].kind # "key"
    BY <1>1, <2>2
  <2> QED BY <2>1, <2>2
<1>3. DOMAIN t = DOMAIN s
  OBVIOUS
<1>4. t \in Seq(NoticeLines)
  <2>1. t \in [1 .. Len(s) -> NoticeLines]
    BY <1>1, <1>2
  <2> HIDE DEF t
  <2> QED BY <1>1, <2>1
<1> HIDE DEF t
<1>5. KeysMayBeNow(t, state)
  BY <1>2, <1>3 DEF KeysMayBeNow
<1>6. \A i \in DOMAIN s : \A notice : Ahead(t, i, notice) <=> Ahead(s, i, notice)
  <2>1. \A i \in DOMAIN s : \A j \in 1 .. (i - 1) : j \in DOMAIN s
    BY <1>1
  <2> QED BY <1>2, <2>1 DEF Ahead
<1>7. KeysAreKnown(s, k, lost) => KeysAreKnown(t, k, more)
  BY <1>2, <1>3, <1>6 DEF KeysAreKnown
<1>8. \A notice : Unread(t, notice) <=> Unread(s, notice)
  BY <1>2, <1>3 DEF Unread
<1> QED BY <1>4, <1>5, <1>7, <1>8 DEF t, SinceThen

\* What a session may know of the keyboard.
KnownStates == [keymap : BOOLEAN, group : Groups, on : SUBSET Locks, uncertain : BOOLEAN]

\* What was asked for holds of the keys that are unread, unless a notice is ahead of them.
KnownInv ==
    readPc \notin {"start", "over"} /\ "index" \in gives /\ ~known.uncertain /\ ~dirty /\ "layout" \notin missed =>
        KeysAreKnown(lines, known, missed) /\ NextIsKnown(lines, known, missed, Now)

\* What the world is, and that a session which has not begun was sent nothing.
WorldInv ==
    /\ group \in Groups /\ on \in SUBSET Locks /\ snapshot \in Groups
    /\ known \in KnownStates /\ dirty \in BOOLEAN /\ hook \in BOOLEAN
    /\ lines \in Seq(NoticeLines) /\ KeysMayBeNow(lines, Now)
    /\ readPc = "start" => lines = <<>> /\ ~hook

\* What a session knows, and that what it read and told is right.
KeyboardIInv ==
    /\ WorldInv /\ KnownInv
    /\ readPc \in {"chord", "captured"} => reading.key \in Keys /\ reading.mods \in SUBSET Modifiers
    /\ KeysAreReadAsTyped /\ AltgrTextIsTyped

\* It holds before anything is asked or read.
LEMMA KeyboardBegins == KeyReadInit => KeyboardIInv
<1> SUFFICES ASSUME KeyReadInit PROVE KeyboardIInv
  OBVIOUS
<1>1. /\ group \in Groups /\ on \in SUBSET Locks /\ snapshot \in Groups /\ dirty = FALSE /\ hook = FALSE
      /\ known = [keymap |-> FALSE, group |-> 0, on |-> {}, uncertain |-> FALSE]
      /\ lines = <<>> /\ readPc = "start" /\ reading = NoReading /\ altgrText = NoAnswer
  BY DEF KeyReadInit
<1>2. known \in KnownStates
  BY <1>1 DEF KnownStates, Groups
<1>3. lines \in Seq(NoticeLines) /\ DOMAIN lines = {}
  BY <1>1
<1>4. KeysMayBeNow(lines, Now)
  BY <1>3 DEF KeysMayBeNow
<1>5. KeysAreReadAsTyped /\ AltgrTextIsTyped
  BY <1>1 DEF KeysAreReadAsTyped, AltgrTextIsTyped
<1> QED BY <1>1, <1>2, <1>3, <1>4, <1>5 DEF KeyboardIInv, WorldInv, KnownInv

\* refresh_keyboard_state: the keyboard is known as it is now, or known not to be.
LEMMA RefreshIs ==
    ASSUME RefreshKeyboardState, group \in Groups, on \in SUBSET Locks, known \in KnownStates
    PROVE  /\ known' \in KnownStates
           /\ ~known'.uncertain /\ "index" \in gives => known'.group = group /\ known'.on = on
<1>1. CASE \E keymap \in BOOLEAN :
              known' = [keymap |-> keymap, group |-> LayoutIndex, on |-> on, uncertain |-> FALSE]
  <2>1. LayoutIndex \in Groups /\ ("index" \in gives => LayoutIndex = group)
    BY DEF LayoutIndex, Groups
  <2> QED BY <1>1, <2>1 DEF KnownStates
<1>2. CASE known' = [known EXCEPT !.uncertain = TRUE]
  <2>1. known' \in KnownStates /\ known'.uncertain = TRUE
    BY <1>2 DEF KnownStates
  <2> QED BY <2>1
<1> QED BY <1>1, <1>2 DEF RefreshKeyboardState, CompileKeymap

\* The known keyboard is asked for while the lines are left, or one of them is taken.
LEMMA RefreshKnows ==
    ASSUME WorldInv, RefreshKeyboardState, UNCHANGED <<group, on, gives>>, KeysMayBeNow(lines', Now)
    PROVE  known' \in KnownStates /\ KnownInv'
<1>1. /\ known' \in KnownStates
      /\ ~known'.uncertain /\ "index" \in gives => known'.group = group /\ known'.on = on
  BY RefreshIs DEF WorldInv
<1>2. Now.group = group /\ Now.on = on /\ Now' = Now
  BY DEF Now
<1>3. ASSUME ~known'.uncertain, "index" \in gives
      PROVE  KeysAreKnown(lines', known', missed') /\ NextIsKnown(lines', known', missed', Now')
  <2>1. known'.group = Now'.group /\ known'.on = Now'.on /\ KeysMayBeNow(lines', Now')
    BY <1>1, <1>2, <1>3
  <2> QED BY <2>1, AskedIsKnown
<1> QED BY <1>1, <1>3 DEF KnownInv

\* decode_event: a key that is read with what is known has the name and the symbol of a
\* state that agrees with it.
LEMMA ReadIs ==
    ASSUME NEW k \in Keys, NEW mods \in SUBSET Modifiers, NEW kn \in KnownStates, NEW line, NEW lost,
           reading' = DecodeEvent(k, mods, kn, line, lost), gives' = gives,
           ~kn.uncertain /\ "layout" \notin lost /\ "index" \in gives =>
              \E state \in line.since : state.group = kn.group /\ ("locks" \notin lost => state.on = kn.on)
    PROVE  KeysAreReadAsTyped' /\ reading'.key = k /\ reading'.mods = mods
<1> DEFINE in == kn.keymap /\ HasGroup(k, kn.group)
           name == NormalizeKeyStr(IF in THEN LevelsOf(k, kn.group)[1] ELSE EvdevKeyName[k])
           keysym == IF in /\ ~kn.uncertain THEN SelectLevel(k, kn.group, mods, kn.on).keysym ELSE NoSymbol
           shifted == IF NormalizeKeyStr(keysym) = name THEN NoSymbol ELSE keysym
<1>1. reading' = [key |-> k, mods |-> mods, name |-> name, shifted |-> shifted, uncertain |-> kn.uncertain,
                  inKeymap |-> in, since |-> line.since, missed |-> lost]
  BY DEF DecodeEvent
<1> HIDE DEF name, shifted, in
<1>2. /\ reading'.key = k /\ reading'.mods = mods /\ reading'.name = name /\ reading'.shifted = shifted
      /\ reading'.uncertain = kn.uncertain /\ reading'.inKeymap = in /\ reading'.since = line.since
      /\ reading'.missed = lost
  BY <1>1
<1> SUFFICES ASSUME in, ~kn.uncertain, "layout" \notin lost, "index" \in gives
             PROVE  \E state \in line.since :
                       /\ name = NormalizeKeyStr(XkbSymbol(k, state.group, {}, {}))
                       /\ "locks" \in lost \/ shifted = Evidence(k, state, mods)
  BY <1>2 DEF KeysAreReadAsTyped, ReadsTheKeyboard
<1>3. PICK state \in line.since : state.group = kn.group /\ ("locks" \notin lost => state.on = kn.on)
  OBVIOUS
<1>4. HasGroup(k, kn.group) /\ kn.group \in Groups /\ kn.on \in SUBSET Locks
  BY DEF in, KnownStates
<1>5. name = NormalizeKeyStr(XkbSymbol(k, state.group, {}, {}))
  BY <1>3, <1>4, OwnSymbolIs DEF name
<1>6. keysym = XkbSymbol(k, kn.group, mods, kn.on)
  BY <1>4, SymbolIs
<1> HIDE DEF keysym
<1>7. ASSUME "locks" \notin lost PROVE shifted = Evidence(k, state, mods)
  BY <1>3, <1>5, <1>6, <1>7 DEF shifted, Evidence
<1> QED BY <1>3, <1>5, <1>7

\* What was read and told stays right as it is.
LEMMA ReadingStays ==
    ASSUME KeysAreReadAsTyped, gives' = gives, reading' = reading PROVE KeysAreReadAsTyped'
BY DEF KeysAreReadAsTyped, ReadsTheKeyboard

\* So does a text that was told.
LEMMA TextStays ==
    ASSUME AltgrTextIsTyped, snapshot' = snapshot, altgrText' = altgrText PROVE AltgrTextIsTyped'
BY DEF AltgrTextIsTyped

\* The user changes the layout or a lock, or types.
LEMMA UserKeeps == KeyboardIInv /\ User => KeyboardIInv'
<1> SUFFICES ASSUME KeyboardIInv, User PROVE KeyboardIInv'
  OBVIOUS
<1>1. /\ readPc # "over" /\ gives' = gives /\ hook' = hook /\ readPc' = readPc /\ known' = known /\ dirty' = dirty
      /\ snapshot' = snapshot /\ reading' = reading /\ altgrText' = altgrText
  BY DEF User
<1>2. /\ group \in Groups /\ on \in SUBSET Locks /\ snapshot \in Groups
      /\ known \in KnownStates /\ dirty \in BOOLEAN /\ hook \in BOOLEAN
      /\ lines \in Seq(NoticeLines) /\ KeysMayBeNow(lines, Now)
      /\ readPc = "start" => lines = <<>> /\ ~hook
  BY DEF KeyboardIInv, WorldInv
<1>3. KeysAreReadAsTyped' /\ AltgrTextIsTyped'
  BY <1>1, ReadingStays, TextStays DEF KeyboardIInv
<1>4. readPc' \in {"chord", "captured"} => reading'.key \in Keys /\ reading'.mods \in SUBSET Modifiers
  BY <1>1 DEF KeyboardIInv
<1>5. Now \in KeyStates /\ Now.group = group /\ Now.on = on
  BY <1>2 DEF Now, KeyStates
<1>6. ASSUME NEW state \in KeyStates, NEW notice \in {"none", "activelayout", "lock"}, Moves(state, notice),
             missed \subseteq missed', readPc = "start" => notice = "none",
             \/ notice = "activelayout"
             \/ group' = group /\ (notice = "lock" \/ "locks" \in missed' \/ readPc = "start")
      PROVE  WorldInv' /\ KnownInv'
  <2> DEFINE t == SinceThen(lines, state)
             x == [kind |-> notice]
  <2>1. /\ group' = state.group /\ on' = state.on
        /\ lines' = IF notice = "none" THEN t ELSE Append(t, x)
    BY <1>6 DEF Moves, SinceThen
  <2>2. state.group \in Groups /\ state.on \in SUBSET Locks /\ Now' = state
    BY <2>1 DEF KeyStates, Now
  <2>3. /\ t \in Seq(NoticeLines) /\ KeysMayBeNow(t, state)
        /\ KeysAreKnown(lines, known, missed) => KeysAreKnown(t, known, missed')
        /\ \A n : Unread(t, n) <=> Unread(lines, n)
    BY <1>2, <1>6, MovedIsKnown
  <2>4. readPc = "start" => lines' = <<>>
    <3>1. SUFFICES ASSUME readPc = "start" PROVE lines' = <<>>
      OBVIOUS
    <3>2. notice = "none" /\ lines = <<>>
      BY <1>2, <1>6, <3>1
    <3>3. t = <<>>
      BY <3>2 DEF SinceThen
    <3> HIDE DEF t
    <3> QED BY <2>1, <3>2, <3>3
  <2> HIDE DEF t
  <2>5. notice # "none" => x \in NoticeLines /\ x.kind = notice /\ x.kind # "key"
    BY DEF NoticeLines
  <2> HIDE DEF x
  <2>6. /\ lines' \in Seq(NoticeLines) /\ KeysMayBeNow(lines', state)
        /\ KeysAreKnown(lines, known, missed) => KeysAreKnown(lines', known, missed')
        /\ \A n : Unread(lines, n) => Unread(lines', n)
        /\ notice # "none" => Unread(lines', notice)
    <3>1. CASE notice = "none"
      BY <2>1, <2>3, <3>1
    <3>2. CASE notice # "none"
      <4>1. /\ Append(t, x) \in Seq(NoticeLines) /\ KeysMayBeNow(Append(t, x), state)
            /\ KeysAreKnown(t, known, missed') => KeysAreKnown(Append(t, x), known, missed')
            /\ Unread(Append(t, x), notice) /\ \A n : Unread(t, n) => Unread(Append(t, x), n)
        BY <2>3, <2>5, <3>2, SentIsKnown
      <4> QED BY <2>1, <2>3, <3>2, <4>1
    <3> QED BY <3>1, <3>2
  <2>7. WorldInv'
    BY <1>1, <1>2, <2>1, <2>2, <2>4, <2>6 DEF WorldInv
  <2>8. KnownInv'
    <3>1. SUFFICES ASSUME readPc \notin {"start", "over"}, "index" \in gives, ~known.uncertain, ~dirty,
                          "layout" \notin missed'
                   PROVE  KeysAreKnown(lines', known, missed') /\ NextIsKnown(lines', known, missed', state)
      BY <1>1, <2>2 DEF KnownInv
    <3>2. KeysAreKnown(lines, known, missed) /\ NextIsKnown(lines, known, missed, Now)
      BY <1>6, <3>1 DEF KeyboardIInv, KnownInv
    <3>3. NextIsKnown(lines', known, missed', state)
      BY <1>5, <1>6, <2>1, <2>6, <3>1, <3>2 DEF NextIsKnown
    <3> QED BY <2>6, <3>2, <3>3
  <2> QED BY <2>7, <2>8
<1>7. CASE SwitchLayout
  <2>1. PICK g \in Groups, notice \in {"none", "activelayout"} :
            /\ Moves([Now EXCEPT !.group = g], notice) /\ missed' = missed
            /\ notice = IF readPc = "start" THEN "none" ELSE "activelayout"
    BY <1>7 DEF SwitchLayout
  <2>2. PICK state : state = [Now EXCEPT !.group = g]
    OBVIOUS
  <2>3. state \in KeyStates
    BY <2>2 , <1>2 DEF Now, KeyStates
  <2>4. CASE notice = "activelayout"
    <3>1. WorldInv' /\ KnownInv'
      BY <1>6, <2>1, <2>2, <2>3, <2>4
    <3> QED BY <1>3, <1>4, <3>1 DEF KeyboardIInv
  <2>5. CASE notice = "none"
    <3> DEFINE t == SinceThen(lines, state)
    <3>1. readPc = "start" /\ lines = <<>>
      BY <1>2, <2>1, <2>5
    <3>2. group' = state.group /\ on' = state.on /\ lines' = t
      BY <2>1, <2>2, <2>5 DEF Moves, SinceThen
    <3>3. t = <<>>
      BY <3>1 DEF SinceThen
    <3> HIDE DEF t
    <3>4. WorldInv'
      <4>1. KeysMayBeNow(lines', Now')
        BY <3>2, <3>3 DEF KeysMayBeNow
      <4>2. group' \in Groups /\ on' \in SUBSET Locks /\ lines' \in Seq(NoticeLines)
        BY <2>3, <3>2, <3>3 DEF KeyStates
      <4> QED BY <1>1, <1>2, <3>2, <3>3, <4>1, <4>2 DEF WorldInv
    <3>5. KnownInv'
      BY <1>1, <3>1 DEF KnownInv
    <3> QED BY <1>3, <1>4, <3>4, <3>5 DEF KeyboardIInv
  <2> QED BY <2>1, <2>4, <2>5
<1>8. CASE ToggleLock
  <2>10. PICK l \in Locks :
            Moves([Now EXCEPT !.on = IF l \in on THEN on \ {l} ELSE on \cup {l}],
                  IF hook THEN "lock" ELSE "none")
    BY <1>8 DEF ToggleLock
  <2>11. PICK notice \in {"none", "lock"} : notice = IF hook THEN "lock" ELSE "none"
    OBVIOUS
  <2>12. PICK locks : locks = IF l \in on THEN on \ {l} ELSE on \cup {l}
    OBVIOUS
  <2>13. Moves([Now EXCEPT !.on = locks], notice)
    BY <2>10, <2>11, <2>12
  <2>14. missed' = IF hook \/ readPc = "start" THEN missed ELSE missed \cup {"locks"}
    BY <1>8 DEF ToggleLock
  <2>2. PICK state : state = [Now EXCEPT !.on = locks]
    OBVIOUS
  <2>3. state = [group |-> group, on |-> locks]
    BY <2>2 DEF Now
  <2>4. locks \in SUBSET Locks
    BY <1>2, <2>12
  <2>5. state \in KeyStates /\ state.group = group
    BY <1>2, <2>3, <2>4 DEF KeyStates
  <2>6. group' = group
    BY <2>13, <2>2, <2>5 DEF Moves
  <2>7. WorldInv' /\ KnownInv'
    <3>1. Moves(state, notice) /\ missed \subseteq missed'
      BY <2>2, <2>13, <2>14
    <3>2. readPc = "start" => notice = "none"
      BY <1>2, <2>11
    <3>3. notice = "lock" \/ "locks" \in missed' \/ readPc = "start"
      BY <2>11, <2>14
    <3> QED BY <1>6, <2>5, <2>6, <2>11, <3>1, <3>2, <3>3
  <2> QED BY <1>3, <1>4, <2>7 DEF KeyboardIInv
<1>9. CASE TypeKey
  <2> DEFINE x == [kind |-> "key", since |-> {Now}]
  <2>1. hook /\ lines' = Append(lines, x) /\ group' = group /\ on' = on /\ missed' = missed
    BY <1>9 DEF TypeKey, worldVars
  <2>2. x \in NoticeLines /\ x.kind = "key" /\ x.since = {Now}
    BY <1>5 DEF NoticeLines
  <2> HIDE DEF x
  <2>3. Now' = Now /\ readPc # "start"
    BY <1>2, <2>1 DEF Now
  <2>4. lines' \in Seq(NoticeLines) /\ KeysMayBeNow(lines', Now)
    BY <1>2, <2>1, <2>2, SentIsKnown
  <2>5. KeysAreKnown(lines, known, missed) /\ NextIsKnown(lines, known, missed, Now)
           => KeysAreKnown(lines', known, missed) /\ NextIsKnown(lines', known, missed, Now)
    BY <1>2, <2>1, <2>2, SentIsKnown
  <2>6. WorldInv'
    BY <1>1, <1>2, <2>1, <2>3, <2>4 DEF WorldInv
  <2>7. KnownInv'
    BY <1>1, <2>1, <2>3, <2>5 DEF KeyboardIInv, KnownInv
  <2> QED BY <1>3, <1>4, <2>6, <2>7 DEF KeyboardIInv
<1> QED BY <1>7, <1>8, <1>9 DEF User

\* Reading a line: whatever is read is read in a state that the keyboard was in since.
LEMMA LineKeeps == KeyboardIInv /\ NextObservedEvent /\ gives' = gives => KeyboardIInv'
<1> SUFFICES ASSUME KeyboardIInv, NextObservedEvent, gives' = gives PROVE KeyboardIInv'
  OBVIOUS
<1>1. /\ readPc = "armed" /\ lines # <<>> /\ lines' = Tail(lines) /\ group' = group /\ on' = on
      /\ hook' = hook /\ snapshot' = snapshot /\ altgrText' = altgrText
  BY DEF NextObservedEvent, worldVars
<1>2. /\ group \in Groups /\ on \in SUBSET Locks /\ snapshot \in Groups
      /\ known \in KnownStates /\ dirty \in BOOLEAN /\ hook \in BOOLEAN
      /\ lines \in Seq(NoticeLines) /\ KeysMayBeNow(lines, Now)
  BY DEF KeyboardIInv, WorldInv
<1>3. Now' = Now /\ Now.group = group /\ Now.on = on
  BY <1>1 DEF Now
<1>4. lines' \in Seq(NoticeLines) /\ KeysMayBeNow(lines', Now)
  BY <1>1, <1>2, TakenIsKnown
<1>5. AltgrTextIsTyped'
  BY <1>1, TextStays DEF KeyboardIInv
<1>6. ASSUME known' \in KnownStates, dirty' \in BOOLEAN, readPc' # "start" PROVE WorldInv'
  BY <1>1, <1>2, <1>3, <1>4, <1>6 DEF WorldInv
<1>7. RefreshKeyboardState => known' \in KnownStates /\ KnownInv'
  BY <1>1, <1>3, <1>4, RefreshKnows DEF KeyboardIInv
<1>8. CASE TakeNotice
  <2>1. readPc' = readPc /\ reading' = reading /\ dirty' \in BOOLEAN
    BY <1>8 DEF TakeNotice
  <2>2. KeysAreReadAsTyped'
    BY <2>1, ReadingStays DEF KeyboardIInv
  <2>3. CASE RefreshKeyboardState
    <3>1. WorldInv' /\ KnownInv'
      BY <1>1, <1>6, <1>7, <2>1, <2>3
    <3> QED BY <1>1, <1>5, <2>1, <2>2, <3>1 DEF KeyboardIInv
  <2>4. CASE dirty' = TRUE /\ known' = known
    <3>1. WorldInv' /\ KnownInv'
      BY <1>1, <1>2, <1>6, <2>1, <2>4 DEF KnownInv
    <3> QED BY <1>1, <1>5, <2>1, <2>2, <3>1 DEF KeyboardIInv
  <2> QED BY <1>8, <2>3, <2>4 DEF TakeNotice
<1>9. CASE TakeTypedKey
  <2> DEFINE line == Head(lines)
  <2>1. /\ line.kind = "key" /\ dirty' = FALSE /\ readPc' \in {"chord", "captured"}
        /\ IF dirty THEN RefreshKeyboardState ELSE known' = known /\ missed' = missed
    BY <1>9 DEF TakeTypedKey
  <2>2. PICK k \in Typed, mods \in SUBSET Modifiers : reading' = DecodeEvent(k, mods, known', line, missed')
    BY <1>9 DEF TakeTypedKey
  <2>3. k \in Keys
    BY <2>2, KeyReadingAssumption
  <2>4. 1 \in DOMAIN lines /\ lines[1] = line
    BY <1>1, <1>2
  <2> HIDE DEF line
  <2>5. Now \in line.since
    BY <1>2, <2>1, <2>4 DEF KeysMayBeNow
  <2>6. CASE dirty
    <3>1. RefreshKeyboardState
      BY <2>1, <2>6
    <3>2. WorldInv' /\ KnownInv'
      BY <1>6, <1>7, <2>1, <3>1
    <3>3. ~known'.uncertain /\ "index" \in gives => Now.group = known'.group /\ Now.on = known'.on
      BY <1>2, <1>3, <3>1, RefreshIs
    <3>4. /\ known' \in KnownStates
          /\ ~known'.uncertain /\ "layout" \notin missed' /\ "index" \in gives =>
                \E state \in line.since : state.group = known'.group /\ ("locks" \notin missed' => state.on = known'.on)
      BY <1>7, <2>5, <3>1, <3>3
    <3>5. KeysAreReadAsTyped' /\ reading'.key = k /\ reading'.mods = mods
      BY <2>2, <2>3, <3>4, ReadIs
    <3> QED BY <1>5, <2>2, <2>3, <3>2, <3>5 DEF KeyboardIInv
  <2>7. CASE ~dirty
    <3>1. known' = known /\ missed' = missed /\ dirty' = dirty
      BY <1>2, <2>1, <2>7
    <3>2. ~Ahead(lines, 1, "activelayout") /\ ~Ahead(lines, 1, "lock")
      <4>1. 1 .. (1 - 1) = {}
        OBVIOUS
      <4> QED BY <4>1 DEF Ahead
    <3>3. ~known.uncertain /\ "layout" \notin missed /\ "index" \in gives =>
             KeysAreKnown(lines, known, missed) /\ NextIsKnown(lines, known, missed, Now)
      BY <1>1, <2>7 DEF KeyboardIInv, KnownInv
    <3>4. ~known.uncertain /\ "layout" \notin missed /\ "index" \in gives =>
             \E state \in line.since : state.group = known.group /\ ("locks" \notin missed => state.on = known.on)
      BY <2>1, <2>4, <3>2, <3>3 DEF KeysAreKnown
    <3>5. KeysAreReadAsTyped' /\ reading'.key = k /\ reading'.mods = mods
      BY <1>2, <2>2, <2>3, <3>1, <3>4, ReadIs
    <3>6. WorldInv'
      BY <1>2, <1>6, <2>1, <3>1
    <3>7. KeysAreKnown(lines, known, missed) /\ NextIsKnown(lines, known, missed, Now)
             => KeysAreKnown(lines', known, missed) /\ NextIsKnown(lines', known, missed, Now)
      <4>1. Head(lines).kind # "activelayout" /\ Head(lines).kind # "lock"
        BY <2>1 DEF line
      <4> QED BY <1>1, <1>2, <4>1, TakenIsKnown
    <3>8. KnownInv'
      BY <1>3, <2>1, <2>7, <3>1, <3>3, <3>7 DEF KnownInv
    <3> QED BY <1>5, <2>2, <2>3, <3>5, <3>6, <3>8 DEF KeyboardIInv
  <2> QED BY <1>2, <2>6, <2>7
<1> QED BY <1>8, <1>9 DEF NextObservedEvent

\* The other steps of the session.
LEMMA SessionKeeps == KeyboardIInv /\ SessionReads => KeyboardIInv'
<1> SUFFICES ASSUME KeyboardIInv, SessionReads PROVE KeyboardIInv'
  OBVIOUS
<1>1. gives' = gives
  BY DEF SessionReads
<1>2. /\ group \in Groups /\ on \in SUBSET Locks /\ snapshot \in Groups
      /\ known \in KnownStates /\ dirty \in BOOLEAN /\ hook \in BOOLEAN
      /\ lines \in Seq(NoticeLines) /\ KeysMayBeNow(lines, Now)
      /\ readPc = "start" => lines = <<>> /\ ~hook
  BY DEF KeyboardIInv, WorldInv
<1>3. group' = group /\ on' = on => Now' = Now
  BY DEF Now
<1>4. reading' = reading => KeysAreReadAsTyped'
  BY <1>1, ReadingStays DEF KeyboardIInv
<1>5. snapshot' = snapshot /\ altgrText' = altgrText => AltgrTextIsTyped'
  BY TextStays DEF KeyboardIInv
<1>6. reading' = NoReading => KeysAreReadAsTyped'
  BY DEF KeysAreReadAsTyped
<1>7. CASE Connect
  <2>1. /\ readPc' = "closed" /\ RefreshKeyboardState /\ group' = group /\ on' = on /\ lines' = lines
        /\ hook' = hook /\ dirty' = dirty /\ snapshot' = snapshot /\ reading' = reading /\ altgrText' = altgrText
    BY <1>7 DEF Connect, worldVars
  <2>2. KeysMayBeNow(lines', Now)
    BY <1>2, <2>1
  <2>3. known' \in KnownStates /\ KnownInv'
    BY <1>1, <2>1, <2>2, RefreshKnows DEF KeyboardIInv
  <2>4. WorldInv'
    BY <1>2, <1>3, <2>1, <2>2, <2>3 DEF WorldInv
  <2> QED BY <1>4, <1>5, <2>1, <2>3, <2>4 DEF KeyboardIInv
<1>8. CASE ArmReading
  <2>1. /\ readPc = "closed" /\ readPc' = "armed" /\ lines' = <<>> /\ hook' = TRUE /\ altgrText' = NoAnswer
        /\ missed' = missed \cup Discarded("activelayout", "layout") \cup Discarded("lock", "locks")
        /\ group' = group /\ on' = on /\ known' = known /\ dirty' = dirty /\ snapshot' = snapshot
        /\ reading' = reading
    BY <1>8 DEF ArmReading, worldVars
  <2>2. lines' \in Seq(NoticeLines) /\ DOMAIN lines' = {}
    BY <2>1
  <2>3. WorldInv'
    <3>1. KeysMayBeNow(lines', Now')
      BY <2>2 DEF KeysMayBeNow
    <3> QED BY <1>2, <2>1, <2>2, <3>1 DEF WorldInv
  <2>4. /\ Unread(lines, "activelayout") => "layout" \in missed'
        /\ Unread(lines, "lock") => "locks" \in missed'
        /\ missed \subseteq missed'
    BY <2>1 DEF Discarded, Unread
  <2>5. KnownInv'
    <3>1. SUFFICES ASSUME "index" \in gives, ~known.uncertain, ~dirty, "layout" \notin missed'
                   PROVE  KeysAreKnown(lines', known, missed') /\ NextIsKnown(lines', known, missed', Now)
      BY <1>1, <1>3, <2>1 DEF KnownInv
    <3>2. NextIsKnown(lines, known, missed, Now)
      BY <2>1, <2>4, <3>1 DEF KeyboardIInv, KnownInv
    <3>3. NextIsKnown(lines', known, missed', Now)
      BY <2>4, <3>1, <3>2 DEF NextIsKnown
    <3>4. KeysAreKnown(lines', known, missed')
      BY <2>2 DEF KeysAreKnown
    <3> QED BY <3>3, <3>4
  <2>6. AltgrTextIsTyped'
    BY <2>1 DEF AltgrTextIsTyped
  <2> QED BY <1>4, <2>1, <2>3, <2>5, <2>6 DEF KeyboardIInv
<1>9. CASE NextObservedEvent
  BY <1>1, <1>9, LineKeeps
<1>10. CASE DrainChord
  <2>1. /\ readPc = "chord" /\ lines # <<>> /\ lines' = Tail(lines) /\ readPc' = readPc
        /\ dirty' = (dirty \/ Head(lines).kind = "activelayout")
        /\ missed' = IF Head(lines).kind = "lock" THEN missed \cup {"locks"} ELSE missed
        /\ group' = group /\ on' = on /\ hook' = hook /\ known' = known /\ snapshot' = snapshot
        /\ reading' = reading /\ altgrText' = altgrText
    BY <1>10 DEF DrainChord, worldVars
  <2>2. missed \subseteq missed' /\ (Head(lines).kind = "lock" => "locks" \in missed')
    BY <2>1
  <2>3. /\ lines' \in Seq(NoticeLines) /\ KeysMayBeNow(lines', Now)
        /\ Head(lines).kind # "activelayout" =>
              /\ KeysAreKnown(lines, known, missed) => KeysAreKnown(lines', known, missed')
              /\ NextIsKnown(lines, known, missed, Now) => NextIsKnown(lines', known, missed', Now)
    <3>1. PICK more : more = missed'
      OBVIOUS
    <3>2. /\ KeysMayBeNow(Tail(lines), Now)
          /\ Head(lines).kind # "activelayout" =>
                /\ KeysAreKnown(lines, known, missed) => KeysAreKnown(Tail(lines), known, more)
                /\ NextIsKnown(lines, known, missed, Now) => NextIsKnown(Tail(lines), known, more, Now)
      BY <1>2, <2>1, <2>2, <3>1, TakenIsKnown
    <3>3. Tail(lines) \in Seq(NoticeLines)
      BY <1>2, <2>1
    <3> QED BY <2>1, <3>1, <3>2, <3>3
  <2>4. WorldInv'
    BY <1>2, <1>3, <2>1, <2>3 DEF WorldInv
  <2>5. KnownInv'
    BY <1>1, <1>3, <2>1, <2>2, <2>3 DEF KeyboardIInv, KnownInv
  <2> QED BY <1>4, <1>5, <2>1, <2>4, <2>5 DEF KeyboardIInv
<1>11. CASE ChordEnds
  <2>1. /\ readPc = "chord" /\ lines' = lines /\ group' = group /\ on' = on /\ hook' = hook
        /\ snapshot' = snapshot /\ altgrText' = altgrText
        /\ \/ readPc' = "captured" /\ known' = known /\ missed' = missed /\ dirty' = dirty /\ reading' = reading
           \/ readPc' = "over" /\ (RefreshKeyboardState \/ known' = known) /\ dirty' = FALSE /\ reading' = NoReading
    BY <1>11 DEF ChordEnds, worldVars
  <2>2. RefreshKeyboardState => known' \in KnownStates
    BY <1>2, RefreshIs
  <2>3. WorldInv'
    BY <1>2, <1>3, <2>1, <2>2 DEF WorldInv
  <2>4. KnownInv'
    BY <1>1, <1>3, <2>1 DEF KeyboardIInv, KnownInv
  <2>5. readPc' \in {"chord", "captured"} => reading'.key \in Keys /\ reading'.mods \in SUBSET Modifiers
    BY <2>1 DEF KeyboardIInv
  <2>6. KeysAreReadAsTyped' /\ AltgrTextIsTyped'
    BY <1>4, <1>5, <1>6, <2>1
  <2> QED BY <2>3, <2>4, <2>5, <2>6 DEF KeyboardIInv
<1>12. CASE InspectReading
  <2>1. /\ readPc = "captured" /\ hook' = FALSE /\ readPc' \in {"closed", "over"} /\ reading' = NoReading
        /\ group' = group /\ on' = on /\ lines' = lines /\ known' = known /\ dirty' = dirty /\ missed' = missed
        /\ snapshot' = snapshot
        /\ \/ Answers({reading.key}, {reading.key}, reading.mods, {})
           \/ altgrText' = altgrText
    BY <1>12 DEF InspectReading, worldVars
  <2>2. AltgrTextIsTyped'
    <3>1. PICK keycodes, mods, locks : keycodes = {reading.key} /\ mods = reading.mods /\ locks = {}
      OBVIOUS
    <3>2. keycodes \in SUBSET Keys /\ mods \in SUBSET Modifiers /\ locks \in SUBSET Locks
      BY <2>1, <3>1 DEF KeyboardIInv
    <3>3. CASE Answers(keycodes, keycodes, mods, locks)
      BY <1>2, <2>1, <3>2, <3>3, AnswersTyped
    <3> QED BY <1>5, <2>1, <3>1, <3>3
  <2>3. WorldInv'
    BY <1>2, <1>3, <2>1 DEF WorldInv
  <2>4. KnownInv'
    BY <1>1, <1>3, <2>1 DEF KeyboardIInv, KnownInv
  <2> QED BY <1>6, <2>1, <2>2, <2>3, <2>4 DEF KeyboardIInv
<1>13. CASE QueryAltgr
  <2>1. /\ readPc = "start" /\ readPc' = "over" /\ group' = group /\ on' = on /\ lines' = lines /\ hook' = hook
        /\ known' = known /\ dirty' = dirty /\ snapshot' = snapshot /\ reading' = reading
    BY <1>13 DEF QueryAltgr, worldVars
  <2>2. PICK query \in Queried, mods \in {m \in SUBSET Modifiers : "altgr" \in m}, locks \in SUBSET Locks :
            Answers(KeycodesForKey(query, snapshot), NamedBy(query), mods, locks)
    BY <1>13, Zenon DEF QueryAltgr
  <2>7. mods \in SUBSET Modifiers
    OBVIOUS
  <2>3. PICK keycodes \in SUBSET Keys : Answers(keycodes, keycodes, mods, locks)
    BY <1>2, <2>2, NamedAre
  <2>4. AltgrTextIsTyped'
    BY <1>2, <2>1, <2>3, <2>7, AnswersTyped
  <2>5. WorldInv'
    BY <1>2, <1>3, <2>1 DEF WorldInv
  <2>6. KnownInv'
    BY <2>1 DEF KnownInv
  <2> QED BY <1>4, <2>1, <2>4, <2>5, <2>6 DEF KeyboardIInv
<1> QED BY <1>7, <1>8, <1>9, <1>10, <1>11, <1>12, <1>13 DEF SessionReads

\* Nothing else happens to it.
LEMMA KeyboardKeeps == KeyboardIInv /\ [KeyReadNext]_keyReadVars => KeyboardIInv'
<1> SUFFICES ASSUME KeyboardIInv, UNCHANGED keyReadVars PROVE KeyboardIInv'
  BY UserKeeps, SessionKeeps DEF KeyReadNext
<1>1. /\ gives' = gives /\ group' = group /\ on' = on /\ lines' = lines /\ hook' = hook /\ readPc' = readPc
      /\ known' = known /\ dirty' = dirty /\ missed' = missed /\ snapshot' = snapshot /\ reading' = reading
      /\ altgrText' = altgrText
  BY DEF keyReadVars, worldVars, sessionVars
<1>2. Now' = Now
  BY <1>1 DEF Now
<1>3. KeysAreReadAsTyped' /\ AltgrTextIsTyped'
  BY <1>1, ReadingStays, TextStays DEF KeyboardIInv
<1>4. WorldInv' /\ KnownInv'
  BY <1>1, <1>2 DEF KeyboardIInv, WorldInv, KnownInv
<1> QED BY <1>1, <1>3, <1>4 DEF KeyboardIInv

-----------------------------------------------------------------------------
(* The theorems: the invariant of a component holds in the behaviours of   *)
(* it, for every value of the constants, and its properties follow.        *)

\* parse_listen_arguments (src/cli.rs), the stages of listen::run (src/listen/mod.rs) and
\* plan_default_chain (src/listen/output.rs): with --suppress nothing listens that cannot
\* suppress, and the plan is what runs, where the display lets the window open.
THEOREM StartIsAsPlanned == Spec => []Start_IsAsPlanned
<1> DEFINE Inv == part = "start" => StartIInv
<1>1. Init => Inv
  BY StartBegins DEF Init
<1>2. Inv /\ [Next]_mcVars => Inv'
  BY PartStays, StartSteps, StartKeeps
<1>3. Inv => Start_IsAsPlanned
  BY DEF StartIInv, Start_IsAsPlanned
<1> QED BY <1>1, <1>2, <1>3, PTL DEF Spec

\* The threads of src/layers/x11_grab.rs that probe X11 grabs (src/probe/x11.rs): what they
\* say of a key was so at some moment of the probe, unless an earlier one still ran, and a
\* probe that ended well, or whose connection is gone, holds no grab.
THEOREM GrabsJust == Spec => []Grabs_AreJust
<1> DEFINE Inv == part = "grabs" => GrabIInv
<1>1. Init => Inv
  BY GrabsBegin DEF Init
<1>2. Inv /\ [Next]_mcVars => Inv'
  BY PartStays, GrabsSteps, GrabsKeep
<1>3. Inv => Grabs_AreJust
  BY GrabsAreJust DEF Grabs_AreJust
<1> QED BY <1>1, <1>2, <1>3, PTL DEF Spec

\* with_deadline and run_with_limits (src/command.rs): however deep operations are nested,
\* the innermost deadline is the earliest, and a command ends with every one of them, up to
\* the time it took to start.
THEOREM DeadlinesKept == Spec => []Deadlines_AreKept
<1> DEFINE Inv == part = "budget" => BudgetIInv
<1>1. Init => Inv
  BY BudgetBegins DEF Init
<1>2. Inv /\ [Next]_mcVars => Inv'
  BY PartStays, BudgetSteps, BudgetKeeps
<1>3. Inv => Deadlines_AreKept
  BY BudgetIsKept DEF Deadlines_AreKept
<1> QED BY <1>1, <1>2, <1>3, PTL DEF Spec

\* The Sway capture session (src/sway_capture.rs): however the frames are cut, each binding
\* that ran is reported once, in order, as the press or release it was, where the events and
\* the configuration can tell, and none is left behind.
THEOREM SwayRight == Spec => []Sway_ReportsAreRight
<1> DEFINE Inv == part = "sway" => SwayIInv
<1>1. Init => Inv
  BY SwayBegins DEF Init
<1>2. Inv /\ [Next]_mcVars => Inv'
  BY PartStays, SwaySteps, SwayKeeps
<1>3. Inv => Sway_ReportsAreRight
  BY SwayIsRight DEF Sway_ReportsAreRight
<1> QED BY <1>1, <1>2, <1>3, PTL DEF Spec

\* InputReader (src/listen/terminal.rs) and the framing of src/listen/protocol.rs: wherever
\* the bytes are cut, each raw event is one of the keys that were typed, in order, if an
\* Escape of its own is told from the start of a sequence by the time between.
THEOREM TerminalRight == Spec => []Terminal_FramesAreKeys
<1> DEFINE Inv == part = "terminal" => TerminalIInv
<1>1. Init => Inv
  BY TerminalBegins DEF Init
<1>2. Inv /\ [Next]_mcVars => Inv'
  BY PartStays, TerminalSteps, TerminalKeeps
<1>3. Inv => Terminal_FramesAreKeys
  BY TerminalIsRight DEF Terminal_FramesAreKeys
<1> QED BY <1>1, <1>2, <1>3, PTL DEF Spec

\* The probe window and its ChordTracker (src/probe, src/listen/window.rs): a chord that was
\* not delivered is named when, and only when, it ended without a key, whatever was queued
\* between the display server, the window and the tracker.
THEOREM WithheldExact == Spec => Window_WithheldIsExact
<1> DEFINE Inv == part = "window" => WindowIInv
<1>1. Init => Inv
  BY WindowBegins DEF Init
<1>2. Inv /\ [Next]_mcVars => Inv' /\ (part = "window" => NamesTheChord)
  BY PartStays, WindowSteps, WindowKeeps
<1>3. Inv /\ [Next]_mcVars => [part = "window" => NamesTheChord]_mcVars
  BY <1>2
<1> QED BY <1>1, <1>2, <1>3, PTL DEF Spec, Window_WithheldIsExact

\* EvdevSession (src/listen/evdev.rs): whatever a keyboard's queue lost and whichever
\* keyboards come and go, the modifiers the session has for a keyboard, with the events it
\* has not read, are those that are down, or it knows that it has to ask.
THEOREM EvdevRight == Spec => []Evdev_ModifiersCatchUp
<1> DEFINE Inv == part = "evdev" => EvdevIInv
<1>1. Init => Inv
  BY EvdevBegins DEF Init
<1>2. Inv /\ [Next]_mcVars => Inv'
  BY PartStays, EvdevSteps, EvdevKeeps
<1>3. Inv => Evdev_ModifiersCatchUp
  BY EvdevIsRight DEF Evdev_ModifiersCatchUp
<1> QED BY <1>1, <1>2, <1>3, PTL DEF Spec

\* discover_in (src/extension_adapters.rs), Environment::collect and extension_inventory
\* (src/environment.rs), inspect_compositor, append_extension_inventory and `whykey extension`:
\* with any manifests and however many keys, of the user's programs the selected one runs, once,
\* and what is reported of a key is what it answered.
THEOREM ExtensionsKept == Spec => []Extensions_AreKept
<1> DEFINE Inv == part = "extension" => ExtensionIInv
<1>1. Init => Inv
  BY ExtensionBegins DEF Init
<1>2. Inv /\ [Next]_mcVars => Inv'
  BY PartStays, ExtensionSteps, ExtensionKeeps
<1>3. Inv => Extensions_AreKept
  BY SelectedRan, AnsweredSo DEF Extensions_AreKept, ExtensionsAreKept
<1> QED BY <1>1, <1>2, <1>3, PTL DEF Spec

\* answer, load_replay and finish of src/recording.rs: however a recording is stored and
\* whatever the program does in the replay, the kth answer to a question is the one that the
\* run got, or the one it always got, and a replay ends with its own status only when it
\* asked for all of them.
THEOREM ReplayRight == Spec => []Recording_ReplayIsTheRun
<1> DEFINE Inv == part = "recording" => RecordingIInv
<1>1. Init => Inv
  BY RecordingBegins DEF Init
<1>2. Inv /\ [Next]_mcVars => Inv'
  BY PartStays, RecordingSteps, RecordingKeeps
<1>3. Inv => Recording_ReplayIsTheRun
  BY RecordingIsRight DEF Recording_ReplayIsTheRun
<1> QED BY <1>1, <1>2, <1>3, PTL DEF Spec

\* next_observed_event, refresh_keyboard_state and decode_event of src/hyprland_capture.rs, with
\* select_level and resolve_text of src/xkb.rs: a captured key has the name and the symbol of
\* one state that the keyboard was in between its press and its reading, and the text told of
\* an AltGr key is what all the keys that were asked about type.
THEOREM KeyboardRight == Spec => []Keyboard_IsReadAsTyped
<1> DEFINE Inv == part = "keyboard" => KeyboardIInv
<1>1. Init => Inv
  BY KeyboardBegins DEF Init
<1>2. Inv /\ [Next]_mcVars => Inv'
  BY PartStays, KeyboardSteps, KeyboardKeeps
<1>3. Inv => Keyboard_IsReadAsTyped
  BY DEF Keyboard_IsReadAsTyped, KeyboardIInv
<1> QED BY <1>1, <1>2, <1>3, PTL DEF Spec
=============================================================================
