------------------------------ MODULE ListenStart ------------------------------
(***************************************************************************)
(* How `whykey listen` comes to a capture backend: the arguments           *)
(* (parse_listen_arguments of src/cli.rs), the chain of listen::run        *)
(* (src/listen/mod.rs), and the plan of it that --dry-run and              *)
(* --explain-capture print (plan_default_chain of src/listen/output.rs).   *)
(***************************************************************************)
EXTENDS Integers, Sequences, SequencesExt

CONSTANT MaxArguments  \* bound: arguments given

ASSUME ListenStartAssumption == MaxArguments \in Nat

VARIABLES
    arguments,  \* the command line, without what does not choose a backend
    desktop,    \* what the backends will find
    startPc,    \* "parse", "explain", "native", "window", "terminal", "over"
    options,
    plan,       \* the backend the plan names, "none", or "unasked"
    backend     \* the backend that runs, "none", or "error"

startVars == <<arguments, desktop, startPc, options, plan, backend>>

Arguments == {"--suppress", "--no-suppress", "--terminal", "--evdev", "--window",
              "--events all", "--dry-run", "--explain-capture"}

\* Of each compositor candidate: whether it has a capture factory, and
\* whether that connects.
Candidates == BoundedSeq({"noFactory", "refuses", "connects"}, 2)

Desktops == [candidates : Candidates, ssh : BOOLEAN,
             display : {"none", "refuses", "opens"}, tty : BOOLEAN]

StartInit ==
    /\ arguments \in BoundedSeq(Arguments, MaxArguments)
    /\ desktop \in Desktops
    /\ startPc = "parse" /\ options = {} /\ plan = "unasked" /\ backend = "none"

-----------------------------------------------------------------------------
(* parse_listen_arguments: the switches that were given, and "error" when  *)
(* they contradict each other.                                             *)
Forced == {"--terminal", "--evdev", "--window"}

SuppressConflict(given) == "--suppress" \in given /\ given \cap Forced # {}

Contradicts(given) ==
    \/ {"--suppress", "--no-suppress"} \subseteq given
    \/ \E a, b \in Forced : a # b /\ {a, b} \subseteq given
    \/ SuppressConflict(given)
    \/ {"--events all", "--terminal"} \subseteq given

ParseArguments ==
    /\ startPc = "parse"
    /\ LET given == ToSet(arguments) IN
       IF Contradicts(given)
       THEN startPc' = "over" /\ backend' = "error" /\ UNCHANGED options
       ELSE startPc' = "explain" /\ options' = given /\ UNCHANGED backend
    /\ UNCHANGED <<arguments, desktop, plan>>

-----------------------------------------------------------------------------
\* select_native_backend: the first candidate whose capture connects
NativeConnects == \E i \in DOMAIN desktop.candidates : desktop.candidates[i] = "connects"

\* probe_window_display: over SSH the window would open on another desktop.
ProbeDisplay == desktop.display # "none" /\ ~desktop.ssh

PlanDefaultChain ==
    IF NativeConnects THEN "native"
    ELSE IF "--suppress" \in options THEN "none"
    ELSE IF ProbeDisplay THEN "window"
    ELSE IF "--events all" \in options \/ ~desktop.tty THEN "none"
    ELSE "terminal"

ForcedBackend ==
    IF "--evdev" \in options THEN "evdev"
    ELSE IF "--terminal" \in options THEN "terminal"
    ELSE IF "--window" \in options THEN "window"
    ELSE "none"

\* print_capture_plan, and what it does not come to
Explains ==
    /\ startPc = "explain"
    /\ plan' = IF options \cap {"--dry-run", "--explain-capture"} = {} THEN "unasked"
               ELSE IF ForcedBackend # "none" THEN ForcedBackend ELSE PlanDefaultChain
    /\ IF "--dry-run" \in options THEN startPc' = "over" /\ UNCHANGED backend
       ELSE IF ForcedBackend # "none"
       THEN startPc' = "over" /\ backend' \in {ForcedBackend, "error"}
       ELSE startPc' = "native" /\ UNCHANGED backend
    /\ UNCHANGED <<arguments, desktop, options>>

-----------------------------------------------------------------------------
(* The default chain of run, one stage of it at a time.                    *)
Runs(which) == startPc' = "over" /\ backend' = which

\* Mutant: --suppress goes on like any other capture.
AnyFallsBack == startPc' = "window" /\ UNCHANGED backend

FallsBackUnlessSuppressing ==
    IF "--suppress" \in options THEN Runs("error") ELSE startPc' = "window" /\ UNCHANGED backend

NativeStage ==
    /\ startPc = "native"
    /\ IF NativeConnects THEN Runs("native") ELSE FallsBackUnlessSuppressing
    /\ UNCHANGED <<arguments, desktop, options, plan>>

WindowStage ==
    /\ startPc = "window"
    /\ IF ProbeDisplay /\ desktop.display = "opens" THEN Runs("window")
       ELSE IF "--events all" \in options THEN Runs("error")
       ELSE startPc' = "terminal" /\ UNCHANGED backend
    /\ UNCHANGED <<arguments, desktop, options, plan>>

TerminalStage ==
    /\ startPc = "terminal"
    /\ IF desktop.tty THEN Runs("terminal") ELSE Runs("error")
    /\ UNCHANGED <<arguments, desktop, options, plan>>

StartNext == ParseArguments \/ Explains \/ NativeStage \/ WindowStage \/ TerminalStage

StartSpec == StartInit /\ [][StartNext]_startVars

-----------------------------------------------------------------------------
\* Whatever the order and number of the arguments: a capture that was to
\* hold the shortcuts back never runs on a backend that cannot.
SuppressNeverFallsBack ==
    "--suppress" \in ToSet(arguments) => backend \in {"none", "native", "error"}

\* What --explain-capture names is what then runs, where the display lets
\* the window open.
PlanIsWhatRuns ==
    startPc = "over" /\ backend \notin {"none"} /\ plan # "unasked"
    /\ ForcedBackend = "none" /\ desktop.display # "refuses" =>
        backend = IF plan = "none" THEN "error" ELSE plan

=============================================================================
