------------------------- MODULE MCInputs -------------------------
(***************************************************************************)
(* What hears keys, and what carries whykey's questions: each behaviour is *)
(* one of evdev, the probe window, the terminal, Sway's IPC, the start of  *)
(* a listener, the probe of X11 grabs, the deadlines of commands, a        *)
(* recording and its replay, the adapters the user adds, or the reading of *)
(* a key in the keymap. The components share no state.                     *)
(***************************************************************************)
EXTENDS EvdevSession, ProbeWindow, TerminalInput, ListenStart, SwayCapture, GrabProbe,
        DiagnosticBudget, Recording, Extensions, KeyReading

VARIABLE part    \* the component of the behaviour

Off == "off"     \* the variables of the components that are not of the behaviour

EvdevOff ==
    /\ plugged = Off /\ keysDown = Off /\ queued = Off /\ unplugged = Off
    /\ requested = Off /\ includes = Off /\ devices = Off /\ pressed = Off
    /\ resync = Off /\ ready = Off /\ failing = Off /\ evdevPc = Off /\ shown = Off
    /\ keyEvents = Off /\ plugs = Off
WindowOff ==
    /\ display = Off /\ probePc = Off /\ protocol = Off /\ holds = Off /\ hasFocus = Off
    /\ hasKeyboard = Off /\ wire = Off /\ focused = Off /\ modmask = Off
    /\ pending = Off /\ tracker = Off /\ withheld = Off /\ inputs = Off /\ chord = Off
    /\ arrived = Off /\ blurred = Off
TerminalOff ==
    /\ sent = Off /\ stream = Off /\ inputPc = Off /\ answer = Off /\ frames = Off
    /\ reported = Off
StartOff ==
    /\ arguments = Off /\ desktop = Off /\ startPc = Off /\ options = Off /\ plan = Off
    /\ backend = Off
SwayOff ==
    /\ swayConfig = Off /\ swayMode = Off /\ keyHeld = Off /\ releases = Off
    /\ swayWire = Off /\ swayBuffer = Off /\ happened = Off /\ swayShown = Off
    /\ strokes = Off /\ reloads = Off /\ swayClosed = Off
GrabsOff ==
    /\ server = Off /\ xserver = Off /\ probes = Off /\ refined = Off /\ changes = Off
BudgetOff ==
    /\ now = Off /\ active = Off /\ deadlines = Off /\ pc = Off /\ limit = Off
    /\ begun = Off /\ started = Off
RecordingOff ==
    /\ recPc = Off /\ kind = Off /\ outside = Off /\ log = Off /\ document = Off
    /\ answers = Off /\ seen = Off /\ recExit = Off
ExtensionOff ==
    /\ purpose = Off /\ builtIns = Off /\ filesLeft = Off /\ adapters = Off
    /\ refused = Off /\ stage = Off /\ kept = Off /\ ran = Off /\ said = Off
    /\ listing = Off
KeyboardOff ==
    /\ gives = Off /\ suppress = Off /\ group = Off /\ on = Off /\ lines = Off
    /\ hook = Off /\ readPc = Off /\ known = Off /\ cached = Off /\ dirty = Off
    /\ missed = Off /\ snapshot = Off /\ reading = Off /\ altgrText = Off /\ moves = Off
    /\ typed = Off /\ faults = Off

Init ==
    \/ part = "evdev" /\ EvdevInit
       /\ WindowOff /\ TerminalOff /\ StartOff /\ SwayOff /\ GrabsOff /\ BudgetOff
       /\ RecordingOff /\ ExtensionOff /\ KeyboardOff
    \/ part = "window" /\ ProbeInit
       /\ EvdevOff /\ TerminalOff /\ StartOff /\ SwayOff /\ GrabsOff /\ BudgetOff
       /\ RecordingOff /\ ExtensionOff /\ KeyboardOff
    \/ part = "terminal" /\ InputInit
       /\ EvdevOff /\ WindowOff /\ StartOff /\ SwayOff /\ GrabsOff /\ BudgetOff
       /\ RecordingOff /\ ExtensionOff /\ KeyboardOff
    \/ part = "start" /\ StartInit
       /\ EvdevOff /\ WindowOff /\ TerminalOff /\ SwayOff /\ GrabsOff /\ BudgetOff
       /\ RecordingOff /\ ExtensionOff /\ KeyboardOff
    \/ part = "sway" /\ SwayInit
       /\ EvdevOff /\ WindowOff /\ TerminalOff /\ StartOff /\ GrabsOff /\ BudgetOff
       /\ RecordingOff /\ ExtensionOff /\ KeyboardOff
    \/ part = "grabs" /\ GrabInit
       /\ EvdevOff /\ WindowOff /\ TerminalOff /\ StartOff /\ SwayOff /\ BudgetOff
       /\ RecordingOff /\ ExtensionOff /\ KeyboardOff
    \/ part = "budget" /\ BudgetInit
       /\ EvdevOff /\ WindowOff /\ TerminalOff /\ StartOff /\ SwayOff /\ GrabsOff
       /\ RecordingOff /\ ExtensionOff /\ KeyboardOff
    \/ part = "recording" /\ RecInit
       /\ EvdevOff /\ WindowOff /\ TerminalOff /\ StartOff /\ SwayOff /\ GrabsOff
       /\ BudgetOff /\ ExtensionOff /\ KeyboardOff
    \/ part = "extension" /\ ExtensionInit
       /\ EvdevOff /\ WindowOff /\ TerminalOff /\ StartOff /\ SwayOff /\ GrabsOff
       /\ BudgetOff /\ RecordingOff /\ KeyboardOff
    \/ part = "keyboard" /\ KeyReadInit
       /\ EvdevOff /\ WindowOff /\ TerminalOff /\ StartOff /\ SwayOff /\ GrabsOff
       /\ BudgetOff /\ RecordingOff /\ ExtensionOff

EvdevStep ==
    /\ part = "evdev" /\ EvdevNext
    /\ UNCHANGED <<part, probeVars, inputVars, startVars, swayVars, grabVars, budgetVars,
                    recVars, extensionVars, keyReadVars>>
WindowStep ==
    /\ part = "window" /\ ProbeNext
    /\ UNCHANGED <<part, evdevVars, inputVars, startVars, swayVars, grabVars, budgetVars,
                    recVars, extensionVars, keyReadVars>>
TerminalStep ==
    /\ part = "terminal" /\ InputNext
    /\ UNCHANGED <<part, evdevVars, probeVars, startVars, swayVars, grabVars, budgetVars,
                    recVars, extensionVars, keyReadVars>>
StartStep ==
    /\ part = "start" /\ StartNext
    /\ UNCHANGED <<part, evdevVars, probeVars, inputVars, swayVars, grabVars, budgetVars,
                    recVars, extensionVars, keyReadVars>>
SwayStep ==
    /\ part = "sway" /\ SwayNext
    /\ UNCHANGED <<part, evdevVars, probeVars, inputVars, startVars, grabVars, budgetVars,
                    recVars, extensionVars, keyReadVars>>
GrabsStep ==
    /\ part = "grabs" /\ GrabNext
    /\ UNCHANGED <<part, evdevVars, probeVars, inputVars, startVars, swayVars, budgetVars,
                    recVars, extensionVars, keyReadVars>>
BudgetStep ==
    /\ part = "budget" /\ BudgetNext
    /\ UNCHANGED <<part, evdevVars, probeVars, inputVars, startVars, swayVars, grabVars,
                    recVars, extensionVars, keyReadVars>>
RecordingStep ==
    /\ part = "recording" /\ RecNext
    /\ UNCHANGED <<part, evdevVars, probeVars, inputVars, startVars, swayVars, grabVars,
                    budgetVars, extensionVars, keyReadVars>>
ExtensionStep ==
    /\ part = "extension" /\ ExtensionNext
    /\ UNCHANGED <<part, evdevVars, probeVars, inputVars, startVars, swayVars, grabVars,
                    budgetVars, recVars, keyReadVars>>
KeyboardStep ==
    /\ part = "keyboard" /\ KeyReadNext
    /\ UNCHANGED <<part, evdevVars, probeVars, inputVars, startVars, swayVars, grabVars,
                    budgetVars, recVars, extensionVars>>

Next == EvdevStep \/ WindowStep \/ TerminalStep \/ StartStep \/ SwayStep \/ GrabsStep
    \/ BudgetStep \/ RecordingStep \/ ExtensionStep \/ KeyboardStep

mcVars == <<part, evdevVars, probeVars, inputVars, startVars, swayVars, grabVars,
            budgetVars, recVars, extensionVars, keyReadVars>>

Spec == Init /\ [][Next]_mcVars
-----------------------------------------------------------------------------
\* EvdevSession: once whykey has read all a keyboard sent, it holds the modifiers that
\* are down to be down, after an overrun of the queue and a replug as well.
Evdev_ModifiersCatchUp == part = "evdev" => ModifiersCatchUp
\* ProbeWindow: when the window says that the compositor withheld a chord, it names
\* the modifiers that were held and let go without a key reaching it.
Window_WithheldIsExact == [][part = "window" => NamesTheChord]_mcVars
\* TerminalInput: however the reads cut the bytes, each reported frame is one typed key.
Terminal_FramesAreKeys == part = "terminal" => FramesAreKeys
\* ListenStart: --suppress never listens with a backend that cannot suppress, and
\* the plan of --dry-run and --explain-capture is what then runs.
Start_IsAsPlanned == part = "start" => SuppressNeverFallsBack /\ PlanIsWhatRuns
\* SwayCapture: every report names the mode and the binding that the key ran in.
Sway_ReportsAreRight == part = "sway" => SwayReportsAreRight
\* GrabProbe: a key is said to be held by another only if another held it, and no
\* probe leaves a grab of its own behind.
Grabs_AreJust == part = "grabs" => VerdictIsJust /\ NothingStaysGrabbed
\* Recording: a replay of a recording answers every question as the recorded run was
\* answered and starts nothing.
Recording_ReplayIsTheRun == part = "recording" => ReplayIsTheRun
\* DiagnosticBudget: no inner operation outlives the outer ones, and a command ends with
\* the budget it was started under.
Deadlines_AreKept == part = "budget" => InnermostRules /\ CommandsEndInBudget
\* Extensions: of the user's adapters only the selected one's command runs, once, and
\* what is reported is what it answered.
Extensions_AreKept == part = "extension" => ExtensionsAreKept
\* KeyReading: a captured key has the name and the symbol of the layout it was typed in,
\* and the text told of an AltGr key is what it types.
Keyboard_IsReadAsTyped == part = "keyboard" => KeysAreReadAsTyped /\ AltgrTextIsTyped
=============================================================================
