\* Two keyboards whose queue overruns, three modifier keys, two typed keys, two
\* arguments, three strokes of the Sway key, two X11 probes, nested deadlines; two
\* questions recorded up to three times, three manifests; two keys typed and one switch of
\* the layout or a lock.
CONSTANTS
    Paths = {1, 2}
    ModCodes = {"shift"}
    QueueSize = 3
    MaxKeyEvents = 3
    MaxPlugs = 2
    ModKeys = {"lshift", "rshift", "ctrl"}
    MaxInputs = 4
    Forms = {"text", "escape", "alt", "csi", "tilde", "kitty", "kittyModifier"}
    MaxUnits = 2
    MaxArguments = 2
    MaxStrokes = 3
    MaxReloads = 1
    MaxProbes = 2
    MaxChanges = 1
    Durations = {0, 2, 4}
    Timeout = 2
    StartDelay = 1
    MaxDepth = 3
    MaxTime = 6
    MaxAsked = 3
    MaxReplayed = 2
    MaxFiles = 3
    MaxManifests = 2
    MaxUses = 2
    Typed = {"q", "e", "kp1"}
    Queried = {"q", "e", "o", "backslash", "dead_acute", "F1"}
    MaxSwitchings = 1
    MaxTypings = 2
    MaxQueryFailures = 1
SPECIFICATION Spec
INVARIANTS
    Evdev_ModifiersCatchUp
    
    Start_IsAsPlanned
    
    Grabs_AreJust
    Recording_ReplayIsTheRun
    Deadlines_AreKept
    Extensions_AreKept
    Keyboard_IsReadAsTyped
PROPERTY Window_WithheldIsExact
CHECK_DEADLOCK FALSE
