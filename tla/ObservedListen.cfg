\* Every backend, repeating; everything may fail once.
CONSTANTS
    Kinds = {"terminal", "evdev", "window"}
    HasDeadline = TRUE
    KeepsOn = TRUE
    MaxKeys = 3
    MaxFaults = 1
    MaxSignals = 2
    MaxTtyFaults = 1
SPECIFICATION FairSpec
INVARIANTS
    KeysAreFresh
    LeavesClean

    
CHECK_DEADLOCK FALSE
