\* A small request and any child: helpers may leave the group.
CONSTANTS
    InputSize = 1
    PipeSize = 2
    MaxOutput = 1
    MaxWrites = 2
    MayEscape = TRUE
    MayFail = TRUE
    MaySignal = TRUE
SPECIFICATION FairSpec
INVARIANTS
    ResultIsTrue
    NothingLeftRunning
PROPERTIES
    CallReturns
CHECK_DEADLOCK FALSE
