\* Every kind of session with a count of two; everything may fail once.
CONSTANTS
    Policies = {"suppress", "leased", "plain"}
    HasDeadline = TRUE
    KeepsOn = TRUE
    Count = 2
    MaxKeys = 3
    MaxFaults = 1
    MaxSignals = 2
    MaxTtyFaults = 1
SPECIFICATION FairSpec
INVARIANTS
    ReportsOnlyUnhooked
    LeavesClean
PROPERTIES
    RequestsAreAnswered
CHECK_DEADLOCK FALSE
