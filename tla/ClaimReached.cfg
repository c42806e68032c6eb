SPECIFICATION ChainSpec
CONSTANTS
    Steps = 2
    Outcomes = {"Pass", "Consumed"}
    RemapperOutcomes = {"Pass", "Consumed"}
INVARIANT ReachedOnlyUntouched
CHECK_DEADLOCK FALSE
