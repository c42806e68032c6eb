SPECIFICATION Spec
CONSTANTS
    Virtuals = {v1}
    Physical = kbd
    Codes = {"letter", "altgr"}
    MaxEvents = 2
    MaxArms = 1
    MaxQueryFaults = 0
INVARIANT ModifiersAreSeenLetGo
CHECK_DEADLOCK FALSE
