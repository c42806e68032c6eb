SPECIFICATION Spec
SYMMETRY VirtualSymmetry
CONSTANTS
    Virtuals = {v1, v2}
    Physical = kbd
    Codes = {"letter", "ctrl"}
    MaxEvents = 3
    MaxArms = 2
    MaxQueryFaults = 1
INVARIANT ForeignIsNotMisread
INVARIANT NothingStaysHeld
PROPERTY ModifiersAreUp
CHECK_DEADLOCK FALSE
