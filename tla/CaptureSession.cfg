\* Two suppressing listeners, one of everything that can go wrong, two failed dispatches.
CONSTANTS
    s1 = s1
    s2 = s2
    resize = resize
    Default = Default
    Private = Private
    NoToken = NoToken
    NoSubmap = NoSubmap
    Tokens <- Both
    Suppressors <- Both
    UserSubmaps <- JustDefault
    MaxDispatchFaults = 2
    MaxReloads = 1
    MaxIpcFaults = 1
    MaxArms = 1
    MaxCrashes = 1
SPECIFICATION Spec
INVARIANTS
    ClosedLeavesNothing
    ListensOnlyUnderLease
    PrivateOnlyWhileOwned
PROPERTIES
    StrangersDoNotDisturb
    ImplementsLock
SYMMETRY Alike
CHECK_DEADLOCK FALSE
