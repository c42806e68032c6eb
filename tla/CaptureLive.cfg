\* A suppressing and a pass-through listener, each armed twice, under fairness.
CONSTANTS
    s1 = s1
    s2 = s2
    resize = resize
    Default = Default
    Private = Private
    NoToken = NoToken
    NoSubmap = NoSubmap
    Tokens <- Both
    Suppressors <- First
    UserSubmaps <- JustDefault
    MaxDispatchFaults = 0
    MaxReloads = 0
    MaxIpcFaults = 1
    MaxArms = 2
    MaxCrashes = 1
SPECIFICATION FairSpec
INVARIANT ArmedLineIsFresh
PROPERTIES
    GoneHookIsRemoved
    
CHECK_DEADLOCK FALSE
