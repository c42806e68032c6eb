\* A failed restore, then the process is gone.
CONSTANTS
    s1 = s1
    s2 = s2
    resize = resize
    Default = Default
    Private = Private
    NoToken = NoToken
    NoSubmap = NoSubmap
    Tokens <- First
    Suppressors <- First
    UserSubmaps <- MCUserSubmaps
    MaxDispatchFaults = 1
    MaxReloads = 0
    MaxIpcFaults = 0
    MaxArms = 1
    MaxCrashes = 0
SPECIFICATION FairSpec
PROPERTIES
    TimerRemainsRecoveryPath
CHECK_DEADLOCK FALSE
