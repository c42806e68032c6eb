\* Configurations of two lines, one change of the desktop while it is asked, and
\* inventories of three bindings; sequences of two keys.
CONSTANTS
    MaxLines = 2
    MaxMoves = 1
    MaxConfigLines = 2
    MaxConfigChanges = 1
    MaxDesktopMoves = 1
    MaxSwitches = 1
    MaxRecords = 3
    MaxBindings = 3
    MaxForeign = 1
    MaxConfigRows = 2
    MaxTurns = 1
    Steps = 2
    Outcomes = {"Pass", "Consumed", "Unavailable"}
    RemapperOutcomes = {"Pass", "Consumed", "Redirected", "HandledUncertain"}
SPECIFICATION Spec
INVARIANTS
    
    
    Method_ForwardingIsSound
    Bindings_ConflictsAreRight
    App_IsSound
    Chain_RouteIsKept
CHECK_DEADLOCK FALSE
