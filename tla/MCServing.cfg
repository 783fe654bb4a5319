SPECIFICATION ServingSpec
CONSTANTS
    NStages = 3
    Degrading <- MCDegrading
    MaxTriggers = 6
    MaxBoots = 1
    Jobs = {j1, j2}
    None = None
    MaxConns = 3
    MaxAsks = 1
    MaxHostStops = 1
    MaxOrchStops = 1
CHECK_DEADLOCK FALSE
INVARIANTS
    NoLostTrigger
    PendingIsOpen
    LiveIsHeld
PROPERTIES
    BootCompletes
    LevelSpec
    Recovers
    RemoteSpec
