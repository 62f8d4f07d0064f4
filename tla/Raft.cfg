SPECIFICATION AllSpec
CONSTANTS
    LastOffset = 3
    Chunks = 2
    MaxAttempts = 3
    MaxRestarts = 1
    MaxLog = 3
    MaxConfigs = 2
    MaxTruncates = 1
    MaxCrashes = 2
    MaxSnapshot = 1
INVARIANTS
    TypesOK
    LeaderHasDecided
    OneLeaderPerTerm
    ConfigurationsMatchLog
    GetIsRight
    NeverThrows
    
    InstalledIsWhole
    HydratedNotStale
    
PROPERTIES
    TickIsFair
CHECK_DEADLOCK FALSE
