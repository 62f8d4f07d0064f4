SPECIFICATION AllSpec
CONSTANTS
    Node = {"a", "b"}
    BatchSize = 2
    LogCapacity = 0
    ResetTo = {5}
    MaxEntries = 3
    MaxTerm = 2
    MaxFaults = 0
    Protocols = {{"a"}}
    KeepsRejoining = TRUE
    MaxIds = 3
    MaxGeneration = 2
    MaxStores = 1
    MaxStoreFaults = 0
    tp1 = tp1
    tp2 = tp2
INVARIANTS
    TypesOK
    OnePlanPerGeneration
    StableIsStored
    IdsUniqueUnlessResetLost
    TransactionsWhole
PROPERTIES
    ImplementsDurableMap
SYMMETRY Symmetry
CHECK_DEADLOCK FALSE
