\* A member leaves while another has been given an id and has not come back.
CONSTANT Protocols = {{"a"}}
CONSTANT KeepsRejoining = TRUE
CONSTANT MaxIds = 3
CONSTANT MaxGeneration = 2
CONSTANT MaxStores = 2
CONSTANT MaxStoreFaults = 0
SPECIFICATION GroupSpec
INVARIANT JoinPhaseEnds
CHECK_DEADLOCK FALSE
