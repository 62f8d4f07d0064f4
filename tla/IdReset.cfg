\* One node, and a write that fails.
SPECIFICATION Spec
CONSTANTS
    Node = {"a"}
    BatchSize = 2
    LogCapacity = 3
    ResetTo = {5}
    MaxEntries = 6
    MaxTerm = 1
    MaxFaults = 1
INVARIANTS IdsAreUnique
CHECK_DEADLOCK FALSE
