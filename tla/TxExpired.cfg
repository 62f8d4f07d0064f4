\* A transaction is expired, and its abort does not reach the partitions at once.
SPECIFICATION Spec
CONSTANTS
    Node = {"a", "b"}
    Partition = {"p", "q"}
    MaxTerm = 1
    MaxTx = 1
    MaxFaults = 2
INVARIANT AcksAreKept
CHECK_DEADLOCK FALSE
