SPECIFICATION Spec
CONSTANTS
    a = a
    b = b
    c = c
    Node = {a, b, c}
    Initial = {a}
    Requests <- Grow
    MaxTerm = 2
    MaxLen = 6
    MaxChanges = 1
    MaxCancels = 0
    MaxCrashes = 1
INVARIANTS OneLeaderPerTerm
CHECK_DEADLOCK FALSE
