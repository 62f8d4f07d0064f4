SPECIFICATION AllSpec
CONSTANTS
    Node = {"n1", "n2", "n3", "n4"}
    Initial = {"n1", "n2", "n3"}
    MaxChanges = 2
    MaxCancels = 2
    MaxAborts = 1
INVARIANTS
    TypesOK
PROPERTIES
    RoundsEnd
    QuorumsIntersect
    PutsAreAnswered
    ChangesFinish
    
CHECK_DEADLOCK FALSE
