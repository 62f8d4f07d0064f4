SPECIFICATION MCSpec
CONSTANTS
    n1 = n1
    n2 = n2
    n3 = n3
    Scenarios = {"configured"}
    Nil = Nil
    Node = {n1, n2, n3}
    Order <- MCOrder
    MaxPriority = 3
    Maintainable = {}
    Electable = {n1, n2}
    Targets = {n2}
    Appended = {n2}
    WriteFails = {}
    Flaky = {}
    Crashable = {}
    MaxTerm <- Timer3Transfer2
    MaxCrash = 0
INVARIANTS
    MaxHbeatMeansLeader
