SPECIFICATION MCSpec
CONSTANTS
    n1 = n1
    n2 = n2
    n3 = n3
    Scenarios = {"configured", "transfer"}
    Nil = Nil
    Node = {n1, n2, n3}
    Order <- MCOrder
    MaxPriority = 3
    Maintainable = {}
    Electable = {n1, n2}
    Targets = {}
    Appended = {}
    WriteFails = {}
    Flaky = {}
    Crashable = {n3}
    MaxTerm <- Timer1
    MaxCrash = 1
INVARIANTS
    TypeOK
    OneVotePerTerm
    OneLeaderPerTerm
    CountedVotesPersisted
    LeaderOfItsTerm
