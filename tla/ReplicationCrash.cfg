\* One term, a follower with which every RPC may fail, late or lost; and the
\* scenario Crash.
SPECIFICATION MCSpec
CONSTANTS
  n1 = n1
  n2 = n2
  n3 = n3
  Scenarios = {"configured", "crash"}
  Nil = Nil
  Node = {n1, n2}
  InOrder = FALSE
  LateReplies = FALSE
  Candidates <- OneTerm
  Voters <- AllVoters
  Levels = {TRUE, FALSE}
  Timers = {"heartbeat", "flush"}
  Flaky = {n2}
  Crashable = {}
  MaxLog = 2
  MaxSeq = 4
  MaxRpc = 2
  MaxBatch = 2
  MaxCrash = 0
INVARIANTS
  TypeOK
  
  ChosenUnlessRewritten
  
PROPERTIES
  CommittedStays
CHECK_DEADLOCK FALSE
