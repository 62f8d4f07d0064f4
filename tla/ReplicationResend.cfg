\* Recovery sends again what a write has in flight, in one term and in order.
SPECIFICATION MCSpec
CONSTANTS
  n1 = n1
  n2 = n2
  n3 = n3
  Scenarios = {"configured"}
  Nil = Nil
  Node = {n1, n2}
  InOrder = TRUE
  LateReplies = FALSE
  Candidates <- OneTerm
  Voters <- AllVoters
  Levels = {TRUE}
  Timers = {"heartbeat"}
  Flaky = {n2}
  Crashable = {}
  MaxLog = 3
  MaxSeq = 6
  MaxRpc = 2
  MaxBatch = 1
  MaxCrash = 0
INVARIANTS
  ChosenOnMajority
CHECK_DEADLOCK FALSE
