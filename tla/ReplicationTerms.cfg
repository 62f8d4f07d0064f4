\* Two nodes take turns as leader; only configuration entries are written; and the
\* scenario Failover.
SPECIFICATION MCSpec
CONSTANTS
  n1 = n1
  n2 = n2
  n3 = n3
  Scenarios = {"turns", "failover"}
  Nil = Nil
  Node = {n1, n2, n3}
  InOrder = TRUE
  LateReplies = FALSE
  Candidates <- FourTerms
  Voters <- FewVoters
  Levels = {}
  Timers = {}
  Flaky = {}
  Crashable = {}
  MaxLog = 2
  MaxSeq = 2
  MaxRpc = 2
  MaxBatch = 1
  MaxCrash = 0
INVARIANTS
  LeaderCompleteness
  LogMatching
PROPERTIES
  RefinesReplicatedLog
CHECK_DEADLOCK FALSE
