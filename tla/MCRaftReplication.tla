-------------------------- MODULE MCRaftReplication --------------------------
(***************************************************************************)
(* RaftReplication for TLC: who stands for election, and who answers, in     *)
(* each of at most four terms, and scenarios that a run may explore beside   *)
(* the one whose bounds the configuration gives.                             *)
(***************************************************************************)
EXTENDS RaftReplicationRefinement

CONSTANTS
    n1, n2, n3,
    Scenarios  \* the scenarios that a run explores

VARIABLE scenario

OneTerm == <<{n1}>>
TwoTerms == <<{n1}, {n2}>>
FourTerms == <<{n1}, {n2}, {n1}, {n2}>>

AllVoters == <<Node, Node, Node, Node>>
\* n2 makes n1 the first leader, and n3 decides the later elections.
FewVoters == <<{n2}, {n3}, {n3}, {n3}>>
\* n3 alone decides.
OneVoter == <<{n3}, {n3}>>

\* Two crashes in a group of two, where every vote and every disk counts.
Crash == INSTANCE RaftReplication WITH
    Candidates <- TwoTerms, Timers <- {"heartbeat", "step_down"}, Flaky <- {},
    Crashable <- {n1, n2}, MaxSeq <- 3, MaxBatch <- 1, MaxCrash <- 2

\* A leader that loses its connections is replaced by another.
Failover == INSTANCE RaftReplication WITH
    Candidates <- TwoTerms, Voters <- OneVoter, Levels <- {TRUE}, Flaky <- {n1}

\* Bound: recovery runs in one term only.
RecoveryIn(t) ==
    \A l, f \in Node : fstats'[l][f].recovering => term'[l] = t

MCInit == Init /\ scenario \in Scenarios
MCNext ==
    /\ \/ scenario = "configured" /\ Next
       \/ scenario = "turns" /\ Next /\ RecoveryIn(3)
       \/ scenario = "crash" /\ Crash!Next
       \/ scenario = "failover" /\ Failover!Next /\ RecoveryIn(2)
    /\ UNCHANGED scenario
MCSpec == MCInit /\ [][MCNext]_<<vars, scenario>>
=============================================================================
