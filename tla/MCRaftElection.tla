--------------------------- MODULE MCRaftElection ---------------------------
(***************************************************************************)
(* Instances of RaftElection for TLC: the one whose bounds the configuration *)
(* gives, and one in which leadership is also transferred.                   *)
(***************************************************************************)
EXTENDS RaftElection

CONSTANTS
    n1, n2, n3,
    Scenarios  \* the scenarios that a run explores

VARIABLE scenario

\* The brokers vector of the configuration: n1 has the highest priority.
MCOrder == <<n1, n2, n3>>

\* Bounds: up to which term the two kinds of rounds may start.
Timer1 == [timer |-> 1, transfer |-> 0]
Timer1Transfer2 == [timer |-> 1, transfer |-> 2]
Timer3Transfer2 == [timer |-> 3, transfer |-> 2]

\* n1 is elected by its timer and transfers its leadership to n2.
Transfer == INSTANCE RaftElection WITH
    Electable <- {n1}, Targets <- {n2}, Appended <- {n2}, WriteFails <- {},
    Crashable <- {}, MaxTerm <- Timer1Transfer2

MCInit == Init /\ scenario \in Scenarios

MCNext ==
    /\ \/ scenario = "configured" /\ Next
       \/ scenario = "transfer" /\ Transfer!Next
    /\ UNCHANGED scenario

MCSpec == MCInit /\ [][MCNext]_<<vars, scenario>>
=============================================================================
