------------------------- MODULE GroupConfiguration -------------------------
(***************************************************************************)
(* raft::group_configuration: the voters and learners of a group, the old     *)
(* voters and learners while the configuration is joint, and the update in    *)
(* progress.  The operators are its three change strategies: version 3 enters *)
(* joint consensus at once; versions 4 and 5 first add the new nodes one by   *)
(* one, and enter joint consensus only to remove nodes.                       *)
(*                                                                          *)
(* A node is a vnode, an id with a revision.  The list of brokers that        *)
(* versions 3 and 4 carry follows the nodes and is left out, as are learner   *)
(* start offsets.                                                             *)
(***************************************************************************)
EXTENDS Naturals, FiniteSets

CONSTANT Node

\* A configuration: `joint` says that _old is set, `changing` that
\* _configuration_update is.
Configuration ==
    [version : 3..6, voters : SUBSET Node, learners : SUBSET Node,
     joint : BOOLEAN, oldVoters : SUBSET Node, oldLearners : SUBSET Node,
     changing : BOOLEAN, add : SUBSET Node, remove : SUBSET Node]

\* The constructor from nodes.
Simple(nodes, v) ==
    [version |-> v, voters |-> nodes, learners |-> {},
     joint |-> FALSE, oldVoters |-> {}, oldLearners |-> {},
     changing |-> FALSE, add |-> {}, remove |-> {}]

\* get_state.
State(c) == IF c.joint THEN "joint"
            ELSE IF c.changing THEN "transitional" ELSE "simple"

\* group_nodes::contains and group_configuration::contains.
InCurrent(c, n) == n \in c.voters \cup c.learners
Contains(c, n) == InCurrent(c, n) \/ n \in c.oldVoters \cup c.oldLearners

IsVoter(c, n) == n \in c.voters \cup c.oldVoters

MayRequestVotes(c, n) == IsVoter(c, n) \/ n \in c.oldLearners

\* details::majority: no voters do not count.
MajorityOf(voters, S) ==
    voters = {} \/ Cardinality(S \cap voters) >= Cardinality(voters) \div 2 + 1

\* group_configuration::majority, and what quorum_match counts.
Majority(c, S) ==
    /\ MajorityOf(c.voters, S)
    /\ c.joint => MajorityOf(c.oldVoters, S)

---------------------------------------------------------------------------
\* Steps that all versions share.

EnterJoint(c) ==
    [c EXCEPT !.joint = TRUE, !.oldVoters = c.voters, !.oldLearners = c.learners]

LeaveJoint(c) == [c EXCEPT !.joint = FALSE, !.oldVoters = {}, !.oldLearners = {}]

\* A configuration_update, set and reset.
Update(c, add, remove) == [c EXCEPT !.changing = TRUE, !.add = add, !.remove = remove]
NoUpdate(c) == [c EXCEPT !.changing = FALSE, !.add = {}, !.remove = {}]

PromoteToVoter(c, n) ==
    IF n \in c.learners
      THEN [c EXCEPT !.learners = @ \ {n}, !.voters = @ \cup {n}]
      ELSE c

\* maybe_demote_removed_voters: whether it demotes, and the result.
Removed(c) == {n \in c.oldVoters : ~InCurrent(c, n)}
Demote(c) == [c EXCEPT !.oldVoters = @ \ Removed(c), !.oldLearners = @ \cup Removed(c)]

---------------------------------------------------------------------------
\* configuration_change_strategy_v3.

AddV3(c, n) == [EnterJoint(c) EXCEPT !.learners = @ \cup {n}]

RemoveV3(c, n) == [EnterJoint(c) EXCEPT !.learners = @ \ {n}, !.voters = @ \ {n}]

ReplaceV3(c, nodes) ==
    IF nodes = c.voters \cup c.learners THEN c
    ELSE [EnterJoint(c) EXCEPT !.voters = nodes \cap c.voters,
                               !.learners = nodes \ c.voters]

\* The direction of the change is turned.
CancelV3(c) ==
    [c EXCEPT !.voters = c.oldVoters, !.learners = c.oldLearners,
              !.oldVoters = c.voters, !.oldLearners = c.learners]

\* The loop that promotes the learners erases from the vector that it walks, so
\* it skips some of them when there are three or more.
AbortV3(c, promoted) ==
    LeaveJoint([c EXCEPT !.voters = c.oldVoters \cup promoted,
                         !.learners = c.oldLearners \ promoted])

DiscardV3(c) == LeaveJoint(c)

---------------------------------------------------------------------------
\* configuration_change_strategy_v4 and _v5.

\* Mutant: the nodes leave without a joint configuration.
LeaveAtOnce(c) == NoUpdate([c EXCEPT !.voters = @ \ c.remove])

FinishTransition(c) ==
    IF c.remove = {} THEN NoUpdate(c)
    ELSE [EnterJoint(c) EXCEPT !.voters = @ \ c.remove]

AddV4(c, n) == [Update(c, {n}, {}) EXCEPT !.learners = @ \cup {n}]

RemoveV4(c, n) ==
    [EnterJoint(Update(c, {}, {n} \cap (c.learners \cup c.voters)))
        EXCEPT !.learners = @ \ {n}, !.voters = @ \ {n}]

\* Only a voter needs the joint configuration to leave.
RemoveV5(c, n) ==
    LET u == Update(c, {}, {n} \cap c.voters)
    IN  [(IF n \in c.voters THEN EnterJoint(u) ELSE u)
            EXCEPT !.learners = @ \ {n}, !.voters = @ \ {n}]

\* What replace and replace_brokers do once the sets differ.
StartChange(c, nodes) ==
    LET u == [Update(c, nodes \ c.voters, c.voters \ nodes)
                 EXCEPT !.learners = @ \cup (nodes \ c.voters)]
    IN  IF nodes \subseteq c.voters THEN FinishTransition(u) ELSE u

ReplaceV4(c, nodes) ==
    IF /\ Cardinality(nodes) = Cardinality(c.voters \cup c.learners)
       /\ \A n \in nodes : InCurrent(c, n)
      THEN c ELSE StartChange(c, nodes)

ReplaceV5(c, nodes) ==
    IF /\ Cardinality(nodes) = Cardinality(c.voters)
       /\ \A n \in nodes : Contains(c, n)
      THEN c ELSE StartChange(c, nodes)

\* The learners go, and the nodes that were promoted leave through a joint
\* configuration.
CancelTransitional(c) ==
    FinishTransition([Update(c, {}, {n \in c.add : IsVoter(c, n)}) EXCEPT !.learners = {}])

\* Back to the transitional state, with the nodes to add and to remove swapped.
CancelJoint(c) ==
    LeaveJoint([Update(c, c.remove, c.add)
                   EXCEPT !.voters = c.oldVoters, !.learners = c.oldLearners])

CancelV4(c) == IF c.joint THEN CancelJoint(c) ELSE CancelTransitional(c)

\* Every node that was not to be added becomes a voter.
AbortV4(c) ==
    NoUpdate(LeaveJoint(
        [c EXCEPT !.voters = (c.voters \cup c.learners \cup c.oldVoters
                                \cup c.oldLearners) \ c.add,
                  !.learners = {}]))

DiscardV4(c) == NoUpdate(LeaveJoint(c))

---------------------------------------------------------------------------
\* The strategy of the configuration's version.

Cancel(c) == IF c.version = 3 THEN CancelV3(c) ELSE CancelV4(c)

Discard(c) == IF c.version = 3 THEN DiscardV3(c) ELSE DiscardV4(c)

\* maybe_commit_configuration: the next configuration once the latest one is
\* committed and has no learners.
Advance(c) ==
    IF ~c.joint THEN FinishTransition(c)
    ELSE IF Removed(c) # {} THEN Demote(c) ELSE Discard(c)
=============================================================================
