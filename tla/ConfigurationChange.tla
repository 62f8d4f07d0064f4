------------------------- MODULE ConfigurationChange -------------------------
(***************************************************************************)
(* The configurations that one leader replicates one after the other: the     *)
(* requests to consensus that start, cancel or abort a change, and the steps  *)
(* it takes by itself when learners catch up and configurations commit.       *)
(***************************************************************************)
EXTENDS GroupConfiguration

CONSTANTS
    Initial,    \* the voters at the start
    MaxChanges, \* bound: changes requested
    MaxCancels, \* bound: cancellations
    MaxAborts   \* bound: forced aborts

ASSUME ConfigurationAssumption ==
    IsFiniteSet(Node) /\ Initial \in (SUBSET Node) \ {{}}

VARIABLES
    cfg,        \* _configuration_manager.get_latest()
    improved,   \* the feature raft_improved_configuration is active
    original,   \* voters before the latest change
    target,     \* the voters that the latest change is to end with
    cancels,    \* cancellations of the latest change
    changes, aborts

vars == <<cfg, improved, original, target, cancels, changes, aborts>>

\* maybe_upgrade_configuration_to_v4.
Upgraded(c) ==
    IF c.version < 4 /\ improved /\ State(c) = "simple"
      THEN [c EXCEPT !.version = 4] ELSE c

\* change_configuration with a function that succeeds; the latest configuration
\* is committed and simple.
ChangeConfiguration(new, nodes) ==
    /\ State(cfg) = "simple" /\ changes < MaxChanges
    /\ cfg' = Upgraded(new)
    /\ original' = cfg.voters /\ target' = nodes
    /\ cancels' = 0 /\ changes' = changes + 1
    /\ UNCHANGED <<improved, aborts>>

\* The requests with brokers, which versions 5 and 6 do not take.
AddBroker(n) ==
    LET c == Upgraded(cfg)
    IN  /\ cfg.version < 5 /\ ~Contains(c, n)
        /\ ChangeConfiguration(IF c.version = 3 THEN AddV3(c, n) ELSE AddV4(c, n),
                               cfg.voters \cup {n})

RemoveBroker(n) ==
    LET c == Upgraded(cfg)
        new == IF c.version = 3 THEN RemoveV3(c, n) ELSE RemoveV4(c, n)
    IN  /\ cfg.version < 5 /\ Contains(c, n) /\ new.voters # {}
        /\ ChangeConfiguration(new, cfg.voters \ {n})

ReplaceBrokers(nodes) ==
    LET c == Upgraded(cfg)
    IN  /\ cfg.version < 5
        /\ ChangeConfiguration(IF c.version = 3 THEN ReplaceV3(c, nodes)
                               ELSE ReplaceV4(c, nodes), nodes)

\* The requests with nodes, which set version 5; replicate_configuration makes
\* it 6.
Five == [cfg EXCEPT !.version = 5]

AddNode(n) ==
    /\ ~Contains(cfg, n)
    /\ ChangeConfiguration(AddV4(Five, n), cfg.voters \cup {n})

RemoveNode(n) ==
    /\ Contains(cfg, n) /\ RemoveV5(Five, n).voters # {}
    /\ ChangeConfiguration(RemoveV5(Five, n), cfg.voters \ {n})

ReplaceNodes(nodes) == ChangeConfiguration(ReplaceV5(Five, nodes), nodes)

\* maybe_promote_to_voter: a learner has caught up.
Promote(n) ==
    /\ InCurrent(cfg, n) /\ ~IsVoter(cfg, n)
    /\ cfg' = PromoteToVoter(cfg, n)
    /\ UNCHANGED <<improved, original, target, cancels, changes, aborts>>

\* maybe_commit_configuration, when the latest configuration is committed.
CommitConfiguration ==
    /\ cfg.learners = {} /\ State(cfg) # "simple"
    /\ cfg' = Advance(cfg)
    /\ UNCHANGED <<improved, original, target, cancels, changes, aborts>>

\* cancel_configuration_change; it does not wait for a commit.
CancelChange ==
    /\ State(cfg) # "simple" /\ cancels < MaxCancels
    /\ cfg.joint => cfg.oldLearners = {}
    /\ cfg' = Cancel(cfg)
    /\ target' = original /\ cancels' = cancels + 1
    /\ UNCHANGED <<improved, original, changes, aborts>>

\* abort_configuration_change on the leader.
AbortChange ==
    /\ State(cfg) # "simple" /\ aborts < MaxAborts
    /\ \/ /\ cfg.version = 3
          /\ \E skipped \in SUBSET cfg.oldLearners :
                /\ 2 * Cardinality(skipped) < Cardinality(cfg.oldLearners) \/ skipped = {}
                /\ cfg' = AbortV3(cfg, cfg.oldLearners \ skipped)
       \/ cfg.version > 3 /\ cfg' = AbortV4(cfg)
    /\ target' = original /\ aborts' = aborts + 1
    /\ UNCHANGED <<improved, original, cancels, changes>>

ActivateFeature ==
    /\ ~improved /\ improved' = TRUE
    /\ UNCHANGED <<cfg, original, target, cancels, changes, aborts>>

Init ==
    /\ \E v \in 3..5 : cfg = Simple(Initial, v)
    /\ improved = (cfg.version > 3)
    /\ original = Initial /\ target = Initial
    /\ cancels = 0 /\ changes = 0 /\ aborts = 0

Request ==
    \/ \E n \in Node : AddBroker(n) \/ RemoveBroker(n) \/ AddNode(n) \/ RemoveNode(n)
    \/ \E nodes \in (SUBSET Node) \ {{}} : ReplaceBrokers(nodes) \/ ReplaceNodes(nodes)

PromoteOne == \E n \in Node : Promote(n)

Next ==
    \/ Request \/ PromoteOne \/ CommitConfiguration
    \/ CancelChange \/ AbortChange \/ ActivateFeature

Spec == Init /\ [][Next]_vars

\* Learners catch up, and the leader commits what it replicates.
FairSpec == Spec /\ WF_vars(PromoteOne) /\ WF_vars(CommitConfiguration)

---------------------------------------------------------------------------
\* Properties.

\* The types of the variables.
TypeOK ==
    /\ cfg \in Configuration /\ improved \in BOOLEAN
    /\ {original, target} \subseteq SUBSET Node
    /\ ~cfg.joint => cfg.oldVoters = {} /\ cfg.oldLearners = {}
    /\ ~cfg.changing => cfg.add = {} /\ cfg.remove = {}

\* Two configurations that follow each other never have disjoint majorities:
\* nothing can be decided by the later one that the earlier one does not see.
\* A forced abort, which "may lead to data loss", ends the promise.
QuorumsIntersect ==
    [][cfg' # cfg /\ aborts' = 0 =>
         \A S \in SUBSET Node : Majority(cfg, S) => ~Majority(cfg', Node \ S)]_vars

\* A change that is started comes to an end.
ChangesFinish == State(cfg) # "simple" ~> State(cfg) = "simple"
=============================================================================
