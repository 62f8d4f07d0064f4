---------------------- MODULE ConfigurationChangeProofs ----------------------
(***************************************************************************)
(* Configurations that follow each other have no disjoint majorities, for any *)
(* set of nodes and any number of changes and cancellations.  Two             *)
(* configurations that follow each other count a majority of the same voters, *)
(* or one of them counts one voter more; that the voters in common are not    *)
(* empty is what the invariant is needed for, as an empty set of voters does  *)
(* not count.                                                                 *)
(***************************************************************************)
EXTENDS ConfigurationChange, FiniteSetTheorems, TLAPS

\* Versions 4 and later are the only ones that keep an update.
UpdateVersion(c) == c.version = 3 => ~c.changing

\* What the configurations are like as long as no change was aborted: a simple
\* one has voters and no learners; the nodes that are there before a transition,
\* and those that are to be there after it, are some; the two halves of a joint one
\* have nodes, and one of them has voters; and joint configurations of version 4
\* and later have voters, also when the change is cancelled.
Populated(c) ==
    /\ ~c.joint => c.voters # {}
    /\ State(c) = "simple" => c.learners = {}
    /\ State(c) = "transitional" => /\ c.voters \ c.add # {}
                                    /\ (c.voters \cup c.learners) \ c.remove # {}
    /\ c.joint => /\ c.voters \cup c.oldVoters # {}
                  /\ c.voters \cup c.learners # {}
                  /\ c.oldVoters \cup c.oldLearners # {}
    /\ c.joint /\ c.version > 3 =>
          /\ c.learners = {}
          /\ c.oldLearners = {} => /\ c.oldVoters \ c.add # {}
                                   /\ c.oldVoters \ c.remove # {}

\* The fields that go with the flags.
Clean(c) ==
    /\ ~c.joint => c.oldVoters = {} /\ c.oldLearners = {}
    /\ ~c.changing => c.add = {} /\ c.remove = {}

Typed(c) == c \in Configuration /\ Clean(c) /\ UpdateVersion(c)

Good(c) == Typed(c) /\ Populated(c)

\* A majority of c is one of the voters V.
Counts(c, V) == V = c.voters \/ (c.joint /\ V = c.oldVoters)

\* d follows c: both count the same voters, or d counts one more.
Follows(c, d) ==
    \E V \in (SUBSET Node) \ {{}} :
        /\ Counts(c, V)
        /\ Counts(d, V) \/ \E n \in Node : Counts(d, V \cup {n})

Intersect(c, d) ==
    \A S \in SUBSET Node : Majority(c, S) => ~Majority(d, Node \ S)

---------------------------------------------------------------------------
\* Majorities.

\* The voters that are in S and those that are not are all of them.
LEMMA VotersSplit ==
    ASSUME NEW V \in SUBSET Node, NEW S \in SUBSET Node
    PROVE  /\ Cardinality(V) \in Nat
           /\ Cardinality(S \cap V) \in Nat
           /\ Cardinality((Node \ S) \cap V) \in Nat
           /\ Cardinality(S \cap V) + Cardinality((Node \ S) \cap V) = Cardinality(V)
  <1> DEFINE A == S \cap V
             B == (Node \ S) \cap V
  <1>1. IsFiniteSet(V) /\ A \cup B = V /\ A \cap B = {}
    BY FS_Subset, ConfigurationAssumption, Zenon
  <1>2. IsFiniteSet(A) /\ IsFiniteSet(B)
    BY <1>1, FS_Subset, Zenon
  <1>3. Cardinality(V) = Cardinality(A) + Cardinality(B) - Cardinality({})
    BY <1>1, <1>2, FS_Union, Zenon
  <1>4. /\ Cardinality(A) \in Nat /\ Cardinality(B) \in Nat /\ Cardinality(V) \in Nat
        /\ Cardinality({}) = 0
    BY <1>1, <1>2, FS_CardinalityType, FS_EmptySet, Zenon
  <1> QED
    BY <1>3, <1>4

\* A voter more is at most one more in any set.
LEMMA VoterAdded ==
    ASSUME NEW V \in SUBSET Node, NEW S \in SUBSET Node, NEW n \in Node \ V
    PROVE  /\ Cardinality(V \cup {n}) = Cardinality(V) + 1
           /\ Cardinality(S \cap (V \cup {n})) \in Nat
           /\ Cardinality(S \cap (V \cup {n})) <= Cardinality(S \cap V) + 1
  <1>1. IsFiniteSet(V) /\ IsFiniteSet(S \cap V)
    BY FS_Subset, ConfigurationAssumption, Zenon
  <1>2. Cardinality(V \cup {n}) = Cardinality(V) + 1
    BY <1>1, FS_AddElement, Zenon
  <1>3. /\ Cardinality((S \cap V) \cup {n}) = Cardinality(S \cap V) + 1
        /\ Cardinality(S \cap V) \in Nat
    BY <1>1, FS_AddElement, FS_CardinalityType, Zenon
  <1>4. S \cap (V \cup {n}) = S \cap V \/ S \cap (V \cup {n}) = (S \cap V) \cup {n}
    BY Zenon
  <1> QED
    BY <1>2, <1>3, <1>4

\* A set and its complement are not both majorities of the same voters, nor when
\* the second counts one voter more.
LEMMA MajoritiesMeet ==
    ASSUME NEW V \in (SUBSET Node) \ {{}}, NEW S \in SUBSET Node, MajorityOf(V, S)
    PROVE  /\ ~MajorityOf(V, Node \ S)
           /\ \A n \in Node : ~MajorityOf(V \cup {n}, Node \ S)
  <1> DEFINE v == Cardinality(V)
             a == Cardinality(S \cap V)
             b == Cardinality((Node \ S) \cap V)
  <1>1. v \in Nat /\ a \in Nat /\ b \in Nat /\ a + b = v
    BY VotersSplit, Zenon
  <1>0. V # {}
    BY Zenon
  <1>2. a >= v \div 2 + 1
    BY <1>0, Zenon DEF MajorityOf
  <1>3. ~MajorityOf(V, Node \ S)
    <2>1. ~(b >= v \div 2 + 1)
      <3> HIDE DEF v, a, b
      <3> QED
        BY <1>1, <1>2
    <2> QED
      BY <1>0, <2>1, Zenon DEF MajorityOf
  <1>4. ASSUME NEW n \in Node \ V
        PROVE  ~MajorityOf(V \cup {n}, Node \ S)
    <2> DEFINE w == Cardinality(V \cup {n})
               d == Cardinality((Node \ S) \cap (V \cup {n}))
    <2>1. w = v + 1 /\ d \in Nat /\ d <= b + 1
      <3>1. Node \ S \in SUBSET Node
        BY Zenon
      <3> QED
        BY <3>1, VoterAdded, Zenon
    <2>2. ~(d >= w \div 2 + 1)
      <3> HIDE DEF v, a, b, w, d
      <3> QED
        BY <1>1, <1>2, <2>1
    <2>3. V \cup {n} # {}
      BY Zenon
    <2> QED
      BY <2>2, <2>3, Zenon DEF MajorityOf
  <1>5. \A n \in V : V \cup {n} = V
    BY Zenon
  <1> QED
    BY <1>3, <1>4, <1>5, Zenon

\* Configurations that count the voters of the other have no disjoint majorities.
LEMMA FollowsIntersect ==
    ASSUME NEW c, NEW d, Follows(c, d)
    PROVE  Intersect(c, d)
  <1> SUFFICES ASSUME NEW S \in SUBSET Node, Majority(c, S)
               PROVE  ~Majority(d, Node \ S)
    BY Zenon DEF Intersect
  <1>1. PICK V \in (SUBSET Node) \ {{}} :
            /\ Counts(c, V)
            /\ Counts(d, V) \/ \E n \in Node : Counts(d, V \cup {n})
    BY Zenon DEF Follows
  <1>2. MajorityOf(V, S)
    BY <1>1, Zenon DEF Majority, Counts
  <1>3. /\ ~MajorityOf(V, Node \ S)
        /\ \A n \in Node : ~MajorityOf(V \cup {n}, Node \ S)
    BY <1>2, MajoritiesMeet, Zenon
  <1>4. \A U : Counts(d, U) /\ Majority(d, Node \ S) => MajorityOf(U, Node \ S)
    BY Zenon DEF Majority, Counts
  <1> QED
    BY <1>1, <1>3, <1>4, Zenon

---------------------------------------------------------------------------
\* The change strategies.

\* Version 3 enters a joint configuration with the voters it had as the old ones.
LEMMA StartV3 ==
    ASSUME NEW c, Good(c), State(c) = "simple", c.version = 3, NEW n \in Node,
           NEW nodes \in (SUBSET Node) \ {{}}
    PROVE  /\ Good(AddV3(c, n)) /\ Follows(c, AddV3(c, n))
           /\ RemoveV3(c, n).voters # {} =>
                 Good(RemoveV3(c, n)) /\ Follows(c, RemoveV3(c, n))
           /\ Good(ReplaceV3(c, nodes)) /\ Follows(c, ReplaceV3(c, nodes))
  <1>1. c \in Configuration /\ ~c.joint /\ ~c.changing /\ c.voters # {} /\ c.learners = {}
    BY Zenon DEF Good, Typed, Populated, State
  <1> DEFINE e == EnterJoint(c)
  <1>2. /\ e \in Configuration
        /\ e.joint /\ e.oldVoters = c.voters /\ e.oldLearners = {}
        /\ e.voters = c.voters /\ e.learners = {} /\ ~e.changing
        /\ e.add = c.add /\ e.remove = c.remove /\ e.version = c.version
    BY <1>1, Zenon DEF EnterJoint, Configuration
  <1>3. Clean(c)
    BY Zenon DEF Good, Typed
  <1> HIDE DEF e
  <1>4. Good(AddV3(c, n)) /\ Follows(c, AddV3(c, n))
    <2> DEFINE d == [e EXCEPT !.learners = @ \cup {n}]
    <2>1. /\ d \in Configuration
          /\ d.joint /\ d.oldVoters = c.voters /\ d.oldLearners = {}
          /\ d.voters = c.voters /\ d.learners = {n} /\ ~d.changing
          /\ d.add = c.add /\ d.remove = c.remove /\ d.version = 3
      BY <1>2, Zenon DEF Configuration
    <2> HIDE DEF d
    <2>2. Good(d) /\ Follows(c, d)
      BY <1>1, <1>3, <2>1 DEF Good, Typed, Clean, UpdateVersion, Populated, State,
                              Follows, Counts, Configuration
    <2> QED
      BY <2>2, Zenon DEF AddV3, d, e
  <1>5. ASSUME RemoveV3(c, n).voters # {}
        PROVE  Good(RemoveV3(c, n)) /\ Follows(c, RemoveV3(c, n))
    <2> DEFINE d == [e EXCEPT !.learners = @ \ {n}, !.voters = @ \ {n}]
    <2>1. /\ d \in Configuration
          /\ d.joint /\ d.oldVoters = c.voters /\ d.oldLearners = {}
          /\ d.learners = {} /\ ~d.changing
          /\ d.add = c.add /\ d.remove = c.remove /\ d.version = 3
      BY <1>2, Zenon DEF Configuration
    <2>2. d.voters # {}
      BY <1>5, Zenon DEF RemoveV3, e
    <2> HIDE DEF d
    <2>3. Good(d) /\ Follows(c, d)
      BY <1>1, <1>3, <2>1, <2>2, Zenon DEF Good, Typed, Clean, UpdateVersion, Populated, State,
                              Follows, Counts, Configuration
    <2> QED
      BY <2>3, Zenon DEF RemoveV3, d, e
  <1>6. Good(ReplaceV3(c, nodes)) /\ Follows(c, ReplaceV3(c, nodes))
    <2>1. CASE nodes = c.voters \cup c.learners
      BY <1>1, <2>1, Zenon DEF ReplaceV3, Follows, Counts, Configuration
    <2>2. CASE nodes # c.voters \cup c.learners
      <3> DEFINE d == [e EXCEPT !.voters = nodes \cap c.voters,
                                !.learners = nodes \ c.voters]
      <3>1. /\ d \in Configuration
            /\ d.joint /\ d.oldVoters = c.voters /\ d.oldLearners = {}
            /\ d.voters = nodes \cap c.voters /\ d.learners = nodes \ c.voters
            /\ ~d.changing /\ d.add = c.add /\ d.remove = c.remove /\ d.version = 3
        BY <1>2, Zenon DEF Configuration
      <3>2. d.voters \cup d.learners # {}
        BY <3>1, Zenon
      <3> HIDE DEF d
      <3>3. Good(d) /\ Follows(c, d)
        BY <1>1, <1>3, <3>1, <3>2 DEF Good, Typed, Clean, UpdateVersion, Populated,
                                      State, Follows, Counts, Configuration
      <3> QED
        BY <2>2, <3>3, Zenon DEF ReplaceV3, d, e
    <2> QED
      BY <2>1, <2>2, Zenon
  <1> QED
    BY <1>4, <1>5, <1>6, Zenon

\* A transition that is done leaves the learners it has none of: the configuration
\* is simple again, or joint to remove nodes.
LEMMA TransitionDone ==
    ASSUME NEW c, Typed(c), c.version > 3, ~c.joint, c.learners = {},
           c.voters \ c.add # {}, c.voters \ c.remove # {}
    PROVE  Good(FinishTransition(c)) /\ Follows(c, FinishTransition(c))
  <1>1. /\ c \in Configuration /\ Clean(c) /\ c.voters \in (SUBSET Node) \ {{}}
        /\ c.remove \in SUBSET Node
    BY Zenon DEF Typed, Configuration
  <1>2. CASE c.remove = {}
    <2> DEFINE d == NoUpdate(c)
    <2>1. /\ d \in Configuration /\ ~d.joint /\ ~d.changing
          /\ d.voters = c.voters /\ d.learners = {}
          /\ d.oldVoters = {} /\ d.oldLearners = {} /\ d.add = {} /\ d.remove = {}
      BY <1>1, Zenon DEF NoUpdate, Configuration, Clean
    <2> HIDE DEF d
    <2>2. Good(d) /\ Follows(c, d)
      BY <1>1, <2>1, Zenon DEF Good, Typed, Clean, UpdateVersion, Populated, State, Follows,
                        Counts
    <2> QED
      BY <1>2, <2>2, Zenon DEF FinishTransition, d
  <1>3. CASE c.remove # {}
    <2> DEFINE e == EnterJoint(c)
               d == [e EXCEPT !.voters = @ \ c.remove]
    <2>1. /\ e \in Configuration /\ e.version = c.version
          /\ e.joint /\ e.oldVoters = c.voters /\ e.oldLearners = {}
          /\ e.voters = c.voters /\ e.learners = {} /\ e.changing = c.changing
          /\ e.add = c.add /\ e.remove = c.remove
      BY <1>1, Zenon DEF EnterJoint, Configuration
    <2> HIDE DEF e
    <2>2. /\ d \in Configuration /\ d.version = c.version
          /\ d.joint /\ d.oldVoters = c.voters /\ d.oldLearners = {}
          /\ d.voters = c.voters \ c.remove /\ d.learners = {}
          /\ d.changing = c.changing /\ d.add = c.add /\ d.remove = c.remove
      BY <1>1, <2>1, Zenon DEF Configuration
    <2> HIDE DEF d
    <2>3. Good(d) /\ Follows(c, d)
      BY <1>1, <2>2, Zenon DEF Good, Typed, Clean, UpdateVersion, Populated, State, Follows,
                        Counts
    <2> QED
      BY <1>3, <2>3, Zenon DEF FinishTransition, d, e
  <1> QED
    BY <1>2, <1>3, Zenon

\* Counting depends on the voters.
LEMMA SameVoters ==
    ASSUME NEW b, NEW c, NEW d,
           c.voters = d.voters, c.joint = d.joint, c.oldVoters = d.oldVoters
    PROVE  /\ Follows(b, c) <=> Follows(b, d)
           /\ Follows(c, b) <=> Follows(d, b)
  <1>1. \A V : Counts(c, V) <=> Counts(d, V)
    BY Zenon DEF Counts
  <1> QED
    BY <1>1, Zenon DEF Follows

\* A configuration_update, set and reset.
LEMMA UpdateFacts ==
    ASSUME NEW c \in Configuration, NEW add \in SUBSET Node, NEW remove \in SUBSET Node
    PROVE  LET u == Update(c, add, remove)
           IN  /\ u \in Configuration
               /\ u.changing /\ u.add = add /\ u.remove = remove
               /\ u.version = c.version /\ u.voters = c.voters
               /\ u.learners = c.learners /\ u.joint = c.joint
               /\ u.oldVoters = c.oldVoters /\ u.oldLearners = c.oldLearners
  BY Zenon DEF Update, Configuration

\* Versions 4 and 5 add a node as a learner, and remove one through a joint
\* configuration.
LEMMA AddRemoveV4 ==
    ASSUME NEW c, Good(c), State(c) = "simple", c.version > 3, NEW n \in Node
    PROVE  /\ n \notin c.voters => Good(AddV4(c, n)) /\ Follows(c, AddV4(c, n))
           /\ n \in c.voters /\ RemoveV4(c, n).voters # {} =>
                 Good(RemoveV4(c, n)) /\ Follows(c, RemoveV4(c, n))
           /\ n \in c.voters /\ RemoveV5(c, n).voters # {} =>
                 Good(RemoveV5(c, n)) /\ Follows(c, RemoveV5(c, n))
  <1>1. /\ c \in Configuration /\ ~c.joint /\ ~c.changing /\ c.learners = {}
        /\ c.voters \in (SUBSET Node) \ {{}} /\ Clean(c)
    BY Zenon DEF Good, Typed, Populated, State, Configuration
  <1>2. ASSUME n \notin c.voters
        PROVE  Good(AddV4(c, n)) /\ Follows(c, AddV4(c, n))
    <2> DEFINE u == Update(c, {n}, {})
               d == [u EXCEPT !.learners = @ \cup {n}]
    <2>1. /\ u \in Configuration /\ u.changing /\ u.add = {n} /\ u.remove = {}
          /\ u.version = c.version /\ u.voters = c.voters /\ u.learners = {}
          /\ ~u.joint /\ u.oldVoters = {} /\ u.oldLearners = {}
      BY <1>1, UpdateFacts DEF Clean
    <2> HIDE DEF u
    <2>2. /\ d \in Configuration /\ d.changing /\ d.add = {n} /\ d.remove = {}
          /\ d.version = c.version /\ d.voters = c.voters /\ d.learners = {n}
          /\ ~d.joint /\ d.oldVoters = {} /\ d.oldLearners = {}
      BY <2>1, Zenon DEF Configuration
    <2> HIDE DEF d
    <2>3. Good(d) /\ Follows(c, d)
      BY <1>1, <1>2, <2>2 DEF Good, Typed, Clean, UpdateVersion, Populated, State,
                              Follows, Counts
    <2> QED
      BY <2>3, Zenon DEF AddV4, d, u
  <1>3. ASSUME n \in c.voters
        PROVE  /\ RemoveV4(c, n).voters # {} =>
                     Good(RemoveV4(c, n)) /\ Follows(c, RemoveV4(c, n))
               /\ RemoveV5(c, n) = RemoveV4(c, n)
    <2> DEFINE u == Update(c, {}, {n})
               e == EnterJoint(u)
               d == [e EXCEPT !.learners = @ \ {n}, !.voters = @ \ {n}]
    <2>1. /\ u \in Configuration /\ u.changing /\ u.add = {} /\ u.remove = {n}
          /\ u.version = c.version /\ u.voters = c.voters /\ u.learners = {}
          /\ ~u.joint /\ u.oldVoters = {} /\ u.oldLearners = {}
      BY <1>1, UpdateFacts DEF Clean
    <2>2. RemoveV4(c, n) = d /\ RemoveV5(c, n) = d
      <3>1. {n} \cap (c.learners \cup c.voters) = {n} /\ {n} \cap c.voters = {n}
        BY <1>3, Zenon
      <3> QED
        BY <1>3, <3>1, Zenon DEF RemoveV4, RemoveV5
    <2> HIDE DEF u
    <2>3. /\ e \in Configuration /\ e.changing /\ e.add = {} /\ e.remove = {n}
          /\ e.version = c.version /\ e.voters = c.voters /\ e.learners = {}
          /\ e.joint /\ e.oldVoters = c.voters /\ e.oldLearners = {}
      BY <2>1, Zenon DEF EnterJoint, Configuration
    <2> HIDE DEF e
    <2>4. /\ d \in Configuration /\ d.changing /\ d.add = {} /\ d.remove = {n}
          /\ d.version = c.version /\ d.voters = c.voters \ {n} /\ d.learners = {}
          /\ d.joint /\ d.oldVoters = c.voters /\ d.oldLearners = {}
      BY <2>3, Zenon DEF Configuration
    <2> HIDE DEF d
    <2>5. d.voters # {} => Good(d) /\ Follows(c, d)
      BY <1>1, <2>4 DEF Good, Typed, Clean, UpdateVersion, Populated, State, Follows,
                        Counts
    <2> QED
      BY <2>2, <2>5, Zenon
  <1> QED
    BY <1>2, <1>3, Zenon

\* A replacement adds the new nodes as learners, or goes on to the joint
\* configuration when there are none.
LEMMA ReplaceStarts ==
    ASSUME NEW c, Good(c), State(c) = "simple", c.version > 3,
           NEW nodes \in (SUBSET Node) \ {{}}
    PROVE  Good(StartChange(c, nodes)) /\ Follows(c, StartChange(c, nodes))
  <1>1. /\ c \in Configuration /\ ~c.joint /\ ~c.changing /\ c.learners = {}
        /\ c.voters \in (SUBSET Node) \ {{}} /\ Clean(c)
    BY Zenon DEF Good, Typed, Populated, State, Configuration
  <1> DEFINE u == Update(c, nodes \ c.voters, c.voters \ nodes)
             d == [u EXCEPT !.learners = @ \cup (nodes \ c.voters)]
  <1>2. /\ u \in Configuration /\ u.changing
        /\ u.add = nodes \ c.voters /\ u.remove = c.voters \ nodes
        /\ u.version = c.version /\ u.voters = c.voters /\ u.learners = {}
        /\ ~u.joint /\ u.oldVoters = {} /\ u.oldLearners = {}
    <2>1. nodes \ c.voters \in SUBSET Node /\ c.voters \ nodes \in SUBSET Node
      BY <1>1, Zenon
    <2> QED
      BY <1>1, <2>1, UpdateFacts DEF Clean
  <1>3. StartChange(c, nodes) = IF nodes \subseteq c.voters THEN FinishTransition(d) ELSE d
    BY Zenon DEF StartChange
  <1> HIDE DEF u
  <1>4. /\ d \in Configuration /\ d.changing
        /\ d.add = nodes \ c.voters /\ d.remove = c.voters \ nodes
        /\ d.version = c.version /\ d.voters = c.voters /\ d.learners = nodes \ c.voters
        /\ ~d.joint /\ d.oldVoters = {} /\ d.oldLearners = {}
    BY <1>1, <1>2, Zenon DEF Configuration
  <1> HIDE DEF d
  <1>5. Typed(d) /\ c.voters = d.voters /\ c.joint = d.joint /\ c.oldVoters = d.oldVoters
    BY <1>1, <1>4 DEF Typed, Clean, UpdateVersion, Configuration
  <1>6. CASE nodes \subseteq c.voters
    <2>1. d.learners = {} /\ d.voters \ d.add # {} /\ d.voters \ d.remove # {}
      BY <1>1, <1>4, <1>6, Zenon
    <2>2. Good(FinishTransition(d)) /\ Follows(d, FinishTransition(d))
      BY <1>4, <1>5, <2>1, TransitionDone, Zenon
    <2>3. Follows(c, FinishTransition(d))
      BY <1>5, <2>2, SameVoters, Zenon
    <2> QED
      BY <1>3, <1>6, <2>2, <2>3, Zenon
  <1>7. CASE ~(nodes \subseteq c.voters)
    <2>1. /\ d.voters \ d.add # {} /\ (d.voters \cup d.learners) \ d.remove # {}
          /\ d.voters # {}
      BY <1>1, <1>4, <1>7, Zenon
    <2>2. Good(d) /\ Follows(c, d)
      BY <1>1, <1>4, <1>5, <2>1, Zenon DEF Good, Populated, State, Follows, Counts
    <2> QED
      BY <1>3, <1>7, <2>2, Zenon
  <1> QED
    BY <1>6, <1>7, Zenon

\* A configuration stays good and is followed by itself.
LEMMA SelfFollows ==
    ASSUME NEW c, Good(c)
    PROVE  Follows(c, c)
  <1>1. /\ c.voters \in SUBSET Node /\ c.oldVoters \in SUBSET Node
        /\ c.voters # {} \/ (c.joint /\ c.oldVoters # {})
    BY Zenon DEF Good, Typed, Populated, Configuration
  <1> QED
    BY <1>1, Zenon DEF Follows, Counts

\* A learner that has caught up is one voter more.
LEMMA PromoteStep ==
    ASSUME NEW c, Good(c), NEW n \in Node
    PROVE  Good(PromoteToVoter(c, n)) /\ Follows(c, PromoteToVoter(c, n))
  <1>1. CASE n \notin c.learners
    BY <1>1, SelfFollows, Zenon DEF PromoteToVoter
  <1>2. CASE n \in c.learners
    <2> DEFINE d == [c EXCEPT !.learners = @ \ {n}, !.voters = @ \cup {n}]
    <2>1. c \in Configuration /\ Clean(c) /\ UpdateVersion(c) /\ Populated(c)
      BY Zenon DEF Good, Typed
    <2>2. /\ d \in Configuration /\ d.version = c.version
          /\ d.voters = c.voters \cup {n} /\ d.learners = c.learners \ {n}
          /\ d.joint = c.joint /\ d.oldVoters = c.oldVoters
          /\ d.oldLearners = c.oldLearners
          /\ d.changing = c.changing /\ d.add = c.add /\ d.remove = c.remove
      BY <2>1, Zenon DEF Configuration
    <2> HIDE DEF d
    <2>3. Good(d)
      BY <1>2, <2>1, <2>2, Zenon DEF Good, Typed, Clean, UpdateVersion, Populated, State
    <2>4. Follows(c, d)
      <3>1. /\ c.voters \in SUBSET Node /\ c.oldVoters \in SUBSET Node
            /\ c.voters # {} \/ (c.joint /\ c.oldVoters # {})
        BY <2>1, Zenon DEF Populated, Configuration
      <3> QED
        BY <2>2, <3>1, Zenon DEF Follows, Counts
    <2> QED
      BY <1>2, <2>3, <2>4, Zenon DEF PromoteToVoter, d
  <1> QED
    BY <1>1, <1>2, Zenon

\* A configuration that is committed and has no learners is followed by the joint
\* one, by the one in which removed voters are learners, or by the simple one.
LEMMA AdvanceStep ==
    ASSUME NEW c, Good(c), c.learners = {}, State(c) # "simple"
    PROVE  Good(Advance(c)) /\ Follows(c, Advance(c))
  <1>1. /\ c \in Configuration /\ Clean(c) /\ UpdateVersion(c) /\ Populated(c)
        /\ c.version \in 3..6
    BY Zenon DEF Good, Typed, Configuration
  <1>2. CASE ~c.joint
    <2>1. /\ c.changing /\ State(c) = "transitional"
      BY <1>2, Zenon DEF State
    <2>2. c.version > 3 /\ c.voters \ c.add # {} /\ c.voters \ c.remove # {}
      BY <1>1, <2>1 DEF UpdateVersion, Populated
    <2> QED
      BY <1>1, <1>2, <2>2, TransitionDone, Zenon DEF Typed, Advance
  <1>3. c.joint => c.voters \in (SUBSET Node) \ {{}}
    BY <1>1, Zenon DEF Populated, Configuration
  <1>4. CASE c.joint /\ Removed(c) # {}
    <2> DEFINE d == Demote(c)
    <2>1. /\ d \in Configuration /\ d.version = c.version
          /\ d.voters = c.voters /\ d.learners = c.learners /\ d.joint
          /\ d.oldVoters = c.oldVoters \ Removed(c)
          /\ d.oldLearners = c.oldLearners \cup Removed(c)
          /\ d.changing = c.changing /\ d.add = c.add /\ d.remove = c.remove
      <3>1. Removed(c) \in SUBSET Node
        BY <1>1, Zenon DEF Removed, Configuration
      <3> QED
        BY <1>1, <1>4, <3>1, Zenon DEF Demote, Configuration
    <2> HIDE DEF d
    <2>2. Good(d) /\ Follows(c, d)
      BY <1>1, <1>3, <1>4, <2>1, Zenon DEF Good, Typed, Clean, UpdateVersion, Populated, State,
                                    Follows, Counts
    <2> QED
      BY <1>4, <2>2, Zenon DEF Advance, d
  <1>5. CASE c.joint /\ Removed(c) = {}
    <2> DEFINE e == LeaveJoint(c)
               d == NoUpdate(e)
    <2>1. /\ e \in Configuration /\ e.version = c.version
          /\ e.voters = c.voters /\ e.learners = c.learners /\ ~e.joint
          /\ e.oldVoters = {} /\ e.oldLearners = {}
          /\ e.changing = c.changing /\ e.add = c.add /\ e.remove = c.remove
      BY <1>1, Zenon DEF LeaveJoint, Configuration
    <2>2. Discard(c) = IF c.version = 3 THEN e ELSE d
      BY Zenon DEF Discard, DiscardV3, DiscardV4
    <2> HIDE DEF e
    <2>3. /\ d \in Configuration /\ d.version = c.version
          /\ d.voters = c.voters /\ d.learners = c.learners /\ ~d.joint
          /\ d.oldVoters = {} /\ d.oldLearners = {}
          /\ ~d.changing /\ d.add = {} /\ d.remove = {}
      BY <2>1, Zenon DEF NoUpdate, Configuration
    <2> HIDE DEF d
    <2>4. Good(d) /\ Follows(c, d)
      BY <1>1, <1>3, <1>5, <2>3, Zenon DEF Good, Typed, Clean, UpdateVersion, Populated, State,
                                    Follows, Counts
    <2>5. c.version = 3 => Good(e) /\ Follows(c, e)
      BY <1>1, <1>3, <1>5, <2>1, Zenon DEF Good, Typed, Clean, UpdateVersion, Populated, State,
                                    Follows, Counts
    <2> QED
      BY <1>5, <2>2, <2>4, <2>5, Zenon DEF Advance
  <1> QED
    BY <1>2, <1>4, <1>5, Zenon

\* A cancellation turns a joint configuration of version 3, leaves a joint one of a
\* later version for its old voters, and goes on to a joint one when nodes that
\* were added are voters already.
LEMMA CancelStep ==
    ASSUME NEW c, Good(c), State(c) # "simple", c.joint => c.oldLearners = {}
    PROVE  Good(Cancel(c)) /\ Follows(c, Cancel(c))
  <1>1. /\ c \in Configuration /\ Clean(c) /\ UpdateVersion(c) /\ Populated(c)
        /\ c.version \in 3..6 /\ c.voters \in SUBSET Node /\ c.oldVoters \in SUBSET Node
        /\ c.add \in SUBSET Node /\ c.remove \in SUBSET Node
    BY Zenon DEF Good, Typed, Configuration
  <1>2. CASE c.version = 3
    <2> DEFINE d == CancelV3(c)
    <2>1. c.joint /\ ~c.changing
      BY <1>1, <1>2, Zenon DEF UpdateVersion, State
    <2>2. /\ d \in Configuration /\ d.version = c.version /\ d.joint /\ ~d.changing
          /\ d.voters = c.oldVoters /\ d.learners = c.oldLearners
          /\ d.oldVoters = c.voters /\ d.oldLearners = c.learners
          /\ d.add = c.add /\ d.remove = c.remove
      BY <1>1, <2>1, Zenon DEF CancelV3, Configuration
    <2> HIDE DEF d
    <2>3. Good(d)
      BY <1>1, <1>2, <2>1, <2>2, Zenon DEF Good, Typed, Clean, UpdateVersion, Populated, State
    <2>4. Follows(c, d)
      BY <1>1, <2>1, <2>2, Zenon DEF Populated, Follows, Counts
    <2> QED
      BY <1>2, <2>3, <2>4, Zenon DEF Cancel, d
  <1>3. CASE c.version # 3 /\ c.joint
    <2> DEFINE u == Update(c, c.remove, c.add)
               e == [u EXCEPT !.voters = c.oldVoters, !.learners = c.oldLearners]
               d == LeaveJoint(e)
    <2>1. Cancel(c) = d
      BY <1>3, Zenon DEF Cancel, CancelV4, CancelJoint
    <2>2. /\ u \in Configuration /\ u.version = c.version /\ u.joint
          /\ u.changing /\ u.add = c.remove /\ u.remove = c.add
      BY <1>1, <1>3, UpdateFacts
    <2> HIDE DEF u
    <2>3. /\ e \in Configuration /\ e.version = c.version /\ e.joint
          /\ e.changing /\ e.add = c.remove /\ e.remove = c.add
          /\ e.voters = c.oldVoters /\ e.learners = {}
      BY <1>1, <1>3, <2>2, Zenon DEF Configuration
    <2> HIDE DEF e
    <2>4. /\ d \in Configuration /\ d.version = c.version /\ ~d.joint
          /\ d.changing /\ d.add = c.remove /\ d.remove = c.add
          /\ d.voters = c.oldVoters /\ d.learners = {}
          /\ d.oldVoters = {} /\ d.oldLearners = {}
      BY <2>3, Zenon DEF LeaveJoint, Configuration
    <2> HIDE DEF d
    <2>5. c.oldVoters \ c.add # {} /\ c.oldVoters \ c.remove # {}
      BY <1>1, <1>3 DEF Populated
    <2>6. Good(d) /\ Follows(c, d)
      BY <1>1, <1>3, <2>4, <2>5, Zenon DEF Good, Typed, Clean, UpdateVersion, Populated, State,
                                    Follows, Counts
    <2> QED
      BY <2>1, <2>6, Zenon
  <1>4. CASE c.version # 3 /\ ~c.joint
    <2> DEFINE R == {n \in c.add : IsVoter(c, n)}
               u == Update(c, {}, R)
               d == [u EXCEPT !.learners = {}]
    <2>1. Cancel(c) = FinishTransition(d)
      BY <1>4, Zenon DEF Cancel, CancelV4, CancelTransitional
    <2>2. R \subseteq c.add
      BY Zenon
    <2> HIDE DEF R
    <2>3. /\ u \in Configuration /\ u.changing /\ u.add = {} /\ u.remove = R
          /\ u.version = c.version /\ u.voters = c.voters
          /\ ~u.joint /\ u.oldVoters = {} /\ u.oldLearners = {}
      BY <1>1, <1>4, <2>2, UpdateFacts DEF Clean
    <2> HIDE DEF u
    <2>4. /\ d \in Configuration /\ d.changing /\ d.add = {} /\ d.remove = R
          /\ d.version = c.version /\ d.voters = c.voters /\ d.learners = {}
          /\ ~d.joint /\ d.oldVoters = {} /\ d.oldLearners = {}
      BY <2>3, Zenon DEF Configuration
    <2> HIDE DEF d
    <2>5. c.voters \ c.add # {}
      BY <1>1, <1>4, Zenon DEF Populated, State
    <2>6. Typed(d) /\ d.version > 3 /\ d.voters \ d.add # {} /\ d.voters \ d.remove # {}
      BY <1>1, <1>4, <2>2, <2>4, <2>5 DEF Typed, Clean, UpdateVersion
    <2>7. Good(FinishTransition(d)) /\ Follows(d, FinishTransition(d))
      BY <2>4, <2>6, TransitionDone, Zenon
    <2>8. c.voters = d.voters /\ c.joint = d.joint /\ c.oldVoters = d.oldVoters
      BY <1>1, <1>4, <2>4, Zenon DEF Clean, Configuration
    <2> QED
      BY <2>1, <2>7, <2>8, SameVoters, Zenon
  <1> QED
    BY <1>2, <1>3, <1>4, Zenon

---------------------------------------------------------------------------
\* The steps of the leader.

\* A change of the version alone, when the configuration is simple.
LEMMA NewVersion ==
    ASSUME NEW c, Good(c), State(c) = "simple", NEW v \in 3..6
    PROVE  LET d == [c EXCEPT !.version = v]
           IN  /\ Good(d) /\ State(d) = "simple" /\ d.version = v
               /\ d.voters = c.voters /\ d.joint = c.joint /\ d.oldVoters = c.oldVoters
  <1> DEFINE d == [c EXCEPT !.version = v]
  <1>1. c \in Configuration /\ Clean(c) /\ Populated(c) /\ ~c.joint /\ ~c.changing
    BY Zenon DEF Good, Typed, State
  <1>2. /\ d \in Configuration /\ d.version = v
        /\ d.voters = c.voters /\ d.learners = c.learners /\ d.joint = c.joint
        /\ d.oldVoters = c.oldVoters /\ d.oldLearners = c.oldLearners
        /\ d.changing = c.changing /\ d.add = c.add /\ d.remove = c.remove
    BY <1>1, Zenon DEF Configuration
  <1> HIDE DEF d
  <1>3. Good(d) /\ State(d) = "simple"
    BY <1>1, <1>2, Zenon DEF Good, Typed, Clean, UpdateVersion, Populated, State
  <1> QED
    BY <1>2, <1>3, Zenon DEF d

\* maybe_upgrade_configuration_to_v4 changes the version of a simple configuration
\* or nothing.
LEMMA UpgradedFacts ==
    ASSUME NEW c, Good(c)
    PROVE  LET d == Upgraded(c)
           IN  /\ Good(d) /\ State(d) = State(c)
               /\ d.voters = c.voters /\ d.joint = c.joint /\ d.oldVoters = c.oldVoters
  <1>1. CASE c.version < 4 /\ improved /\ State(c) = "simple"
    <2> DEFINE d == [c EXCEPT !.version = 4]
    <2>1. 4 \in 3..6
      OBVIOUS
    <2>2. /\ Good(d) /\ State(d) = "simple"
          /\ d.voters = c.voters /\ d.joint = c.joint /\ d.oldVoters = c.oldVoters
      BY <1>1, <2>1, NewVersion, Zenon
    <2>3. Upgraded(c) = d
      BY <1>1, Zenon DEF Upgraded
    <2> QED
      BY <1>1, <2>2, <2>3, Zenon
  <1>2. CASE ~(c.version < 4 /\ improved /\ State(c) = "simple")
    BY <1>2, Zenon DEF Upgraded
  <1> QED
    BY <1>1, <1>2, Zenon

\* What a request replicates is good and follows when what its function returns is
\* and does.
LEMMA ChangeStep ==
    ASSUME NEW c, NEW new, NEW nodes, Good(c), Good(new), Follows(c, new),
           c.voters = cfg.voters, c.joint = cfg.joint, c.oldVoters = cfg.oldVoters,
           ChangeConfiguration(new, nodes)
    PROVE  Good(cfg') /\ Follows(cfg, cfg')
  <1>1. cfg' = Upgraded(new)
    BY Zenon DEF ChangeConfiguration
  <1>2. Follows(cfg, new)
    BY SameVoters, Zenon
  <1>3. /\ Good(Upgraded(new)) /\ Upgraded(new).voters = new.voters
        /\ Upgraded(new).joint = new.joint /\ Upgraded(new).oldVoters = new.oldVoters
    BY UpgradedFacts, Zenon
  <1> HIDE DEF Upgraded
  <1>4. Follows(cfg, Upgraded(new))
    BY <1>2, <1>3, SameVoters, Zenon
  <1> QED
    BY <1>1, <1>3, <1>4, Zenon

\* A simple configuration contains its voters.
LEMMA SimpleContains ==
    ASSUME NEW c, Good(c), State(c) = "simple", NEW n
    PROVE  Contains(c, n) <=> n \in c.voters
  <1>1. c.learners = {} /\ c.oldVoters = {} /\ c.oldLearners = {}
    BY Zenon DEF Good, Typed, Clean, Populated, State
  <1> QED
    BY <1>1, Zenon DEF Contains, InCurrent

\* A request.
LEMMA RequestStep ==
    ASSUME Good(cfg), Request
    PROVE  Good(cfg') /\ Follows(cfg, cfg')
  <1>1. \A new, nodes : ChangeConfiguration(new, nodes) => State(cfg) = "simple"
    BY Zenon DEF ChangeConfiguration
  <1> DEFINE c == Upgraded(cfg)
             f == Five
  <1>2. /\ Good(c) /\ State(c) = State(cfg)
        /\ c.voters = cfg.voters /\ c.joint = cfg.joint /\ c.oldVoters = cfg.oldVoters
        /\ c.version \in 3..6
    <2>1. /\ Good(c) /\ State(c) = State(cfg)
          /\ c.voters = cfg.voters /\ c.joint = cfg.joint /\ c.oldVoters = cfg.oldVoters
      BY UpgradedFacts, Zenon
    <2> QED
      BY <2>1, Zenon DEF Good, Typed, Configuration
  <1>3. State(cfg) = "simple" =>
          /\ Good(f) /\ State(f) = "simple" /\ f.version = 5
          /\ f.voters = cfg.voters /\ f.joint = cfg.joint /\ f.oldVoters = cfg.oldVoters
    <2>1. 5 \in 3..6
      OBVIOUS
    <2> QED
      BY <2>1, NewVersion, Zenon DEF Five
  <1>4. ASSUME NEW n \in Node, AddBroker(n) PROVE Good(cfg') /\ Follows(cfg, cfg')
    <2> DEFINE new == IF c.version = 3 THEN AddV3(c, n) ELSE AddV4(c, n)
    <2>1. ~Contains(c, n) /\ ChangeConfiguration(new, cfg.voters \cup {n})
      BY <1>4, Zenon DEF AddBroker
    <2>2. State(c) = "simple"
      BY <1>1, <1>2, <2>1, Zenon
    <2> HIDE DEF c
    <2>3. n \notin c.voters /\ (c.version = 3 \/ c.version > 3)
      BY <1>2, <2>1, <2>2, SimpleContains
    <2>4. (Good(AddV3(c, n)) /\ Follows(c, AddV3(c, n))) \/ c.version # 3
      <3>1. {n} \in (SUBSET Node) \ {{}}
        BY Zenon
      <3> QED
        BY <1>2, <2>2, <3>1, StartV3, Zenon
    <2>5. Good(new) /\ Follows(c, new)
      BY <1>2, <2>2, <2>3, <2>4, AddRemoveV4, Zenon
    <2> HIDE DEF new
    <2> QED
      BY <1>2, <2>1, <2>5, ChangeStep, Zenon
  <1>5. ASSUME NEW n \in Node, RemoveBroker(n) PROVE Good(cfg') /\ Follows(cfg, cfg')
    <2> DEFINE new == IF c.version = 3 THEN RemoveV3(c, n) ELSE RemoveV4(c, n)
    <2>1. Contains(c, n) /\ new.voters # {} /\ ChangeConfiguration(new, cfg.voters \ {n})
      BY <1>5, Zenon DEF RemoveBroker
    <2>2. State(c) = "simple"
      BY <1>1, <1>2, <2>1, Zenon
    <2> HIDE DEF c
    <2>3. n \in c.voters /\ (c.version = 3 \/ c.version > 3)
      BY <1>2, <2>1, <2>2, SimpleContains
    <2>4. c.version = 3 /\ RemoveV3(c, n).voters # {} =>
              Good(RemoveV3(c, n)) /\ Follows(c, RemoveV3(c, n))
      <3>1. {n} \in (SUBSET Node) \ {{}}
        BY Zenon
      <3> QED
        BY <1>2, <2>2, <3>1, StartV3, Zenon
    <2>5. c.version > 3 /\ RemoveV4(c, n).voters # {} =>
              Good(RemoveV4(c, n)) /\ Follows(c, RemoveV4(c, n))
      BY <1>2, <2>2, <2>3, AddRemoveV4, Zenon
    <2>6. Good(new) /\ Follows(c, new)
      BY <2>1, <2>3, <2>4, <2>5, Zenon
    <2> HIDE DEF new
    <2> QED
      BY <1>2, <2>1, <2>6, ChangeStep, Zenon
  <1>6. ASSUME NEW n \in Node, AddNode(n) PROVE Good(cfg') /\ Follows(cfg, cfg')
    <2>1. ~Contains(cfg, n) /\ ChangeConfiguration(AddV4(f, n), cfg.voters \cup {n})
      BY <1>6, Zenon DEF AddNode
    <2>2. n \notin cfg.voters /\ State(cfg) = "simple"
      BY <1>1, <2>1, SimpleContains, Zenon
    <2> HIDE DEF f
    <2>3. Good(AddV4(f, n)) /\ Follows(f, AddV4(f, n))
      BY <1>3, <2>2, AddRemoveV4
    <2> QED
      BY <1>3, <2>1, <2>2, <2>3, ChangeStep, Zenon
  <1>7. ASSUME NEW n \in Node, RemoveNode(n) PROVE Good(cfg') /\ Follows(cfg, cfg')
    <2>1. /\ Contains(cfg, n) /\ RemoveV5(f, n).voters # {}
          /\ ChangeConfiguration(RemoveV5(f, n), cfg.voters \ {n})
      BY <1>7, Zenon DEF RemoveNode
    <2>2. n \in cfg.voters /\ State(cfg) = "simple"
      BY <1>1, <2>1, SimpleContains, Zenon
    <2> HIDE DEF f
    <2>3. Good(RemoveV5(f, n)) /\ Follows(f, RemoveV5(f, n))
      BY <1>3, <2>1, <2>2, AddRemoveV4
    <2> QED
      BY <1>3, <2>1, <2>2, <2>3, ChangeStep, Zenon
  <1>8. ASSUME NEW nodes \in (SUBSET Node) \ {{}}, ReplaceBrokers(nodes)
        PROVE  Good(cfg') /\ Follows(cfg, cfg')
    <2> DEFINE new == IF c.version = 3 THEN ReplaceV3(c, nodes) ELSE ReplaceV4(c, nodes)
    <2>1. ChangeConfiguration(new, nodes)
      BY <1>8, Zenon DEF ReplaceBrokers
    <2>2. State(c) = "simple"
      BY <1>1, <1>2, <2>1, Zenon
    <2> HIDE DEF c
    <2>3. c.version = 3 => Good(ReplaceV3(c, nodes)) /\ Follows(c, ReplaceV3(c, nodes))
      <3>1. PICK n \in Node : n \in nodes
        BY Zenon
      <3> QED
        BY <1>2, <2>2, <3>1, StartV3, Zenon
    <2>4. c.version # 3 => Good(ReplaceV4(c, nodes)) /\ Follows(c, ReplaceV4(c, nodes))
      <3>1. ReplaceV4(c, nodes) \in {c, StartChange(c, nodes)}
        BY Zenon DEF ReplaceV4
      <3> QED
        BY <1>2, <2>2, <3>1, ReplaceStarts, SelfFollows
    <2>5. Good(new) /\ Follows(c, new)
      BY <2>3, <2>4, Zenon
    <2> HIDE DEF new
    <2> QED
      BY <1>2, <2>1, <2>5, ChangeStep, Zenon
  <1>9. ASSUME NEW nodes \in (SUBSET Node) \ {{}}, ReplaceNodes(nodes)
        PROVE  Good(cfg') /\ Follows(cfg, cfg')
    <2>1. ChangeConfiguration(ReplaceV5(f, nodes), nodes)
      BY <1>9, Zenon DEF ReplaceNodes
    <2>2. State(cfg) = "simple"
      BY <1>1, <2>1, Zenon
    <2> HIDE DEF f
    <2>3. ReplaceV5(f, nodes) \in {f, StartChange(f, nodes)}
      BY Zenon DEF ReplaceV5
    <2>4. Good(ReplaceV5(f, nodes)) /\ Follows(f, ReplaceV5(f, nodes))
      BY <1>3, <2>2, <2>3, ReplaceStarts, SelfFollows
    <2> QED
      BY <1>3, <2>1, <2>2, <2>4, ChangeStep, Zenon
  <1> QED
    BY <1>4, <1>5, <1>6, <1>7, <1>8, <1>9, Zenon DEF Request

\* As long as no change was aborted, the configuration is good.
GoodInv == aborts \in Nat /\ (aborts = 0 => Good(cfg))

\* Every step keeps the invariant, and a new configuration follows the old one.
LEMMA ConfigurationStep ==
    ASSUME GoodInv, [Next]_vars
    PROVE  /\ GoodInv'
           /\ cfg' # cfg /\ aborts' = 0 => Follows(cfg, cfg')
  <1>1. CASE Request
    <2>1. aborts' = aborts
      BY <1>1, Zenon DEF Request, AddBroker, RemoveBroker, AddNode, RemoveNode,
                  ReplaceBrokers, ReplaceNodes, ChangeConfiguration
    <2> QED
      BY <1>1, <2>1, RequestStep, Zenon DEF GoodInv
  <1>2. ASSUME NEW n \in Node, Promote(n)
        PROVE  /\ GoodInv'
               /\ cfg' # cfg /\ aborts' = 0 => Follows(cfg, cfg')
    <2>1. aborts' = aborts /\ cfg' = PromoteToVoter(cfg, n)
      BY <1>2, Zenon DEF Promote
    <2> QED
      BY <2>1, PromoteStep, Zenon DEF GoodInv
  <1>3. CASE CommitConfiguration
    <2>1. /\ aborts' = aborts /\ cfg' = Advance(cfg)
          /\ cfg.learners = {} /\ State(cfg) # "simple"
      BY <1>3, Zenon DEF CommitConfiguration
    <2> QED
      BY <2>1, AdvanceStep, Zenon DEF GoodInv
  <1>4. CASE CancelChange
    <2>1. /\ aborts' = aborts /\ cfg' = Cancel(cfg)
          /\ cfg.joint => cfg.oldLearners = {}
          /\ State(cfg) # "simple"
      BY <1>4, Zenon DEF CancelChange
    <2> QED
      BY <2>1, CancelStep, Zenon DEF GoodInv
  <1>5. CASE AbortChange
    <2>1. aborts' = aborts + 1
      BY <1>5, Zenon DEF AbortChange
    <2> QED
      BY <2>1 DEF GoodInv
  <1>6. CASE ActivateFeature \/ UNCHANGED vars
    <2>1. aborts' = aborts /\ cfg' = cfg
      BY <1>6, Zenon DEF ActivateFeature, vars
    <2> QED
      BY <2>1, Zenon DEF GoodInv
  <1> QED
    BY <1>1, <1>2, <1>3, <1>4, <1>5, <1>6, Zenon DEF Next, PromoteOne

\* The configuration at the start is good.
LEMMA InitGood == Init => GoodInv
  <1> SUFFICES ASSUME Init PROVE GoodInv
    BY Zenon
  <1>1. PICK v \in 3..5 : cfg = Simple(Initial, v)
    BY Zenon DEF Init
  <1>2. /\ cfg \in Configuration /\ ~cfg.joint /\ ~cfg.changing
        /\ cfg.voters # {} /\ cfg.learners = {} /\ cfg.oldVoters = {}
        /\ cfg.oldLearners = {} /\ cfg.add = {} /\ cfg.remove = {}
    BY <1>1, ConfigurationAssumption DEF Simple, Configuration
  <1>3. Good(cfg)
    BY <1>2, Zenon DEF Good, Typed, Clean, UpdateVersion, Populated, State
  <1> QED
    BY <1>3, Zenon DEF Init, GoodInv

\* Majorities of configurations that follow each other meet: add, remove and
\* replace in every version, promotions one by one, the way through joint
\* configurations and cancellations of cancellations never let a later
\* configuration decide what a majority of the earlier one has no member in.
THEOREM NoDisjointQuorums == Spec => QuorumsIntersect
  <1>1. GoodInv /\ [Next]_vars =>
           [cfg' # cfg /\ aborts' = 0 =>
              \A S \in SUBSET Node : Majority(cfg, S) => ~Majority(cfg', Node \ S)]_vars
    BY ConfigurationStep, FollowsIntersect, Zenon DEF Intersect
  <1>2. GoodInv /\ [Next]_vars => GoodInv'
    BY ConfigurationStep, Zenon
  <1> QED
    BY <1>1, <1>2, InitGood, PTL DEF Spec, QuorumsIntersect
=============================================================================
