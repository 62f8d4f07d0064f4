------------------------ MODULE ConsumerGroupProofs ------------------------
(***************************************************************************)
(* The members of a generation are all given one plan, and a stable group is   *)
(* the one in the log: for any number of members, generations, stores in        *)
(* flight, failed stores and changes of the coordinator.                       *)
(***************************************************************************)
EXTENDS ConsumerGroup, TLAPS

---------------------------------------------------------------------------
\* The inductive invariant.

GroupFields == {"state", "generation", "members", "pending", "leader", "static", "joining",
                "support", "protocol", "timer", "initial", "added"}
MemberFields == {"joining", "syncing", "new", "armed", "protocols", "static", "plan"}

Shape(g) ==
    /\ DOMAIN g = GroupFields
    /\ \A m \in Present(g) : DOMAIN g.members[m] = MemberFields

\* A group by itself.
WellFormed(g) ==
    /\ Shape(g)
    /\ g.static # None => g.static \in Present(g) /\ g.members[g.static].static = TRUE
    /\ g.state \in {"empty", "preparing", "completing", "stable"}
    /\ g.timer \in {"off", "debounce", "join"}
    /\ g.timer # "off" => g.state = "preparing"
    /\ g.generation \in Nat

\* The ids of the group, and the ids that were ever made when n is the next one.
Known(g) == Present(g) \cup g.pending
Used(n) == 1..(n - 1)

IdsFit(g, n) ==
    /\ n \in 1..(MaxIds + 1) /\ g.generation <= MaxGeneration
    /\ Known(g) \subseteq Used(n) /\ Present(g) \cap g.pending = {}

\* The checkpoints of which one is or will be the last one, when c is stored and q is
\* in flight.
Checkpoints(q, c) == {c} \cup {q[i].checkpoint : i \in DOMAIN q}

AllPlansAre(c, P) == \A m \in DOMAIN c.plans : c.plans[m] = P

\* Each checkpoint holds one plan, which is the one that was handed out in its generation.
CheckpointsFit(g, q, c, H, n) ==
    \A d \in Checkpoints(q, c) :
        /\ d.generation \in Nat /\ DOMAIN d.plans \subseteq Used(n)
        /\ \A l, m \in DOMAIN d.plans : d.plans[l] = d.plans[m]
        /\ c.generation <= d.generation /\ d.generation <= g.generation
        /\ \A a \in H : a[1] = d.generation => AllPlansAre(d, a[2])

\* What is stored in front of what: the id that a static member had is in no plan that
\* was made later.
StoresInOrder(q) ==
    \A i, j \in DOMAIN q : i < j =>
        /\ q[i].checkpoint.generation <= q[j].checkpoint.generation
        /\ q[i].kind = "static" =>
             /\ q[j].kind = "static" => q[j].old # q[i].old
             /\ q[j].kind = "sync" => q[i].old \notin DOMAIN q[j].checkpoint.plans

\* A plan bears the id of the member that made it.
StoreFits(g, s, n) ==
    /\ s.kind \in {"sync", "static", "empty"}
    /\ s.kind = "static" =>
        /\ s.old \in Used(n) /\ s.new \in Used(n)
        /\ s.old \notin Known(g) /\ s.new \notin g.pending
        /\ s.new \in Present(g) => g.members[s.new].static = TRUE
    /\ s.kind = "sync" => \E m \in DOMAIN s.checkpoint.plans :
                              s.checkpoint.plans[m] = <<s.checkpoint.generation, m>>

StoresFit(g, q, n) == \A i \in DOMAIN q : StoreFits(g, q[i], n)

HandedFits(c, H) ==
    /\ \A a \in H : a[1] \in Nat /\ a[1] <= c.generation
    /\ \A a, b \in H : a[1] = b[1] => a[2] = b[2]

\* Between the end of the join phase and the leader's plan: plans that are on their way
\* to the log are of the leader, or of one whose id was taken back, and such a plan does
\* not name the member that has its old id again.
OfLeader(g, s) == AllPlansAre(s.checkpoint, <<g.generation, g.leader>>)

CompletingFits(g, q, H) ==
    g.state = "completing" =>
        /\ Present(g) # {}
        /\ \A a \in H : a[1] < g.generation
        /\ \A i \in DOMAIN q : q[i].checkpoint.generation = g.generation =>
             /\ q[i].kind = "sync"
             /\ Present(g) \subseteq DOMAIN q[i].checkpoint.plans => OfLeader(g, q[i])
             /\ OfLeader(g, q[i]) => \A j \in DOMAIN q : i < j => OfLeader(g, q[j])

\* A stable group has one plan, and so have the checkpoints of its generation.
StablePlan(g, q, c, H, P) ==
    /\ \A m \in Present(g) : g.members[m].plan = P
    /\ \A d \in Checkpoints(q, c) : d.generation = g.generation =>
                                       DOMAIN d.plans # {} /\ AllPlansAre(d, P)
    /\ \A a \in H : a[1] = g.generation => a[2] = P

StableFits(g, q, c, H) ==
    g.state = "stable" =>
        /\ c.generation = g.generation
        /\ \E P \in {g.members[m].plan : m \in Present(g)} : StablePlan(g, q, c, H, P)

IsSequence(q) == \E S : q \in Seq(S)

GroupFits(g, q, c, H, n) ==
    /\ WellFormed(g) /\ IdsFit(g, n) /\ CheckpointsFit(g, q, c, H, n) /\ StoresInOrder(q)
    /\ StoresFit(g, q, n) /\ HandedFits(c, H) /\ CompletingFits(g, q, H)
    /\ StableFits(g, q, c, H)

GroupInv == IsSequence(stores) /\ GroupFits(group, stores, stored, handed, nextId)

---------------------------------------------------------------------------
\* What the operations of a group change.

\* h differs from g in what no property is about.
Alike(g, h) ==
    /\ Shape(h) /\ h.state = g.state /\ h.generation = g.generation /\ h.pending = g.pending
    /\ h.leader = g.leader /\ h.static = g.static /\ h.timer = g.timer
    /\ Present(h) = Present(g)
    /\ \A m \in Present(g) : /\ h.members[m].plan = g.members[m].plan
                             /\ h.members[m].static = g.members[m].static

\* Votes for protocols change nothing else.
LEMMA CountIsAlike ==
    ASSUME NEW g, NEW p, NEW by, Shape(g)
    PROVE  Alike(g, Count(g, p, by))
BY Zenon DEF Alike, Count, Shape, Present, GroupFields

\* A member's join request is answered: the group is the same otherwise.
LEMMA FinishJoiningIsAlike ==
    ASSUME NEW g, NEW m, Shape(g), m \in Present(g)
    PROVE  Alike(g, FinishJoining(g, m))
BY Zenon DEF Alike, FinishJoining, Shape, Present, GroupFields, MemberFields

\* A member joins again: the group is the same but for its protocols.
LEMMA UpdateMemberIsAlike ==
    ASSUME NEW g, NEW m, NEW p, Shape(g), m \in Present(g)
    PROVE  Alike(g, UpdateMember(g, m, p))
<1> DEFINE a == Count(g, g.members[m].protocols, -1)
           h == Count(a, p, 1)
<1>1. Alike(g, a)  BY CountIsAlike, Zenon
<1>2. Alike(a, h)
  <2>1. Shape(a)  BY <1>1, Zenon DEF Alike
  <2> HIDE DEF a
  <2> QED  BY <2>1, CountIsAlike, Zenon
<1>3. Alike(g, h)  BY <1>1, <1>2, Zenon DEF Alike
<1>4. UpdateMember(g, m, p) = [h EXCEPT !.members[m].protocols = p, !.members[m].joining = TRUE,
                  !.joining = IF g.members[m].joining THEN @ ELSE @ + 1]
  BY Zenon DEF UpdateMember
<1> HIDE DEF a, h
<1>5. Alike(h, UpdateMember(g, m, p))
  BY <1>3, <1>4 DEF Alike, Shape, Present, GroupFields, MemberFields
<1> QED  BY <1>3, <1>5, ZenonT(40) DEF Alike

\* h is g after a join phase was begun or went on, or was ended.
Fewer(g, h) ==
    /\ Shape(h) /\ h.pending = g.pending /\ h.static = g.static
    /\ Present(h) \subseteq Present(g)
    /\ \A m \in Present(h) : h.members[m].static = g.members[m].static
    /\ \A m \in Present(g) : g.members[m].static = TRUE => m \in Present(h)

\* Members that have not joined are dropped, but no static member.
LEMMA DropUnjoinedIsFewer ==
    ASSUME NEW g, NEW k, Shape(g)
    PROVE  LET h == DropUnjoined(g, k)
           IN  /\ Fewer(g, h) /\ h.state = g.state /\ h.generation = g.generation
               /\ h.timer = g.timer
BY Zenon DEF DropUnjoined, Unjoined, Fewer, Shape, Present, GroupFields, MemberFields

\* A leader that has joined is chosen among the same members.
LEMMA LeaderRejoinedIsFewer ==
    ASSUME NEW g, NEW k, Shape(g)
    PROVE  LET h == LeaderRejoined(g, k)
           IN  /\ Fewer(g, h) /\ h.state = g.state /\ h.generation = g.generation
               /\ h.timer = g.timer
BY Zenon DEF LeaderRejoined, Fewer, Shape, Present, GroupFields

\* Smaller and smaller.
LEMMA FewerIsTransitive ==
    ASSUME NEW f, NEW g, NEW h, Fewer(f, g), Fewer(g, h)
    PROVE  Fewer(f, h)
BY Zenon DEF Fewer

\* The join phase goes on in the same generation, or it ends and the next one begins.
Rebalanced(g, h) ==
    /\ Fewer(g, h) /\ h.timer \in {"off", "debounce", "join"}
    /\ h.state = "completing" => Present(h) # {}
    /\ \/ h.state = "preparing" /\ h.generation = g.generation
       \/ /\ h.state \in {"empty", "completing"} /\ h.generation = g.generation + 1
          /\ h.timer = "off"

\* complete_join, in the join phase.
LEMMA CompleteJoinRebalances ==
    ASSUME NEW g, NEW k, Shape(g), g.state = "preparing"
    PROVE  Rebalanced(g, CompleteJoin(g, k))
<1> DEFINE a == DropUnjoined(g, k)
           b == [a EXCEPT !.initial = FALSE]
           h == LeaderRejoined(b, k)
           ended == [h EXCEPT
               !.generation = @ + 1, !.timer = "off", !.joining = @ - Cardinality(Joining(h)),
               !.state = IF Present(h) = {} THEN "empty" ELSE "completing",
               !.protocol = IF Present(h) = {} THEN "none" ELSE SelectProtocol(h),
               !.members = [m \in Present(h) |->
                   [h.members[m] EXCEPT !.joining = FALSE, !.new = FALSE, !.armed = TRUE]]]
           waits == [h EXCEPT !.timer = "join"]
<1>1. Fewer(g, a) /\ a.state = g.state /\ a.generation = g.generation
  BY DropUnjoinedIsFewer, Zenon
<1>2. CompleteJoin(g, k) \in {waits, ended}  BY Zenon DEF CompleteJoin
<1> HIDE DEF a
<1>3. Fewer(a, b) /\ b.state = a.state /\ b.generation = a.generation
  BY <1>1, Zenon DEF Fewer, Shape, Present, GroupFields
<1> HIDE DEF b
<1>4. Fewer(b, h) /\ h.state = b.state /\ h.generation = b.generation
  <2>1. Shape(b)  BY <1>3, Zenon DEF Fewer
  <2> QED  BY <2>1, LeaderRejoinedIsFewer, Zenon
<1> HIDE DEF h
<1>5. Fewer(g, h) /\ h.state = "preparing" /\ h.generation = g.generation
  BY <1>1, <1>3, <1>4, FewerIsTransitive, Zenon
<1>6. Rebalanced(g, waits)
  BY <1>5, Zenon DEF Rebalanced, Fewer, Shape, Present, GroupFields
<1>7. ended.state \in {"empty", "completing"} /\ ended.generation = g.generation + 1
      /\ ended.timer = "off" /\ (ended.state = "completing" => Present(h) # {})
      /\ Present(ended) = Present(h)
  BY <1>5, Zenon DEF Fewer, Shape, Present, GroupFields
<1>8. Fewer(h, ended)
  BY <1>5 DEF Fewer, Shape, Present, GroupFields, MemberFields
<1> HIDE DEF ended
<1>9. Rebalanced(g, ended)
  BY <1>5, <1>7, <1>8, FewerIsTransitive, Zenon DEF Rebalanced
<1> QED  BY <1>2, <1>6, <1>9, Zenon

\* What follows a join phase that goes on.
LEMMA RebalancedGoesOn ==
    ASSUME NEW f, NEW g, NEW h, Rebalanced(f, g), g.state = "preparing", Rebalanced(g, h)
    PROVE  Rebalanced(f, h)
BY FewerIsTransitive, Zenon DEF Rebalanced

\* try_prepare_rebalance begins a join phase, or leaves the one that is on.
LEMMA TryPrepareRebalances ==
    ASSUME NEW g, NEW k, WellFormed(g)
    PROVE  Rebalanced(g, TryPrepare(g, k))
<1> DEFINE reset == [g EXCEPT !.members = [m \in Present(g) |->
                         [g.members[m] EXCEPT !.plan = NoPlan, !.syncing = FALSE,
                                              !.armed = @ \/ g.members[m].syncing]]]
           h == IF g.state # "completing" THEN g ELSE reset
           i == [h EXCEPT !.state = "preparing", !.initial = g.state = "empty"]
<1>1. CASE g.state = "preparing"
  <2>1. TryPrepare(g, k) = g  BY <1>1, Zenon DEF TryPrepare
  <2> QED  BY <1>1, <2>1, Zenon DEF Rebalanced, Fewer, WellFormed
<1>2. CASE g.state \in {"empty", "stable", "completing"}
  <2>1. Fewer(g, h) /\ h.generation = g.generation /\ h.timer = g.timer
    <3>1. Fewer(g, reset) /\ reset.generation = g.generation /\ reset.timer = g.timer
      BY Zenon DEF WellFormed, Fewer, Shape, Present, GroupFields, MemberFields
    <3>2. Fewer(g, g)  BY Zenon DEF WellFormed, Fewer
    <3> QED  BY <3>1, <3>2, Zenon
  <2>2. TryPrepare(g, k) \in {[i EXCEPT !.timer = "debounce"], CompleteJoin(i, k), i,
                              [i EXCEPT !.timer = "join"]}
    BY <1>2, Zenon DEF TryPrepare
  <2> HIDE DEF h
  <2>3. Fewer(h, i) /\ i.generation = h.generation /\ i.timer = h.timer /\ i.state = "preparing"
    BY <2>1, Zenon DEF Fewer, Shape, Present, GroupFields
  <2> HIDE DEF i
  <2>4. Rebalanced(g, i)
    BY <2>1, <2>3, FewerIsTransitive, Zenon DEF Rebalanced, WellFormed
  <2>5. Rebalanced(g, [i EXCEPT !.timer = "debounce"]) /\ Rebalanced(g, [i EXCEPT !.timer = "join"])
    BY <2>3, <2>4, Zenon DEF Rebalanced, Fewer, Shape, Present, GroupFields
  <2>6. Rebalanced(g, CompleteJoin(i, k))
    BY <2>3, <2>4, CompleteJoinRebalances, RebalancedGoesOn, Zenon DEF Fewer
  <2> QED  BY <2>2, <2>4, <2>5, <2>6, Zenon
<1> QED  BY <1>1, <1>2, Zenon DEF WellFormed

\* The end of a join request leaves a group in one of these states.
LEMMA FinishJoinRebalances ==
    ASSUME NEW f, NEW g, NEW k, Rebalanced(f, g)
    PROVE  Rebalanced(f, FinishJoin(g, k))
<1>1. CASE g.state = "preparing"
  <2>1. Shape(g)  BY Zenon DEF Rebalanced, Fewer
  <2>2. Rebalanced(g, CompleteJoin(g, k))  BY <1>1, <2>1, CompleteJoinRebalances, Zenon
  <2>3. Rebalanced(f, CompleteJoin(g, k))  BY <1>1, <2>2, RebalancedGoesOn, Zenon
  <2> QED  BY <2>3, Zenon DEF FinishJoin
<1>2. CASE g.state # "preparing"
  BY <1>2, Zenon DEF FinishJoin
<1> QED  BY <1>1, <1>2, Zenon

\* A rebalanced group is well formed.
LEMMA RebalancedIsWellFormed ==
    ASSUME NEW g, NEW h, WellFormed(g), Rebalanced(g, h)
    PROVE  WellFormed(h)
BY DEF WellFormed, Rebalanced, Fewer

\* The group's members change, by ids of N at most, and its generation does not.
Changed(g, h, N) ==
    /\ WellFormed(h) /\ h.generation = g.generation
    /\ Known(h) \subseteq Known(g) \cup N /\ h.pending \subseteq g.pending
    /\ Present(h) \cap h.pending = {}
    /\ \A m \in Present(h) \cap Present(g) : h.members[m].static = g.members[m].static

\* The group's members change, and it is not stable any more.
Renewed(g, h, N) ==
    /\ WellFormed(h) /\ (h.state = "completing" => Present(h) # {})
    /\ \/ h.state = "preparing" /\ h.generation = g.generation
       \/ h.state \in {"empty", "completing"} /\ h.generation = g.generation + 1
    /\ Known(h) \subseteq Known(g) \cup N /\ h.pending \subseteq g.pending
    /\ Present(h) \cap h.pending = {}
    /\ \A m \in Present(h) \cap Present(g) : h.members[m].static = g.members[m].static

\* A change of the members and then a rebalance.
LEMMA ChangedThenRebalanced ==
    ASSUME NEW g, NEW i, NEW h, NEW N, Changed(g, i, N), Rebalanced(i, h)
    PROVE  Renewed(g, h, N)
<1>1. WellFormed(h)  BY RebalancedIsWellFormed, Zenon DEF Changed
<1>2. \/ h.state = "preparing" /\ h.generation = g.generation
      \/ h.state \in {"empty", "completing"} /\ h.generation = g.generation + 1
  BY Zenon DEF Changed, Rebalanced
<1>3. h.pending = i.pending /\ Present(h) \subseteq Present(i)
      /\ \A m \in Present(h) : h.members[m].static = i.members[m].static
  BY Zenon DEF Rebalanced, Fewer
<1>4. h.state = "completing" => Present(h) # {}  BY Zenon DEF Rebalanced
<1> QED  BY <1>1, <1>2, <1>3, <1>4, Zenon DEF Changed, Renewed, Known

\* A group that is alike has changed by no id.
LEMMA AlikeIsChanged ==
    ASSUME NEW g, NEW h, WellFormed(g), Present(g) \cap g.pending = {}, Alike(g, h)
    PROVE  Changed(g, h, {})
BY Zenon DEF Changed, Alike, WellFormed, Known

\* Changes one after the other.
LEMMA ChangedThenAlike ==
    ASSUME NEW f, NEW g, NEW h, NEW N, Changed(f, g, N), Alike(g, h)
    PROVE  Changed(f, h, N)
BY Zenon DEF Changed, Alike, WellFormed, Known

\* remove_pending_member and the end of remove_member.
LEMMA JoinIfCompleteRebalances ==
    ASSUME NEW g, NEW k, WellFormed(g), g.state = "preparing"
    PROVE  Rebalanced(g, JoinIfComplete(g, k))
<1>1. Rebalanced(g, CompleteJoin(g, k))  BY CompleteJoinRebalances, Zenon DEF WellFormed
<1>2. Rebalanced(g, g)  BY Zenon DEF Rebalanced, Fewer, WellFormed
<1> QED  BY <1>1, <1>2, Zenon DEF JoinIfComplete

\* remove_member.
LEMMA RemoveMemberRenews ==
    ASSUME NEW g, NEW m, NEW k, WellFormed(g), m \in Present(g),
           Present(g) \cap g.pending = {}
    PROVE  Renewed(g, RemoveMember(g, m, k), {})
<1> DEFINE a == FinishJoining(g, m)
           h == Count(a, g.members[m].protocols, -1)
           rest == Present(g) \ {m}
           i == [h EXCEPT !.members = Without(@, m),
                       !.static = IF g.members[m].static THEN None ELSE @,
                       !.leader = IF @ # m THEN @ ELSE IF rest = {} THEN None ELSE First(rest, k)]
<1>1. Shape(g)  BY Zenon DEF WellFormed
<1>2. Alike(g, a)  BY <1>1, FinishJoiningIsAlike, Zenon
<1>3. RemoveMember(g, m, k) = IF g.state = "preparing" THEN JoinIfComplete(i, k) ELSE TryPrepare(i, k)
  BY Zenon DEF RemoveMember
<1> HIDE DEF a
<1>4. Alike(a, h)  BY <1>2, CountIsAlike DEF Alike
<1> HIDE DEF h
<1>5. Alike(g, h)  BY <1>2, <1>4, Zenon DEF Alike
<1>6. /\ DOMAIN i = GroupFields /\ Present(i) = Present(g) \ {m}
      /\ \A n \in Present(i) : i.members[n] = h.members[n]
      /\ i.state = g.state /\ i.generation = g.generation /\ i.timer = g.timer
      /\ i.pending = g.pending
      /\ i.static = IF g.members[m].static THEN None ELSE g.static
  BY <1>5, Zenon DEF Alike, Shape, Without, Present, GroupFields
<1> HIDE DEF i
<1>7. Shape(i)  BY <1>5, <1>6, Zenon DEF Alike, Shape
<1>8. \A n \in Present(i) : i.members[n].static = g.members[n].static
  BY <1>5, <1>6, Zenon DEF Alike
<1>9. i.static # None => i.static \in Present(i) /\ i.members[i.static].static = TRUE
  <2> SUFFICES ASSUME i.static # None
               PROVE  i.static \in Present(i) /\ i.members[i.static].static = TRUE
    BY Zenon
  <2>1. i.static = g.static /\ ~g.members[m].static  BY <1>6, Zenon
  <2>2. g.static \in Present(g) /\ g.members[g.static].static = TRUE  BY <2>1, Zenon DEF WellFormed
  <2>3. g.static # m  BY <2>1, <2>2, Zenon
  <2> QED  BY <1>6, <1>8, <2>1, <2>2, <2>3, Zenon
<1>10. WellFormed(i)  BY <1>6, <1>7, <1>9, Zenon DEF WellFormed
<1>11. Changed(g, i, {})  BY <1>6, <1>8, <1>10, Zenon DEF Changed, Known
<1>12. CASE g.state = "preparing"
  <2>1. Rebalanced(i, JoinIfComplete(i, k))
    BY <1>6, <1>10, <1>12, JoinIfCompleteRebalances, Zenon
  <2> QED  BY <1>3, <1>11, <1>12, <2>1, ChangedThenRebalanced, Zenon
<1>13. CASE g.state # "preparing"
  <2>1. Rebalanced(i, TryPrepare(i, k))  BY <1>10, TryPrepareRebalances, Zenon
  <2> QED  BY <1>3, <1>11, <1>13, <2>1, ChangedThenRebalanced, Zenon
<1> QED  BY <1>12, <1>13, Zenon

\* add_member_and_rebalance, of an id that was pending or is new.
LEMMA AddMemberRenews ==
    ASSUME NEW g, NEW m, NEW p, NEW static \in BOOLEAN, NEW k, NEW N, WellFormed(g),
           m \notin Present(g), m \in g.pending \cup N, m # None,
           Present(g) \cap g.pending = {}
    PROVE  Renewed(g, AddMember(g, m, p, static, k), N)
<1> DEFINE v == [Member(p, static) EXCEPT !.joining = TRUE, !.new = TRUE]
           a == Update(g, m, v)
           b == Count(a, p, 1)
           h == [b EXCEPT
                !.joining = @ + 1, !.pending = @ \ {m},
                !.static = IF static THEN m ELSE @,
                !.leader = IF @ = None THEN m ELSE @,
                !.added = @ \/ (g.state = "preparing" /\ g.generation = 0)]
<1>1. AddMember(g, m, p, static, k) = FinishJoin(TryPrepare(h, k), k)  BY Zenon DEF AddMember
<1>2. DOMAIN v = MemberFields /\ v.static = static  BY Zenon DEF Member, MemberFields
<1> HIDE DEF v
<1>3. /\ DOMAIN a = GroupFields /\ Present(a) = Present(g) \cup {m}
      /\ \A n \in Present(g) : n # m => a.members[n] = g.members[n]
      /\ a.members[m] = v
      /\ a.state = g.state /\ a.generation = g.generation /\ a.timer = g.timer
      /\ a.pending = g.pending /\ a.static = g.static
  BY Zenon DEF Update, With, WellFormed, Shape, Present, GroupFields
<1> HIDE DEF a
<1>4. Shape(a)  BY <1>2, <1>3, Zenon DEF WellFormed, Shape
<1>5. Alike(a, b)  BY <1>4, CountIsAlike, Zenon
<1> HIDE DEF b
<1>6. /\ DOMAIN h = GroupFields /\ h.members = b.members
      /\ h.state = b.state /\ h.generation = b.generation /\ h.timer = b.timer
      /\ h.pending = b.pending \ {m} /\ h.static = IF static THEN m ELSE b.static
  BY <1>5, Zenon DEF Alike, Shape, GroupFields
<1> HIDE DEF h
<1>7. /\ Shape(h) /\ Present(h) = Present(g) \cup {m}
      /\ h.state = g.state /\ h.generation = g.generation /\ h.timer = g.timer
      /\ h.pending = g.pending \ {m} /\ h.static = IF static THEN m ELSE g.static
  BY <1>3, <1>5, <1>6, Zenon DEF Alike, Shape, Present
<1>8. /\ \A n \in Present(g) : h.members[n].static = g.members[n].static
      /\ h.members[m].static = static
  <2>1. \A n \in Present(a) : h.members[n].static = a.members[n].static
    BY <1>5, <1>6, Zenon DEF Alike
  <2> QED  BY <1>2, <1>3, <2>1, Zenon
<1>9. WellFormed(h)
  <2>1. h.static # None => h.static \in Present(h) /\ h.members[h.static].static = TRUE
    BY <1>7, <1>8, Zenon DEF WellFormed
  <2> QED  BY <1>7, <2>1, Zenon DEF WellFormed
<1>10. Changed(g, h, N)  BY <1>7, <1>8, <1>9, Zenon DEF Changed, Known
<1>11. Rebalanced(h, FinishJoin(TryPrepare(h, k), k))
  BY <1>9, TryPrepareRebalances, FinishJoinRebalances, Zenon
<1> QED  BY <1>1, <1>10, <1>11, ChangedThenRebalanced, Zenon

\* replace_static_member gives all that the member was to its new id.
LEMMA ReplaceStaticMoves ==
    ASSUME NEW g, NEW old, NEW new, Shape(g), old \in Present(g), new \notin Present(g)
    PROVE  LET h == ReplaceStatic(g, old, new)
           IN  /\ Shape(h) /\ Present(h) = (Present(g) \ {old}) \cup {new}
               /\ h.state = g.state /\ h.generation = g.generation /\ h.timer = g.timer
               /\ h.pending = g.pending /\ h.static = new
               /\ h.leader = IF g.leader = old THEN new ELSE g.leader
               /\ h.members[new].plan = g.members[old].plan
               /\ h.members[new].static = g.members[old].static
               /\ \A m \in Present(g) \ {old} :
                    /\ h.members[m].plan = g.members[m].plan
                    /\ h.members[m].static = g.members[m].static
<1> DEFINE a == FinishJoining(g, old)
           v == [a.members[old] EXCEPT !.syncing = FALSE, !.armed = TRUE]
           h == [a EXCEPT !.members = With(Without(@, old), new, v), !.static = new,
                  !.leader = IF @ = old THEN new ELSE @]
<1>1. ReplaceStatic(g, old, new) = h  BY Zenon DEF ReplaceStatic
<1>2. Alike(g, a)  BY FinishJoiningIsAlike, Zenon
<1> HIDE DEF a
<1>3. /\ DOMAIN v = MemberFields /\ v.plan = g.members[old].plan
      /\ v.static = g.members[old].static
  BY <1>2, Zenon DEF Alike, Shape, MemberFields
<1> HIDE DEF v
<1>4. /\ DOMAIN h = GroupFields /\ Present(h) = (Present(g) \ {old}) \cup {new}
      /\ \A m \in Present(g) \ {old} : h.members[m] = a.members[m]
      /\ h.members[new] = v
      /\ h.state = g.state /\ h.generation = g.generation /\ h.timer = g.timer
      /\ h.pending = g.pending /\ h.static = new
      /\ h.leader = IF g.leader = old THEN new ELSE g.leader
  BY <1>2, Zenon DEF Alike, Shape, With, Without, Present, GroupFields
<1> HIDE DEF h
<1>5. \A m \in Present(h) : DOMAIN h.members[m] = MemberFields
  BY <1>2, <1>3, <1>4, Zenon DEF Alike, Shape
<1>6. Shape(h)  BY <1>4, <1>5, Zenon DEF Shape
<1>7. \A m \in Present(g) \ {old} : /\ h.members[m].plan = g.members[m].plan
                                    /\ h.members[m].static = g.members[m].static
  BY <1>2, <1>4, Zenon DEF Alike
<1> QED  BY <1>1, <1>3, <1>4, <1>6, <1>7, Zenon

\* A static member comes back with a new id.
LEMMA ReplaceStaticChanges ==
    ASSUME NEW g, NEW old, NEW new, WellFormed(g), old \in Present(g),
           g.members[old].static = TRUE, new \notin Known(g), Present(g) \cap g.pending = {}
    PROVE  Changed(g, ReplaceStatic(g, old, new), {new})
<1> DEFINE h == ReplaceStatic(g, old, new)
<1>1. new \notin Present(g)  BY Zenon DEF Known
<1>2. /\ Shape(h) /\ Present(h) = (Present(g) \ {old}) \cup {new}
      /\ h.state = g.state /\ h.generation = g.generation /\ h.timer = g.timer
      /\ h.pending = g.pending /\ h.static = new
      /\ h.members[new].static = TRUE
      /\ \A m \in Present(g) \ {old} : h.members[m].static = g.members[m].static
  BY <1>1, ReplaceStaticMoves DEF WellFormed
<1> HIDE DEF h
<1>3. WellFormed(h)  BY <1>2, Zenon DEF WellFormed
<1>4. Changed(g, h, {new})  BY <1>1, <1>2, <1>3, Zenon DEF Changed, Known
<1> QED  BY <1>4, Zenon DEF h

---------------------------------------------------------------------------
\* The invariant is kept by the parts of which the steps are made.

\* Ids that are in use stay in use.
LEMMA UsedGrows ==
    ASSUME NEW n \in Nat
    PROVE  Used(n) \subseteq Used(n + 1) /\ (n # 0 => n \in Used(n + 1)) /\ n \notin Used(n)
BY DEF Used

\* The group changes in what no property is about.
LEMMA AlikeFits ==
    ASSUME NEW g, NEW q, NEW c, NEW H, NEW n, NEW h, GroupFits(g, q, c, H, n), Alike(g, h)
    PROVE  GroupFits(h, q, c, H, n)
<1>1. /\ Shape(h) /\ h.state = g.state /\ h.generation = g.generation
      /\ h.pending = g.pending /\ h.leader = g.leader /\ h.static = g.static
      /\ h.timer = g.timer /\ Present(h) = Present(g)
      /\ \A m \in Present(g) : /\ h.members[m].plan = g.members[m].plan
                               /\ h.members[m].static = g.members[m].static
  BY Zenon DEF Alike
<1>2. Known(h) = Known(g)  BY <1>1, Zenon DEF Known
<1>3. WellFormed(h)  BY <1>1, Zenon DEF GroupFits, WellFormed
<1>4. IdsFit(h, n)  BY <1>1, <1>2, Zenon DEF GroupFits, IdsFit
<1>5. CheckpointsFit(h, q, c, H, n)  BY <1>1, Zenon DEF GroupFits, CheckpointsFit
<1>6. StoresFit(h, q, n)  BY <1>1, <1>2, Zenon DEF GroupFits, StoresFit, StoreFits
<1>7. CompletingFits(h, q, H)
  <2>1. \A i \in DOMAIN q : OfLeader(h, q[i]) <=> OfLeader(g, q[i])
    BY <1>1, Zenon DEF OfLeader
  <2> QED  BY <1>1, <2>1, Zenon DEF GroupFits, CompletingFits
<1>8. StableFits(h, q, c, H)
  <2> SUFFICES ASSUME h.state = "stable"
               PROVE  /\ c.generation = h.generation
                      /\ \E P \in {h.members[m].plan : m \in Present(h)} :
                            StablePlan(h, q, c, H, P)
    BY Zenon DEF StableFits
  <2>1. /\ c.generation = g.generation
        /\ \E m \in Present(g) : StablePlan(g, q, c, H, g.members[m].plan)
    BY <1>1, Zenon DEF GroupFits, StableFits
  <2>2. PICK m \in Present(g) : StablePlan(g, q, c, H, g.members[m].plan)  BY <2>1, Zenon
  <2>3. StablePlan(h, q, c, H, h.members[m].plan)  BY <1>1, <2>2, Zenon DEF StablePlan
  <2> QED  BY <1>1, <2>1, <2>3, Zenon
<1> QED  BY <1>3, <1>4, <1>5, <1>6, <1>7, <1>8, Zenon DEF GroupFits

\* A member id is given out, or taken back before it was used.
LEMMA PendingFits ==
    ASSUME NEW g, NEW q, NEW c, NEW H, NEW n, NEW k \in {n, n + 1}, NEW N,
           GroupFits(g, q, c, H, n), k \in 1..(MaxIds + 1),
           N \subseteq g.pending \cup {n}, n \in N => k = n + 1
    PROVE  GroupFits([g EXCEPT !.pending = N], q, c, H, k)
<1> DEFINE h == [g EXCEPT !.pending = N]
<1>0. n \in 1..(MaxIds + 1) /\ n \in Nat /\ n # 0
  BY GroupBounds DEF GroupFits, IdsFit
<1>1. /\ Shape(h) /\ h.state = g.state /\ h.generation = g.generation
      /\ h.pending = N /\ h.leader = g.leader /\ h.static = g.static
      /\ h.timer = g.timer /\ h.members = g.members
  BY Zenon DEF GroupFits, WellFormed, Shape, Present, GroupFields
<1> HIDE DEF h
<1>2. Used(n) \subseteq Used(k) /\ (n \in N => n \in Used(k)) /\ n \notin Used(n)
  BY <1>0, UsedGrows, Zenon
<1>3. Present(h) = Present(g) /\ Known(g) \subseteq Used(n) /\ Present(g) \cap g.pending = {}
  BY <1>1, Zenon DEF Present, GroupFits, IdsFit
<1>4. WellFormed(h)  BY <1>1, <1>3, Zenon DEF GroupFits, WellFormed
<1>5. IdsFit(h, k)
  BY <1>1, <1>2, <1>3, Zenon DEF GroupFits, IdsFit, Known
<1>6. CheckpointsFit(h, q, c, H, k)  BY <1>1, <1>2, Zenon DEF GroupFits, CheckpointsFit
<1>7. StoresFit(h, q, k)
  <2> SUFFICES ASSUME NEW i \in DOMAIN q  PROVE  StoreFits(h, q[i], k)  BY Zenon DEF StoresFit
  <2>1. StoreFits(g, q[i], n)  BY Zenon DEF GroupFits, StoresFit
  <2> QED  BY <1>1, <1>2, <1>3, <2>1, Zenon DEF StoreFits, Known
<1>8. CompletingFits(h, q, H)
  <2>1. \A i \in DOMAIN q : OfLeader(h, q[i]) <=> OfLeader(g, q[i])
    BY <1>1, Zenon DEF OfLeader
  <2> QED  BY <1>1, <1>3, <2>1, Zenon DEF GroupFits, CompletingFits
<1>9. StableFits(h, q, c, H)
  <2>1. {h.members[m].plan : m \in Present(h)} = {g.members[m].plan : m \in Present(g)}
    BY <1>1, <1>3, Zenon
  <2>2. \A P : StablePlan(h, q, c, H, P) <=> StablePlan(g, q, c, H, P)
    BY <1>1, <1>3, Zenon DEF StablePlan
  <2> QED  BY <1>1, <2>1, <2>2, Zenon DEF GroupFits, StableFits
<1> QED  BY <1>4, <1>5, <1>6, <1>7, <1>8, <1>9, Zenon DEF GroupFits, h

\* The group is not stable any more.
LEMMA RenewedFits ==
    ASSUME NEW g, NEW q, NEW c, NEW H, NEW n, NEW k \in {n, n + 1}, NEW N, NEW h,
           GroupFits(g, q, c, H, n), Renewed(g, h, N), h.generation <= MaxGeneration,
           k \in 1..(MaxIds + 1), N \subseteq {n}, n \in N => k = n + 1
    PROVE  GroupFits(h, q, c, H, k)
<1>0. n \in Nat /\ n # 0 /\ g.generation \in Nat /\ WellFormed(h)
  BY GroupBounds DEF GroupFits, IdsFit, WellFormed, Renewed
<1>1. Used(n) \subseteq Used(k) /\ (n \in N => n \in Used(k)) /\ n \notin Used(n)
  BY <1>0, UsedGrows, Zenon
<1>2. Known(g) \subseteq Used(n) /\ Known(h) \subseteq Known(g) \cup N /\ h.pending \subseteq g.pending
      /\ Present(h) \cap h.pending = {}
  BY Zenon DEF GroupFits, IdsFit, Renewed
<1>3. IdsFit(h, k)  BY <1>1, <1>2, Zenon DEF IdsFit
<1>4. \/ h.state = "preparing" /\ h.generation = g.generation
      \/ h.state \in {"empty", "completing"} /\ h.generation = g.generation + 1
  BY Zenon DEF Renewed
<1>5. CheckpointsFit(h, q, c, H, k)
  <2> SUFFICES ASSUME NEW d \in Checkpoints(q, c)
               PROVE  /\ d.generation \in Nat /\ DOMAIN d.plans \subseteq Used(k)
                      /\ \A l, m \in DOMAIN d.plans : d.plans[l] = d.plans[m]
                      /\ c.generation <= d.generation /\ d.generation <= h.generation
                      /\ \A a \in H : a[1] = d.generation => AllPlansAre(d, a[2])
    BY Zenon DEF CheckpointsFit
  <2>1. /\ d.generation \in Nat /\ DOMAIN d.plans \subseteq Used(n)
        /\ \A l, m \in DOMAIN d.plans : d.plans[l] = d.plans[m]
        /\ c.generation <= d.generation /\ d.generation <= g.generation
        /\ \A a \in H : a[1] = d.generation => AllPlansAre(d, a[2])
    BY Zenon DEF GroupFits, CheckpointsFit
  <2>2. d.generation <= h.generation  BY <1>0, <1>4, <2>1
  <2>3. DOMAIN d.plans \subseteq Used(k)  BY <1>1, <2>1, Zenon
  <2> QED  BY <2>1, <2>2, <2>3, Zenon
<1>6. StoresFit(h, q, k)
  <2> SUFFICES ASSUME NEW i \in DOMAIN q  PROVE  StoreFits(h, q[i], k)  BY Zenon DEF StoresFit
  <2>1. StoreFits(g, q[i], n)  BY Zenon DEF GroupFits, StoresFit
  <2>2. ASSUME q[i].kind = "static"
        PROVE  /\ q[i].old \in Used(k) /\ q[i].new \in Used(k)
               /\ q[i].old \notin Known(h) /\ q[i].new \notin h.pending
               /\ q[i].new \in Present(h) => h.members[q[i].new].static = TRUE
    <3>1. /\ q[i].old \in Used(n) /\ q[i].new \in Used(n)
          /\ q[i].old \notin Known(g) /\ q[i].new \notin g.pending
          /\ q[i].new \in Present(g) => g.members[q[i].new].static = TRUE
      BY <2>1, <2>2, Zenon DEF StoreFits
    <3>2. q[i].old # n /\ q[i].new # n  BY <1>1, <3>1, Zenon
    <3>3. q[i].new \in Present(h) => q[i].new \in Present(g)
      BY <1>2, <3>1, <3>2, Zenon DEF Known
    <3> QED  BY <1>1, <1>2, <3>1, <3>2, <3>3, Zenon DEF Renewed
  <2> QED  BY <2>1, <2>2, Zenon DEF StoreFits
<1>7. CompletingFits(h, q, H)
  <2> SUFFICES ASSUME h.state = "completing"
               PROVE  /\ Present(h) # {} /\ \A a \in H : a[1] < h.generation
                      /\ \A i \in DOMAIN q : q[i].checkpoint.generation # h.generation
    BY Zenon DEF CompletingFits
  <2>1. h.generation = g.generation + 1  BY <1>4, Zenon
  <2>2. c.generation \in Nat /\ c.generation <= g.generation
    BY Zenon DEF GroupFits, CheckpointsFit, Checkpoints
  <2>3. \A a \in H : a[1] \in Nat /\ a[1] <= c.generation  BY Zenon DEF GroupFits, HandedFits
  <2>4. \A i \in DOMAIN q : /\ q[i].checkpoint.generation \in Nat
                            /\ q[i].checkpoint.generation <= g.generation
    BY Zenon DEF GroupFits, CheckpointsFit, Checkpoints
  <2>5. \A a \in H : a[1] < h.generation  BY <1>0, <2>1, <2>2, <2>3
  <2>6. \A i \in DOMAIN q : q[i].checkpoint.generation # h.generation  BY <1>0, <2>1, <2>4
  <2>7. Present(h) # {}  BY Zenon DEF Renewed
  <2> QED  BY <2>5, <2>6, <2>7, Zenon
<1>8. StableFits(h, q, c, H)  BY <1>4, Zenon DEF StableFits
<1> QED  BY <1>0, <1>3, <1>5, <1>6, <1>7, <1>8, Zenon DEF GroupFits

\* A sequence with one more element.
LEMMA AppendedSequence ==
    ASSUME NEW q, NEW s, IsSequence(q)
    PROVE  /\ IsSequence(Append(q, s))
           /\ DOMAIN Append(q, s) = DOMAIN q \cup {Len(q) + 1}
           /\ Append(q, s)[Len(q) + 1] = s /\ Len(q) + 1 \notin DOMAIN q
           /\ \A i \in DOMAIN q : Append(q, s)[i] = q[i] /\ i < Len(q) + 1 /\ ~(Len(q) + 1 < i)
           /\ ~(Len(q) + 1 < Len(q) + 1)
<1>1. PICK S : q \in Seq(S)  BY Zenon DEF IsSequence
<1>2. Append(q, s) \in Seq(S \cup {s})
  <2>1. q \in Seq(S \cup {s})  BY <1>1
  <2> QED  BY <2>1
<1>3. IsSequence(Append(q, s))  BY <1>2, Zenon DEF IsSequence
<1> QED  BY <1>1, <1>3

\* A sequence without its first element.
LEMMA TailSequence ==
    ASSUME NEW q, IsSequence(q), q # <<>>
    PROVE  /\ IsSequence(Tail(q)) /\ Head(q) = q[1] /\ 1 \in DOMAIN q
           /\ \A i \in DOMAIN Tail(q) : i + 1 \in DOMAIN q /\ Tail(q)[i] = q[i + 1] /\ 1 < i + 1
           /\ \A i, j \in DOMAIN Tail(q) : i < j => i + 1 < j + 1
<1>1. PICK S : q \in Seq(S)  BY Zenon DEF IsSequence
<1>2. Tail(q) \in Seq(S)  BY <1>1
<1>3. IsSequence(Tail(q))  BY <1>2, Zenon DEF IsSequence
<1> QED  BY <1>1, <1>2, <1>3

\* One more checkpoint is on its way to the log.
LEMMA AppendFits ==
    ASSUME NEW g, NEW q, NEW c, NEW H, NEW n, NEW s, IsSequence(q), GroupFits(g, q, c, H, n),
           StoreFits(g, s, n), s.checkpoint.generation = g.generation,
           DOMAIN s.checkpoint.plans \subseteq Used(n),
           \A l, m \in DOMAIN s.checkpoint.plans : s.checkpoint.plans[l] = s.checkpoint.plans[m],
           \A a \in H : a[1] = g.generation => AllPlansAre(s.checkpoint, a[2]),
           \A i \in DOMAIN q : q[i].kind = "static" =>
               /\ s.kind = "static" => s.old # q[i].old
               /\ s.kind = "sync" => q[i].old \notin DOMAIN s.checkpoint.plans,
           g.state = "completing" => s.kind = "sync" /\ OfLeader(g, s),
           g.state = "stable" =>
               /\ DOMAIN s.checkpoint.plans # {}
               /\ \A m \in Present(g) : AllPlansAre(s.checkpoint, g.members[m].plan)
    PROVE  IsSequence(Append(q, s)) /\ GroupFits(g, Append(q, s), c, H, n)
<1> DEFINE r == Append(q, s)
           z == Len(q) + 1
<1>1. /\ IsSequence(r) /\ DOMAIN r = DOMAIN q \cup {z} /\ r[z] = s /\ z \notin DOMAIN q
      /\ \A i \in DOMAIN q : r[i] = q[i] /\ i < z /\ ~(z < i)
      /\ ~(z < z)
  BY AppendedSequence, SMTT(30)
<1> HIDE DEF r, z
<1>2. Checkpoints(r, c) = Checkpoints(q, c) \cup {s.checkpoint}
  BY <1>1 DEF Checkpoints
<1>3. g.generation \in Nat  BY Zenon DEF GroupFits, WellFormed
<1>4. c.generation \in Nat /\ c.generation <= g.generation
  BY Zenon DEF GroupFits, CheckpointsFit, Checkpoints
<1>5. CheckpointsFit(g, r, c, H, n)
  <2> DEFINE Fit(d) == /\ d.generation \in Nat /\ DOMAIN d.plans \subseteq Used(n)
                       /\ \A l, m \in DOMAIN d.plans : d.plans[l] = d.plans[m]
                       /\ c.generation <= d.generation /\ d.generation <= g.generation
                       /\ \A a \in H : a[1] = d.generation => AllPlansAre(d, a[2])
  <2>1. \A d \in Checkpoints(q, c) : Fit(d)  BY Zenon DEF GroupFits, CheckpointsFit
  <2>2. g.generation <= g.generation  BY <1>3
  <2>3. Fit(s.checkpoint)  BY <1>3, <1>4, <2>2, Zenon
  <2> HIDE DEF Fit
  <2>4. \A d \in Checkpoints(r, c) : Fit(d)  BY <1>2, <2>1, <2>3, Zenon
  <2> QED  BY <2>4, Zenon DEF CheckpointsFit, Fit
<1>6. StoresInOrder(r)
  <2> SUFFICES ASSUME NEW i \in DOMAIN r, NEW j \in DOMAIN r, i < j
               PROVE  /\ r[i].checkpoint.generation <= r[j].checkpoint.generation
                      /\ r[i].kind = "static" =>
                          /\ r[j].kind = "static" => r[j].old # r[i].old
                          /\ r[j].kind = "sync" =>
                                r[i].old \notin DOMAIN r[j].checkpoint.plans
    BY Zenon DEF StoresInOrder
  <2>1. i \in DOMAIN q /\ r[i] = q[i]  BY <1>1, Zenon
  <2>2. CASE j \in DOMAIN q
    <3>1. StoresInOrder(q) /\ r[j] = q[j]  BY <1>1, <2>2, Zenon DEF GroupFits
    <3> QED  BY <2>1, <2>2, <3>1 DEF StoresInOrder
  <2>3. CASE j = z
    <3>1. q[i].checkpoint \in Checkpoints(q, c)  BY <2>1, Zenon DEF Checkpoints
    <3>2. q[i].checkpoint.generation <= g.generation
      BY <3>1, Zenon DEF GroupFits, CheckpointsFit
    <3> QED  BY <1>1, <2>1, <2>3, <3>2, Zenon
  <2> QED  BY <1>1, <2>2, <2>3, Zenon
<1>7. StoresFit(g, r, n)  BY <1>1, Zenon DEF GroupFits, StoresFit
<1>8. CompletingFits(g, r, H)
  <2> SUFFICES ASSUME g.state = "completing"
               PROVE  /\ Present(g) # {} /\ \A a \in H : a[1] < g.generation
                      /\ \A i \in DOMAIN r : r[i].checkpoint.generation = g.generation =>
                           /\ r[i].kind = "sync"
                           /\ Present(g) \subseteq DOMAIN r[i].checkpoint.plans => OfLeader(g, r[i])
                           /\ OfLeader(g, r[i]) => \A j \in DOMAIN r : i < j => OfLeader(g, r[j])
    BY Zenon DEF CompletingFits
  <2>1. /\ Present(g) # {} /\ \A a \in H : a[1] < g.generation
        /\ \A i \in DOMAIN q : q[i].checkpoint.generation = g.generation =>
             /\ q[i].kind = "sync"
             /\ Present(g) \subseteq DOMAIN q[i].checkpoint.plans => OfLeader(g, q[i])
             /\ OfLeader(g, q[i]) => \A j \in DOMAIN q : i < j => OfLeader(g, q[j])
    BY Zenon DEF GroupFits, CompletingFits
  <2>2. s.kind = "sync" /\ OfLeader(g, s)  BY Zenon
  <2> QED  BY <1>1, <2>1, <2>2, ZenonT(40)
<1>9. StableFits(g, r, c, H)
  <2> SUFFICES ASSUME g.state = "stable"
               PROVE  /\ c.generation = g.generation
                      /\ \E P \in {g.members[m].plan : m \in Present(g)} :
                            StablePlan(g, r, c, H, P)
    BY Zenon DEF StableFits
  <2>1. /\ c.generation = g.generation
        /\ \E m \in Present(g) : StablePlan(g, q, c, H, g.members[m].plan)
    BY Zenon DEF GroupFits, StableFits
  <2>2. PICK m \in Present(g) : StablePlan(g, q, c, H, g.members[m].plan)  BY <2>1, Zenon
  <2>3. StablePlan(g, r, c, H, g.members[m].plan)  BY <1>2, <2>2, Zenon DEF StablePlan
  <2> QED  BY <2>1, <2>3, Zenon
<1> QED  BY <1>1, <1>5, <1>6, <1>7, <1>8, <1>9, Zenon DEF GroupFits, r

\* The first store ends; its checkpoint is in the log or not.
LEMMA TailFits ==
    ASSUME NEW g, NEW q, NEW c, NEW H, NEW n, IsSequence(q), q # <<>>, GroupFits(g, q, c, H, n),
           NEW d \in {c, Head(q).checkpoint}
    PROVE  IsSequence(Tail(q)) /\ GroupFits(g, Tail(q), d, H, n)
<1> DEFINE t == Tail(q)
<1>1. /\ IsSequence(t) /\ Head(q) = q[1] /\ 1 \in DOMAIN q
      /\ \A i \in DOMAIN t : i + 1 \in DOMAIN q /\ t[i] = q[i + 1] /\ 1 < i + 1
      /\ \A i, j \in DOMAIN t : i < j => i + 1 < j + 1
  BY TailSequence, Zenon
<1> HIDE DEF t
<1>2. d \in Checkpoints(q, c) /\ Checkpoints(t, d) \subseteq Checkpoints(q, c)
  BY <1>1 DEF Checkpoints
<1>3. \A e \in Checkpoints(q, c) : /\ e.generation \in Nat /\ c.generation <= e.generation
                                   /\ e.generation <= g.generation
  BY Zenon DEF GroupFits, CheckpointsFit
<1>4. c \in Checkpoints(q, c) /\ c.generation \in Nat /\ g.generation \in Nat
  BY <1>3, Zenon DEF Checkpoints, GroupFits, WellFormed
<1>5. \A e \in Checkpoints(t, d) : d.generation <= e.generation
  <2>1. \A i \in DOMAIN t : d.generation <= t[i].checkpoint.generation
    <3> SUFFICES ASSUME NEW i \in DOMAIN t  PROVE  d.generation <= t[i].checkpoint.generation
      BY Zenon
    <3>1. q[i + 1].checkpoint \in Checkpoints(q, c)  BY <1>1, Zenon DEF Checkpoints
    <3>2. c.generation <= t[i].checkpoint.generation  BY <1>1, <1>3, <3>1, Zenon
    <3>3. q[1].checkpoint.generation <= t[i].checkpoint.generation
      BY <1>1, Zenon DEF GroupFits, StoresInOrder
    <3> QED  BY <1>1, <3>2, <3>3, Zenon
  <2>2. d.generation <= d.generation  BY <1>2, <1>3
  <2> QED  BY <2>1, <2>2, Zenon DEF Checkpoints
<1>6. CheckpointsFit(g, t, d, H, n)
  BY <1>2, <1>5, Zenon DEF GroupFits, CheckpointsFit
<1>7. StoresInOrder(t)
  <2>1. StoresInOrder(q)  BY Zenon DEF GroupFits
  <2> SUFFICES ASSUME NEW i \in DOMAIN t, NEW j \in DOMAIN t, i < j
               PROVE  /\ t[i].checkpoint.generation <= t[j].checkpoint.generation
                      /\ t[i].kind = "static" =>
                          /\ t[j].kind = "static" => t[j].old # t[i].old
                          /\ t[j].kind = "sync" =>
                                t[i].old \notin DOMAIN t[j].checkpoint.plans
    BY Zenon DEF StoresInOrder
  <2>2. /\ i + 1 \in DOMAIN q /\ j + 1 \in DOMAIN q /\ i + 1 < j + 1
        /\ t[i] = q[i + 1] /\ t[j] = q[j + 1]
    BY <1>1, Zenon
  <2> QED  BY <2>1, <2>2, Zenon DEF StoresInOrder
<1>8. StoresFit(g, t, n)  BY <1>1, Zenon DEF GroupFits, StoresFit
<1>9. HandedFits(d, H)
  <2>1. c.generation <= d.generation /\ d.generation \in Nat  BY <1>2, <1>3, Zenon
  <2>2. \A a \in H : a[1] \in Nat /\ a[1] <= c.generation  BY Zenon DEF GroupFits, HandedFits
  <2>3. \A a \in H : a[1] <= d.generation  BY <1>4, <2>1, <2>2
  <2> QED  BY <2>2, <2>3, Zenon DEF GroupFits, HandedFits
<1>10. CompletingFits(g, t, H)
  <2> SUFFICES ASSUME g.state = "completing"
               PROVE  /\ Present(g) # {} /\ \A a \in H : a[1] < g.generation
                      /\ \A i \in DOMAIN t : t[i].checkpoint.generation = g.generation =>
                           /\ t[i].kind = "sync"
                           /\ Present(g) \subseteq DOMAIN t[i].checkpoint.plans => OfLeader(g, t[i])
                           /\ OfLeader(g, t[i]) => \A j \in DOMAIN t : i < j => OfLeader(g, t[j])
    BY Zenon DEF CompletingFits
  <2>1. /\ Present(g) # {} /\ \A a \in H : a[1] < g.generation
        /\ \A i \in DOMAIN q : q[i].checkpoint.generation = g.generation =>
             /\ q[i].kind = "sync"
             /\ Present(g) \subseteq DOMAIN q[i].checkpoint.plans => OfLeader(g, q[i])
             /\ OfLeader(g, q[i]) => \A j \in DOMAIN q : i < j => OfLeader(g, q[j])
    BY Zenon DEF GroupFits, CompletingFits
  <2> QED  BY <1>1, <2>1, ZenonT(40)
<1>11. StableFits(g, t, d, H)
  <2> SUFFICES ASSUME g.state = "stable"
               PROVE  /\ d.generation = g.generation
                      /\ \E P \in {g.members[m].plan : m \in Present(g)} :
                            StablePlan(g, t, d, H, P)
    BY Zenon DEF StableFits
  <2>1. /\ c.generation = g.generation
        /\ \E P \in {g.members[m].plan : m \in Present(g)} : StablePlan(g, q, c, H, P)
    BY Zenon DEF GroupFits, StableFits
  <2>2. d.generation = g.generation  BY <1>2, <1>3, <1>4, <2>1
  <2> QED  BY <1>2, <2>1, <2>2, Zenon DEF StablePlan
<1>12. WellFormed(g) /\ IdsFit(g, n)  BY Zenon DEF GroupFits
<1> QED  BY <1>1, <1>6, <1>7, <1>8, <1>9, <1>10, <1>11, <1>12, Zenon DEF GroupFits, t

\* A static member is given another id, which no store takes back and no plan on its way
\* names: a plan that was made before names the old id and not this one.
LEMMA MoveFits ==
    ASSUME NEW g, NEW q, NEW c, NEW H, NEW n, NEW k \in {n, n + 1}, NEW old, NEW new,
           GroupFits(g, q, c, H, n), k \in 1..(MaxIds + 1), old \in Present(g),
           g.members[old].static = TRUE, new \notin Known(g), new \in Used(k),
           \A i \in DOMAIN q :
              /\ q[i].kind = "static" => q[i].old # new
              /\ q[i].kind = "sync" => new \notin DOMAIN q[i].checkpoint.plans
    PROVE  GroupFits(ReplaceStatic(g, old, new), q, c, H, k)
<1> DEFINE h == ReplaceStatic(g, old, new)
<1>0. n \in Nat /\ WellFormed(g) /\ Shape(g) /\ Present(g) \cap g.pending = {}
  BY GroupBounds DEF GroupFits, IdsFit, WellFormed
<1>1. Used(n) \subseteq Used(k)  BY <1>0, UsedGrows, Zenon
<1>2. Changed(g, h, {new})  BY <1>0, ReplaceStaticChanges, Zenon
<1>3. /\ Shape(h) /\ Present(h) = (Present(g) \ {old}) \cup {new}
      /\ h.state = g.state /\ h.generation = g.generation
      /\ h.pending = g.pending
      /\ h.leader = IF g.leader = old THEN new ELSE g.leader
      /\ h.members[new].plan = g.members[old].plan
      /\ h.members[new].static = TRUE
      /\ \A m \in Present(g) \ {old} :
           /\ h.members[m].plan = g.members[m].plan
           /\ h.members[m].static = g.members[m].static
  <2>1. new \notin Present(g)  BY Zenon DEF Known
  <2> QED  BY <1>0, <2>1, ReplaceStaticMoves
<1> HIDE DEF h
<1>4. WellFormed(h)  BY <1>2, Zenon DEF Changed
<1>5. Known(h) \subseteq Known(g) \cup {new} /\ Present(h) \cap h.pending = {}
  BY <1>2, Zenon DEF Changed
<1>6. IdsFit(h, k)  BY <1>1, <1>3, <1>5, Zenon DEF IdsFit, GroupFits
<1>7. CheckpointsFit(h, q, c, H, k)  BY <1>1, <1>3, Zenon DEF GroupFits, CheckpointsFit
<1>8. StoresFit(h, q, k)
  <2> SUFFICES ASSUME NEW i \in DOMAIN q  PROVE  StoreFits(h, q[i], k)  BY Zenon DEF StoresFit
  <2>1. StoreFits(g, q[i], n)  BY Zenon DEF GroupFits, StoresFit
  <2>2. ASSUME q[i].kind = "static"
        PROVE  /\ q[i].old \in Used(k) /\ q[i].new \in Used(k)
               /\ q[i].old \notin Known(h) /\ q[i].new \notin h.pending
               /\ q[i].new \in Present(h) => h.members[q[i].new].static = TRUE
    <3>1. /\ q[i].old \in Used(n) /\ q[i].new \in Used(n)
          /\ q[i].old \notin Known(g) /\ q[i].new \notin g.pending
          /\ q[i].new \in Present(g) => g.members[q[i].new].static = TRUE
      BY <2>1, <2>2, Zenon DEF StoreFits
    <3>2. q[i].old # new  BY <2>2, Zenon
    <3>3. q[i].old \notin Known(h)  BY <1>5, <3>1, <3>2, Zenon
    <3>4. q[i].new \in Present(h) => h.members[q[i].new].static = TRUE
      BY <1>3, <3>1, Zenon
    <3> QED  BY <1>1, <1>3, <3>1, <3>3, <3>4, Zenon
  <2> QED  BY <2>1, <2>2, Zenon DEF StoreFits
<1>9. CompletingFits(h, q, H)
  <2> SUFFICES ASSUME h.state = "completing"
               PROVE  /\ Present(h) # {} /\ \A a \in H : a[1] < h.generation
                      /\ \A i \in DOMAIN q : q[i].checkpoint.generation = h.generation =>
                           /\ q[i].kind = "sync"
                           /\ Present(h) \subseteq DOMAIN q[i].checkpoint.plans => OfLeader(h, q[i])
                           /\ OfLeader(h, q[i]) => \A j \in DOMAIN q : i < j => OfLeader(h, q[j])
    BY Zenon DEF CompletingFits
  <2>1. /\ Present(g) # {} /\ \A a \in H : a[1] < g.generation
        /\ \A i \in DOMAIN q : q[i].checkpoint.generation = g.generation =>
             /\ q[i].kind = "sync"
             /\ OfLeader(g, q[i]) => \A j \in DOMAIN q : i < j => OfLeader(g, q[j])
    BY <1>3, Zenon DEF GroupFits, CompletingFits
  <2>2. ASSUME NEW i \in DOMAIN q, q[i].checkpoint.generation = h.generation
        PROVE  /\ q[i].kind = "sync"
               /\ Present(h) \subseteq DOMAIN q[i].checkpoint.plans => OfLeader(h, q[i])
               /\ OfLeader(h, q[i]) => \A j \in DOMAIN q : i < j => OfLeader(h, q[j])
    <3>1. q[i].kind = "sync" /\ new \notin DOMAIN q[i].checkpoint.plans /\ new \in Present(h)
      BY <1>3, <2>1, <2>2, Zenon
    <3>2. OfLeader(h, q[i]) => \A j \in DOMAIN q : i < j => OfLeader(h, q[j])
      <4>1. CASE g.leader = old
        <5>1. PICK m \in DOMAIN q[i].checkpoint.plans :
                     q[i].checkpoint.plans[m] = <<q[i].checkpoint.generation, m>>
          BY <3>1, Zenon DEF GroupFits, StoresFit, StoreFits
        <5>2. m # new  BY <3>1, Zenon
        <5>3. h.leader = new  BY <1>3, <4>1, Zenon
        <5>4. <<q[i].checkpoint.generation, m>> # <<h.generation, h.leader>>  BY <5>2, <5>3, Zenon
        <5>5. ~OfLeader(h, q[i])  BY <5>1, <5>4, Zenon DEF OfLeader, AllPlansAre
        <5> QED  BY <5>5, Zenon
      <4>2. CASE g.leader # old
        <5>1. h.leader = g.leader  BY <1>3, <4>2, Zenon
        <5>2. \A j \in DOMAIN q : OfLeader(h, q[j]) <=> OfLeader(g, q[j])
          BY <1>3, <5>1, Zenon DEF OfLeader
        <5> QED  BY <1>3, <2>1, <2>2, <5>2, Zenon
      <4> QED  BY <4>1, <4>2, Zenon
    <3> QED  BY <3>1, <3>2, Zenon
  <2> QED  BY <1>3, <2>1, <2>2, Zenon
<1>10. StableFits(h, q, c, H)
  <2> SUFFICES ASSUME h.state = "stable"
               PROVE  /\ c.generation = h.generation
                      /\ \E P \in {h.members[m].plan : m \in Present(h)} :
                            StablePlan(h, q, c, H, P)
    BY Zenon DEF StableFits
  <2>1. /\ c.generation = g.generation
        /\ \E m \in Present(g) : StablePlan(g, q, c, H, g.members[m].plan)
    BY <1>3, Zenon DEF GroupFits, StableFits
  <2>2. PICK l \in Present(g) : StablePlan(g, q, c, H, g.members[l].plan)  BY <2>1, Zenon
  <2>3. \A m \in Present(g) : g.members[m].plan = g.members[l].plan  BY <2>2, Zenon DEF StablePlan
  <2>4. h.members[new].plan = g.members[l].plan  BY <1>3, <2>3, Zenon
  <2>5. \A m \in Present(h) : h.members[m].plan = h.members[new].plan
    BY <1>3, <2>3, <2>4, Zenon
  <2>6. StablePlan(h, q, c, H, h.members[new].plan)
    BY <1>3, <2>2, <2>4, <2>5, Zenon DEF StablePlan
  <2> QED  BY <1>3, <2>1, <2>6, Zenon
<1>11. StoresInOrder(q) /\ HandedFits(c, H)  BY Zenon DEF GroupFits
<1> QED
  BY <1>4, <1>6, <1>7, <1>8, <1>9, <1>10, <1>11, Zenon DEF GroupFits, h

\* The group g becomes h when all its members are given the plan of the store s.
GivesPlan(g, h, s) ==
    /\ Present(g) \subseteq DOMAIN s.checkpoint.plans
    /\ Shape(h) /\ Present(h) = Present(g) /\ h.state = "stable" /\ h.generation = g.generation
    /\ h.pending = g.pending /\ h.static = g.static /\ h.timer = g.timer
    /\ \A m \in Present(g) : /\ h.members[m].static = g.members[m].static
                             /\ h.members[m].plan = s.checkpoint.plans[m]

\* The first plan that names every member is stored: the group is stable.
LEMMA SyncFits ==
    ASSUME NEW g, NEW q, NEW c, NEW H, NEW n, NEW h, NEW K, IsSequence(q), q # <<>>,
           GroupFits(g, q, c, H, n), g.state = "completing", Head(q).kind = "sync",
           Head(q).checkpoint.generation = g.generation, GivesPlan(g, h, Head(q)),
           \A a \in K : a \in H \/ \E m \in Present(g) :
                                      a = <<g.generation, Head(q).checkpoint.plans[m]>>
    PROVE  GroupFits(h, Tail(q), Head(q).checkpoint, K, n)
<1> DEFINE d == Head(q).checkpoint
           t == Tail(q)
           P == <<g.generation, g.leader>>
<1>0. /\ Present(g) \subseteq DOMAIN d.plans
      /\ Shape(h) /\ Present(h) = Present(g) /\ h.state = "stable" /\ h.generation = g.generation
      /\ h.pending = g.pending /\ h.static = g.static /\ h.timer = g.timer
      /\ \A m \in Present(g) : /\ h.members[m].static = g.members[m].static
                               /\ h.members[m].plan = d.plans[m]
      /\ Present(g) # {}
  BY Zenon DEF GivesPlan, GroupFits, CompletingFits
<1>1. GroupFits(g, t, d, H, n)  BY TailFits, Zenon
<1>2. /\ Head(q) = q[1] /\ 1 \in DOMAIN q
      /\ \A i \in DOMAIN t : i + 1 \in DOMAIN q /\ t[i] = q[i + 1] /\ 1 < i + 1
  BY TailSequence, Zenon
<1> HIDE DEF t
<1>3. OfLeader(g, q[1])  BY <1>0, <1>2, Zenon DEF GroupFits, CompletingFits
<1>4. AllPlansAre(d, P)  BY <1>2, <1>3, Zenon DEF OfLeader
<1>5. \A i \in DOMAIN t : AllPlansAre(t[i].checkpoint, P)
  <2>1. \A j \in DOMAIN q : 1 < j => OfLeader(g, q[j])
    BY <1>2, <1>3, Zenon DEF GroupFits, CompletingFits
  <2> QED  BY <1>2, <2>1, Zenon DEF OfLeader
<1>6. \A e \in Checkpoints(t, d) : AllPlansAre(e, P)
  BY <1>4, <1>5, Zenon DEF Checkpoints
<1>7. \A e \in Checkpoints(t, d) : e.generation = g.generation => DOMAIN e.plans # {}
  <2>1. DOMAIN d.plans # {}  BY <1>0, Zenon
  <2>2. ASSUME NEW i \in DOMAIN t, t[i].checkpoint.generation = g.generation
        PROVE  DOMAIN t[i].checkpoint.plans # {}
    <3>1. t[i].kind = "sync"  BY <1>1, <2>2, Zenon DEF GroupFits, CompletingFits
    <3>2. StoreFits(g, t[i], n)  BY <1>1, <2>2, Zenon DEF GroupFits, StoresFit
    <3> QED  BY <3>1, <3>2, Zenon DEF StoreFits
  <2> QED  BY <2>1, <2>2, Zenon DEF Checkpoints
<1>8. \A a \in K : a \in H \/ (a[1] = g.generation /\ a[2] = P)
  BY <1>0, <1>4 DEF AllPlansAre
<1> HIDE DEF P
<1>9. /\ \A a \in H : a[1] \in Nat /\ a[1] < g.generation
      /\ \A a, b \in H : a[1] = b[1] => a[2] = b[2]
      /\ g.generation \in Nat
  BY <1>1, Zenon DEF GroupFits, HandedFits, CompletingFits, WellFormed
<1>10. \A a \in H : a[1] # g.generation /\ a[1] <= g.generation  BY <1>9
<1>11. WellFormed(h)  BY <1>0, <1>1, Zenon DEF GroupFits, WellFormed
<1>12. Known(h) = Known(g)  BY <1>0, Zenon DEF Known
<1>13. IdsFit(h, n)  BY <1>0, <1>1, <1>12, Zenon DEF GroupFits, IdsFit
<1>14. CheckpointsFit(h, t, d, K, n)
  <2> SUFFICES ASSUME NEW e \in Checkpoints(t, d)
               PROVE  /\ e.generation \in Nat /\ DOMAIN e.plans \subseteq Used(n)
                      /\ \A l, m \in DOMAIN e.plans : e.plans[l] = e.plans[m]
                      /\ d.generation <= e.generation /\ e.generation <= h.generation
                      /\ \A a \in K : a[1] = e.generation => AllPlansAre(e, a[2])
    BY Zenon DEF CheckpointsFit
  <2>1. /\ e.generation \in Nat /\ DOMAIN e.plans \subseteq Used(n)
        /\ \A l, m \in DOMAIN e.plans : e.plans[l] = e.plans[m]
        /\ d.generation <= e.generation /\ e.generation <= g.generation
        /\ \A a \in H : a[1] = e.generation => AllPlansAre(e, a[2])
    BY <1>1, Zenon DEF GroupFits, CheckpointsFit
  <2>2. \A a \in K : a[1] = e.generation => AllPlansAre(e, a[2])
    BY <1>6, <1>8, <2>1, Zenon
  <2> QED  BY <1>0, <2>1, <2>2, Zenon
<1>15. StoresFit(h, t, n)
  BY <1>0, <1>1, <1>12, Zenon DEF GroupFits, StoresFit, StoreFits
<1>16. HandedFits(d, K)
  <2>1. g.generation <= g.generation  BY <1>9
  <2>2. \A a \in K : a[1] \in Nat /\ a[1] <= d.generation  BY <1>8, <1>9, <1>10, <2>1, Zenon
  <2>3. \A a, b \in K : a[1] = b[1] => a[2] = b[2]  BY <1>8, <1>9, <1>10, Zenon
  <2> QED  BY <2>2, <2>3, Zenon DEF HandedFits
<1>17. StableFits(h, t, d, K)
  <2>1. PICK m \in Present(h) : TRUE  BY <1>0, Zenon
  <2>2. h.members[m].plan = P /\ \A l \in Present(h) : h.members[l].plan = P
    BY <1>0, <1>4, ZenonT(40) DEF AllPlansAre
  <2>3. StablePlan(h, t, d, K, P)
    BY <1>0, <1>6, <1>7, <1>8, <1>10, <2>2, Zenon DEF StablePlan
  <2> QED  BY <1>0, <2>1, <2>2, <2>3, Zenon DEF StableFits
<1>18. CompletingFits(h, t, K)  BY <1>0, Zenon DEF CompletingFits
<1>19. StoresInOrder(t)  BY <1>1, Zenon DEF GroupFits
<1>20. GroupFits(h, t, d, K, n)
  BY <1>11, <1>13, <1>14, <1>15, <1>16, <1>17, <1>18, <1>19, Zenon DEF GroupFits
<1> QED  BY <1>20, Zenon DEF t

\* A stable group repeats the plan of its generation.
LEMMA HandFits ==
    ASSUME NEW g, NEW q, NEW c, NEW H, NEW n, NEW m \in Present(g), GroupFits(g, q, c, H, n),
           g.state = "stable"
    PROVE  GroupFits(g, q, c, H \cup {<<g.generation, g.members[m].plan>>}, n)
<1> DEFINE P == g.members[m].plan
           K == H \cup {<<g.generation, P>>}
<1>1. c.generation = g.generation /\ StablePlan(g, q, c, H, P)
  <2>1. PICK l \in Present(g) : StablePlan(g, q, c, H, g.members[l].plan)
    BY Zenon DEF GroupFits, StableFits
  <2>2. g.members[l].plan = P  BY <2>1, Zenon DEF StablePlan
  <2> QED  BY <2>1, <2>2, Zenon DEF GroupFits, StableFits
<1>2. \A a \in K : a \in H \/ (a[1] = g.generation /\ a[2] = P)  OBVIOUS
<1> HIDE DEF K
<1>3. g.generation \in Nat /\ g.generation <= g.generation  BY DEF GroupFits, WellFormed
<1>4. CheckpointsFit(g, q, c, K, n)
  <2>1. ASSUME NEW d \in Checkpoints(q, c), NEW a \in K, a[1] = d.generation
        PROVE  AllPlansAre(d, a[2])
    <3>1. CASE a \in H  BY <2>1, <3>1, Zenon DEF GroupFits, CheckpointsFit
    <3>2. CASE a[1] = g.generation /\ a[2] = P  BY <1>1, <2>1, <3>2, Zenon DEF StablePlan
    <3> QED  BY <1>2, <3>1, <3>2, Zenon
  <2> QED  BY <2>1, Zenon DEF GroupFits, CheckpointsFit
<1>5. HandedFits(c, K)
  <2>1. \A a \in H : a[1] \in Nat /\ a[1] <= c.generation  BY Zenon DEF GroupFits, HandedFits
  <2>2. \A a, b \in H : a[1] = b[1] => a[2] = b[2]  BY Zenon DEF GroupFits, HandedFits
  <2>3. \A a \in H : a[1] = g.generation => a[2] = P  BY <1>1, Zenon DEF StablePlan
  <2>4. \A a \in K : a[1] \in Nat /\ a[1] <= c.generation  BY <1>1, <1>2, <1>3, <2>1, Zenon
  <2>5. \A a, b \in K : a[1] = b[1] => a[2] = b[2]  BY <1>2, <2>2, <2>3, ZenonT(40)
  <2> QED  BY <2>4, <2>5, Zenon DEF HandedFits
<1>6. StableFits(g, q, c, K)
  <2>1. StablePlan(g, q, c, K, P)  BY <1>1, <1>2, Zenon DEF StablePlan
  <2> QED  BY <1>1, <2>1, Zenon DEF StableFits
<1>7. CompletingFits(g, q, K)  BY Zenon DEF CompletingFits
<1> QED  BY <1>4, <1>5, <1>6, <1>7, Zenon DEF GroupFits, K

\* No store is in flight at a new coordinator.
LEMMA EmptySequence == IsSequence(<<>>) /\ DOMAIN <<>> = {} /\ \A c : Checkpoints(<<>>, c) = {c}
<1>1. <<>> \in Seq({}) /\ DOMAIN <<>> = {}  OBVIOUS
<1> QED  BY <1>1, Zenon DEF IsSequence, Checkpoints

\* A new coordinator: the group is what one of the checkpoints says.
LEMMA LoadFits ==
    ASSUME NEW g, NEW q, NEW c, NEW H, NEW n, GroupFits(g, q, c, H, n),
           NEW d \in Checkpoints(q, c)
    PROVE  GroupFits(Loaded(d), <<>>, d, H, n)
<1> DEFINE h == Loaded(d)
<1>1. /\ DOMAIN h = GroupFields /\ h.state = IF DOMAIN d.plans = {} THEN "empty" ELSE "stable"
      /\ h.generation = d.generation /\ h.pending = {} /\ h.timer = "off"
      /\ h.static = IF d.static \in DOMAIN d.plans THEN d.static ELSE None
      /\ Present(h) = DOMAIN d.plans
  BY Zenon DEF Loaded, GroupFields, Present
<1>2. \A m \in DOMAIN d.plans :
        /\ DOMAIN h.members[m] = MemberFields /\ h.members[m].plan = d.plans[m]
        /\ h.members[m].static = (m = d.static)
  BY Zenon DEF Loaded, Member, MemberFields
<1> HIDE DEF h
<1>3. /\ d.generation \in Nat /\ DOMAIN d.plans \subseteq Used(n)
      /\ \A l, m \in DOMAIN d.plans : d.plans[l] = d.plans[m]
      /\ c.generation <= d.generation /\ d.generation <= g.generation
      /\ \A a \in H : a[1] = d.generation => AllPlansAre(d, a[2])
      /\ c.generation \in Nat /\ g.generation \in Nat
  BY Zenon DEF GroupFits, CheckpointsFit, WellFormed, Checkpoints
<1>4. WellFormed(h)
  <2>1. Shape(h)  BY <1>1, <1>2, Zenon DEF Shape
  <2>2. h.static # None => h.static \in Present(h) /\ h.members[h.static].static = TRUE
    BY <1>1, <1>2, Zenon
  <2>3. h.state \in {"empty", "preparing", "completing", "stable"}  BY <1>1, Zenon
  <2> QED  BY <1>1, <1>3, <2>1, <2>2, <2>3, Zenon DEF WellFormed
<1>5. IdsFit(h, n)
  BY <1>1, <1>3, GroupBounds DEF GroupFits, IdsFit, Known
<1>6. d.generation <= d.generation  BY <1>3
<1>7. CheckpointsFit(h, <<>>, d, H, n)
  BY <1>1, <1>3, <1>6, EmptySequence DEF CheckpointsFit
<1>8. StoresInOrder(<<>>) /\ StoresFit(h, <<>>, n) /\ CompletingFits(h, <<>>, H)
  BY <1>1, EmptySequence, Zenon DEF StoresInOrder, StoresFit, CompletingFits
<1>9. HandedFits(d, H)
  BY <1>3 DEF GroupFits, HandedFits
<1>10. StableFits(h, <<>>, d, H)
  <2> SUFFICES ASSUME DOMAIN d.plans # {}
               PROVE  /\ d.generation = h.generation
                      /\ \E P \in {h.members[m].plan : m \in Present(h)} :
                            StablePlan(h, <<>>, d, H, P)
    BY <1>1, Zenon DEF StableFits
  <2>1. PICK m \in DOMAIN d.plans : TRUE  BY Zenon
  <2>2. \A l \in DOMAIN d.plans : d.plans[l] = d.plans[m] /\ h.members[l].plan = d.plans[m]
    <3>1. \A l \in DOMAIN d.plans : h.members[l].plan = d.plans[l]  BY <1>2, Zenon
    <3>2. \A l \in DOMAIN d.plans : d.plans[l] = d.plans[m]  BY <1>3, Zenon
    <3> QED  BY <3>1, <3>2
  <2>3. AllPlansAre(d, d.plans[m])  BY <2>2, Zenon DEF AllPlansAre
  <2>4. \A a \in H : a[1] = d.generation => a[2] = d.plans[m]
    BY <1>3, <2>1, Zenon DEF AllPlansAre
  <2>5. StablePlan(h, <<>>, d, H, d.plans[m])
    <3>1. \A e \in Checkpoints(<<>>, d) : e = d  BY EmptySequence, ZenonT(40)
    <3> QED  BY <1>1, <2>2, <2>3, <2>4, <3>1, Zenon DEF StablePlan
  <2> QED  BY <1>1, <2>1, <2>2, <2>5, Zenon
<1> QED  BY <1>4, <1>5, <1>7, <1>8, <1>9, <1>10, Zenon DEF GroupFits, h

\* A new group.
LEMMA NewGroupFits ==
    ASSUME NEW n \in 1..(MaxIds + 1)
    PROVE  GroupFits(NewGroup, <<>>, NoCheckpoint, {}, n)
<1>1. /\ DOMAIN NewGroup = GroupFields /\ NewGroup.state = "empty" /\ NewGroup.generation = 0
      /\ NewGroup.pending = {} /\ NewGroup.timer = "off" /\ NewGroup.static = None
      /\ Present(NewGroup) = {}
  BY DEF NewGroup, GroupFields, Present
<1>2. NoCheckpoint.generation = 0 /\ DOMAIN NoCheckpoint.plans = {}  BY DEF NoCheckpoint
<1>3. WellFormed(NewGroup)  BY <1>1 DEF WellFormed, Shape
<1>4. IdsFit(NewGroup, n)  BY <1>1, GroupBounds DEF IdsFit, Known
<1>5. CheckpointsFit(NewGroup, <<>>, NoCheckpoint, {}, n)
  BY <1>1, <1>2, EmptySequence DEF CheckpointsFit, AllPlansAre
<1>6. StoresInOrder(<<>>) /\ StoresFit(NewGroup, <<>>, n) /\ CompletingFits(NewGroup, <<>>, {})
  BY <1>1, EmptySequence, Zenon DEF StoresInOrder, StoresFit, CompletingFits
<1>7. HandedFits(NoCheckpoint, {}) /\ StableFits(NewGroup, <<>>, NoCheckpoint, {})
  BY <1>1, Zenon DEF HandedFits, StableFits
<1> QED  BY <1>3, <1>4, <1>5, <1>6, <1>7, Zenon DEF GroupFits

---------------------------------------------------------------------------
\* The steps.

\* What is in flight after a step.
LEMMA Concatenations ==
    ASSUME NEW q, NEW s, IsSequence(q)
    PROVE  /\ q \o <<>> \o <<>> = q /\ q \o <<>> \o <<s>> = Append(q, s)
           /\ q \o <<s>> \o <<>> = Append(q, s)
<1>1. PICK S : q \in Seq(S)  BY Zenon DEF IsSequence
<1>2. q \in Seq(S \cup {s}) /\ s \in S \cup {s}  BY <1>1
<1> QED  BY <1>2

\* A step of which only the members' private fields are another.
LEMMA AlikeStep ==
    ASSUME GroupInv, NEW h, Alike(group, h), Become(h, <<>>), UNCHANGED <<stored, handed, nextId>>
    PROVE  GroupInv'
<1>1. IsSequence(stores) /\ GroupFits(group, stores, stored, handed, nextId)
  BY Zenon DEF GroupInv
<1>2. GroupFits(h, stores, stored, handed, nextId)  BY <1>1, AlikeFits, Zenon
<1>3. h.generation = group.generation  BY Zenon DEF Alike
<1>4. group' = h /\ stores' = stores \o <<>> \o <<>>  BY <1>3, Zenon DEF Become
<1>5. stores' = stores  BY <1>1, <1>4, Concatenations, Zenon
<1> QED  BY <1>1, <1>2, <1>4, <1>5, Zenon DEF GroupInv

\* A step that begins or ends a join phase.
LEMMA RenewedStep ==
    ASSUME GroupInv, NEW h, NEW N, Renewed(group, h, N), Become(h, <<>>),
           UNCHANGED <<stored, handed>>, nextId' \in {nextId, nextId + 1},
           nextId' \in 1..(MaxIds + 1), N \subseteq {nextId}, nextId \in N => nextId' = nextId + 1
    PROVE  GroupInv'
<1> DEFINE n == nextId'
           s == Store(Checkpoint(h, <<>>), "empty", None, None, {})
<1>1. IsSequence(stores) /\ GroupFits(group, stores, stored, handed, nextId)
  BY Zenon DEF GroupInv
<1>2. group' = h /\ h.generation <= MaxGeneration  BY Zenon DEF Become
<1>3. GroupFits(h, stores, stored, handed, n)
  BY <1>1, <1>2, RenewedFits, Zenon
<1>4. CASE h.state = "empty" /\ h.generation # group.generation
  <2>1. stores' = stores \o <<>> \o <<s>>  BY <1>4, Zenon DEF Become
  <2>2. stores' = Append(stores, s)  BY <1>1, <2>1, Concatenations, Zenon
  <2>3. s.kind = "empty" /\ s.checkpoint.generation = h.generation /\ DOMAIN s.checkpoint.plans = {}
    BY EmptySequence, Zenon DEF Store, Checkpoint
  <2> HIDE DEF s, n
  <2>4. StoreFits(h, s, n)  BY <2>3, Zenon DEF StoreFits
  <2>5. IsSequence(Append(stores, s)) /\ GroupFits(h, Append(stores, s), stored, handed, n)
    BY <1>1, <1>3, <1>4, <2>3, <2>4, AppendFits, Zenon DEF AllPlansAre
  <2> QED  BY <1>2, <2>2, <2>5, Zenon DEF GroupInv, n
<1>5. CASE ~(h.state = "empty" /\ h.generation # group.generation)
  <2>1. stores' = stores \o <<>> \o <<>>  BY <1>5, Zenon DEF Become
  <2>2. stores' = stores  BY <1>1, <2>1, Concatenations, Zenon
  <2> QED  BY <1>1, <1>2, <1>3, <2>2, Zenon DEF GroupInv
<1> QED  BY <1>4, <1>5, Zenon

\* What the invariant says of the group by itself.
LEMMA GroupFacts ==
    ASSUME GroupInv
    PROVE  /\ WellFormed(group) /\ Shape(group) /\ Present(group) \cap group.pending = {}
           /\ Known(group) \subseteq Used(nextId) /\ nextId \in 1..(MaxIds + 1)
           /\ nextId \in Nat /\ None \notin Known(group) /\ nextId \notin Known(group)
           /\ nextId # None
           /\ Changed(group, group, {})
<1>1. /\ WellFormed(group) /\ Present(group) \cap group.pending = {}
      /\ Known(group) \subseteq Used(nextId) /\ nextId \in 1..(MaxIds + 1)
  BY Zenon DEF GroupInv, GroupFits, IdsFit
<1>2. nextId \in Nat /\ nextId # None /\ None \notin Used(nextId) /\ nextId \notin Used(nextId)
  BY <1>1, GroupBounds DEF Used, None
<1>3. Changed(group, group, {})  BY <1>1, Zenon DEF Changed
<1> QED  BY <1>1, <1>2, <1>3, Zenon DEF WellFormed

\* A step that ends with the rebalance of a group whose members have changed.
LEMMA RebalanceStep ==
    ASSUME GroupInv, NEW i, NEW h, NEW N, Changed(group, i, N), Rebalanced(i, h), Become(h, <<>>),
           UNCHANGED <<stored, handed>>, nextId' \in {nextId, nextId + 1},
           nextId' \in 1..(MaxIds + 1), N \subseteq {nextId}, nextId \in N => nextId' = nextId + 1
    PROVE  GroupInv'
<1>1. Renewed(group, h, N)  BY ChangedThenRebalanced, Zenon
<1> QED  BY <1>1, RenewedStep, Zenon

\* handle_join_group of a member without an id.
LEMMA JoinPendingStep ==
    ASSUME GroupInv, NEW p, JoinPending(p)
    PROVE  GroupInv'
<1> DEFINE N == group.pending \cup {nextId}
           h == [group EXCEPT !.pending = N]
<1>1. IsSequence(stores) /\ GroupFits(group, stores, stored, handed, nextId)
  BY Zenon DEF GroupInv
<1>2. /\ group' = h /\ nextId' = nextId + 1 /\ nextId <= MaxIds
      /\ stores' = stores /\ stored' = stored /\ handed' = handed
  BY Zenon DEF JoinPending, Room
<1> HIDE DEF N
<1>3. nextId + 1 \in 1..(MaxIds + 1)  BY <1>2, GroupFacts, GroupBounds
<1>4. N \subseteq group.pending \cup {nextId}  BY Zenon DEF N
<1>5. GroupFits(h, stores, stored, handed, nextId + 1)
  BY <1>1, <1>3, <1>4, PendingFits, Zenon
<1> QED  BY <1>1, <1>2, <1>5, Zenon DEF GroupInv

\* The member comes back with its id.
LEMMA JoinWithPendingIdStep ==
    ASSUME GroupInv, NEW m, NEW p, NEW k, JoinWithPendingId(m, p, k)
    PROVE  GroupInv'
<1>1. /\ m \in group.pending /\ Become(AddMember(group, m, p, FALSE, k), <<>>)
      /\ UNCHANGED <<stored, handed, nextId>>
  BY Zenon DEF JoinWithPendingId
<1>2. m \notin Present(group) /\ m # None  BY <1>1, GroupFacts, Zenon DEF Known
<1>3. Renewed(group, AddMember(group, m, p, FALSE, k), {})
  BY <1>1, <1>2, GroupFacts, AddMemberRenews, Zenon
<1> QED  BY <1>1, <1>3, GroupFacts, RenewedStep, Zenon

\* A member joins again.
LEMMA JoinKnownStep ==
    ASSUME GroupInv, NEW m, NEW p, NEW k, JoinKnown(m, p, k)
    PROVE  GroupInv'
<1> DEFINE i == UpdateMember(group, m, p)
           h == FinishJoin(TryPrepare(i, k), k)
<1>1. m \in Present(group) /\ Become(h, <<>>) /\ UNCHANGED <<stored, handed, nextId>>
  BY Zenon DEF JoinKnown
<1>2. Alike(group, i)  BY <1>1, GroupFacts, UpdateMemberIsAlike, Zenon
<1> HIDE DEF i
<1>3. Changed(group, i, {})  BY <1>2, GroupFacts, AlikeIsChanged, Zenon
<1>4. WellFormed(i)  BY <1>3, Zenon DEF Changed
<1>5. Rebalanced(i, h)  BY <1>4, TryPrepareRebalances, FinishJoinRebalances, Zenon
<1> QED  BY <1>1, <1>3, <1>5, GroupFacts, RebalanceStep, Zenon

\* The timer of the join phase.
LEMMA JoinTimerStep ==
    ASSUME GroupInv, NEW k, JoinTimer(k)
    PROVE  GroupInv'
<1>1. group.timer # "off" /\ UNCHANGED <<stored, handed, nextId>>  BY Zenon DEF JoinTimer
<1>2. group.state = "preparing"  BY <1>1, GroupFacts, Zenon DEF WellFormed
<1>3. CASE Become(CompleteJoin(group, k), <<>>)
  <2>1. Rebalanced(group, CompleteJoin(group, k))
    BY <1>2, GroupFacts, CompleteJoinRebalances, Zenon
  <2> QED  BY <1>1, <1>3, <2>1, GroupFacts, RebalanceStep, Zenon
<1>4. CASE Become([group EXCEPT !.added = FALSE], <<>>)
  <2>1. Alike(group, [group EXCEPT !.added = FALSE])
    BY GroupFacts, Zenon DEF Alike, Shape, Present, GroupFields
  <2> QED  BY <1>1, <1>4, <2>1, AlikeStep, Zenon
<1> QED  BY <1>3, <1>4, Zenon DEF JoinTimer

\* A static member joins: for the first time, or it comes back to a stable group with
\* the same protocol, or it comes back otherwise.
LEMMA JoinStaticStep ==
    ASSUME GroupInv, NEW p, NEW k, JoinStatic(p, k)
    PROVE  GroupInv'
<1> DEFINE old == group.static
           a == ReplaceStatic(group, old, nextId)
           h == UpdateMember(a, nextId, p)
           s == Store(Checkpoint(h, Plans(h)), "static", old, nextId, p)
<1>1. nextId <= MaxIds /\ nextId' = nextId + 1 /\ UNCHANGED <<stored, handed>>
  BY Zenon DEF JoinStatic, Room
<1>2. nextId' \in {nextId, nextId + 1} /\ nextId' \in 1..(MaxIds + 1)
  BY <1>1, GroupFacts, GroupBounds
<1>3. nextId \in Used(nextId + 1) /\ Used(nextId) \subseteq Used(nextId + 1)
  BY GroupFacts, UsedGrows, Zenon DEF None
<1>4. IsSequence(stores) /\ GroupFits(group, stores, stored, handed, nextId)
  BY Zenon DEF GroupInv
<1>5. CASE old = None /\ Become(AddMember(group, nextId, p, TRUE, k), <<>>)
  <2>1. nextId \notin Present(group)  BY GroupFacts, Zenon DEF Known
  <2>2. Renewed(group, AddMember(group, nextId, p, TRUE, k), {nextId})
    BY <2>1, GroupFacts, AddMemberRenews, Zenon
  <2> QED  BY <1>1, <1>2, <1>5, <2>2, RenewedStep, Zenon
<1>6. ASSUME old # None
      PROVE  /\ Changed(group, h, {nextId}) /\ Alike(a, h)
             /\ GroupFits(a, stores, stored, handed, nextId + 1)
             /\ old \in Present(group) /\ Present(h) = (Present(group) \ {old}) \cup {nextId}
             /\ h.pending = group.pending /\ h.members[nextId].static = TRUE
             /\ h.generation = group.generation /\ h.state = group.state
  <2>1. old \in Present(group) /\ group.members[old].static = TRUE
    BY <1>6, GroupFacts, Zenon DEF WellFormed
  <2>2. nextId \notin Known(group) /\ nextId \notin Present(group)  BY GroupFacts, Zenon DEF Known
  <2>3. Changed(group, a, {nextId})  BY <2>1, <2>2, GroupFacts, ReplaceStaticChanges, Zenon
  <2>4. /\ Shape(a) /\ Present(a) = (Present(group) \ {old}) \cup {nextId}
        /\ a.pending = group.pending /\ a.members[nextId].static = TRUE
        /\ a.generation = group.generation /\ a.state = group.state
    BY <2>1, <2>2, GroupFacts, ReplaceStaticMoves
  <2>5. Alike(a, h)  BY <2>4, UpdateMemberIsAlike, Zenon
  <2>6. \A i \in DOMAIN stores :
              /\ stores[i].kind = "static" => stores[i].old # nextId
              /\ stores[i].kind = "sync" => nextId \notin DOMAIN stores[i].checkpoint.plans
    <3>1. nextId \notin Used(nextId)  BY GroupFacts, UsedGrows, Zenon
    <3>2. \A i \in DOMAIN stores : stores[i].kind = "static" => stores[i].old \in Used(nextId)
      BY <1>4, Zenon DEF GroupFits, StoresFit, StoreFits
    <3>3. \A d \in Checkpoints(stores, stored) : DOMAIN d.plans \subseteq Used(nextId)
      BY <1>4, Zenon DEF GroupFits, CheckpointsFit
    <3>4. \A i \in DOMAIN stores : DOMAIN stores[i].checkpoint.plans \subseteq Used(nextId)
      BY <3>3, Zenon DEF Checkpoints
    <3> QED  BY <3>1, <3>2, <3>4, Zenon
  <2>7. GroupFits(a, stores, stored, handed, nextId + 1)
    BY <1>1, <1>2, <1>3, <1>4, <2>1, <2>2, <2>6, MoveFits, Zenon
  <2> HIDE DEF a, h
  <2>8. Changed(group, h, {nextId})  BY <2>3, <2>5, ChangedThenAlike, Zenon
  <2>9. Present(h) = Present(a) /\ h.pending = a.pending /\ h.generation = a.generation
        /\ h.state = a.state /\ h.members[nextId].static = TRUE
    BY <2>4, <2>5, Zenon DEF Alike
  <2> QED  BY <2>1, <2>4, <2>5, <2>7, <2>8, <2>9, Zenon
<1>7. CASE old # None /\ group.state = "stable" /\ Become(h, <<s>>)
  <2>1. GroupFits(h, stores, stored, handed, nextId + 1)
    <3>1. Alike(a, h) /\ GroupFits(a, stores, stored, handed, nextId + 1)  BY <1>6, <1>7, Zenon
    <3> HIDE DEF a, h
    <3> QED  BY <3>1, AlikeFits, Zenon
  <2>2. /\ old \in Present(group) /\ Present(h) = (Present(group) \ {old}) \cup {nextId}
        /\ h.pending = group.pending /\ h.members[nextId].static = TRUE
        /\ h.generation = group.generation /\ h.state = "stable"
    BY <1>6, <1>7, Zenon
  <2>3. /\ s.kind = "static" /\ s.old = old /\ s.new = nextId
        /\ s.checkpoint.generation = h.generation
        /\ DOMAIN s.checkpoint.plans = Present(h)
        /\ \A m \in Present(h) : s.checkpoint.plans[m] = h.members[m].plan
    BY Zenon DEF Store, Checkpoint, Plans
  <2>4. /\ group' = h /\ stores' = stores \o <<s>> \o <<>>
    <3>1. ~(h.state = "empty" /\ h.generation # group.generation)  BY <2>2, Zenon
    <3> HIDE DEF h, s
    <3> QED  BY <1>7, <3>1, Zenon DEF Become
  <2> HIDE DEF h, s
  <2>5. stores' = Append(stores, s)  BY <1>4, <2>4, Concatenations, Zenon
  <2>6. Known(h) \subseteq Used(nextId + 1)  BY <2>1, Zenon DEF GroupFits, IdsFit
  <2>7. old \notin Known(h) /\ nextId \notin h.pending /\ old \in Used(nextId)
    BY <2>2, GroupFacts, Zenon DEF Known
  <2>8. StoreFits(h, s, nextId + 1)
    BY <1>3, <2>2, <2>3, <2>7, Zenon DEF StoreFits
  <2>9. \A l, m \in Present(h) : h.members[l].plan = h.members[m].plan
    BY <2>1, <2>2, Zenon DEF GroupFits, StableFits, StablePlan
  <2>10. \A e \in handed : e[1] = h.generation => AllPlansAre(s.checkpoint, e[2])
    <3>1. PICK l \in Present(h) : StablePlan(h, stores, stored, handed, h.members[l].plan)
      BY <2>1, <2>2, Zenon DEF GroupFits, StableFits
    <3>2. \A e \in handed : e[1] = h.generation => e[2] = h.members[l].plan
      BY <3>1, Zenon DEF StablePlan
    <3> QED  BY <2>3, <2>9, <3>2, Zenon DEF AllPlansAre
  <2>11. \A i \in DOMAIN stores : stores[i].kind = "static" => s.old # stores[i].old
    BY <1>4, <2>2, <2>3, Zenon DEF GroupFits, StoresFit, StoreFits, Known
  <2>12. \A l, m \in DOMAIN s.checkpoint.plans : s.checkpoint.plans[l] = s.checkpoint.plans[m]
    BY <2>3, <2>9, Zenon
  <2>13. DOMAIN s.checkpoint.plans \subseteq Used(nextId + 1)  BY <2>3, <2>6, Zenon DEF Known
  <2>14. \A m \in Present(h) : AllPlansAre(s.checkpoint, h.members[m].plan)
    BY <2>3, <2>9, Zenon DEF AllPlansAre
  <2>15. IsSequence(Append(stores, s)) /\ GroupFits(h, Append(stores, s), stored, handed, nextId + 1)
    BY <1>4, <2>1, <2>2, <2>3, <2>8, <2>10, <2>11, <2>12, <2>13, <2>14, AppendFits, Zenon
  <2> QED  BY <1>1, <2>4, <2>5, <2>15, Zenon DEF GroupInv
<1>8. CASE old # None /\ Become(FinishJoin(TryPrepare(h, k), k), <<>>)
  <2>1. Changed(group, h, {nextId})  BY <1>6, <1>8, Zenon
  <2> HIDE DEF h
  <2>2. WellFormed(h)  BY <2>1, Zenon DEF Changed
  <2>3. Rebalanced(h, FinishJoin(TryPrepare(h, k), k))
    BY <2>2, TryPrepareRebalances, FinishJoinRebalances, Zenon
  <2> QED  BY <1>1, <1>2, <1>8, <2>1, <2>3, RebalanceStep, Zenon
<1> QED  BY <1>5, <1>7, <1>8, Zenon DEF JoinStatic

\* A member waits for its plan; the leader's request brings it.
LEMMA SyncStep ==
    ASSUME GroupInv, NEW m, Sync(m)
    PROVE  GroupInv'
<1> DEFINE g == [group EXCEPT !.members[m].syncing = TRUE]
           plans == [x \in Present(g) |-> <<g.generation, m>>]
           s == Store(Checkpoint(g, plans), "sync", None, None, {})
<1>1. /\ m \in Present(group) /\ group.state = "completing" /\ UNCHANGED <<stored, handed, nextId>>
      /\ Become(g, IF m = group.leader THEN <<s>> ELSE <<>>)
  BY Zenon DEF Sync
<1>2. Alike(group, g)
  BY <1>1, GroupFacts, Zenon DEF Alike, Shape, Present, GroupFields, MemberFields
<1>3. CASE m # group.leader
  <2>1. Become(g, <<>>)  BY <1>1, <1>3, Zenon
  <2> HIDE DEF g
  <2> QED  BY <1>1, <1>2, <2>1, AlikeStep, Zenon
<1>4. CASE m = group.leader
  <2>1. IsSequence(stores) /\ GroupFits(group, stores, stored, handed, nextId)
    BY Zenon DEF GroupInv
  <2>2. Become(g, <<s>>)  BY <1>1, <1>4, Zenon
  <2>3. /\ s.kind = "sync" /\ s.checkpoint.generation = g.generation
        /\ DOMAIN s.checkpoint.plans = Present(g)
        /\ \A x \in Present(g) : s.checkpoint.plans[x] = <<g.generation, m>>
    BY Zenon DEF Store, Checkpoint
  <2> HIDE DEF g, s
  <2>4. GroupFits(g, stores, stored, handed, nextId)  BY <1>2, <2>1, AlikeFits, Zenon
  <2>5. g.state = "completing" /\ g.generation = group.generation /\ m \in Present(g) /\ g.leader = m
    BY <1>1, <1>2, <1>4, Zenon DEF Alike
  <2>6. group' = g /\ stores' = stores \o <<s>> \o <<>>  BY <2>2, <2>5, Zenon DEF Become
  <2>7. stores' = Append(stores, s)  BY <2>1, <2>6, Concatenations, Zenon
  <2>8. StoreFits(g, s, nextId)  BY <2>3, <2>5, Zenon DEF StoreFits
  <2>9. DOMAIN s.checkpoint.plans \subseteq Used(nextId)
    BY <2>3, <2>4, Zenon DEF GroupFits, IdsFit, Known
  <2>10. \A l, x \in DOMAIN s.checkpoint.plans : s.checkpoint.plans[l] = s.checkpoint.plans[x]
    BY <2>3, Zenon
  <2>11. \A e \in handed : e[1] # g.generation
    <3>1. \A e \in handed : e[1] \in Nat /\ e[1] < g.generation
      BY <2>4, <2>5, Zenon DEF GroupFits, CompletingFits, HandedFits
    <3>2. g.generation \in Nat  BY <2>4, Zenon DEF GroupFits, WellFormed
    <3> QED  BY <3>1, <3>2
  <2>12. \A i \in DOMAIN stores : stores[i].kind = "static" =>
             stores[i].old \notin DOMAIN s.checkpoint.plans
    BY <2>3, <2>4, Zenon DEF GroupFits, StoresFit, StoreFits, Known
  <2>13. OfLeader(g, s)  BY <2>3, <2>5, Zenon DEF OfLeader, AllPlansAre
  <2>14. IsSequence(Append(stores, s)) /\ GroupFits(g, Append(stores, s), stored, handed, nextId)
    BY <2>1, <2>3, <2>4, <2>5, <2>8, <2>9, <2>10, <2>11, <2>12, <2>13, AppendFits, Zenon
  <2> QED  BY <1>1, <2>6, <2>7, <2>14, Zenon DEF GroupInv
<1> QED  BY <1>3, <1>4, Zenon

\* A timer of a member is armed: nothing that matters changes.
LEMMA ArmIsAlike ==
    ASSUME NEW g, Shape(g), NEW m \in Present(g), NEW v
    PROVE  Alike(g, [g EXCEPT !.members[m].armed = v])
BY Zenon DEF Alike, Shape, Present, GroupFields, MemberFields

\* A sync request of a stable group.
LEMMA SyncStableStep ==
    ASSUME GroupInv, NEW m, SyncStable(m)
    PROVE  GroupInv'
<1> DEFINE h == [group EXCEPT !.members[m].armed = TRUE]
           K == handed \cup {<<group.generation, group.members[m].plan>>}
<1>1. /\ m \in Present(group) /\ group.state = "stable" /\ group' = h /\ handed' = K
      /\ UNCHANGED <<stores, stored, nextId>>
  BY Zenon DEF SyncStable
<1>2. IsSequence(stores) /\ GroupFits(group, stores, stored, handed, nextId)
  BY Zenon DEF GroupInv
<1>3. Alike(group, h)  BY <1>1, GroupFacts, ArmIsAlike, Zenon
<1>4. GroupFits(group, stores, stored, K, nextId)  BY <1>1, <1>2, HandFits, Zenon
<1> HIDE DEF h, K
<1>5. GroupFits(h, stores, stored, K, nextId)  BY <1>3, <1>4, AlikeFits, Zenon
<1> QED  BY <1>1, <1>2, <1>5, Zenon DEF GroupInv

\* A heartbeat.
LEMMA HeartbeatStep ==
    ASSUME GroupInv, NEW m, Heartbeat(m)
    PROVE  GroupInv'
<1> DEFINE h == [group EXCEPT !.members[m].armed = TRUE]
<1>1. m \in Present(group) /\ group' = h /\ UNCHANGED <<stores, stored, handed, nextId>>
  BY Zenon DEF Heartbeat
<1>2. IsSequence(stores) /\ GroupFits(group, stores, stored, handed, nextId)
  BY Zenon DEF GroupInv
<1>3. Alike(group, h)  BY <1>1, GroupFacts, ArmIsAlike, Zenon
<1> HIDE DEF h
<1>4. GroupFits(h, stores, stored, handed, nextId)  BY <1>2, <1>3, AlikeFits, Zenon
<1> QED  BY <1>1, <1>2, <1>4, Zenon DEF GroupInv

\* A member id that was never used is taken back.
LEMMA PendingLeaves ==
    ASSUME GroupInv, NEW m, NEW k, UNCHANGED <<stored, handed, nextId>>,
           Become(JoinIfComplete([group EXCEPT !.pending = @ \ {m}], k), <<>>)
    PROVE  GroupInv'
<1> DEFINE N == group.pending \ {m}
           h == [group EXCEPT !.pending = N]
<1>1. IsSequence(stores) /\ GroupFits(group, stores, stored, handed, nextId)
  BY Zenon DEF GroupInv
<1>2. nextId \notin N /\ N \subseteq group.pending  BY GroupFacts, Zenon DEF Known
<1> HIDE DEF N
<1>3. GroupFits(h, stores, stored, handed, nextId)
  BY <1>1, <1>2, GroupFacts, PendingFits, Zenon
<1>4. /\ h.state = group.state /\ h.generation = group.generation /\ h.pending = N
      /\ h.members = group.members
  BY GroupFacts, Zenon DEF Shape, GroupFields
<1>5. Become(JoinIfComplete(h, k), <<>>)  BY Zenon DEF N
<1> HIDE DEF h
<1>6. WellFormed(h) /\ Present(h) \cap h.pending = {}  BY <1>3, Zenon DEF GroupFits, IdsFit
<1>7. CASE group.state = "preparing"
  <2>1. Changed(group, h, {})
    BY <1>2, <1>4, <1>6, Zenon DEF Changed, Known, Present
  <2>2. Rebalanced(h, JoinIfComplete(h, k))  BY <1>4, <1>6, <1>7, JoinIfCompleteRebalances, Zenon
  <2> QED  BY <1>5, <2>1, <2>2, GroupFacts, RebalanceStep, Zenon
<1>8. CASE group.state # "preparing"
  <2>1. JoinIfComplete(h, k) = h  BY <1>4, <1>8, Zenon DEF JoinIfComplete
  <2>2. group' = h /\ stores' = stores \o <<>> \o <<>>  BY <1>4, <1>5, <2>1, Zenon DEF Become
  <2>3. stores' = stores  BY <1>1, <2>2, Concatenations, Zenon
  <2> QED  BY <1>1, <1>3, <2>2, <2>3, Zenon DEF GroupInv
<1> QED  BY <1>7, <1>8, Zenon

\* A member is removed.
LEMMA MemberLeaves ==
    ASSUME GroupInv, NEW m \in Present(group), NEW k, UNCHANGED <<stored, handed, nextId>>,
           Become(RemoveMember(group, m, k), <<>>)
    PROVE  GroupInv'
<1>1. Renewed(group, RemoveMember(group, m, k), {})  BY GroupFacts, RemoveMemberRenews, Zenon
<1> QED  BY <1>1, GroupFacts, RenewedStep, Zenon

\* Members leave, and their sessions and pending ids expire.
LEMMA LeaveSteps ==
    ASSUME GroupInv, NEW m, NEW k, Leave(m, k) \/ Expire(m, k) \/ PendingExpires(m, k)
    PROVE  GroupInv'
<1>1. CASE Leave(m, k)
  BY <1>1, PendingLeaves, MemberLeaves, Zenon DEF Leave
<1>2. CASE PendingExpires(m, k)
  BY <1>2, PendingLeaves, Zenon DEF PendingExpires
<1>3. CASE Expire(m, k)
  <2>1. m \in Present(group) /\ UNCHANGED <<stored, handed, nextId>>  BY <1>3, Zenon DEF Expire
  <2>2. CASE Become([group EXCEPT !.members[m].armed = FALSE], <<>>)
    <3>1. Alike(group, [group EXCEPT !.members[m].armed = FALSE])  BY <2>1, GroupFacts, ArmIsAlike, Zenon
    <3> QED  BY <2>1, <2>2, <3>1, AlikeStep, Zenon
  <2>3. CASE Become(RemoveMember(group, m, k), <<>>)  BY <2>1, <2>3, MemberLeaves, Zenon
  <2> QED  BY <1>3, <2>2, <2>3, Zenon DEF Expire
<1> QED  BY <1>1, <1>2, <1>3, Zenon

\* The leader's plan is stored: it is given to all members, or it came too late.
LEMMA SyncStoredStep ==
    ASSUME GroupInv, stores # <<>>, Head(stores).kind = "sync", SyncStored(Head(stores)),
           stored' = Head(stores).checkpoint, stores' = Tail(stores), UNCHANGED nextId
    PROVE  GroupInv'
<1> DEFINE s == Head(stores)
           g == [group EXCEPT !.members = [m \in Present(group) |->
                    [group.members[m] EXCEPT !.plan = s.checkpoint.plans[m]]]]
           h == [FinishSyncing(g) EXCEPT !.state = "stable"]
           K == handed \cup {<<group.generation, s.checkpoint.plans[m]>> : m \in Syncing(group)}
<1>1. IsSequence(stores) /\ GroupFits(group, stores, stored, handed, nextId)
  BY Zenon DEF GroupInv
<1>2. IsSequence(Tail(stores)) /\ GroupFits(group, Tail(stores), s.checkpoint, handed, nextId)
  BY <1>1, TailFits, Zenon
<1>3. CASE ~(SyncCurrent(s) /\ Complete(s))
  <2>1. group' = group /\ handed' = handed  BY <1>3, Zenon DEF SyncStored
  <2> QED  BY <1>2, <2>1, Zenon DEF GroupInv
<1>4. CASE SyncCurrent(s) /\ Complete(s)
  <2>1. group' = h /\ handed' = K  BY <1>4, Zenon DEF SyncStored
  <2>2. /\ group.state = "completing" /\ s.checkpoint.generation = group.generation
        /\ Present(group) \subseteq DOMAIN s.checkpoint.plans
    BY <1>4, Zenon DEF SyncCurrent, Complete
  <2> HIDE DEF s
  <2>3. /\ DOMAIN g = GroupFields /\ Present(g) = Present(group)
        /\ \A m \in Present(g) : /\ DOMAIN g.members[m] = MemberFields
                                 /\ g.members[m].plan = s.checkpoint.plans[m]
                                 /\ g.members[m].static = group.members[m].static
        /\ g.generation = group.generation /\ g.pending = group.pending
        /\ g.static = group.static /\ g.timer = group.timer
    BY GroupFacts, Zenon DEF Shape, Present, GroupFields, MemberFields
  <2> HIDE DEF g
  <2>4. /\ DOMAIN h = GroupFields /\ Present(h) = Present(g) /\ h.state = "stable"
        /\ \A m \in Present(g) : /\ DOMAIN h.members[m] = MemberFields
                                 /\ h.members[m].plan = g.members[m].plan
                                 /\ h.members[m].static = g.members[m].static
        /\ h.generation = g.generation /\ h.pending = g.pending
        /\ h.static = g.static /\ h.timer = g.timer
    BY <2>3, Zenon DEF FinishSyncing, Present, GroupFields, MemberFields
  <2> HIDE DEF h
  <2>5. Shape(h)  BY <2>4, Zenon DEF Shape
  <2>6. \A a \in K : a \in handed \/ \E m \in Present(group) :
                                        a = <<group.generation, s.checkpoint.plans[m]>>
    BY Zenon DEF Syncing
  <2>7. GivesPlan(group, h, s)  BY <2>2, <2>3, <2>4, <2>5, Zenon DEF GivesPlan
  <2> HIDE DEF K
  <2>8. GroupFits(h, Tail(stores), s.checkpoint, K, nextId)
    BY <1>1, <2>2, <2>6, <2>7, SyncFits, Zenon DEF s
  <2> QED  BY <1>2, <2>1, <2>8, Zenon DEF GroupInv, s
<1> QED  BY <1>3, <1>4, Zenon

\* A store succeeds.
LEMMA StoreSucceedsStep ==
    ASSUME GroupInv, StoreSucceeds
    PROVE  GroupInv'
<1> DEFINE s == Head(stores)
<1>1. /\ stores # <<>> /\ stored' = s.checkpoint /\ stores' = Tail(stores) /\ UNCHANGED nextId
      /\ \/ s.kind = "sync" /\ SyncStored(s)
         \/ s.kind = "static" /\ StaticStored(s)
         \/ s.kind = "empty" /\ UNCHANGED <<group, handed>>
  BY Zenon DEF StoreSucceeds
<1>2. IsSequence(stores) /\ GroupFits(group, stores, stored, handed, nextId)
  BY Zenon DEF GroupInv
<1>3. IsSequence(Tail(stores)) /\ GroupFits(group, Tail(stores), s.checkpoint, handed, nextId)
  BY <1>1, <1>2, TailFits, Zenon
<1>4. CASE s.kind = "sync" /\ SyncStored(s)  BY <1>1, <1>4, SyncStoredStep, Zenon
<1> HIDE DEF s
<1>5. CASE StaticStored(s)
  <2>1. handed' = handed /\ (group' = group \/ (s.new \in Present(group)
                                               /\ group' = FinishJoining(group, s.new)))
    BY <1>5, Zenon DEF StaticStored
  <2>2. GroupFits(group', Tail(stores), s.checkpoint, handed, nextId)
    <3>1. CASE group' = group  BY <1>3, <3>1, Zenon
    <3>2. CASE s.new \in Present(group) /\ group' = FinishJoining(group, s.new)
      <4>1. Alike(group, group')  BY <3>2, GroupFacts, FinishJoiningIsAlike, Zenon
      <4> QED  BY <1>3, <4>1, AlikeFits, Zenon
    <3> QED  BY <2>1, <3>1, <3>2, Zenon
  <2> QED  BY <1>1, <1>3, <2>1, <2>2, Zenon DEF GroupInv
<1>6. CASE UNCHANGED <<group, handed>>
  BY <1>1, <1>3, <1>6, Zenon DEF GroupInv
<1> QED  BY <1>1, <1>4, <1>5, <1>6, Zenon

\* A static member's replacement is taken back.
LEMMA StaticFailedFits ==
    ASSUME GroupInv, stores # <<>>, Head(stores).kind = "static",
           NEW d \in {stored, Head(stores).checkpoint}
    PROVE  GroupFits(StaticFailed(Head(stores)), Tail(stores), d, handed, nextId)
<1> DEFINE s == Head(stores)
           t == Tail(stores)
           a == ReplaceStatic(group, s.new, s.old)
           v == group.members[s.new].protocols
           b == Count(a, v, -1)
           e == Count(b, s.protocols, 1)
           f == [e EXCEPT !.members[s.old].protocols = s.protocols]
<1>1. IsSequence(stores) /\ GroupFits(group, stores, stored, handed, nextId)
  BY Zenon DEF GroupInv
<1>2. IsSequence(t) /\ GroupFits(group, t, d, handed, nextId)  BY <1>1, TailFits, Zenon
<1>3. /\ s = stores[1] /\ 1 \in DOMAIN stores
      /\ \A i \in DOMAIN t : i + 1 \in DOMAIN stores /\ t[i] = stores[i + 1] /\ 1 < i + 1
  BY <1>1, TailSequence, Zenon
<1>4. CASE s.new \notin Present(group)
  <2>1. StaticFailed(s) = group  BY <1>4, Zenon DEF StaticFailed
  <2> QED  BY <1>2, <2>1, Zenon
<1>5. CASE s.new \in Present(group)
  <2>1. StaticFailed(s) = f  BY <1>5, Zenon DEF StaticFailed
  <2>2. StoreFits(group, s, nextId)  BY <1>1, <1>3, Zenon DEF GroupFits, StoresFit
  <2>3. /\ s.old \in Used(nextId) /\ s.old \notin Known(group)
        /\ group.members[s.new].static = TRUE
    BY <1>5, <2>2, Zenon DEF StoreFits
  <2>4. \A i \in DOMAIN t :
              /\ t[i].kind = "static" => t[i].old # s.old
              /\ t[i].kind = "sync" => s.old \notin DOMAIN t[i].checkpoint.plans
    <3>1. StoresInOrder(stores)  BY <1>1, Zenon DEF GroupFits
    <3> HIDE DEF t
    <3>2. \A j \in DOMAIN stores : 1 < j =>
              /\ stores[j].kind = "static" => stores[j].old # stores[1].old
              /\ stores[j].kind = "sync" => stores[1].old \notin DOMAIN stores[j].checkpoint.plans
      BY <1>3, <3>1, Zenon DEF StoresInOrder
    <3> QED  BY <1>3, <3>2, Zenon
  <2> HIDE DEF s, t
  <2>5. GroupFits(a, t, d, handed, nextId)
    BY <1>2, <1>5, <2>3, <2>4, GroupFacts, MoveFits, Zenon
  <2>6. Shape(a) /\ s.old \in Present(a)
    <3>1. s.old \notin Present(group)  BY <2>3, Zenon DEF Known
    <3> QED  BY <1>5, <3>1, GroupFacts, ReplaceStaticMoves
  <2> HIDE DEF a
  <2>7. Alike(a, b)  BY <2>6, CountIsAlike, Zenon
  <2> HIDE DEF b
  <2>8. Alike(b, e)  BY <2>7, CountIsAlike DEF Alike
  <2>9. Shape(e) /\ s.old \in Present(e)  BY <2>6, <2>7, <2>8, Zenon DEF Alike
  <2> HIDE DEF e
  <2>10. Alike(e, f)  BY <2>9, Zenon DEF Alike, Shape, Present, GroupFields, MemberFields
  <2> HIDE DEF f
  <2>11. GroupFits(f, t, d, handed, nextId)
    BY <2>5, <2>7, <2>8, <2>10, AlikeFits, Zenon
  <2> QED  BY <2>1, <2>11, Zenon DEF s, t
<1> QED  BY <1>4, <1>5, Zenon

\* A store fails.
LEMMA StoreFailsStep ==
    ASSUME GroupInv, NEW k, StoreFails(k)
    PROVE  GroupInv'
<1> DEFINE s == Head(stores)
           cleared == [group EXCEPT !.members = [m \in Present(group) |->
                         [group.members[m] EXCEPT !.plan = NoPlan]]]
           f == FinishSyncing(cleared)
           g == IF s.kind = "static" THEN StaticFailed(s)
                ELSE IF s.kind = "sync" /\ SyncCurrent(s) THEN TryPrepare(f, k) ELSE group
<1>1. /\ stores # <<>> /\ stored' \in {stored, s.checkpoint} /\ stores' = Tail(stores)
      /\ UNCHANGED <<handed, nextId>> /\ g.generation <= MaxGeneration /\ group' = g
  BY Zenon DEF StoreFails
<1>2. IsSequence(stores) /\ GroupFits(group, stores, stored, handed, nextId)
  BY Zenon DEF GroupInv
<1>3. IsSequence(Tail(stores)) /\ GroupFits(group, Tail(stores), stored', handed, nextId)
  BY <1>1, <1>2, TailFits, Zenon
<1>4. GroupFits(group', Tail(stores), stored', handed, nextId)
  <2>1. CASE s.kind = "static"
    BY <1>1, <2>1, StaticFailedFits, Zenon
  <2>2. CASE s.kind = "sync" /\ SyncCurrent(s)
    <3>1. group' = TryPrepare(f, k) /\ group'.generation <= MaxGeneration  BY <1>1, <2>2, Zenon
    <3>2. /\ Shape(cleared) /\ Present(cleared) = Present(group)
          /\ \A m \in Present(group) : cleared.members[m].static = group.members[m].static
          /\ cleared.state = group.state /\ cleared.generation = group.generation
          /\ cleared.pending = group.pending /\ cleared.static = group.static
          /\ cleared.timer = group.timer
      BY GroupFacts, Zenon DEF Shape, Present, GroupFields, MemberFields
    <3> HIDE DEF cleared
    <3>3. Alike(cleared, f)
      BY <3>2, ZenonT(40) DEF FinishSyncing, Alike, Shape, Present, GroupFields, MemberFields
    <3>4. WellFormed(cleared)  BY <3>2, GroupFacts, Zenon DEF WellFormed
    <3>5. Changed(group, cleared, {})  BY <3>2, <3>4, GroupFacts, Zenon DEF Changed, Known
    <3> HIDE DEF f
    <3>6. Changed(group, f, {})  BY <3>3, <3>5, ChangedThenAlike, Zenon
    <3>7. Rebalanced(f, TryPrepare(f, k))  BY <3>6, TryPrepareRebalances, Zenon DEF Changed
    <3>8. Renewed(group, group', {})  BY <3>1, <3>6, <3>7, ChangedThenRebalanced, Zenon
    <3> QED  BY <1>3, <3>1, <3>8, GroupFacts, RenewedFits, Zenon
  <2>3. CASE group' = group  BY <1>3, <2>3, Zenon
  <2> QED  BY <1>1, <2>1, <2>2, <2>3, Zenon
<1> QED  BY <1>1, <1>3, <1>4, Zenon DEF GroupInv

\* The coordinator is replaced, or the group is deleted.
LEMMA CoordinatorSteps ==
    ASSUME GroupInv, NewCoordinator \/ Delete
    PROVE  GroupInv'
<1>1. IsSequence(stores) /\ GroupFits(group, stores, stored, handed, nextId)
  BY Zenon DEF GroupInv
<1>2. CASE NewCoordinator
  <2>1. PICK c \in Checkpoints(stores, stored) : stored' = c /\ group' = Loaded(c)
    BY <1>2, Zenon DEF NewCoordinator, Checkpoints
  <2>2. stores' = <<>> /\ UNCHANGED <<handed, nextId>>  BY <1>2, Zenon DEF NewCoordinator
  <2>3. GroupFits(Loaded(c), <<>>, c, handed, nextId)  BY <1>1, LoadFits, Zenon
  <2> QED  BY <2>1, <2>2, <2>3, EmptySequence, Zenon DEF GroupInv
<1>3. CASE Delete
  <2>1. group' = NewGroup /\ stored' = NoCheckpoint /\ stores' = <<>> /\ handed' = {}
        /\ UNCHANGED nextId
    BY <1>3, Zenon DEF Delete
  <2>2. GroupFits(NewGroup, <<>>, NoCheckpoint, {}, nextId)  BY GroupFacts, NewGroupFits, Zenon
  <2> QED  BY <2>1, <2>2, EmptySequence, Zenon DEF GroupInv
<1> QED  BY <1>2, <1>3, Zenon

---------------------------------------------------------------------------
\* The theorems.

\* The inductive invariant holds in every reachable state, whatever the coordinator,
\* the members and the log do.
THEOREM GroupInvariant == GroupSpec => []GroupInv
<1>1. ASSUME GroupInit  PROVE  GroupInv
  <2>1. group = NewGroup /\ stores = <<>> /\ stored = NoCheckpoint /\ handed = {} /\ nextId = 1
    BY <1>1, Zenon DEF GroupInit
  <2>2. 1 \in 1..(MaxIds + 1)  BY GroupBounds
  <2>3. GroupFits(NewGroup, <<>>, NoCheckpoint, {}, 1)  BY <2>2, NewGroupFits, Zenon
  <2> QED  BY <2>1, <2>3, EmptySequence, Zenon DEF GroupInv
<1>2. ASSUME GroupInv, [GroupNext]_groupVars  PROVE  GroupInv'
  <2>1. CASE \E p \in Protocols : JoinPending(p)  BY <1>2, <2>1, JoinPendingStep, Zenon
  <2>2. CASE \E p \in Protocols : \E k \in Order : JoinStatic(p, k)  BY <1>2, <2>2, JoinStaticStep, Zenon
  <2>3. CASE \E p \in Protocols : \E m \in Ids, k \in Order : JoinWithPendingId(m, p, k)
    BY <1>2, <2>3, JoinWithPendingIdStep, Zenon
  <2>4. CASE \E p \in Protocols : \E m \in Ids, k \in Order : JoinKnown(m, p, k)
    BY <1>2, <2>4, JoinKnownStep, Zenon
  <2>5. CASE \E m \in Ids : Sync(m)  BY <1>2, <2>5, SyncStep, Zenon
  <2>6. CASE \E m \in Ids : SyncStable(m)  BY <1>2, <2>6, SyncStableStep, Zenon
  <2>7. CASE \E m \in Ids : Heartbeat(m)  BY <1>2, <2>7, HeartbeatStep, Zenon
  <2>8. CASE \E m \in Ids : \E k \in Order : Leave(m, k) \/ Expire(m, k)
    BY <1>2, <2>8, LeaveSteps, Zenon
  <2>9. CASE Timer  BY <1>2, <2>9, JoinTimerStep, LeaveSteps, Zenon DEF Timer
  <2>10. CASE StoreSucceeds  BY <1>2, <2>10, StoreSucceedsStep, Zenon
  <2>11. CASE \E k \in Order : StoreFails(k)  BY <1>2, <2>11, StoreFailsStep, Zenon
  <2>12. CASE NewCoordinator \/ Delete  BY <1>2, <2>12, CoordinatorSteps, Zenon
  <2>13. CASE UNCHANGED groupVars
    BY <1>2, <2>13, Zenon DEF groupVars, GroupInv
  <2> QED
    BY <1>2, <2>1, <2>2, <2>3, <2>4, <2>5, <2>6, <2>7, <2>8, <2>9, <2>10, <2>11, <2>12, <2>13, Zenon
       DEF GroupNext
<1> QED  BY <1>1, <1>2, PTL DEF GroupSpec

\* The state of the group has the shape that its declaration describes: a timer of the
\* join phase runs in the join phase only, and every id was made by the coordinator.
THEOREM GroupTypes == GroupSpec => []TypeOK
<1>1. ASSUME GroupInv  PROVE  TypeOK
  <2>1. /\ group.state \in {"empty", "preparing", "completing", "stable"}
        /\ group.timer \in {"off", "debounce", "join"}
        /\ group.timer # "off" => group.state = "preparing"
        /\ group.generation \in Nat /\ group.generation <= MaxGeneration
        /\ Known(group) \subseteq Used(nextId) /\ nextId \in 1..(MaxIds + 1)
    BY <1>1, Zenon DEF GroupInv, GroupFits, IdsFit, WellFormed
  <2>2. Used(nextId) \subseteq Ids  BY <2>1, GroupBounds DEF Used, Ids
  <2>3. group.generation \in 0..MaxGeneration  BY <2>1, GroupBounds
  <2> QED  BY <2>1, <2>2, <2>3, Zenon DEF TypeOK, Known
<1> QED  BY <1>1, GroupInvariant, PTL

\* Every member of a generation is given the same plan, also when plans of several
\* leaders of that generation are on their way to the log, stores fail and a new
\* coordinator loads any of the checkpoints.
THEOREM PlansAgree == GroupSpec => []OnePlanPerGeneration
<1>1. GroupInv => OnePlanPerGeneration
  BY Zenon DEF GroupInv, GroupFits, HandedFits, OnePlanPerGeneration
<1> QED  BY <1>1, GroupInvariant, PTL

\* A stable group that waits for no store is the one that a new coordinator would load.
THEOREM StableGroupsAreStored == GroupSpec => []StableIsStored
<1>1. ASSUME GroupInv  PROVE  StableIsStored
  <2> SUFFICES ASSUME group.state = "stable", stores = <<>>
               PROVE  /\ stored.generation = group.generation
                      /\ {stored.plans[m] : m \in DOMAIN stored.plans}
                           = {group.members[m].plan : m \in Present(group)}
    BY Zenon DEF StableIsStored
  <2>1. /\ stored.generation = group.generation
        /\ \E m \in Present(group) : StablePlan(group, stores, stored, handed, group.members[m].plan)
    BY <1>1, Zenon DEF GroupInv, GroupFits, StableFits
  <2>2. PICK l \in Present(group) : StablePlan(group, stores, stored, handed, group.members[l].plan)
    BY <2>1, Zenon
  <2>3. \A m \in Present(group) : group.members[m].plan = group.members[l].plan
    BY <2>2, Zenon DEF StablePlan
  <2>4. stored \in Checkpoints(stores, stored)  BY Zenon DEF Checkpoints
  <2>5. DOMAIN stored.plans # {} /\ \A m \in DOMAIN stored.plans : stored.plans[m] = group.members[l].plan
    BY <2>1, <2>2, <2>4, Zenon DEF StablePlan, AllPlansAre
  <2> QED  BY <2>1, <2>3, <2>5, Zenon
<1> QED  BY <1>1, GroupInvariant, PTL
=============================================================================
