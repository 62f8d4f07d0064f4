--------------------------- MODULE ConsumerGroup ---------------------------
(***************************************************************************)
(* kafka::group: the coordinator of a consumer group.  Members join (through  *)
(* a pending id, or as static members whose id is replaced when they come     *)
(* back), a rebalance collects their join requests under a timer, the leader  *)
(* hands in a plan with its sync request, and the plan is given to the        *)
(* members once it is stored.  Stores end in order, each with success or an   *)
(* error, and a new coordinator starts from the last checkpoint in the log.   *)
(*                                                                          *)
(* The group is one record, and each function of the class is an operator     *)
(* from the record before it to the record after it.  Which member is first   *)
(* in the hash map of members is the parameter k.                             *)
(***************************************************************************)
EXTENDS Integers, Sequences, FiniteSets

CONSTANTS
    Protocols,      \* the sets of protocol names that a member may support
    KeepsRejoining, \* group_new_member_join_timeout exceeds the session timeouts
    MaxIds,         \* bound: member ids
    MaxGeneration,  \* bound: generations
    MaxStores,      \* bound: stores in flight
    MaxStoreFaults  \* bound: failed stores and new coordinators

ASSUME GroupBounds == MaxIds \in Nat /\ MaxGeneration \in Nat

VARIABLES
    group,      \* the group
    stores,     \* checkpoints being replicated
    stored,     \* the last checkpoint in the log
    handed,     \* what sync replies said: <<generation, plan>>
    nextId,     \* the member id that is generated next
    storeFaults

groupVars == <<group, stores, stored, handed, nextId, storeFaults>>

Ids == 1..MaxIds
Names == UNION Protocols
None == 0
NoPlan == <<0, 0>>

Member(p, static) ==
    [joining |-> FALSE, syncing |-> FALSE, new |-> FALSE, armed |-> TRUE,
     protocols |-> p, static |-> static, plan |-> NoPlan]

NewGroup ==
    [state |-> "empty", generation |-> 0, members |-> <<>>, pending |-> {},
     leader |-> None, static |-> None, joining |-> 0, support |-> [p \in Names |-> 0],
     protocol |-> "none", timer |-> "off", initial |-> FALSE, added |-> FALSE]

NoCheckpoint ==
    [generation |-> 0, plans |-> <<>>, static |-> None, leader |-> None, protocol |-> "none"]

GroupInit ==
    /\ group = NewGroup /\ stores = <<>> /\ stored = NoCheckpoint
    /\ handed = {} /\ nextId = 1 /\ storeFaults = 0

---------------------------------------------------------------------------
\* Members.

Present(g) == DOMAIN g.members
Without(f, m) == [x \in DOMAIN f \ {m} |-> f[x]]
With(f, m, v) == [x \in DOMAIN f \cup {m} |-> IF x = m THEN v ELSE f[x]]
Update(g, m, v) == [g EXCEPT !.members = With(@, m, v)]
First(s, k) == IF k \in s THEN k ELSE CHOOSE m \in s : \A n \in s : m <= n

Count(g, p, by) ==
    [g EXCEPT !.support = [n \in Names |-> IF n \in p THEN @[n] + by ELSE @[n]]]

AllJoined(g) == Cardinality(Present(g)) = g.joining /\ g.pending = {}

SupportsProtocols(g, p) ==
    g.state = "empty" \/ \E n \in p : g.support[n] = Cardinality(Present(g))

\* select_protocol: a protocol that every member has; a vote for none throws.
SelectProtocol(g) ==
    LET candidates == {n \in Names : g.support[n] = Cardinality(Present(g))}
    IN  IF candidates = {} THEN "none" ELSE CHOOSE n \in candidates : TRUE

\* try_finish_joining_member.
FinishJoining(g, m) ==
    IF ~g.members[m].joining THEN g
    ELSE [g EXCEPT !.members[m].joining = FALSE, !.joining = @ - 1]

\* update_member: a second join of a member that is joining fails.
UpdateMember(g, m, p) ==
    LET old == g.members[m]
        h == Count(Count(g, old.protocols, -1), p, 1)
    IN  [h EXCEPT !.members[m].protocols = p, !.members[m].joining = TRUE,
                  !.joining = IF old.joining THEN @ ELSE @ + 1]

---------------------------------------------------------------------------
\* Rebalancing.

\* complete_join: dynamic members that have not joined are dropped.
Unjoined(g) == {m \in Present(g) : ~g.members[m].joining /\ ~g.members[m].static}

DropUnjoined(g, k) ==
    LET kept == Present(g) \ Unjoined(g)
        lost(n) == Cardinality({m \in Unjoined(g) : n \in g.members[m].protocols})
    IN  [g EXCEPT !.members = [m \in kept |-> g.members[m]],
                  !.support = [n \in Names |-> @[n] - lost(n)],
                  !.leader = IF @ \in kept \/ @ = None THEN @
                             ELSE IF kept = {} THEN None ELSE First(kept, k)]

Joining(g) == {m \in Present(g) : g.members[m].joining}

\* leader_rejoined replaces a leader that has not joined.
LeaderRejoined(g, k) ==
    IF g.leader = None \/ g.leader \in Joining(g) \/ Joining(g) = {} THEN g
    ELSE [g EXCEPT !.leader = First(Joining(g), k)]

\* Mutant: the timer runs on.
CompleteKeepingTimer(g, k) ==
    LET h == LeaderRejoined([DropUnjoined(g, k) EXCEPT !.initial = FALSE], k)
        rejoined == h.leader # None /\ h.leader \in Joining(h)
    IN  IF ~rejoined /\ Present(h) # {}
        THEN [h EXCEPT !.timer = "join"]
        ELSE [h EXCEPT
               !.generation = @ + 1, !.joining = @ - Cardinality(Joining(h)),
               !.state = IF Present(h) = {} THEN "empty" ELSE "completing",
               !.protocol = IF Present(h) = {} THEN "none" ELSE SelectProtocol(h),
               !.members = [m \in Present(h) |->
                   [h.members[m] EXCEPT !.joining = FALSE, !.new = FALSE, !.armed = TRUE]]]

CompleteJoin(g, k) ==
    LET h == LeaderRejoined([DropUnjoined(g, k) EXCEPT !.initial = FALSE], k)
        rejoined == h.leader # None /\ h.leader \in Joining(h)
    IN  IF ~rejoined /\ Present(h) # {}
        THEN [h EXCEPT !.timer = "join"]
        ELSE [h EXCEPT
               !.generation = @ + 1, !.timer = "off", !.joining = @ - Cardinality(Joining(h)),
               !.state = IF Present(h) = {} THEN "empty" ELSE "completing",
               !.protocol = IF Present(h) = {} THEN "none" ELSE SelectProtocol(h),
               !.members = [m \in Present(h) |->
                   [h.members[m] EXCEPT !.joining = FALSE, !.new = FALSE, !.armed = TRUE]]]

\* try_prepare_rebalance.  Without members there is no rebalance timeout to arm the
\* timer with: the exception leaves the group preparing.
TryPrepare(g, k) ==
    IF g.state \notin {"empty", "stable", "completing"} THEN g
    ELSE LET h == IF g.state # "completing" THEN g
                  ELSE [g EXCEPT !.members = [m \in Present(g) |->
                         [g.members[m] EXCEPT !.plan = NoPlan, !.syncing = FALSE,
                                              !.armed = @ \/ g.members[m].syncing]]]
             i == [h EXCEPT !.state = "preparing", !.initial = g.state = "empty"]
         IN  IF g.state = "empty" THEN [i EXCEPT !.timer = "debounce"]
             ELSE IF AllJoined(i) THEN CompleteJoin(i, k)
             ELSE IF Present(i) = {} THEN i
             ELSE [i EXCEPT !.timer = "join"]

\* What handle_join_group does at its end: a join that no one waits for ends.
FinishJoin(g, k) ==
    IF ~g.initial /\ g.state = "preparing" /\ AllJoined(g) THEN CompleteJoin(g, k) ELSE g

\* remove_pending_member; also the end of remove_member in this state.
JoinIfComplete(g, k) ==
    IF g.state = "preparing" /\ g.timer # "off" /\ AllJoined(g) THEN CompleteJoin(g, k) ELSE g

\* remove_member.
RemoveMember(g, m, k) ==
    LET h == Count(FinishJoining(g, m), g.members[m].protocols, -1)
        rest == Present(g) \ {m}
        i == [h EXCEPT !.members = Without(@, m),
                       !.static = IF g.members[m].static THEN None ELSE @,
                       !.leader = IF @ # m THEN @ ELSE IF rest = {} THEN None ELSE First(rest, k)]
    IN  IF g.state = "preparing" THEN JoinIfComplete(i, k) ELSE TryPrepare(i, k)

---------------------------------------------------------------------------
\* Checkpoints.

Checkpoint(g, plans) ==
    [generation |-> g.generation, plans |-> plans, static |-> g.static, leader |-> g.leader,
     protocol |-> g.protocol]

\* A store: what is written and what waits for it.
Store(c, kind, old, new, p) ==
    [checkpoint |-> c, kind |-> kind, old |-> old, new |-> new, protocols |-> p]

\* The group becomes g; complete_join checkpoints a group that has become empty.
Become(g, more) ==
    LET emptied == g.state = "empty" /\ g.generation # group.generation
        all == stores \o more
               \o (IF emptied THEN <<Store(Checkpoint(g, <<>>), "empty", None, None, {})>> ELSE <<>>)
    IN  /\ g.generation <= MaxGeneration /\ Len(all) <= MaxStores
        /\ group' = g /\ stores' = all

Room == nextId <= MaxIds

---------------------------------------------------------------------------
\* Joining.

\* add_member_and_rebalance.
AddMember(g, m, p, static, k) ==
    LET v == [Member(p, static) EXCEPT !.joining = TRUE, !.new = TRUE]
        h == [Count(Update(g, m, v), p, 1) EXCEPT
                !.joining = @ + 1, !.pending = @ \ {m},
                !.static = IF static THEN m ELSE @,
                !.leader = IF @ = None THEN m ELSE @,
                !.added = @ \/ (g.state = "preparing" /\ g.generation = 0)]
    IN  FinishJoin(TryPrepare(h, k), k)

\* A dynamic member without an id gets one, and is to come back with it.
JoinPending(p) ==
    /\ Room /\ SupportsProtocols(group, p)
    /\ group' = [group EXCEPT !.pending = @ \cup {nextId}]
    /\ nextId' = nextId + 1
    /\ UNCHANGED <<stores, stored, handed, storeFaults>>

JoinWithPendingId(m, p, k) ==
    /\ m \in group.pending /\ SupportsProtocols(group, p)
    /\ Become(AddMember(group, m, p, FALSE, k), <<>>)
    /\ UNCHANGED <<stored, handed, nextId, storeFaults>>

\* replace_static_member: requests that wait under the old id are fenced.
ReplaceStatic(g, old, new) ==
    LET h == FinishJoining(g, old)
        v == [h.members[old] EXCEPT !.syncing = FALSE, !.armed = TRUE]
    IN  [h EXCEPT !.members = With(Without(@, old), new, v), !.static = new,
                  !.leader = IF @ = old THEN new ELSE @]

Plans(g) == [m \in Present(g) |-> g.members[m].plan]

\* add_new_static_member and update_static_member_and_rebalance.  A stable group
\* keeps its generation when the protocol stays the same.
JoinStatic(p, k) ==
    LET old == group.static
        h == UpdateMember(ReplaceStatic(group, old, nextId), nextId, p)
    IN  /\ Room /\ SupportsProtocols(group, p) /\ nextId' = nextId + 1
        /\ \/ /\ old = None
              /\ Become(AddMember(group, nextId, p, TRUE, k), <<>>)
           \/ /\ old # None /\ group.state = "stable" /\ SelectProtocol(h) = group.protocol
              /\ Become(h, <<Store(Checkpoint(h, Plans(h)), "static", old, nextId, p)>>)
           \/ /\ old # None /\ ~(group.state = "stable" /\ SelectProtocol(h) = group.protocol)
              /\ Become(FinishJoin(TryPrepare(h, k), k), <<>>)
        /\ UNCHANGED <<stored, handed, storeFaults>>

\* join_group_known_member: with the same metadata it may only repeat a reply.
JoinKnown(m, p, k) ==
    /\ m \in Present(group) /\ SupportsProtocols(group, p)
    /\ LET same == p = group.members[m].protocols
       IN  \/ group.state = "preparing"
           \/ group.state = "completing" /\ ~same
           \/ group.state = "stable" /\ (m = group.leader \/ ~same)
    /\ Become(FinishJoin(TryPrepare(UpdateMember(group, m, p), k), k), <<>>)
    /\ UNCHANGED <<stored, handed, nextId, storeFaults>>

JoinTimer(k) ==
    /\ \/ group.timer = "join" /\ Become(CompleteJoin(group, k), <<>>)
       \/ /\ group.timer = "debounce"
          /\ \/ group.added /\ Become([group EXCEPT !.added = FALSE], <<>>)
             \/ Become(CompleteJoin(group, k), <<>>)
    /\ UNCHANGED <<stored, handed, nextId, storeFaults>>

---------------------------------------------------------------------------
\* Syncing, leaving, expiring.

\* sync_group_completing_rebalance: the leader's plan is stored first.  A leader
\* that repeats its request repeats its plan.
Sync(m) ==
    LET g == [group EXCEPT !.members[m].syncing = TRUE]
        plans == [x \in Present(g) |-> <<g.generation, m>>]
    IN  /\ m \in Present(group) /\ group.state = "completing"
        /\ Become(g, IF m = group.leader
                     THEN <<Store(Checkpoint(g, plans), "sync", None, None, {})>> ELSE <<>>)
        /\ UNCHANGED <<stored, handed, nextId, storeFaults>>

\* In a stable group a sync request is answered at once.
SyncStable(m) ==
    /\ m \in Present(group) /\ group.state = "stable"
    /\ handed' = handed \cup {<<group.generation, group.members[m].plan>>}
    /\ group' = [group EXCEPT !.members[m].armed = TRUE]
    /\ UNCHANGED <<stores, stored, nextId, storeFaults>>

Heartbeat(m) ==
    /\ m \in Present(group) /\ group.state \in {"preparing", "stable"}
    /\ group' = [group EXCEPT !.members[m].armed = TRUE]
    /\ UNCHANGED <<stores, stored, handed, nextId, storeFaults>>

Leave(m, k) ==
    /\ \/ m \in group.pending
          /\ Become(JoinIfComplete([group EXCEPT !.pending = @ \ {m}], k), <<>>)
       \/ m \in Present(group) /\ Become(RemoveMember(group, m, k), <<>>)
    /\ UNCHANGED <<stored, handed, nextId, storeFaults>>

\* should_keep_alive.
KeepAlive(v) == v.joining /\ (v.new \/ KeepsRejoining)

\* heartbeat_expire.
Expire(m, k) ==
    /\ m \in Present(group) /\ group.members[m].armed
    /\ Become(IF KeepAlive(group.members[m]) THEN [group EXCEPT !.members[m].armed = FALSE]
              ELSE RemoveMember(group, m, k), <<>>)
    /\ UNCHANGED <<stored, handed, nextId, storeFaults>>

\* remove_pending_member by its timer.
PendingExpires(m, k) ==
    /\ m \in group.pending
    /\ Become(JoinIfComplete([group EXCEPT !.pending = @ \ {m}], k), <<>>)
    /\ UNCHANGED <<stored, handed, nextId, storeFaults>>

---------------------------------------------------------------------------
\* The end of a store.

Syncing(g) == {m \in Present(g) : g.members[m].syncing}

\* finish_syncing_members.
FinishSyncing(g) ==
    [g EXCEPT !.members = [m \in Present(g) |->
        [g.members[m] EXCEPT !.syncing = FALSE, !.armed = @ \/ g.members[m].syncing]]]

\* Mutant: the generation is not compared.
SyncCurrentAnyGeneration(s) == group.state = "completing"

\* The group may have changed while the plan was stored.
SyncCurrent(s) ==
    group.state = "completing" /\ s.checkpoint.generation = group.generation

\* set_assignments throws for a member that the plan does not name.
Complete(s) == Present(group) \subseteq DOMAIN s.checkpoint.plans

SyncStored(s) ==
    IF ~(SyncCurrent(s) /\ Complete(s)) THEN group' = group /\ handed' = handed
    ELSE LET g == [group EXCEPT !.members = [m \in Present(group) |->
                    [group.members[m] EXCEPT !.plan = s.checkpoint.plans[m]]]]
         IN  /\ group' = [FinishSyncing(g) EXCEPT !.state = "stable"]
             /\ handed' = handed \cup
                  {<<group.generation, s.checkpoint.plans[m]>> : m \in Syncing(group)}

\* The reply to a static member; the leader's cannot be made during a rebalance.
StaticStored(s) ==
    /\ group' = IF s.new \in Present(group) /\ ~(s.new = group.leader /\ group.state = "preparing")
                THEN FinishJoining(group, s.new) ELSE group
    /\ UNCHANGED handed

\* The replacement is taken back, with the protocols that it brought.
StaticFailed(s) ==
    IF s.new \notin Present(group) THEN group
    ELSE LET v == group.members[s.new].protocols
             h == ReplaceStatic(group, s.new, s.old)
         IN  [Count(Count(h, v, -1), s.protocols, 1) EXCEPT !.members[s.old].protocols = s.protocols]

StoreSucceeds ==
    /\ stores # <<>>
    /\ LET s == Head(stores)
       IN  /\ stored' = s.checkpoint
           /\ \/ s.kind = "sync" /\ SyncStored(s)
              \/ s.kind = "static" /\ StaticStored(s)
              \/ s.kind = "empty" /\ UNCHANGED <<group, handed>>
    /\ stores' = Tail(stores)
    /\ UNCHANGED <<nextId, storeFaults>>

\* A store that failed may have been written all the same.
StoreFails(k) ==
    /\ stores # <<>> /\ storeFaults < MaxStoreFaults /\ storeFaults' = storeFaults + 1
    /\ LET s == Head(stores)
           cleared == [group EXCEPT !.members = [m \in Present(group) |->
                         [group.members[m] EXCEPT !.plan = NoPlan]]]
           g == IF s.kind = "static" THEN StaticFailed(s)
                ELSE IF s.kind = "sync" /\ SyncCurrent(s)
                THEN TryPrepare(FinishSyncing(cleared), k) ELSE group
       IN  /\ stored' \in {stored, s.checkpoint}
           /\ g.generation <= MaxGeneration /\ group' = g
    /\ stores' = Tail(stores)
    /\ UNCHANGED <<handed, nextId>>

\* The group as its last checkpoint says; no join phase is on.
Loaded(c) ==
    LET p == IF c.protocol = "none" THEN {} ELSE {c.protocol}
        ms == DOMAIN c.plans
    IN  [state |-> IF ms = {} THEN "empty" ELSE "stable",
         generation |-> c.generation, pending |-> {}, leader |-> c.leader,
         members |-> [m \in ms |-> [Member(p, m = c.static) EXCEPT !.plan = c.plans[m]]],
         static |-> IF c.static \in ms THEN c.static ELSE None, joining |-> 0,
         support |-> [n \in Names |-> IF n \in p THEN Cardinality(ms) ELSE 0],
         protocol |-> c.protocol, timer |-> "off", initial |-> FALSE, added |-> FALSE]

\* Another node becomes the coordinator and loads the last checkpoint; a store
\* that was in flight may be in the log.
NewCoordinator ==
    /\ storeFaults < MaxStoreFaults /\ storeFaults' = storeFaults + 1
    /\ \E c \in {stored} \cup {stores[i].checkpoint : i \in DOMAIN stores} :
         stored' = c /\ group' = Loaded(c)
    /\ stores' = <<>>
    /\ UNCHANGED <<handed, nextId>>

\* remove: an empty group is deleted, and the next join makes a new one.
Delete ==
    /\ group.state = "empty" /\ group # NewGroup
    /\ group' = NewGroup /\ stored' = NoCheckpoint /\ stores' = <<>> /\ handed' = {}
    /\ UNCHANGED <<nextId, storeFaults>>

---------------------------------------------------------------------------
\* The members that may come first.
Order == IF Cardinality(Present(group)) < 2 THEN {None} ELSE Present(group)

Timer == \E k \in Order : JoinTimer(k) \/ \E m \in Ids : PendingExpires(m, k)

GroupNext ==
    \/ \E p \in Protocols :
         \/ JoinPending(p)
         \/ \E k \in Order : JoinStatic(p, k)
         \/ \E m \in Ids, k \in Order : JoinWithPendingId(m, p, k) \/ JoinKnown(m, p, k)
    \/ \E m \in Ids : \/ Sync(m) \/ SyncStable(m) \/ Heartbeat(m)
                      \/ \E k \in Order : Leave(m, k) \/ Expire(m, k)
    \/ Timer \/ StoreSucceeds \/ (\E k \in Order : StoreFails(k)) \/ NewCoordinator
    \/ Delete

GroupSpec == GroupInit /\ [][GroupNext]_groupVars

---------------------------------------------------------------------------
\* Properties.

TypeOK ==
    /\ group.state \in {"empty", "preparing", "completing", "stable"}
    /\ group.generation \in 0..MaxGeneration /\ Present(group) \subseteq Ids
    /\ group.pending \subseteq Ids /\ group.timer \in {"off", "debounce", "join"}
    /\ group.timer # "off" => group.state = "preparing"

\* All the plans that the members of a generation are given are the same, also
\* across a change of the coordinator.
OnePlanPerGeneration == \A a, b \in handed : a[1] = b[1] => a[2] = b[2]

\* A plan is given to members only once it is in the log: a stable group that
\* waits for no store is the one in the log.
StableIsStored ==
    group.state = "stable" /\ stores = <<>> =>
        /\ stored.generation = group.generation
        /\ {stored.plans[m] : m \in DOMAIN stored.plans}
             = {group.members[m].plan : m \in Present(group)}

\* A pending member that leaves, or whose time is over, lets the join phase end:
\* no group waits in the join phase for nobody.
JoinPhaseEnds == ~(group.state = "preparing" /\ ~group.initial /\ AllJoined(group))
=============================================================================
