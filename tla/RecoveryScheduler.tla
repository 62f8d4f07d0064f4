------------------------- MODULE RecoveryScheduler -------------------------
(***************************************************************************)
(* recovery_scheduler_base: a node lets only some of its partitions recover   *)
(* from their leaders at a time.  Partitions come and go, lose and find their *)
(* leader; the choice is made on a timer that only some of these events arm.  *)
(***************************************************************************)
EXTENDS Integers, Sequences, FiniteSets, FiniteSetsExt, SequencesExt

CONSTANTS
    Partition, Internal, Learner,  \* the partitions; internal ones; learners
    Leader, FirstLeader,           \* the nodes that may lead; who leads at the start
    Limits,                        \* values of _max_active
    MaxOffset, MaxEvents           \* bounds

VARIABLES
    leader,          \* partition -> leader id, or "none"
    active,          \* _active
    pending,         \* _pending, in order
    our, theirs,     \* _our_last_offset and _leader_last_offset
    offsetsPending,  \* _offsets_pending
    maxActive, armed,\* _max_active; the timer is armed
    events           \* bound: losses of leaders and changes of the limit

vars == <<leader, active, pending, our, theirs, offsetsPending, maxActive, armed, events>>

Registered == active \cup ToSet(pending)
PendingCount(o, t) == IF t > o THEN t - o ELSE 0
Without(s, p) == SelectSeq(s, LAMBDA q : q # p)

Init ==
    /\ leader = FirstLeader
    /\ active = {} /\ pending = <<>>
    /\ our = [p \in Partition |-> 0] /\ theirs = [p \in Partition |-> 0]
    /\ offsetsPending = 0 /\ maxActive = Min(Limits) /\ armed = FALSE /\ events = 0

---------------------------------------------------------------------------
\* follower_recovery_state.

\* recovery_scheduler_base::add: internal partitions pass while there is room,
\* a recovery that the leader has begun passes always.
Add(p, o, t, recovering) ==
    LET now == recovering \/ (p \in Internal /\ Cardinality(active) < maxActive)
    IN  /\ active' = IF now THEN active \cup {p} ELSE active
        /\ pending' = IF now THEN pending ELSE Append(pending, p)
        /\ armed' = (armed \/ ~now)
        /\ our' = [our EXCEPT ![p] = o] /\ theirs' = [theirs EXCEPT ![p] = t]
        /\ offsetsPending' = offsetsPending + PendingCount(o, t)

\* force_active and update_progress.
Update(p, o, t, recovering) ==
    LET m == IF t > theirs[p] THEN t ELSE theirs[p]
        forced == recovering /\ p \notin active
    IN  /\ active' = IF forced THEN active \cup {p} ELSE active
        /\ pending' = IF forced THEN Without(pending, p) ELSE pending
        /\ armed' = (armed \/ p \notin active')
        /\ our' = [our EXCEPT ![p] = o] /\ theirs' = [theirs EXCEPT ![p] = m]
        /\ offsetsPending' = offsetsPending + PendingCount(o, m) - PendingCount(our[p], theirs[p])

\* consensus::upsert_recovery_state: a request of the leader shows that the
\* follower is behind, or is already part of a recovery.
UpsertRecoveryState(p, o, t, recovering) ==
    /\ leader[p] # "none"
    /\ IF p \in Registered THEN Update(p, o, t, recovering) ELSE Add(p, o, t, recovering)
    /\ UNCHANGED <<leader, maxActive, events>>

\* Mutant: the room that a finished recovery leaves is not offered.
UnregisterQuietly(p) ==
    /\ p \in Registered
    /\ active' = active \ {p} /\ pending' = Without(pending, p)
    /\ offsetsPending' = offsetsPending - PendingCount(our[p], theirs[p])
    /\ our' = [our EXCEPT ![p] = 0] /\ theirs' = [theirs EXCEPT ![p] = 0]
    /\ UNCHANGED <<leader, maxActive, armed, events>>

\* The destructor, when the follower has caught up: recovery_scheduler_base::remove.
Unregister(p) ==
    /\ p \in Registered
    /\ armed' = (armed \/ p \in active)
    /\ active' = active \ {p} /\ pending' = Without(pending, p)
    /\ offsetsPending' = offsetsPending - PendingCount(our[p], theirs[p])
    /\ our' = [our EXCEPT ![p] = 0] /\ theirs' = [theirs EXCEPT ![p] = 0]
    /\ UNCHANGED <<leader, maxActive, events>>

\* trigger_leadership_notification without a leader: an active recovery yields.
LoseLeader(p) ==
    /\ leader[p] # "none" /\ events < MaxEvents /\ events' = events + 1
    /\ leader' = [leader EXCEPT ![p] = "none"]
    /\ active' = active \ {p}
    /\ pending' = IF p \in active THEN Append(pending, p) ELSE pending
    /\ armed' = (armed \/ p \in active)
    /\ UNCHANGED <<our, theirs, offsetsPending, maxActive>>

\* maybe_update_leader and the request that brought the news.
FindLeader(p, n, t) ==
    /\ leader[p] = "none" /\ leader' = [leader EXCEPT ![p] = n]
    /\ IF p \in Registered THEN Update(p, our[p], t, FALSE)
       ELSE UNCHANGED <<active, pending, our, theirs, offsetsPending, armed>>
    /\ UNCHANGED <<maxActive, events>>

SetMaxActive ==
    /\ events < MaxEvents /\ events' = events + 1
    /\ maxActive' \in Limits \ {maxActive}
    /\ armed' = (armed \/ Cardinality(active) < maxActive')
    /\ UNCHANGED <<leader, active, pending, our, theirs, offsetsPending>>

---------------------------------------------------------------------------
\* activate_some.

Priority(p) == IF p \in Internal THEN -1 ELSE IF p \in Learner THEN 1 ELSE 0
Eligible(ps) == {p \in ToSet(ps) : leader[p] # "none"}
Load(act, n) == Cardinality({p \in act : leader[p] = n})

\* Mutant: the first of the queue, whatever its class.
FirstEligible(act, ps) ==
    {p \in Eligible(ps) : \A q \in Eligible(ps) :
        SelectInSeq(ps, LAMBDA x : x = p) <= SelectInSeq(ps, LAMBDA x : x = q)}

\* The partitions that may be chosen next: of the most urgent class, of a leader
\* with the fewest active recoveries, and the first of them in the queue.
NextChoice(act, ps) ==
    LET class == {p \in Eligible(ps) : \A q \in Eligible(ps) : Priority(p) <= Priority(q)}
        least == {p \in class : \A q \in class : Load(act, leader[p]) <= Load(act, leader[q])}
    IN  {p \in least : \A q \in least :
           leader[q] = leader[p] => SelectInSeq(ps, LAMBDA x : x = p)
                                    <= SelectInSeq(ps, LAMBDA x : x = q)}

RECURSIVE Outcomes(_, _)
Outcomes(act, ps) ==
    IF Cardinality(act) >= maxActive \/ Eligible(ps) = {} THEN {[active |-> act, pending |-> ps]}
    ELSE UNION {Outcomes(act \cup {p}, Without(ps, p)) : p \in NextChoice(act, ps)}

Tick ==
    /\ armed /\ armed' = FALSE
    /\ \E out \in Outcomes(active, pending) : active' = out.active /\ pending' = out.pending
    /\ offsetsPending' = MapThenSumSet(LAMBDA p : PendingCount(our[p], theirs[p]), Registered)
    /\ UNCHANGED <<leader, our, theirs, maxActive, events>>

Request(p) ==
    \E o, t \in 0..MaxOffset, recovering \in BOOLEAN :
        t > o /\ UpsertRecoveryState(p, o, t, recovering)

Next ==
    \/ \E p \in Partition :
         \/ Request(p) \/ Unregister(p) \/ LoseLeader(p)
         \/ \E n \in Leader, t \in 0..MaxOffset : FindLeader(p, n, t)
    \/ SetMaxActive \/ Tick

Spec == Init /\ [][Next]_vars

---------------------------------------------------------------------------
\* Properties.

\* Type invariant: a registered partition is in one of the lists.
TypeOK ==
    /\ active \subseteq Partition /\ ToSet(pending) \subseteq Partition \ active
    /\ Len(pending) = Cardinality(ToSet(pending))

\* No partition is forgotten: where there is room and a pending partition has a
\* leader, the timer is armed.
RoomMeansTick ==
    Cardinality(active) < maxActive /\ Eligible(pending) # {} => armed

\* A tick leaves no partition waiting behind one that is less urgent, shares the
\* slots of a class evenly among the leaders, and does not exceed the limit.
TickIsFair ==
    [][armed /\ ~armed' =>
        LET new == active' \ active
            left == {p \in ToSet(pending') : leader[p] # "none"}
        IN  /\ new # {} => Cardinality(active') <= maxActive
            /\ \A p \in new, q \in left :
                 /\ Priority(p) <= Priority(q)
                 /\ Priority(p) = Priority(q) =>
                      Load(active', leader[p]) <= Load(active', leader[q]) + 1]_vars
=============================================================================
