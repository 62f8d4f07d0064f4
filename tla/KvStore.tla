------------------------------- MODULE KvStore -------------------------------
(***************************************************************************)
(* storage::kvstore: a map in memory behind a log.  Operations are queued,   *)
(* written to the current segment in batches by one background fiber, and    *)
(* applied and acknowledged once the segment is flushed.  When a segment is  *)
(* full the map is written as a snapshot and the segment is removed.         *)
(*                                                                          *)
(* A crash keeps the flushed batches of every segment and any number of the  *)
(* batches behind them.  Removing and creating files is taken to be durable. *)
(***************************************************************************)
EXTENDS Naturals, Sequences, FiniteSets, SequencesExt

CONSTANTS
    Key,
    MaxOps,     \* bound: operations submitted
    MaxFaults,  \* bound: crashes and failing writes
    MaxStop,    \* bound: graceful shutdowns
    SegmentOps  \* the number of operations that fills a segment

VARIABLES
    history,    \* the operations submitted; an operation is its index here
    acked,      \* operations whose promise is resolved
    ops,        \* _ops: the queue
    taken,      \* the operations, or the segments, that the fiber works on
    timer,      \* _timer is armed
    sem,        \* the units of _sem
    db,         \* _db: the operation that set each key, 0 when absent
    next,       \* _next_offset
    segment,    \* the base offset of _segment, or None
    pc,         \* where start() or the background fiber is
    files,      \* segments on disk: base offset -> [batches, stable]
    snapshot,   \* the snapshot on disk
    stopping,   \* stop() was called: _gate is closed
    faults, stops

memory == <<ops, taken, timer, sem, db, next, segment, pc>>
disk == <<files, snapshot>>
vars == <<history, acked, memory, disk, stopping, faults, stops>>

None == MaxOps + 1
Empty == [k \in Key |-> 0]
NoFiles == [b \in {} |-> 0]

\* kvstore::apply_op for a sequence of operations.
ApplyOps(m, batch) ==
    FoldLeft(LAMBDA d, i : [d EXCEPT ![history[i].key] =
                                IF history[i].put THEN i ELSE 0], m, batch)

\* One segment after the other, from its first batch.
Contents(fs, b) == FlattenSeq(fs[b].batches)

Least(S) == CHOOSE x \in S : \A y \in S : x <= y

---------------------------------------------------------------------------
\* Operations of the callers.

\* The states in which the store has not started.
Starting == {"down", "gcOld", "recovered", "gcReplayed", "failed"}

\* kvstore::put and remove.
Put(k, isPut) ==
    /\ pc \notin Starting /\ ~stopping
    /\ Len(history) < MaxOps
    /\ history' = Append(history, [key |-> k, put |-> isPut])
    /\ ops' = Append(ops, Len(history) + 1)
    /\ timer' = TRUE
    /\ UNCHANGED <<acked, taken, sem, db, next, segment, pc, disk, stopping, faults, stops>>

\* Mutant: a signal is lost when nobody waits for it.
TimerSignalsWaiter ==
    /\ timer
    /\ timer' = FALSE
    /\ sem' = IF pc = "idle" THEN sem + 1 ELSE sem
    /\ UNCHANGED <<history, acked, ops, taken, db, next, segment, pc, disk,
                   stopping, faults, stops>>

\* The callback of _timer.
Timer ==
    /\ timer
    /\ timer' = FALSE
    /\ sem' = sem + 1
    /\ UNCHANGED <<history, acked, ops, taken, db, next, segment, pc, disk,
                   stopping, faults, stops>>

---------------------------------------------------------------------------
\* The background fiber: wait, roll(), flush_and_apply_ops().

\* _sem.wait for all units, at least one.
WakeUp ==
    /\ pc = "idle" /\ sem > 0 /\ ~stopping
    /\ sem' = 0
    /\ pc' = "roll"
    /\ UNCHANGED <<history, acked, ops, taken, timer, db, next, segment, disk,
                   stopping, faults, stops>>

\* make_segment.
NewSegment(fs, base) ==
    [b \in DOMAIN fs \cup {base} |->
        IF b = base THEN [batches |-> <<>>, stable |-> 0] ELSE fs[b]]

Full(b) == Len(Contents(files, b)) >= SegmentOps

\* roll(): the first segment is made, or a full one is closed, which flushes
\* it, or there is nothing to do.
Roll ==
    /\ pc = "roll"
    /\ \/ /\ segment = None
          /\ files' = NewSegment(files, next)
          /\ segment' = next /\ pc' = "flush"
          /\ UNCHANGED taken
       \/ /\ segment # None /\ Full(segment)
          /\ files' = [files EXCEPT ![segment].stable = Len(files[segment].batches)]
          /\ taken' = <<segment>> /\ segment' = None /\ pc' = "closed"
       \/ /\ segment # None /\ ~Full(segment)
          /\ pc' = "flush"
          /\ UNCHANGED <<files, segment, taken>>
    /\ UNCHANGED <<history, acked, ops, timer, sem, db, next, snapshot, stopping,
                   faults, stops>>

\* save_snapshot: written aside and renamed, so it appears at once.
SaveSnapshot(from, to) ==
    /\ pc = from /\ pc' = to
    /\ snapshot' = IF next = 0 THEN snapshot ELSE [db |-> db, next |-> next]

\* The map is saved before the segment goes.
RollSnapshot ==
    /\ SaveSnapshot("closed", "saved")
    /\ UNCHANGED <<history, acked, ops, taken, timer, sem, db, next, segment,
                   files, stopping, faults, stops>>

\* The closed segment is removed.
RollRemove ==
    /\ pc = "saved" /\ pc' = "removed"
    /\ files' = Restrict(files, DOMAIN files \ {taken[1]})
    /\ UNCHANGED <<history, acked, ops, taken, timer, sem, db, next, segment,
                   snapshot, stopping, faults, stops>>

\* The next segment is made.
RollMake ==
    /\ pc = "removed" /\ pc' = "flush"
    /\ files' = NewSegment(files, next)
    /\ segment' = next /\ taken' = <<>>
    /\ UNCHANGED <<history, acked, ops, timer, sem, db, next, snapshot, stopping,
                   faults, stops>>

\* flush_and_apply_ops: the queue is taken and written.
AppendBatch ==
    /\ pc = "flush"
    /\ IF ops = <<>>
         THEN /\ pc' = "idle"
              /\ UNCHANGED <<ops, taken, files>>
         ELSE /\ pc' = "written"
              /\ taken' = ops /\ ops' = <<>>
              /\ files' = [files EXCEPT ![segment].batches = Append(@, ops)]
    /\ UNCHANGED <<history, acked, timer, sem, db, next, segment, snapshot,
                   stopping, faults, stops>>

\* Mutant: the operations are applied before the segment is flushed.
ApplyFirst ==
    /\ pc = "written" /\ pc' = "idle"
    /\ db' = ApplyOps(db, taken)
    /\ next' = next + Len(taken)
    /\ acked' = acked \cup ToSet(taken)
    /\ taken' = <<>>
    /\ UNCHANGED <<history, ops, timer, sem, segment, disk, stopping, faults, stops>>

\* The segment is flushed.
FlushSegment ==
    /\ pc = "written" /\ pc' = "apply"
    /\ files' = [files EXCEPT ![segment].stable = Len(files[segment].batches)]
    /\ UNCHANGED <<history, acked, ops, taken, timer, sem, db, next, segment,
                   snapshot, stopping, faults, stops>>

\* Mutant: the next offset is one too far.
ApplySkips ==
    /\ pc = "apply" /\ pc' = "idle"
    /\ db' = ApplyOps(db, taken)
    /\ next' = next + Len(taken) + 1
    /\ acked' = acked \cup ToSet(taken)
    /\ taken' = <<>>
    /\ UNCHANGED <<history, ops, timer, sem, segment, disk, stopping, faults, stops>>

\* The operations are applied and their callers told.
ApplyBatch ==
    /\ pc = "apply" /\ pc' = "idle"
    /\ db' = ApplyOps(db, taken)
    /\ next' = next + Len(taken)
    /\ acked' = acked \cup ToSet(taken)
    /\ taken' = <<>>
    /\ UNCHANGED <<history, ops, timer, sem, segment, disk, stopping, faults, stops>>

---------------------------------------------------------------------------
\* Start, stop and crash.

\* recover_segments removes segments without a batch.
Segments == {b \in DOMAIN files : files[b].batches # <<>>}

\* The segments that replay_segments replays: those from the one that starts at
\* the snapshot's end.
Replayed ==
    IF snapshot.next \in Segments
      THEN SetToSortSeq({b \in Segments : b >= snapshot.next}, LAMBDA a, b : a < b)
      ELSE <<>>

ReplayedOps ==
    FlattenSeq([i \in 1..Len(Replayed) |-> Contents(files, Replayed[i])])

\* A segment that starts behind the point where the replay stands throws, or
\* fails an assertion.
Hole ==
    \/ /\ snapshot.next \notin Segments
       /\ \E b \in Segments : b > snapshot.next
    \/ \E i \in 1..Len(Replayed) :
          Replayed[i] # snapshot.next
             + Len(FlattenSeq([j \in 1..i - 1 |-> Contents(files, Replayed[j])]))

\* kvstore::recover up to the first removal of a file.
Recover ==
    /\ pc = "down"
    /\ files' = Restrict(files, Segments)
    /\ db' = ApplyOps(snapshot.db, ReplayedOps)
    /\ next' = snapshot.next + Len(ReplayedOps)
    /\ taken' = Replayed
    /\ pc' = IF Hole THEN "failed" ELSE IF Segments = {} THEN "idle" ELSE "gcOld"
    /\ UNCHANGED <<history, acked, ops, timer, sem, segment, snapshot, stopping,
                   faults, stops>>

\* replay_segments: the segments before the snapshot are removed one by one.
RemoveOld ==
    LET old == DOMAIN files \ ToSet(taken)
    IN  /\ pc = "gcOld"
        /\ files' = IF old = {} THEN files
                    ELSE Restrict(files, DOMAIN files \ {Least(old)})
        /\ pc' = IF old = {} THEN "recovered" ELSE "gcOld"
        /\ UNCHANGED <<history, acked, ops, taken, timer, sem, db, next, segment,
                       snapshot, stopping, faults, stops>>

RecoverySnapshot ==
    /\ SaveSnapshot("recovered", "gcReplayed")
    /\ UNCHANGED <<history, acked, ops, taken, timer, sem, db, next, segment,
                   files, stopping, faults, stops>>

\* The replayed segments are removed one by one; the store has started.
RemoveReplayed ==
    /\ pc = "gcReplayed"
    /\ IF taken = <<>>
         THEN pc' = "idle" /\ UNCHANGED <<files, taken>>
         ELSE /\ pc' = "gcReplayed"
              /\ files' = Restrict(files, DOMAIN files \ {Head(taken)})
              /\ taken' = Tail(taken)
    /\ UNCHANGED <<history, acked, ops, timer, sem, db, next, segment, snapshot,
                   stopping, faults, stops>>

\* The process ends.
Down ==
    /\ pc' = "down" /\ ops' = <<>> /\ taken' = <<>> /\ timer' = FALSE /\ sem' = 0
    /\ segment' = None /\ db' = Empty /\ next' = 0 /\ stopping' = FALSE
    /\ UNCHANGED <<history, acked, snapshot>>

\* kvstore::stop: what is queued fails, and the fiber finishes its round.
Stop ==
    /\ pc \notin Starting /\ ~stopping /\ stops < MaxStop
    /\ stops' = stops + 1
    /\ stopping' = TRUE
    /\ ops' = <<>>
    /\ UNCHANGED <<history, acked, taken, timer, sem, db, next, segment, pc,
                   disk, faults>>

\* The fiber has left: the segment is flushed and closed.
Stopped ==
    /\ stopping /\ pc \in {"idle", "dead"}
    /\ files' = IF segment = None THEN files
                ELSE [files EXCEPT ![segment].stable = Len(files[segment].batches)]
    /\ Down
    /\ UNCHANGED <<faults, stops>>

\* A file operation of the fiber fails, which ends the fiber.
FiberFails ==
    /\ pc \in {"roll", "closed", "saved", "removed", "flush", "written"}
    /\ faults < MaxFaults
    /\ faults' = faults + 1
    /\ pc' = "dead" /\ taken' = <<>>
    /\ UNCHANGED <<history, acked, ops, timer, sem, db, next, segment, disk,
                   stopping, stops>>

Crash ==
    /\ pc # "down" /\ faults < MaxFaults
    /\ faults' = faults + 1
    /\ \E keep \in [DOMAIN files -> 0..MaxOps] :
          /\ \A b \in DOMAIN files :
                keep[b] \in files[b].stable..Len(files[b].batches)
          /\ files' = [b \in DOMAIN files |->
                          [batches |-> SubSeq(files[b].batches, 1, keep[b]),
                           stable |-> keep[b]]]
    /\ Down
    /\ UNCHANGED stops

Init ==
    /\ history = <<>> /\ acked = {} /\ ops = <<>> /\ taken = <<>>
    /\ timer = FALSE /\ sem = 0 /\ db = Empty /\ next = 0
    /\ segment = None /\ pc = "down"
    /\ files = NoFiles /\ snapshot = [db |-> Empty, next |-> 0]
    /\ stopping = FALSE /\ faults = 0 /\ stops = 0

Fiber ==
    WakeUp \/ Roll \/ RollSnapshot \/ RollRemove \/ RollMake \/ AppendBatch
      \/ FlushSegment \/ ApplyBatch

Start == Recover \/ RemoveOld \/ RecoverySnapshot \/ RemoveReplayed

Next ==
    \/ \E k \in Key, isPut \in BOOLEAN : Put(k, isPut)
    \/ Timer \/ Fiber \/ Start \/ Stop \/ Stopped \/ FiberFails \/ Crash

\* The timer fires, and the fiber and the recovery run.
Fairness == WF_vars(Timer) /\ WF_vars(Fiber) /\ WF_vars(Start)

Spec == Init /\ [][Next]_vars
FairSpec == Spec /\ Fairness

---------------------------------------------------------------------------
\* Properties.

\* The types of the variables.
TypeOK ==
    /\ history \in Seq([key : Key, put : BOOLEAN])
    /\ acked \subseteq 1..MaxOps
    /\ \A q \in {ops, taken} : ToSet(q) \subseteq 0..MaxOps
    /\ timer \in BOOLEAN /\ sem \in 0..MaxOps + 1
    /\ db \in [Key -> 0..MaxOps] /\ next \in 0..MaxOps
    /\ segment \in 0..None
    /\ \A b \in DOMAIN files : files[b].stable \in 0..Len(files[b].batches)
    /\ snapshot \in [db : [Key -> 0..MaxOps], next : 0..MaxOps]
    /\ stopping \in BOOLEAN /\ faults \in 0..MaxFaults /\ stops \in 0..MaxStop

\* "We don't lose wake-ups if they occur while flushing": a queued operation is
\* answered, unless the process ends or a file operation has failed.
PutsAreAnswered ==
    \A i \in 1..MaxOps :
        i \in ToSet(ops) ~> \/ i \in acked \/ stopping
                            \/ pc \in {"down", "dead"}

\* The store is a durable map: what get() has returned is not taken back by a
\* crash, and a batch is recovered as a whole or not at all.
AbstractMap == INSTANCE DurableMap WITH
    map <- IF pc = "down" THEN ApplyOps(snapshot.db, ReplayedOps) ELSE db,
    count <- IF pc = "down" THEN snapshot.next + Len(ReplayedOps) ELSE next

ImplementsDurableMap == AbstractMap!Spec
=============================================================================
