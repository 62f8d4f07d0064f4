------------------------- MODULE InstallSnapshot -------------------------
(***************************************************************************)
(* A leader sends its snapshot to a follower in chunks: recovery_stm on the   *)
(* leader, do_install_snapshot and finish_snapshot on the follower.  The      *)
(* leader may write a newer snapshot at any time, a request may be given up   *)
(* while the follower has still to handle it, and either log moves on.        *)
(*                                                                          *)
(* The contents of a snapshot is its last included index, as it is in the     *)
(* metadata of the file; a file is the sequence of its chunks.  Requests are  *)
(* handled in the order in which they were sent.                              *)
(***************************************************************************)
EXTENDS Naturals, Sequences

CONSTANTS
    LastOffset,    \* dirty offset of the leader
    Chunks,        \* chunks of a snapshot
    MaxAttempts,   \* bound: recoveries
    MaxRestarts    \* bound: restarts of the follower

ASSUME SnapshotAssumption == LastOffset \in Nat \ {0} /\ Chunks \in Nat \ {0}

VARIABLES
    file,        \* the leader's snapshot file: its index
    snapIndex,   \* the leader's _last_snapshot_index
    next, match, \* next_index and match_index of the follower
    rec,         \* the recovery_stm
    queue,       \* install_snapshot requests on their way
    reply,       \* what the follower answered to the request waited for
    fend,        \* the follower's dirty offset
    fsnap,       \* the follower's _last_snapshot_index
    ffile,       \* the follower's snapshot file: its chunks
    writer,      \* _snapshot_writer: the chunks written, <<>> when there is none
    received,    \* _received_snapshot_index and _received_snapshot_bytes
    stale,       \* history: a snapshot older than the last one was loaded
    attempts, restarts

leader == <<file, snapIndex>>
progress == <<next, match>>
follower == <<fend, fsnap, ffile, writer, received, stale>>
bounds == <<attempts, restarts>>
vars == <<leader, progress, rec, queue, reply, follower, bounds>>

NoReader == [at |-> "stopped", content |-> 0, index |-> 0, sent |-> 0]
NoReply == [known |-> FALSE, success |-> FALSE, stored |-> 0]
NotReceived == [index |-> 0, bytes |-> 0]
Larger(a, b) == IF a > b THEN a ELSE b

Init ==
    /\ file = 1 /\ snapIndex = 1
    /\ next = 1 /\ match = 0
    /\ rec = NoReader /\ queue = <<>> /\ reply = NoReply
    /\ fend = 0 /\ fsnap = 0 /\ ffile = <<>> /\ writer = <<>> /\ received = NotReceived
    /\ stale = FALSE
    /\ attempts = 0 /\ restarts = 0

---------------------------------------------------------------------------
\* The leader's snapshot.

\* Mutant: a snapshot older than the last one is written too.
RenameAny ==
    /\ file = snapIndex
    /\ \E i \in 1..LastOffset : file' = i
    /\ UNCHANGED <<snapIndex, progress, rec, queue, reply, follower, bounds>>

\* consensus::do_write_snapshot: the new file takes the place of the old one,
RenameSnapshot ==
    /\ file = snapIndex
    /\ \E i \in snapIndex + 1..LastOffset : file' = i
    /\ UNCHANGED <<snapIndex, progress, rec, queue, reply, follower, bounds>>

\* and then the index is set.
SetSnapshotIndex ==
    /\ file # snapIndex /\ snapIndex' = file
    /\ UNCHANGED <<file, progress, rec, queue, reply, follower, bounds>>

---------------------------------------------------------------------------
\* recovery_stm.

\* A heartbeat that fails starts the recovery from where the follower is.
StartRecovery ==
    /\ rec.at = "stopped" /\ attempts < MaxAttempts /\ fend < LastOffset
    /\ next' = fend + 1
    /\ rec' = [NoReader EXCEPT !.at = "running"] /\ attempts' = attempts + 1
    /\ UNCHANGED <<leader, match, queue, reply, follower, restarts>>

\* Mutant: a snapshot is sent whether the follower needs it or not.
OpenAlways ==
    /\ rec.at = "running"
    /\ rec' = [rec EXCEPT !.at = "opening", !.content = file]
    /\ UNCHANGED <<leader, progress, queue, reply, follower, bounds>>

\* open_current_snapshot: the file is opened,
OpenSnapshot ==
    /\ rec.at = "running" /\ next <= snapIndex
    /\ rec' = [rec EXCEPT !.at = "opening", !.content = file]
    /\ UNCHANGED <<leader, progress, queue, reply, follower, bounds>>

\* and the index is read when that is done.
SnapshotOpened ==
    /\ rec.at = "opening"
    /\ rec' = [rec EXCEPT !.at = "opened", !.index = snapIndex, !.sent = 0]
    /\ UNCHANGED <<leader, progress, queue, reply, follower, bounds>>

SendChunk ==
    /\ rec.at = "opened"
    /\ queue' = Append(queue,
          [index |-> rec.index, offset |-> rec.sent, chunk |-> rec.content,
           done |-> rec.sent + 1 = Chunks])
    /\ rec' = [rec EXCEPT !.at = "waiting", !.sent = @ + 1]
    /\ reply' = NoReply
    /\ UNCHANGED <<leader, progress, follower, bounds>>

\* handle_install_snapshot_reply.
HandleReply ==
    /\ rec.at = "waiting" /\ reply.known
    /\ IF ~reply.success
       THEN rec' = NoReader /\ UNCHANGED progress
       ELSE IF reply.stored # Chunks
       THEN rec' = [rec EXCEPT !.at = "opened"] /\ UNCHANGED progress
       ELSE /\ match' = rec.index /\ next' = rec.index + 1
            /\ rec' = [NoReader EXCEPT !.at = "running"]
    /\ reply' = NoReply
    /\ UNCHANGED <<leader, queue, follower, bounds>>

\* The request times out; it may be lost, or it is handled later.
Timeout ==
    /\ rec.at = "waiting" /\ ~reply.known
    /\ rec' = NoReader
    /\ \/ UNCHANGED queue
       \/ queue # <<>> /\ queue' = SubSeq(queue, 1, Len(queue) - 1)
    /\ UNCHANGED <<leader, progress, reply, follower, bounds>>

\* The log has what the follower needs next: an entry is sent to it.  The append
\* request goes behind the snapshots on their way.
RecoverEntry ==
    /\ rec.at = "running" /\ next > snapIndex
    /\ queue = <<>>
    /\ IF next = fend + 1 /\ next <= LastOffset
       THEN /\ fend' = next /\ next' = next + 1 /\ match' = next
            /\ rec' = rec
       ELSE rec' = NoReader /\ UNCHANGED <<fend, progress>>
    /\ UNCHANGED <<leader, queue, reply, fsnap, ffile, writer, received, stale, bounds>>

---------------------------------------------------------------------------
\* The follower.

\* The reply counts if it answers the request that the leader waits for.
Answer(success, stored) ==
    reply' = IF rec.at = "waiting" /\ Len(queue) = 1
             THEN [known |-> TRUE, success |-> success, stored |-> stored] ELSE reply

\* Mutant: whatever comes is written.
InOrderAlways(r, got) == TRUE

\* The chunk continues what was received.
InOrder(r, got) == r.index = got.index /\ r.offset = got.bytes

\* finish_snapshot and do_hydrate_snapshot: the file replaces the old one and the
\* index in its metadata, which is in its first chunk, is taken.
Finish(r, chunks) ==
    IF r.index < fsnap
    THEN /\ writer' = <<>> /\ Answer(FALSE, 0)
         /\ UNCHANGED <<ffile, fsnap, fend, stale>>
    ELSE /\ ffile' = chunks /\ writer' = <<>>
         /\ fsnap' = chunks[1] /\ stale' = (stale \/ chunks[1] < fsnap)
         /\ fend' = Larger(fend, chunks[1])
         /\ Answer(TRUE, Len(chunks))

\* do_install_snapshot, under _op_lock and _snapshot_lock.
DoInstallSnapshot ==
    LET r == Head(queue)
        started == IF r.offset = 0 THEN <<>> ELSE writer
        got == IF r.offset = 0 THEN [index |-> r.index, bytes |-> 0] ELSE received
        chunks == Append(started, r.chunk)
    IN  /\ queue # <<>> /\ queue' = Tail(queue)
        /\ \/ /\ ~InOrder(r, got)
              /\ writer' = started /\ received' = got /\ Answer(FALSE, 0)
              /\ UNCHANGED <<fend, fsnap, ffile, stale>>
           \/ /\ InOrder(r, got)
              /\ received' = [got EXCEPT !.bytes = @ + 1]
              /\ IF r.done THEN Finish(r, chunks)
                 ELSE /\ writer' = chunks /\ Answer(TRUE, got.bytes + 1)
                      /\ UNCHANGED <<fend, fsnap, ffile, stale>>
    /\ UNCHANGED <<leader, progress, rec, bounds>>

\* consensus::write_snapshot on the follower: its own snapshot of what it has.
FollowerSnapshot ==
    /\ \E i \in fsnap + 1..fend :
         fsnap' = i /\ ffile' = [k \in 1..Chunks |-> i]
    /\ UNCHANGED <<leader, progress, rec, queue, reply, fend, writer, received, stale, bounds>>

\* The follower restarts: partial files are removed, requests are lost.
FollowerRestart ==
    /\ restarts < MaxRestarts /\ restarts' = restarts + 1
    /\ writer' = <<>> /\ received' = NotReceived /\ queue' = <<>>
    /\ UNCHANGED <<leader, progress, rec, reply, fend, fsnap, ffile, stale, attempts>>

Next ==
    \/ RenameSnapshot \/ SetSnapshotIndex
    \/ StartRecovery \/ OpenSnapshot \/ SnapshotOpened \/ SendChunk \/ HandleReply
    \/ Timeout \/ RecoverEntry
    \/ DoInstallSnapshot \/ FollowerSnapshot \/ FollowerRestart

Spec == Init /\ [][Next]_vars

---------------------------------------------------------------------------
\* Properties.

\* Type invariant.
TypeOK ==
    /\ snapIndex <= file /\ file \in 1..LastOffset
    /\ fsnap <= fend /\ fend <= LastOffset
    /\ received.bytes \in 0..Chunks

\* The follower's snapshot file is one snapshot: all of its chunks, of the same
\* contents and of the index that the follower goes by.
InstalledIsWhole ==
    fsnap > 0 => /\ Len(ffile) = Chunks
                 /\ \A k \in 1..Chunks : ffile[k] = fsnap

\* The assertion of do_hydrate_snapshot: no snapshot is loaded that is older than
\* the one the follower has, so what was cut from its log stays covered.
HydratedNotStale == ~stale
=============================================================================
