------------------------ MODULE InstallSnapshotProofs ------------------------
(***************************************************************************)
(* A follower's snapshot is always a whole one and never replaced by an older *)
(* one, for snapshots of any size and any number of recoveries, lost requests *)
(* and restarts.                                                              *)
(***************************************************************************)
EXTENDS InstallSnapshot, TLAPS

\* The types of the variables.
Reader == [at : {"stopped", "running", "opening", "opened", "waiting"},
           content : Nat, index : Nat, sent : Nat]

Request == [index : Nat, offset : Nat, chunk : Nat, done : BOOLEAN]

Types ==
    /\ file \in Nat /\ snapIndex \in Nat /\ next \in Nat /\ match \in Nat
    /\ rec \in Reader /\ queue \in Seq(Request)
    /\ reply \in [known : BOOLEAN, success : BOOLEAN, stored : Nat]
    /\ fend \in Nat /\ fsnap \in Nat /\ ffile \in Seq(Nat) /\ writer \in Seq(Nat)
    /\ received \in [index : Nat, bytes : Nat] /\ stale \in BOOLEAN

\* k chunks of the snapshot with contents c.
Piece(chunks, c, k) == Len(chunks) = k /\ \A i \in 1..k : chunks[i] = c

\* What the follower has received so far is what a reader has sent of c, if it takes
\* the next chunk at all.
Continues(index, c, k) ==
    received.index = index /\ received.bytes = k => Piece(writer, c, k)

\* The leader's snapshots, and the follower's log, which is behind the one that is
\* being read.
OffsetsInv ==
    /\ 1 <= snapIndex /\ snapIndex <= file /\ file <= LastOffset
    /\ fsnap <= fend /\ fend <= LastOffset /\ received.bytes <= Chunks
    /\ rec.at = "running" => fend < next \/ fend <= file
    /\ rec.at \in {"opening", "opened", "waiting"} =>
          fend <= rec.content /\ rec.content <= file

\* The requests on their way are of one snapshot after another; all but the first are
\* the first chunk of theirs.
QueueInv ==
    /\ \A i \in 1..Len(queue) :
          /\ fend <= queue[i].chunk /\ queue[i].chunk <= file /\ queue[i].index >= 1
          /\ queue[i].offset < Chunks
          /\ queue[i].done <=> queue[i].offset + 1 = Chunks
          /\ rec.at \in {"opening", "opened", "waiting"} => queue[i].chunk <= rec.content
          /\ queue[i].offset > 0 =>
                i = 1 /\ Continues(queue[i].index, queue[i].chunk, queue[i].offset)
    /\ \A i, j \in 1..Len(queue) : i <= j => queue[i].chunk <= queue[j].chunk

\* The reader sends a chunk when the one before it is written.
ReaderInv ==
    /\ rec.at \in {"opened", "waiting"} => rec.index >= 1
    /\ rec.at = "opened" =>
          /\ rec.sent < Chunks
          /\ rec.sent > 0 => queue = <<>> /\ Continues(rec.index, rec.content, rec.sent)
    /\ rec.at = "waiting" => rec.sent >= 1 /\ rec.sent <= Chunks
    /\ rec.at = "waiting" /\ queue # <<>> =>
          /\ queue[Len(queue)].index = rec.index /\ queue[Len(queue)].chunk = rec.content
          /\ queue[Len(queue)].offset + 1 = rec.sent
    /\ reply.known =>
          /\ rec.at = "waiting" /\ queue = <<>>
          /\ reply.success =>
                /\ reply.stored = rec.sent
                /\ rec.sent # Chunks => Continues(rec.index, rec.content, rec.sent)

SnapshotInv ==
    /\ Types /\ OffsetsInv /\ QueueInv /\ ReaderInv
    /\ InstalledIsWhole /\ HydratedNotStale

---------------------------------------------------------------------------
\* Sequences and records.

\* The queue without its first request.
LEMMA TailFacts ==
    ASSUME NEW S, NEW q \in Seq(S), q # <<>>
    PROVE  /\ Len(q) \in Nat /\ Len(q) >= 1 /\ Head(q) = q[1] /\ q[1] \in S
           /\ Tail(q) \in Seq(S) /\ Len(Tail(q)) = Len(q) - 1
           /\ \A i \in 1..Len(q) - 1 : Tail(q)[i] = q[i + 1]
  OBVIOUS

\* The queue without its last request.
LEMMA FrontFacts ==
    ASSUME NEW S, NEW q \in Seq(S), q # <<>>
    PROVE  /\ SubSeq(q, 1, Len(q) - 1) \in Seq(S)
           /\ Len(SubSeq(q, 1, Len(q) - 1)) = Len(q) - 1
           /\ \A i \in 1..Len(q) - 1 : SubSeq(q, 1, Len(q) - 1)[i] = q[i]
  <1>1. Len(q) \in Nat /\ Len(q) >= 1
    OBVIOUS
  <1>2. PICK k \in Nat : k = Len(q) - 1
    BY <1>1
  <1>3. k <= Len(q)
    BY <1>1, <1>2
  <1>4. SubSeq(q, 1, k) \in Seq(S) /\ Len(SubSeq(q, 1, k)) = k
    BY <1>3
  <1>5. \A i \in 1..k : SubSeq(q, 1, k)[i] = q[i]
    BY <1>3
  <1> QED
    BY <1>2, <1>4, <1>5, Zenon

\* One request more.
LEMMA AppendFacts ==
    ASSUME NEW S, NEW q \in Seq(S), NEW e \in S
    PROVE  /\ Append(q, e) \in Seq(S) /\ Len(Append(q, e)) = Len(q) + 1
           /\ Len(q) \in Nat /\ Append(q, e)[Len(q) + 1] = e
           /\ \A i \in 1..Len(q) : Append(q, e)[i] = q[i]
  OBVIOUS

\* One chunk more.
LEMMA NextPiece ==
    ASSUME NEW w \in Seq(Nat), NEW c \in Nat, NEW k \in Nat, Piece(w, c, k)
    PROVE  Piece(Append(w, c), c, k + 1) /\ Append(w, c) \in Seq(Nat)
  <1>1. /\ Append(w, c) \in Seq(Nat) /\ Len(Append(w, c)) = k + 1
        /\ Append(w, c)[k + 1] = c /\ \A i \in 1..k : Append(w, c)[i] = w[i]
    BY AppendFacts DEF Piece
  <1>2. \A i \in 1..k : w[i] = c
    BY Zenon DEF Piece
  <1>3. \A i \in 1..k + 1 : i \in 1..k \/ i = k + 1
    OBVIOUS
  <1> QED
    BY <1>1, <1>2, <1>3, Zenon DEF Piece

\* The fields of the reader and of the reply.
LEMMA Fields ==
    ASSUME Types
    PROVE  /\ rec.at \in {"stopped", "running", "opening", "opened", "waiting"}
           /\ rec.content \in Nat /\ rec.index \in Nat /\ rec.sent \in Nat
           /\ reply.known \in BOOLEAN /\ reply.success \in BOOLEAN /\ reply.stored \in Nat
           /\ received.index \in Nat /\ received.bytes \in Nat
           /\ Len(queue) \in Nat
           /\ \A i \in 1..Len(queue) :
                 /\ queue[i] \in Request /\ queue[i].index \in Nat /\ queue[i].offset \in Nat
                 /\ queue[i].chunk \in Nat /\ queue[i].done \in BOOLEAN
  <1>1. \A i \in 1..Len(queue) : queue[i] \in Request
    BY DEF Types
  <1>2. \A q \in Request : /\ q.index \in Nat /\ q.offset \in Nat /\ q.chunk \in Nat
                           /\ q.done \in BOOLEAN
    BY Zenon DEF Request
  <1>3. Len(queue) \in Nat
    BY DEF Types
  <1> QED
    BY <1>1, <1>2, <1>3, Zenon DEF Types, Reader

\* A reader that stands still, or has just started.
LEMMA Readers ==
    /\ NoReader \in Reader /\ NoReader.at = "stopped"
    /\ [NoReader EXCEPT !.at = "running"] \in Reader
    /\ [NoReader EXCEPT !.at = "running"].at = "running"
    /\ NoReply \in [known : BOOLEAN, success : BOOLEAN, stored : Nat]
    /\ ~NoReply.known
  BY Zenon DEF NoReader, Reader, NoReply

---------------------------------------------------------------------------
\* The leader's steps.

\* A newer snapshot, or its index.
LEMMA LeaderSteps ==
    ASSUME SnapshotInv, RenameSnapshot \/ SetSnapshotIndex
    PROVE  SnapshotInv'
  <1>1. Types /\ OffsetsInv /\ QueueInv /\ ReaderInv /\ InstalledIsWhole /\ HydratedNotStale
    BY Zenon DEF SnapshotInv
  <1>2. /\ next' = next /\ match' = match /\ rec' = rec /\ queue' = queue /\ reply' = reply
        /\ fend' = fend /\ fsnap' = fsnap /\ ffile' = ffile /\ writer' = writer
        /\ received' = received /\ stale' = stale
    BY Zenon DEF RenameSnapshot, SetSnapshotIndex, progress, follower
  <1>3. /\ file \in Nat /\ snapIndex \in Nat /\ fend \in Nat
        /\ 1 <= snapIndex /\ snapIndex <= file /\ file <= LastOffset
    BY <1>1, Zenon DEF Types, OffsetsInv
  <1>4. /\ file' \in Nat /\ snapIndex' \in Nat /\ file <= file'
        /\ 1 <= snapIndex' /\ snapIndex' <= file' /\ file' <= LastOffset
    BY <1>3, SnapshotAssumption DEF RenameSnapshot, SetSnapshotIndex
  <1>5. Types'
    BY <1>1, <1>2, <1>4, Zenon DEF Types
  <1>6. OffsetsInv'
    <2>1. rec.content \in Nat
      BY <1>1, Fields, Zenon
    <2> QED
      BY <1>1, <1>2, <1>3, <1>4, <2>1 DEF OffsetsInv
  <1>7. QueueInv'
    <2>1. \A i \in 1..Len(queue) : queue[i].chunk \in Nat
      BY <1>1, Fields, Zenon
    <2>2. \A i \in 1..Len(queue) : queue[i].chunk <= file => queue[i].chunk <= file'
      BY <1>3, <1>4, <2>1
    <2> QED
      BY <1>1, <1>2, <2>2, Zenon DEF QueueInv, Continues
  <1>8. ReaderInv' /\ InstalledIsWhole' /\ HydratedNotStale'
    BY <1>1, <1>2, Zenon DEF ReaderInv, Continues, InstalledIsWhole, HydratedNotStale
  <1> QED
    BY <1>5, <1>6, <1>7, <1>8, Zenon DEF SnapshotInv

\* What the reader does before it sends and after it has stopped.
LEMMA ReaderMoves ==
    ASSUME SnapshotInv, file' = file, snapIndex' = snapIndex, follower' = follower,
           queue' = queue, next' \in Nat, match' \in Nat, rec' \in Reader,
           reply' \in [known : BOOLEAN, success : BOOLEAN, stored : Nat], ~reply'.known,
           rec'.at # "waiting",
           rec'.at = "running" => fend < next' \/ fend <= file,
           rec'.at \in {"opening", "opened"} =>
              /\ fend <= rec'.content /\ rec'.content <= file
              /\ \A i \in 1..Len(queue) : queue[i].chunk <= rec'.content,
           rec'.at = "opened" =>
              /\ rec'.index >= 1 /\ rec'.sent < Chunks
              /\ rec'.sent > 0 => queue = <<>> /\ Continues(rec'.index, rec'.content, rec'.sent)
    PROVE  SnapshotInv'
  <1>1. Types /\ OffsetsInv /\ QueueInv /\ ReaderInv /\ InstalledIsWhole /\ HydratedNotStale
    BY Zenon DEF SnapshotInv
  <1>2. /\ fend' = fend /\ fsnap' = fsnap /\ ffile' = ffile /\ writer' = writer
        /\ received' = received /\ stale' = stale
    BY Zenon DEF follower
  <1>3. Types'
    BY <1>1, <1>2, Zenon DEF Types
  <1>4. OffsetsInv'
    BY <1>1, <1>2, Zenon DEF OffsetsInv
  <1>5. QueueInv'
    BY <1>1, <1>2, Zenon DEF QueueInv, Continues
  <1>6. ReaderInv'
    BY <1>1, <1>2, Zenon DEF ReaderInv, Continues
  <1>7. InstalledIsWhole' /\ HydratedNotStale'
    BY <1>1, <1>2, Zenon DEF InstalledIsWhole, HydratedNotStale
  <1> QED
    BY <1>3, <1>4, <1>5, <1>6, <1>7, Zenon DEF SnapshotInv

\* A recovery starts behind the end of the follower's log.
LEMMA StartStep ==
    ASSUME SnapshotInv, StartRecovery
    PROVE  SnapshotInv'
  <1>1. Types /\ ReaderInv
    BY Zenon DEF SnapshotInv
  <1>2. /\ rec.at = "stopped" /\ next' = fend + 1
        /\ rec' = [NoReader EXCEPT !.at = "running"]
        /\ file' = file /\ snapIndex' = snapIndex /\ match' = match /\ queue' = queue
        /\ reply' = reply /\ follower' = follower
    BY Zenon DEF StartRecovery, leader
  <1>3. rec' \in Reader /\ rec'.at = "running"
    BY <1>2, Readers, Zenon
  <1>4. /\ fend \in Nat /\ next' \in Nat /\ match' \in Nat /\ fend < next'
        /\ reply' \in [known : BOOLEAN, success : BOOLEAN, stored : Nat]
    BY <1>1, <1>2, SMTT(30) DEF Types
  <1>5. ~reply'.known
    BY <1>1, <1>2, Zenon DEF ReaderInv
  <1> QED
    BY <1>2, <1>3, <1>4, <1>5, ReaderMoves, Zenon

\* The snapshot that is opened is not behind the follower's log.
LEMMA OpenStep ==
    ASSUME SnapshotInv, OpenSnapshot
    PROVE  SnapshotInv'
  <1>1. Types /\ ReaderInv /\ OffsetsInv /\ QueueInv
    BY Zenon DEF SnapshotInv
  <1>2. /\ rec.at = "running" /\ next <= snapIndex
        /\ rec' = [rec EXCEPT !.at = "opening", !.content = file]
        /\ file' = file /\ snapIndex' = snapIndex /\ next' = next /\ match' = match
        /\ queue' = queue /\ reply' = reply /\ follower' = follower
    BY Zenon DEF OpenSnapshot, leader, progress
  <1>3. rec \in Reader /\ file \in Nat /\ snapIndex \in Nat /\ next \in Nat /\ fend \in Nat
    BY <1>1, Zenon DEF Types
  <1>4. rec' \in Reader
    BY <1>2, <1>3, Zenon DEF Reader
  <1>5. rec'.at = "opening" /\ rec'.content = file
    BY <1>2, <1>3, Zenon DEF Reader
  <1>6. fend <= file
    BY <1>1, <1>2, <1>3 DEF OffsetsInv
  <1>7. \A i \in 1..Len(queue) : queue[i].chunk <= rec'.content
    BY <1>1, <1>5, Zenon DEF QueueInv
  <1>8. ~reply'.known /\ reply' \in [known : BOOLEAN, success : BOOLEAN, stored : Nat]
        /\ next' \in Nat /\ match' \in Nat
    BY <1>1, <1>2, Zenon DEF ReaderInv, Types
  <1> QED
    BY <1>2, <1>3, <1>4, <1>5, <1>6, <1>7, <1>8, ReaderMoves

\* The index is read.
LEMMA OpenedStep ==
    ASSUME SnapshotInv, SnapshotOpened
    PROVE  SnapshotInv'
  <1>1. Types /\ ReaderInv /\ OffsetsInv /\ QueueInv
    BY Zenon DEF SnapshotInv
  <1>2. /\ rec.at = "opening"
        /\ rec' = [rec EXCEPT !.at = "opened", !.index = snapIndex, !.sent = 0]
        /\ file' = file /\ snapIndex' = snapIndex /\ next' = next /\ match' = match
        /\ queue' = queue /\ reply' = reply /\ follower' = follower
    BY Zenon DEF SnapshotOpened, leader, progress
  <1>3. rec \in Reader /\ snapIndex \in Nat
    BY <1>1, Zenon DEF Types
  <1>4. rec' \in Reader
    BY <1>2, <1>3, Zenon DEF Reader
  <1>5. /\ rec'.at = "opened" /\ rec'.content = rec.content /\ rec'.index = snapIndex
        /\ rec'.sent = 0
    BY <1>2, <1>3, Zenon DEF Reader
  <1>6. fend <= rec.content /\ rec.content <= file /\ snapIndex >= 1 /\ 0 < Chunks
    BY <1>1, <1>2, SnapshotAssumption DEF OffsetsInv, Types
  <1>7. \A i \in 1..Len(queue) : queue[i].chunk <= rec.content
    BY <1>1, <1>2, Zenon DEF QueueInv
  <1>8. ~reply'.known /\ reply' \in [known : BOOLEAN, success : BOOLEAN, stored : Nat]
        /\ next' \in Nat /\ match' \in Nat
    BY <1>1, <1>2, Zenon DEF ReaderInv, Types
  <1> QED
    BY <1>2, <1>4, <1>5, <1>6, <1>7, <1>8, ReaderMoves

\* The reply is that of the last chunk that was sent.
LEMMA HandleReplyStep ==
    ASSUME SnapshotInv, HandleReply
    PROVE  SnapshotInv'
  <1>1. Types /\ ReaderInv /\ OffsetsInv /\ QueueInv
    BY Zenon DEF SnapshotInv
  <1>2. /\ rec.at = "waiting" /\ reply.known
        /\ IF ~reply.success
           THEN rec' = NoReader /\ next' = next /\ match' = match
           ELSE IF reply.stored # Chunks
           THEN rec' = [rec EXCEPT !.at = "opened"] /\ next' = next /\ match' = match
           ELSE /\ match' = rec.index /\ next' = rec.index + 1
                /\ rec' = [NoReader EXCEPT !.at = "running"]
        /\ reply' = NoReply
        /\ file' = file /\ snapIndex' = snapIndex /\ queue' = queue /\ follower' = follower
    BY Zenon DEF HandleReply, leader, progress
  <1>3. /\ rec \in Reader /\ next \in Nat /\ match \in Nat /\ rec.index \in Nat
        /\ rec.sent \in Nat /\ fend \in Nat /\ rec.content \in Nat /\ file \in Nat
    BY <1>1, Fields, Zenon DEF Types
  <1>4. ~reply'.known /\ reply' \in [known : BOOLEAN, success : BOOLEAN, stored : Nat]
    BY <1>2, Readers, Zenon
  <1>5. /\ fend <= rec.content /\ rec.content <= file
        /\ \A i \in 1..Len(queue) : queue[i].chunk <= rec.content
    BY <1>1, <1>2, Zenon DEF OffsetsInv, QueueInv
  <1>6. CASE ~reply.success
    BY <1>2, <1>3, <1>4, <1>6, Readers, ReaderMoves, Zenon
  <1>7. CASE reply.success /\ reply.stored # Chunks
    <2>1. rec' = [rec EXCEPT !.at = "opened"] /\ next' = next /\ match' = match
      BY <1>2, <1>7, Zenon
    <2>2. rec' \in Reader
      BY <1>3, <2>1, Zenon DEF Reader
    <2>3. /\ rec'.at = "opened" /\ rec'.content = rec.content /\ rec'.index = rec.index
          /\ rec'.sent = rec.sent
      BY <1>3, <2>1, Zenon DEF Reader
    <2>4. /\ rec.index >= 1 /\ rec.sent <= Chunks /\ rec.sent # Chunks /\ queue = <<>>
          /\ Continues(rec.index, rec.content, rec.sent)
      BY <1>1, <1>2, <1>7, Zenon DEF ReaderInv
    <2>5. rec.sent < Chunks
      BY <1>3, <2>4, SnapshotAssumption
    <2> QED
      BY <1>2, <1>3, <1>4, <1>5, <2>1, <2>2, <2>3, <2>4, <2>5, ReaderMoves, Zenon
  <1>8. CASE reply.success /\ reply.stored = Chunks
    <2>1. /\ match' = rec.index /\ next' = rec.index + 1
          /\ rec' = [NoReader EXCEPT !.at = "running"]
      BY <1>2, <1>8, Zenon
    <2>2. fend <= file
      BY <1>3, <1>5
    <2>3. match' \in Nat /\ next' \in Nat
      BY <1>3, <2>1
    <2> QED
      BY <1>2, <1>4, <2>1, <2>2, <2>3, Readers, ReaderMoves, Zenon
  <1> QED
    BY <1>6, <1>7, <1>8, Zenon

\* The next chunk goes behind what is on its way.
LEMMA SendStep ==
    ASSUME SnapshotInv, SendChunk
    PROVE  SnapshotInv'
  <1> DEFINE q == [index |-> rec.index, offset |-> rec.sent, chunk |-> rec.content,
                   done |-> rec.sent + 1 = Chunks]
             n == Len(queue)
  <1>1. Types /\ OffsetsInv /\ QueueInv /\ ReaderInv /\ InstalledIsWhole /\ HydratedNotStale
    BY Zenon DEF SnapshotInv
  <1>2. /\ rec.at = "opened" /\ queue' = Append(queue, q)
        /\ rec' = [rec EXCEPT !.at = "waiting", !.sent = @ + 1]
        /\ reply' = NoReply
        /\ file' = file /\ snapIndex' = snapIndex /\ next' = next /\ match' = match
        /\ fend' = fend /\ fsnap' = fsnap /\ ffile' = ffile /\ writer' = writer
        /\ received' = received /\ stale' = stale
    BY Zenon DEF SendChunk, leader, progress, follower
  <1>3. /\ rec \in Reader /\ rec.index \in Nat /\ rec.sent \in Nat /\ rec.content \in Nat
        /\ n \in Nat /\ queue \in Seq(Request) /\ Chunks \in Nat
        /\ \A i \in 1..n : queue[i].chunk \in Nat
    BY <1>1, Fields, SnapshotAssumption, Zenon DEF Types
  <1>4. /\ q \in Request /\ q.index = rec.index /\ q.offset = rec.sent
        /\ q.chunk = rec.content /\ (q.done <=> rec.sent + 1 = Chunks)
    BY <1>3, Zenon DEF Request
  <1> HIDE DEF q
  <1>5. /\ rec'.at = "waiting" /\ rec'.sent = rec.sent + 1 /\ rec'.index = rec.index
        /\ rec'.content = rec.content
    BY <1>2, <1>3, Zenon DEF Reader
  <1>6. rec' \in Reader
    <2>1. rec.sent + 1 \in Nat
      BY <1>3
    <2> QED
      BY <1>2, <1>3, <2>1, Zenon DEF Reader
  <1>7. /\ queue' \in Seq(Request) /\ Len(queue') = n + 1 /\ queue'[n + 1] = q
        /\ \A i \in 1..n : queue'[i] = queue[i]
    BY <1>2, <1>3, <1>4, AppendFacts
  <1>8. /\ rec.index >= 1 /\ rec.sent < Chunks
        /\ rec.sent > 0 => queue = <<>> /\ Continues(rec.index, rec.content, rec.sent)
    BY <1>1, <1>2, Zenon DEF ReaderInv
  <1>9. /\ fend <= rec.content /\ rec.content <= file
        /\ \A i \in 1..n : queue[i].chunk <= rec.content
    BY <1>1, <1>2, Zenon DEF OffsetsInv, QueueInv
  <1> HIDE DEF n
  <1>10. Types'
    BY <1>1, <1>2, <1>6, <1>7, Readers, Zenon DEF Types
  <1>11. OffsetsInv'
    BY <1>1, <1>2, <1>5, <1>9, Zenon DEF OffsetsInv
  <1>12. QueueInv'
    <2>1. ASSUME NEW i \in 1..n + 1
          PROVE  /\ fend <= queue'[i].chunk /\ queue'[i].chunk <= file /\ queue'[i].index >= 1
                 /\ queue'[i].offset < Chunks
                 /\ queue'[i].done <=> queue'[i].offset + 1 = Chunks
                 /\ queue'[i].chunk <= rec.content
                 /\ queue'[i].offset > 0 =>
                       /\ i = 1
                       /\ Continues(queue'[i].index, queue'[i].chunk, queue'[i].offset)
      <3>1. CASE i \in 1..n
        <4>1. queue'[i] = queue[i] /\ queue[i].chunk <= rec.content
          BY <3>1, <1>7, <1>9, Zenon
        <4> QED
          BY <4>1, <3>1, <1>1, Zenon DEF QueueInv, n
      <3>2. CASE i = n + 1
        <4>1. rec.sent > 0 => i = 1
          BY <3>2, <1>8, <1>3 DEF n
        <4> QED
          BY <3>2, <4>1, <1>3, <1>4, <1>7, <1>8, <1>9
      <3> QED
        BY <1>3, <3>1, <3>2
    <2>2. \A i, j \in 1..n + 1 : i <= j => queue'[i].chunk <= queue'[j].chunk
      <3> SUFFICES ASSUME NEW i \in 1..n + 1, NEW j \in 1..n + 1, i <= j
                   PROVE  queue'[i].chunk <= queue'[j].chunk
        BY Zenon
      <3>1. CASE j \in 1..n
        <4>1. i \in 1..n
          BY <1>3, <3>1
        <4> QED
          BY <4>1, <3>1, <1>1, <1>7, Zenon DEF QueueInv, n
      <3>2. CASE j = n + 1
        BY <3>2, <2>1, <1>4, <1>7, Zenon
      <3> QED
        BY <1>3, <3>1, <3>2
    <2> QED
      BY <2>1, <2>2, <1>2, <1>5, <1>7, Zenon DEF QueueInv, Continues
  <1>13. ReaderInv'
    <2>1. queue' # <<>> /\ queue'[Len(queue')] = q
      BY <1>3, <1>7
    <2>2. rec.sent + 1 >= 1 /\ rec.sent + 1 <= Chunks
      BY <1>3, <1>8
    <2>3. ~reply'.known
      BY <1>2, Readers, Zenon
    <2> QED
      BY <2>1, <2>2, <2>3, <1>4, <1>5, <1>8, Zenon DEF ReaderInv
  <1>14. InstalledIsWhole' /\ HydratedNotStale'
    BY <1>1, <1>2, Zenon DEF InstalledIsWhole, HydratedNotStale
  <1> QED
    BY <1>10, <1>11, <1>12, <1>13, <1>14, Zenon DEF SnapshotInv

\* A request is given up, and is perhaps lost.
LEMMA TimeoutStep ==
    ASSUME SnapshotInv, Timeout
    PROVE  SnapshotInv'
  <1> DEFINE n == Len(queue)
  <1>1. Types /\ OffsetsInv /\ QueueInv /\ ReaderInv /\ InstalledIsWhole /\ HydratedNotStale
    BY Zenon DEF SnapshotInv
  <1>2. /\ ~reply.known /\ rec' = NoReader /\ reply' = reply
        /\ file' = file /\ snapIndex' = snapIndex /\ next' = next /\ match' = match
        /\ fend' = fend /\ fsnap' = fsnap /\ ffile' = ffile /\ writer' = writer
        /\ received' = received /\ stale' = stale
        /\ follower' = follower
    BY Zenon DEF Timeout, leader, progress, follower
  <1>3. queue' = queue \/ (queue # <<>> /\ queue' = SubSeq(queue, 1, n - 1))
    BY Zenon DEF Timeout
  <1>4. CASE queue' = queue
    BY <1>1, <1>2, <1>4, Readers, ReaderMoves, Zenon DEF Types
  <1>5. CASE queue # <<>> /\ queue' = SubSeq(queue, 1, n - 1)
    <2>1. n \in Nat /\ queue \in Seq(Request)
      BY <1>1, Fields, Zenon DEF Types
    <2>2. /\ queue' \in Seq(Request) /\ Len(queue') = n - 1
          /\ \A i \in 1..n - 1 : queue'[i] = queue[i]
      BY <1>5, <2>1, FrontFacts, Zenon
    <2>3. \A i \in 1..n - 1 : i \in 1..n
      BY <2>1
    <2>4. Types'
      BY <1>1, <1>2, <2>2, Readers, Zenon DEF Types
    <2>5. OffsetsInv'
      BY <1>1, <1>2, Readers, Zenon DEF OffsetsInv
    <2>6. QueueInv'
      BY <1>1, <1>2, <2>2, <2>3, Readers, SMTT(30) DEF QueueInv, Continues
    <2>7. ReaderInv'
      BY <1>2, Readers, Zenon DEF ReaderInv
    <2>8. InstalledIsWhole' /\ HydratedNotStale'
      BY <1>1, <1>2, Zenon DEF InstalledIsWhole, HydratedNotStale
    <2> QED
      BY <2>4, <2>5, <2>6, <2>7, <2>8, Zenon DEF SnapshotInv
  <1> QED
    BY <1>3, <1>4, <1>5, Zenon

\* The log goes on where the follower's ends.
LEMMA EntryStep ==
    ASSUME SnapshotInv, RecoverEntry
    PROVE  SnapshotInv'
  <1>1. Types /\ OffsetsInv /\ QueueInv /\ ReaderInv /\ InstalledIsWhole /\ HydratedNotStale
    BY Zenon DEF SnapshotInv
  <1>2. /\ rec.at = "running" /\ queue = <<>> /\ queue' = queue /\ reply' = reply
        /\ file' = file /\ snapIndex' = snapIndex /\ fsnap' = fsnap /\ ffile' = ffile
        /\ writer' = writer /\ received' = received /\ stale' = stale
        /\ IF next = fend + 1 /\ next <= LastOffset
           THEN fend' = next /\ next' = next + 1 /\ match' = next /\ rec' = rec
           ELSE rec' = NoReader /\ fend' = fend /\ next' = next /\ match' = match
    BY Zenon DEF RecoverEntry, leader, progress
  <1>3. /\ fend \in Nat /\ next \in Nat /\ fsnap \in Nat /\ match \in Nat /\ rec \in Reader
        /\ fsnap <= fend /\ fend <= LastOffset /\ LastOffset \in Nat
    BY <1>1, SnapshotAssumption, Zenon DEF Types, OffsetsInv
  <1>4. /\ fend' \in Nat /\ next' \in Nat /\ match' \in Nat /\ fsnap <= fend'
        /\ fend' <= LastOffset
        /\ (rec' = rec => fend' < next' \/ (fend' = fend /\ next' = next))
    <2>1. CASE next = fend + 1 /\ next <= LastOffset
      BY <1>2, <1>3, <2>1
    <2>2. CASE ~(next = fend + 1 /\ next <= LastOffset)
      BY <1>2, <1>3, <2>2, Zenon
    <2> QED
      BY <2>1, <2>2, Zenon
  <1>5. rec' \in Reader /\ ((rec'.at = "running" /\ rec' = rec) \/ rec'.at = "stopped")
    BY <1>2, <1>3, Readers, Zenon
  <1>6. Types'
    BY <1>1, <1>2, <1>4, <1>5, Zenon DEF Types
  <1>7. OffsetsInv'
    BY <1>1, <1>2, <1>4, <1>5, Zenon DEF OffsetsInv
  <1>8. QueueInv'
    BY <1>2 DEF QueueInv
  <1>9. ReaderInv'
    BY <1>1, <1>2, <1>5, Zenon DEF ReaderInv
  <1>10. InstalledIsWhole' /\ HydratedNotStale'
    BY <1>1, <1>2, Zenon DEF InstalledIsWhole, HydratedNotStale
  <1> QED
    BY <1>6, <1>7, <1>8, <1>9, <1>10, Zenon DEF SnapshotInv

---------------------------------------------------------------------------
\* The follower's steps.

\* A snapshot of its own is a whole one of what it has.
LEMMA FollowerSnapshotStep ==
    ASSUME SnapshotInv, FollowerSnapshot
    PROVE  SnapshotInv'
  <1>1. Types /\ OffsetsInv /\ QueueInv /\ ReaderInv /\ HydratedNotStale
    BY Zenon DEF SnapshotInv
  <1>2. /\ file' = file /\ snapIndex' = snapIndex /\ next' = next /\ match' = match
        /\ rec' = rec /\ queue' = queue /\ reply' = reply /\ fend' = fend
        /\ writer' = writer /\ received' = received /\ stale' = stale
    BY Zenon DEF FollowerSnapshot, leader, progress
  <1>3. PICK i \in fsnap + 1..fend : fsnap' = i /\ ffile' = [k \in 1..Chunks |-> i]
    BY Zenon DEF FollowerSnapshot
  <1>4. fend \in Nat /\ fsnap \in Nat /\ Chunks \in Nat
    BY <1>1, SnapshotAssumption, Zenon DEF Types
  <1>5. i \in Nat /\ i <= fend
    BY <1>3, <1>4
  <1>6. ffile' \in Seq(Nat) /\ Len(ffile') = Chunks /\ \A k \in 1..Chunks : ffile'[k] = i
    BY <1>3, <1>4, <1>5
  <1>7. Types'
    BY <1>1, <1>2, <1>3, <1>5, <1>6, Zenon DEF Types
  <1>8. OffsetsInv'
    BY <1>1, <1>2, <1>3, <1>5, Zenon DEF OffsetsInv
  <1>9. QueueInv'
    BY <1>1, <1>2, Zenon DEF QueueInv, Continues
  <1>10. ReaderInv'
    BY <1>1, <1>2, Zenon DEF ReaderInv, Continues
  <1>11. InstalledIsWhole' /\ HydratedNotStale'
    BY <1>1, <1>2, <1>3, <1>6, Zenon DEF InstalledIsWhole, HydratedNotStale
  <1> QED
    BY <1>7, <1>8, <1>9, <1>10, <1>11, Zenon DEF SnapshotInv

\* After a restart nothing continues what was received before it.
LEMMA RestartStep ==
    ASSUME SnapshotInv, FollowerRestart
    PROVE  SnapshotInv'
  <1>1. Types /\ OffsetsInv /\ QueueInv /\ ReaderInv /\ InstalledIsWhole /\ HydratedNotStale
    BY Zenon DEF SnapshotInv
  <1>2. /\ file' = file /\ snapIndex' = snapIndex /\ next' = next /\ match' = match
        /\ rec' = rec /\ reply' = reply /\ fend' = fend /\ fsnap' = fsnap /\ ffile' = ffile
        /\ stale' = stale /\ writer' = <<>> /\ received' = NotReceived /\ queue' = <<>>
    BY Zenon DEF FollowerRestart, leader, progress
  <1>3. /\ received' \in [index : Nat, bytes : Nat] /\ received'.index = 0
        /\ received'.bytes = 0
    BY <1>2, Zenon DEF NotReceived
  <1>4. Types'
    BY <1>1, <1>2, <1>3 DEF Types
  <1>5. OffsetsInv'
    BY <1>1, <1>2, <1>3, SnapshotAssumption DEF OffsetsInv
  <1>6. QueueInv'
    BY <1>2 DEF QueueInv
  <1>7. ReaderInv'
    BY <1>1, <1>2, <1>3 DEF ReaderInv, Continues
  <1>8. InstalledIsWhole' /\ HydratedNotStale'
    BY <1>1, <1>2, Zenon DEF InstalledIsWhole, HydratedNotStale
  <1> QED
    BY <1>4, <1>5, <1>6, <1>7, <1>8, Zenon DEF SnapshotInv

\* What a request leaves behind: chunks that are a piece of its snapshot, and, with
\* the last of them, the whole of it.
LEMMA Installed ==
    ASSUME SnapshotInv, DoInstallSnapshot
    PROVE  LET r == queue[1]
           IN  /\ writer' \in Seq(Nat) /\ received' \in [index : Nat, bytes : Nat]
               /\ received'.bytes <= Chunks
               /\ fend' = fend \/ (fend' = r.chunk /\ fend <= fend')
               /\ fsnap' \in Nat /\ fsnap' <= fend' /\ ffile' \in Seq(Nat)
               /\ InstalledIsWhole' /\ stale' = FALSE
               /\ \/ reply' = reply
                  \/ /\ rec.at = "waiting" /\ Len(queue) = 1
                     /\ reply' \in [known : BOOLEAN, success : BOOLEAN, stored : Nat]
                     /\ reply'.success =>
                           /\ reply'.stored = r.offset + 1
                           /\ r.offset + 1 # Chunks =>
                                 Piece(writer', r.chunk, r.offset + 1)
  <1> DEFINE r == queue[1]
             started == IF r.offset = 0 THEN <<>> ELSE writer
             got == IF r.offset = 0 THEN [index |-> r.index, bytes |-> 0] ELSE received
             chunks == Append(started, r.chunk)
             Replies(b, k) ==
                \/ reply' = reply
                \/ /\ rec.at = "waiting" /\ Len(queue) = 1
                   /\ reply' = [known |-> TRUE, success |-> b, stored |-> k]
  <1>1. Types /\ OffsetsInv /\ QueueInv /\ ReaderInv /\ InstalledIsWhole /\ HydratedNotStale
    BY Zenon DEF SnapshotInv
  <1>2. queue # <<>> /\ queue \in Seq(Request) /\ Head(queue) = queue[1] /\ 1 \in 1..Len(queue)
    <2>1. queue # <<>> /\ queue \in Seq(Request)
      BY <1>1, Zenon DEF DoInstallSnapshot, Types
    <2> QED
      BY <2>1, TailFacts
  <1>3. \/ /\ ~InOrder(r, got)
           /\ writer' = started /\ received' = got /\ Answer(FALSE, 0)
           /\ fend' = fend /\ fsnap' = fsnap /\ ffile' = ffile /\ stale' = stale
        \/ /\ InOrder(r, got)
           /\ received' = [got EXCEPT !.bytes = @ + 1]
           /\ IF r.done THEN Finish(r, chunks)
              ELSE /\ writer' = chunks /\ Answer(TRUE, got.bytes + 1)
                   /\ fend' = fend /\ fsnap' = fsnap /\ ffile' = ffile /\ stale' = stale
    BY <1>2, Zenon DEF DoInstallSnapshot
  <1>4. /\ r.index \in Nat /\ r.offset \in Nat /\ r.chunk \in Nat /\ r.done \in BOOLEAN
        /\ fend <= r.chunk /\ r.offset < Chunks /\ (r.done <=> r.offset + 1 = Chunks)
        /\ (r.offset > 0 => Continues(r.index, r.chunk, r.offset))
    <2>1. /\ r.index \in Nat /\ r.offset \in Nat /\ r.chunk \in Nat /\ r.done \in BOOLEAN
      BY <1>1, <1>2, Fields, Zenon
    <2> QED
      BY <2>1, <1>1, <1>2, Zenon DEF QueueInv
  <1>5. /\ writer \in Seq(Nat) /\ received \in [index : Nat, bytes : Nat]
        /\ received.bytes <= Chunks /\ Chunks \in Nat
        /\ fend \in Nat /\ fsnap \in Nat /\ fsnap <= fend /\ ffile \in Seq(Nat)
        /\ stale = FALSE
    BY <1>1, SnapshotAssumption, Zenon DEF Types, OffsetsInv, HydratedNotStale
  <1>6. started \in Seq(Nat)
    BY <1>5
  <1>7. got \in [index : Nat, bytes : Nat] /\ got.bytes <= Chunks
        /\ (r.offset = 0 => got.bytes = 0) /\ (r.offset # 0 => got = received)
    BY <1>4, <1>5
  <1>8. ASSUME InOrder(r, got)
        PROVE  /\ got.bytes = r.offset /\ Piece(started, r.chunk, r.offset)
    <2>1. got.index = r.index /\ got.bytes = r.offset
      BY <1>8, Zenon DEF InOrder
    <2>2. CASE r.offset = 0
      BY <2>1, <2>2 DEF Piece
    <2>3. CASE r.offset # 0
      <3>1. started = writer /\ got = received /\ r.offset > 0
        BY <1>4, <2>3
      <3> QED
        BY <2>1, <3>1, <1>4, Zenon DEF Continues
    <2> QED
      BY <2>2, <2>3, Zenon
  <1>9. ASSUME NEW b \in BOOLEAN, NEW k \in Nat, Answer(b, k)
        PROVE  Replies(b, k)
    BY <1>9, Zenon DEF Answer
  <1>10. \A b \in BOOLEAN, k \in Nat :
            LET a == [known |-> TRUE, success |-> b, stored |-> k]
            IN  /\ a \in [known : BOOLEAN, success : BOOLEAN, stored : Nat]
                /\ a.success = b /\ a.stored = k
    BY Zenon
  <1> HIDE DEF got, started, r
  <1>11. CASE ~InOrder(r, got)
    <2>1. /\ writer' = started /\ received' = got /\ Answer(FALSE, 0)
          /\ fend' = fend /\ fsnap' = fsnap /\ ffile' = ffile /\ stale' = stale
      BY <1>3, <1>11, Zenon
    <2>2. Replies(FALSE, 0)
      BY <2>1, <1>9, Zenon
    <2>3. InstalledIsWhole'
      BY <1>1, <2>1, Zenon DEF InstalledIsWhole
    <2> QED
      BY <2>1, <2>2, <2>3, <1>5, <1>6, <1>7, <1>10, ZenonT(40) DEF r
  <1>12. CASE InOrder(r, got)
    <2>1. /\ received' = [got EXCEPT !.bytes = @ + 1]
          /\ IF r.done THEN Finish(r, chunks)
             ELSE /\ writer' = chunks /\ Answer(TRUE, got.bytes + 1)
                  /\ fend' = fend /\ fsnap' = fsnap /\ ffile' = ffile /\ stale' = stale
      BY <1>3, <1>12, Zenon
    <2>2. got.bytes = r.offset /\ Piece(started, r.chunk, r.offset)
      BY <1>8, <1>12, Zenon
    <2>3. chunks \in Seq(Nat) /\ Piece(chunks, r.chunk, r.offset + 1)
      BY <1>4, <1>6, <2>2, NextPiece, Zenon
    <2>4. received' \in [index : Nat, bytes : Nat] /\ received'.bytes <= Chunks
      <3>1. got.bytes + 1 \in Nat /\ got.bytes + 1 <= Chunks
        BY <2>2, <1>4, <1>5
      <3> QED
        BY <3>1, <2>1, <1>7, Zenon
    <2>5. r.offset + 1 \in Nat
      BY <1>4
    <2> HIDE DEF chunks
    <2>6. CASE ~r.done
      <3>1. /\ writer' = chunks /\ Answer(TRUE, r.offset + 1)
            /\ fend' = fend /\ fsnap' = fsnap /\ ffile' = ffile /\ stale' = stale
        BY <2>1, <2>2, <2>6, Zenon
      <3>2. Replies(TRUE, r.offset + 1)
        BY <3>1, <2>5, <1>9, Zenon
      <3>3. InstalledIsWhole'
        BY <1>1, <3>1, Zenon DEF InstalledIsWhole
      <3> QED
        BY <3>1, <3>2, <3>3, <2>3, <2>4, <2>5, <1>5, <1>10, Zenon DEF r
    <2>7. CASE r.done
      <3>1. r.offset + 1 = Chunks /\ Finish(r, chunks)
        BY <1>4, <2>1, <2>7, Zenon
      <3>2. CASE r.index < fsnap
        <4>1. /\ writer' = <<>> /\ Answer(FALSE, 0)
              /\ fend' = fend /\ fsnap' = fsnap /\ ffile' = ffile /\ stale' = stale
          BY <3>1, <3>2, Zenon DEF Finish
        <4>2. Replies(FALSE, 0)
          BY <4>1, <1>9, Zenon
        <4>3. InstalledIsWhole'
          BY <1>1, <4>1, Zenon DEF InstalledIsWhole
        <4>4. writer' \in Seq(Nat)
          BY <4>1
        <4>5. \/ reply' = reply
              \/ /\ rec.at = "waiting" /\ Len(queue) = 1 /\ ~reply'.success
                 /\ reply' \in [known : BOOLEAN, success : BOOLEAN, stored : Nat]
          BY <4>2, <1>10, ZenonT(40)
        <4> HIDE DEF Replies
        <4> QED
          BY <4>1, <4>3, <4>4, <4>5, <2>4, <1>5, Zenon DEF r
      <3>3. CASE ~(r.index < fsnap)
        <4>1. /\ writer' = <<>> /\ ffile' = chunks /\ fsnap' = chunks[1]
              /\ stale' = (stale \/ chunks[1] < fsnap)
              /\ fend' = Larger(fend, chunks[1]) /\ Answer(TRUE, Len(chunks))
          BY <3>1, <3>3, Zenon DEF Finish
        <4>2. /\ Len(chunks) = Chunks /\ chunks[1] = r.chunk
              /\ \A i \in 1..Chunks : chunks[i] = r.chunk
          BY <2>3, <3>1, <1>5, <1>4, SMTT(30) DEF Piece
        <4>3. Replies(TRUE, r.offset + 1)
          BY <4>1, <4>2, <3>1, <2>5, <1>9, Zenon
        <4>4. InstalledIsWhole'
          BY <4>1, <4>2, Zenon DEF InstalledIsWhole
        <4>5. ~(chunks[1] < fsnap)
          BY <4>2, <1>4, <1>5, SMTT(30)
        <4>6. fend' = r.chunk /\ fend <= fend' /\ fsnap' \in Nat /\ fsnap' <= fend'
          BY <4>1, <4>2, <1>4, <1>5, SMTT(30) DEF Larger
        <4>7. stale' = FALSE
          BY <4>1, <4>5, <1>5, Zenon
        <4>8. writer' \in Seq(Nat) /\ ffile' \in Seq(Nat)
          BY <4>1, <2>3
        <4>9. \/ reply' = reply
              \/ /\ rec.at = "waiting" /\ Len(queue) = 1 /\ reply'.stored = r.offset + 1
                 /\ reply' \in [known : BOOLEAN, success : BOOLEAN, stored : Nat]
          BY <4>3, <1>10, <2>5, Zenon
        <4> HIDE DEF Replies
        <4> QED
          BY <4>4, <4>6, <4>7, <4>8, <4>9, <3>1, <2>4, Zenon DEF r
      <3> QED
        BY <3>2, <3>3, Zenon
    <2> QED
      BY <2>6, <2>7, Zenon
  <1> QED
    BY <1>11, <1>12, Zenon

\* The requests behind the one that is handled are of snapshots that are as new.
LEMMA InstallStep ==
    ASSUME SnapshotInv, DoInstallSnapshot
    PROVE  SnapshotInv'
  <1> DEFINE r == queue[1]
             n == Len(queue)
  <1>1. Types /\ OffsetsInv /\ QueueInv /\ ReaderInv /\ InstalledIsWhole /\ HydratedNotStale
    BY Zenon DEF SnapshotInv
  <1>2. /\ queue # <<>> /\ queue' = Tail(queue) /\ rec' = rec
        /\ file' = file /\ snapIndex' = snapIndex /\ next' = next /\ match' = match
    BY Zenon DEF DoInstallSnapshot, leader, progress
  <1>3. /\ queue \in Seq(Request) /\ fend \in Nat /\ fsnap \in Nat /\ file \in Nat
        /\ rec.content \in Nat /\ rec.sent \in Nat
        /\ \A i \in 1..n : queue[i].chunk \in Nat /\ queue[i].offset \in Nat
    BY <1>1, Fields, Zenon DEF Types
  <1>4. /\ n \in Nat /\ n >= 1 /\ queue' \in Seq(Request) /\ Len(queue') = n - 1
        /\ \A i \in 1..n - 1 : queue'[i] = queue[i + 1]
    BY <1>2, <1>3, TailFacts, Zenon
  <1>5. /\ writer' \in Seq(Nat) /\ received' \in [index : Nat, bytes : Nat]
        /\ received'.bytes <= Chunks
        /\ fend' = fend \/ (fend' = r.chunk /\ fend <= fend')
        /\ fsnap' \in Nat /\ fsnap' <= fend' /\ ffile' \in Seq(Nat)
        /\ InstalledIsWhole' /\ stale' = FALSE
        /\ \/ reply' = reply
           \/ /\ rec.at = "waiting" /\ n = 1
              /\ reply' \in [known : BOOLEAN, success : BOOLEAN, stored : Nat]
              /\ reply'.success =>
                    /\ reply'.stored = r.offset + 1
                    /\ r.offset + 1 # Chunks => Piece(writer', r.chunk, r.offset + 1)
    BY Installed, Zenon
  <1>6. \A i \in 1..n - 1 : i + 1 \in 1..n /\ i + 1 # 1
    BY <1>4
  <1>7. 1 \in 1..n /\ r.chunk \in Nat /\ r.chunk <= file
        /\ (rec.at \in {"opening", "opened", "waiting"} => r.chunk <= rec.content)
    BY <1>1, <1>3, <1>4 DEF QueueInv
  <1>8. /\ fend' \in Nat /\ \A i \in 1..n : fend' <= queue[i].chunk
    BY <1>1, <1>3, <1>5, <1>7, SMTT(30) DEF QueueInv
  <1> HIDE DEF n
  <1>9. Types'
    BY <1>1, <1>2, <1>4, <1>5, <1>8, Zenon DEF Types
  <1>10. OffsetsInv'
    <2>1. file <= LastOffset /\ fend <= LastOffset /\ LastOffset \in Nat /\ next \in Nat
      BY <1>1, SnapshotAssumption, Zenon DEF OffsetsInv, Types
    <2>2. fend' <= LastOffset /\ (fend' = fend \/ fend' <= file)
      BY <2>1, <1>3, <1>5, <1>7, SMTT(30)
    <2>3. rec.at \in {"opening", "opened", "waiting"} =>
             fend' <= rec.content /\ rec.content <= file
      BY <1>1, <1>3, <1>5, <1>7, Zenon DEF OffsetsInv
    <2> QED
      BY <2>2, <2>3, <1>1, <1>2, <1>3, <1>5, Zenon DEF OffsetsInv
  <1>11. QueueInv'
    <2>1. ASSUME NEW i \in 1..n - 1
          PROVE  /\ fend' <= queue'[i].chunk /\ queue'[i].chunk <= file
                 /\ queue'[i].index >= 1 /\ queue'[i].offset < Chunks
                 /\ queue'[i].done <=> queue'[i].offset + 1 = Chunks
                 /\ rec.at \in {"opening", "opened", "waiting"} =>
                       queue'[i].chunk <= rec.content
                 /\ ~(queue'[i].offset > 0)
      BY <1>1, <1>4, <1>6, <1>8, SMTT(30) DEF QueueInv, n
    <2>2. \A i, j \in 1..n - 1 : i <= j => queue'[i].chunk <= queue'[j].chunk
      <3> SUFFICES ASSUME NEW i \in 1..n - 1, NEW j \in 1..n - 1, i <= j
                   PROVE  queue'[i].chunk <= queue'[j].chunk
        BY Zenon
      <3>1. i + 1 \in 1..n /\ j + 1 \in 1..n /\ i + 1 <= j + 1
        BY <1>4
      <3> QED
        BY <3>1, <1>1, <1>4, Zenon DEF QueueInv, n
    <2> QED
      BY <2>1, <2>2, <1>2, <1>4, Zenon DEF QueueInv
  <1>12. ReaderInv'
    <2>1. ~reply.known
      BY <1>1, <1>2, Zenon DEF ReaderInv
    <2>2. rec.at = "opened" => ~(rec.sent > 0)
      BY <1>1, <1>2, Zenon DEF ReaderInv
    <2>3. queue' # <<>> => queue'[Len(queue')] = queue[n]
      <3> SUFFICES ASSUME queue' # <<>>
                   PROVE  queue'[Len(queue')] = queue[n]
        BY Zenon
      <3>1. Len(queue') >= 1
        BY <1>4
      <3>2. n - 1 \in 1..n - 1 /\ n - 1 + 1 = n
        BY <1>4, <3>1
      <3> QED
        BY <1>4, <3>2, Zenon
    <2>4. reply'.known =>
            /\ rec.at = "waiting" /\ queue' = <<>>
            /\ reply'.success =>
                  /\ reply'.stored = rec.sent
                  /\ rec.sent # Chunks => Piece(writer', rec.content, rec.sent)
      <3> SUFFICES ASSUME reply'.known
                   PROVE  /\ rec.at = "waiting" /\ queue' = <<>>
                          /\ reply'.success =>
                                /\ reply'.stored = rec.sent
                                /\ rec.sent # Chunks => Piece(writer', rec.content, rec.sent)
        BY Zenon
      <3>1. rec.at = "waiting" /\ n = 1
        BY <2>1, <1>5, Zenon
      <3>2. queue' = <<>>
        BY <3>1, <1>4
      <3>3. r.chunk = rec.content /\ r.offset + 1 = rec.sent
        BY <3>1, <1>1, <1>2, Zenon DEF ReaderInv, n
      <3> QED
        BY <3>1, <3>2, <3>3, <2>1, <1>5, Zenon
    <2> QED
      BY <2>2, <2>3, <2>4, <1>1, <1>2, Zenon DEF ReaderInv, Continues, n
  <1> QED
    BY <1>5, <1>9, <1>10, <1>11, <1>12, Zenon DEF SnapshotInv, HydratedNotStale

---------------------------------------------------------------------------
\* The theorems.

\* The invariant holds at first.
LEMMA InitSnapshotInv ==
    ASSUME Init
    PROVE  SnapshotInv
  <1>1. /\ file = 1 /\ snapIndex = 1 /\ next = 1 /\ match = 0 /\ rec = NoReader
        /\ queue = <<>> /\ reply = NoReply /\ fend = 0 /\ fsnap = 0 /\ ffile = <<>>
        /\ writer = <<>> /\ received = NotReceived /\ stale = FALSE
    BY Zenon DEF Init
  <1>2. received \in [index : Nat, bytes : Nat] /\ received.bytes = 0
    BY <1>1, Zenon DEF NotReceived
  <1>3. Types
    <2>1. /\ queue \in Seq(Request) /\ ffile \in Seq(Nat) /\ writer \in Seq(Nat)
          /\ stale \in BOOLEAN
      <3>1. <<>> \in Seq(Request) /\ <<>> \in Seq(Nat)
        OBVIOUS
      <3> QED
        BY <1>1, <3>1, Zenon
    <2>2. rec \in Reader /\ reply \in [known : BOOLEAN, success : BOOLEAN, stored : Nat]
      BY <1>1, Readers, Zenon
    <2> QED
      BY <1>1, <1>2, <2>1, <2>2, Zenon DEF Types
  <1>4. OffsetsInv
    BY <1>1, <1>2, Readers, SnapshotAssumption DEF OffsetsInv
  <1>5. QueueInv
    BY <1>1 DEF QueueInv
  <1>6. ReaderInv
    BY <1>1, Readers, Zenon DEF ReaderInv
  <1> QED
    BY <1>1, <1>3, <1>4, <1>5, <1>6 DEF SnapshotInv, InstalledIsWhole, HydratedNotStale

\* Steps that change nothing of the protocol.
LEMMA SnapshotStutter ==
    ASSUME SnapshotInv, UNCHANGED vars
    PROVE  SnapshotInv'
  <1>1. /\ file' = file /\ snapIndex' = snapIndex /\ next' = next /\ match' = match
        /\ rec' = rec /\ queue' = queue /\ reply' = reply /\ fend' = fend /\ fsnap' = fsnap
        /\ ffile' = ffile /\ writer' = writer /\ received' = received /\ stale' = stale
    BY Zenon DEF vars, leader, progress, follower
  <1>2. Types' /\ OffsetsInv'
    BY <1>1, Zenon DEF SnapshotInv, Types, OffsetsInv
  <1>3. QueueInv' /\ ReaderInv'
    BY <1>1, Zenon DEF SnapshotInv, QueueInv, ReaderInv, Continues
  <1> QED
    BY <1>1, <1>2, <1>3, Zenon DEF SnapshotInv, InstalledIsWhole, HydratedNotStale

\* The requests on their way are sorted by snapshot and none is behind the follower's
\* log, and a chunk that is taken continues chunks of the same snapshot.
THEOREM SnapshotInvariant == Spec => []SnapshotInv
  <1>1. Init => SnapshotInv
    BY InitSnapshotInv, Zenon
  <1>2. SnapshotInv /\ [Next]_vars => SnapshotInv'
    <2> SUFFICES ASSUME SnapshotInv, [Next]_vars
                 PROVE  SnapshotInv'
      BY Zenon
    <2>1. CASE RenameSnapshot \/ SetSnapshotIndex
      BY <2>1, LeaderSteps, Zenon
    <2>2. CASE StartRecovery
      BY <2>2, StartStep, Zenon
    <2>3. CASE OpenSnapshot
      BY <2>3, OpenStep, Zenon
    <2>4. CASE SnapshotOpened
      BY <2>4, OpenedStep, Zenon
    <2>5. CASE SendChunk
      BY <2>5, SendStep, Zenon
    <2>6. CASE HandleReply
      BY <2>6, HandleReplyStep, Zenon
    <2>7. CASE Timeout
      BY <2>7, TimeoutStep, Zenon
    <2>8. CASE RecoverEntry
      BY <2>8, EntryStep, Zenon
    <2>9. CASE DoInstallSnapshot
      BY <2>9, InstallStep, Zenon
    <2>10. CASE FollowerSnapshot
      BY <2>10, FollowerSnapshotStep, Zenon
    <2>11. CASE FollowerRestart
      BY <2>11, RestartStep, Zenon
    <2>12. CASE UNCHANGED vars
      BY <2>12, SnapshotStutter, Zenon
    <2> QED
      BY <2>1, <2>2, <2>3, <2>4, <2>5, <2>6, <2>7, <2>8, <2>9, <2>10, <2>11, <2>12, Zenon DEF Next
  <1> QED
    BY <1>1, <1>2, PTL DEF Spec

\* However the leader's snapshot changes while it is read, and whichever requests are
\* late or lost, the file that finish_snapshot puts in place is all of one snapshot.
THEOREM SnapshotsWhole == Spec => []InstalledIsWhole
  <1>1. SnapshotInv => InstalledIsWhole
    BY Zenon DEF SnapshotInv
  <1> QED
    BY <1>1, SnapshotInvariant, PTL

\* The assertion of do_hydrate_snapshot never fails.
THEOREM NoStaleSnapshot == Spec => []HydratedNotStale
  <1>1. SnapshotInv => HydratedNotStale
    BY Zenon DEF SnapshotInv
  <1> QED
    BY <1>1, SnapshotInvariant, PTL
=============================================================================
