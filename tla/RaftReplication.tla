--------------------------- MODULE RaftReplication ---------------------------
(***************************************************************************)
(* Log replication of a Redpanda Raft group (src/v/raft): replication by    *)
(* the leader (replicate_batcher, replicate_entries_stm), the append         *)
(* entries handler behind its buffer (append_entries_buffer,                 *)
(* consensus::do_append_entries), the reply handler and the follower         *)
(* indices (consensus::update_follower_index), follower recovery             *)
(* (recovery_stm), heartbeats, lazy log flushing, the commit index, and      *)
(* crashes that lose what was not flushed.                                   *)
(*                                                                         *)
(* Log offsets count from 1; 0 stands for the unset model::offset{}.  An     *)
(* entry is the term it was written in: the leader of a term writes at most  *)
(* one entry at an offset.  Elections are those of RaftElection without      *)
(* prevotes and priorities: any node may stand, a voter answers in one step. *)
(***************************************************************************)
EXTENDS Integers, Sequences, FiniteSets

CONSTANTS
    Node,        \* the voters of the group
    Nil,         \* an empty vnode
    InOrder,     \* requests of a leader reach do_append_entries in sending order
    LateReplies, \* a reply may be processed in a later leadership of the leader
    Candidates,  \* bound: the nodes that may stand in each term
    Voters,      \* bound: the nodes that answer vote requests in each term
    Levels,      \* bound: whether writes are flushed (quorum_ack) or not
    Timers,      \* bound: the timers that fire, of the three below
    Flaky,       \* bound: nodes with which RPCs may fail, late or lost
    Crashable,   \* bound: nodes that may crash
    MaxLog,      \* bound: entries in a log
    MaxSeq,      \* bound: requests a leader sends to a follower in a term
    MaxRpc,      \* bound: requests and replies in flight
    MaxBatch,    \* bound: requests that a buffer hands over at once (1 or 2)
    MaxCrash     \* bound: crashes

ASSUME NodeAssumption == IsFiniteSet(Node) /\ Nil \notin Node
ASSUME SwitchAssumption == InOrder \in BOOLEAN /\ LateReplies \in BOOLEAN
ASSUME BoundAssumption ==
    /\ Candidates \in Seq(SUBSET Node) /\ Voters \in Seq(SUBSET Node)
    /\ Len(Candidates) <= Len(Voters)
    /\ Timers \subseteq {"flush", "heartbeat", "step_down"}
    /\ Levels \subseteq BOOLEAN
    /\ \A S \in {Flaky, Crashable} : S \subseteq Node
    /\ {MaxLog, MaxSeq, MaxRpc, MaxBatch, MaxCrash} \subseteq Nat

VARIABLES
    term,      \* consensus::_term
    votedFor,  \* consensus::_voted_for
    kv,        \* the voted_for record in the key-value store
    vstate,    \* consensus::_vstate
    votes,     \* votes a candidate has collected
    log,       \* the log, a sequence of terms; its length is dirty_offset
    flushed,   \* consensus::_flushed_offset
    flushing,  \* offsets captured by the calls of flush_log in progress
    commit,    \* consensus::_commit_index
    fstats,    \* consensus::_fstats
    held,      \* replies append_entries_buffer holds, and the flush they await
    rpcs,      \* append_entries requests and replies in flight
    waiting,   \* writes that wait for a majority (wait_for_majority)
    crashes,   \* number of crashes so far
    chosen,    \* history: entries that some leader counted as committed
    rewritten, \* history: nodes that truncated what they had flushed and what
               \* the request brought them again
    acked      \* history: writes whose success was reported to the client

election == <<votedFor, kv, vstate, votes>>
storage == <<log, flushed, flushing>>
client == <<waiting, acked>>
history == <<crashes, chosen, rewritten>>
vars == <<term, votedFor, kv, vstate, votes, log, flushed, flushing, commit,
          fstats, held, rpcs, waiting, crashes, chosen, rewritten,
          acked>>

---------------------------------------------------------------------------
\* Data.

Term == Nat
Offset == Nat
FollowerIndex ==
    [dirty : Offset, flushed : Offset, match : Offset, next : Offset,
     expectedEnd : Offset, sent : Nat, received : Nat, recovering : BOOLEAN,
     recoveryTerm : Term, base : Offset, committed : Offset]

\* follower_index_metadata::reset, which does not clear is_recovering.
Reset(idx) ==
    [idx EXCEPT !.dirty = 0, !.flushed = 0, !.match = 0, !.next = 0,
                !.expectedEnd = 0, !.sent = 0, !.received = 0]
ResetAll(stats) == [f \in Node |-> Reset(stats[f])]

NewIndex ==
    [dirty |-> 0, flushed |-> 0, match |-> 0, next |-> 0, expectedEnd |-> 0,
     sent |-> 0, received |-> 0, recovering |-> FALSE, recoveryTerm |-> 0,
     base |-> 0, committed |-> 0]

Kind == {"replicate", "recovery", "heartbeat"}

\* What the fiber that waits for a reply remembers: the term in which it sent
\* the request, its sequence number, the leader's log end, and the first offset
\* sent.  "open" is cleared when the fiber gives up waiting.
Request ==
    [type : {"request"}, from : Node, to : Node, kind : Kind, term : Term,
     seq : Nat, upTo : Offset, base : Offset, prev : Offset, prevTerm : Term,
     entries : Seq(Term), commit : Offset, flush : BOOLEAN, open : BOOLEAN]
Reply ==
    [type : {"reply"}, from : Node, to : Node, kind : Kind, sentIn : Term,
     seq : Nat, upTo : Offset, base : Offset, term : Term, success : BOOLEAN,
     dirty : Offset, flushed : Offset]

Requests == {m \in rpcs : m.type = "request"}

Least(a, b) == IF a <= b THEN a ELSE b
Most(a, b) == IF a >= b THEN a ELSE b

LastTerm(lg) == IF lg = <<>> THEN 0 ELSE lg[Len(lg)]
TermAt(lg, o) == IF o \in 1..Len(lg) THEN lg[o] ELSE 0

\* details::majority over the voters.
IsMajority(S) == Cardinality(S) >= (Cardinality(Node) \div 2) + 1

\* details::quorum_match: the largest of the values that a majority reaches.
QuorumMatch(reached) ==
    LET values == {reached[n] : n \in Node}
        quorum == {v \in values : IsMajority({n \in Node : reached[n] >= v})}
    IN  {v \in quorum : \A w \in quorum : w <= v}

\* Mutant: the follower does not wait for its own flush.
UnflushedCommit(mine, theirs, limit) ==
    IF theirs > mine THEN theirs ELSE mine

\* maybe_update_follower_commit_idx.
FollowerCommit(mine, theirs, limit) ==
    IF theirs > mine THEN Least(theirs, limit) ELSE mine

---------------------------------------------------------------------------
\* Elections.

\* vote_stm::vote: the candidate votes for itself and writes its vote.
StandForElection(n) ==
    /\ vstate[n] # "leader"
    /\ term[n] < Len(Candidates) /\ n \in Candidates[term[n] + 1]
    /\ term' = [term EXCEPT ![n] = @ + 1]
    /\ votedFor' = [votedFor EXCEPT ![n] = n]
    /\ kv' = [kv EXCEPT ![n] = [term |-> term[n] + 1, node |-> n]]
    /\ vstate' = [vstate EXCEPT ![n] = "candidate"]
    /\ votes' = [votes EXCEPT ![n] = {n}]
    /\ UNCHANGED <<storage, commit, fstats, held, rpcs, client, history>>

\* Mutant: votes are granted whatever the candidate's log holds.
AnyLog(c, v) == TRUE

\* The candidate's log is at least as up to date as the voter's.
LogOk(c, v) ==
    \/ LastTerm(log[c]) > LastTerm(log[v])
    \/ LastTerm(log[c]) = LastTerm(log[v]) /\ Len(log[c]) >= Len(log[v])

\* consensus::do_vote at v for candidate c, which is still in the round it asks
\* for.  The term of the request is adopted, in memory only, even when the vote
\* is refused; a granted vote is written before the reply, which may be lost.
Vote(c, v) ==
    LET newer == term[c] > term[v]
        grant == LogOk(c, v) /\ (newer \/ votedFor[v] = Nil)
    IN  /\ vstate[c] = "candidate" /\ v \in Voters[term[c]] \ {c}
        /\ term[c] >= term[v] /\ (newer \/ grant)
        /\ term' = [term EXCEPT ![v] = term[c]]
        /\ votedFor' = [votedFor EXCEPT ![v] = IF grant THEN c ELSE Nil]
        /\ kv' = IF grant
                   THEN [kv EXCEPT ![v] = [term |-> term[c], node |-> c]]
                   ELSE kv
        /\ vstate' = [vstate EXCEPT ![v] = IF newer THEN "follower" ELSE @]
        /\ \E counted \in BOOLEAN :
              /\ counted => grant
              /\ grant /\ ~counted => {c, v} \cap Flaky # {}
              /\ votes' = [votes EXCEPT ![v] = IF newer THEN {} ELSE @,
                                        ![c] = IF counted THEN @ \cup {v} ELSE @]
        /\ fstats' = IF newer THEN [fstats EXCEPT ![v] = ResetAll(@)] ELSE fstats
        /\ UNCHANGED <<storage, commit, held, rpcs, client, history>>

\* consensus::do_step_down on a leader without a majority of recent replies
\* (maybe_step_down); the clock is not modelled, so at any time.
StepDown(l) ==
    /\ "step_down" \in Timers /\ vstate[l] = "leader"
    /\ vstate' = [vstate EXCEPT ![l] = "follower"]
    /\ votes' = [votes EXCEPT ![l] = {}]
    /\ fstats' = [fstats EXCEPT ![l] = ResetAll(@)]
    /\ UNCHANGED <<term, votedFor, kv, storage, commit, held, rpcs, client,
                   history>>

---------------------------------------------------------------------------
\* Flushing.

\* consensus::has_pending_flushes: bytes were appended since the last flush
\* was started.
HasPendingFlushes(end, stable, inProgress) ==
    end > stable /\ end \notin inProgress

\* consensus::flush_log up to the await: the offset to report is captured.
StartFlush(end, stable, inProgress) ==
    IF HasPendingFlushes(end, stable, inProgress)
      THEN inProgress \cup {end} ELSE inProgress

\* consensus::maybe_flush_log and refresh_commit_index.
FlushLog(n) ==
    /\ "flush" \in Timers
    /\ HasPendingFlushes(Len(log[n]), flushed[n], flushing[n])
    /\ flushing' = [flushing EXCEPT ![n] = @ \cup {Len(log[n])}]
    /\ UNCHANGED <<term, election, log, flushed, commit, fstats, held, rpcs,
                   client, history>>

\* Mutant: a reply says that all of the log is flushed.
DirtyPropagated(replies, stable) ==
    {[r EXCEPT !.flushed = r.dirty] : r \in replies}

\* Replies leave the buffer with the flushed offset of this moment
\* (append_entries_buffer::propagate_results).
Propagated(replies, stable) == {[r EXCEPT !.flushed = stable] : r \in replies}

NoneHeld == [awaits |-> 0, replies |-> {}]

\* consensus::flush_log after the await; the replies that waited for it leave.
FlushDone(n, o) ==
    LET stable == IF o > Len(log[n]) THEN flushed[n] ELSE Most(o, flushed[n])
    IN  /\ o \in flushing[n]
        /\ flushing' = [flushing EXCEPT ![n] = @ \ {o}]
        /\ flushed' = [flushed EXCEPT ![n] = stable]
        /\ IF held[n].awaits = o
             THEN /\ rpcs' = rpcs \cup Propagated(held[n].replies, stable)
                  /\ held' = [held EXCEPT ![n] = NoneHeld]
             ELSE UNCHANGED <<rpcs, held>>
        /\ UNCHANGED <<term, election, log, commit, fstats, client, history>>

---------------------------------------------------------------------------
\* Sending.

\* One request of leader l to follower f, with consensus::meta() for a prev at
\* the end of the log.
NewRequest(l, f, kind, seq, upTo, prev, entries, committed, flush) ==
    [type |-> "request", from |-> l, to |-> f, kind |-> kind,
     term |-> term[l], seq |-> seq, upTo |-> upTo, base |-> prev + 1,
     prev |-> prev, prevTerm |-> TermAt(log[l], prev), entries |-> entries,
     commit |-> committed, flush |-> flush, open |-> TRUE]

\* replicate_batcher::flush and replicate_entries_stm::apply, under _op_lock:
\* the leader appends, takes a sequence number for every follower, sends to
\* those should_skip_follower_request lets through and starts its own flush.
\* "silent" are followers without a recent reply.
AppendAndDispatch(l, flush) ==
    LET prev == Len(log[l])
        others == Node \ {l}
        first == {f \in others : fstats[l][f].sent = 0}
        inSync == {f \in others : fstats[l][f].expectedEnd = prev}
    IN  /\ prev < MaxLog
        /\ \A f \in others : fstats[l][f].sent < MaxSeq
        /\ log' = [log EXCEPT ![l] = Append(@, term[l])]
        /\ flushing' = [flushing EXCEPT ![l] =
               IF flush THEN StartFlush(prev + 1, flushed[l], @) ELSE @]
        /\ \E silent \in SUBSET ((inSync \ first) \cap Flaky) :
              LET to == (first \cup inSync) \ silent
              IN  /\ Cardinality(rpcs) + Cardinality(to) <= MaxRpc
                  /\ fstats' = [fstats EXCEPT ![l] = [f \in Node |->
                         IF f = l THEN fstats[l][f]
                         ELSE [fstats[l][f] EXCEPT !.sent = @ + 1,
                                 !.expectedEnd = IF f \in to THEN prev + 1
                                                             ELSE @]]]
                  /\ rpcs' = rpcs \cup
                       {NewRequest(l, f, "replicate", fstats[l][f].sent + 1,
                                   prev + 1, prev, <<term[l]>>, commit[l],
                                   flush) : f \in to}
        /\ UNCHANGED <<term, votedFor, kv, flushed, commit, held, history,
                       acked>>

\* vote_stm::update_vote_state: the new leader at once replicates its
\* configuration, with a flush, under the same _op_lock.
BecomeLeader(n) ==
    /\ vstate[n] = "candidate" /\ IsMajority(votes[n])
    /\ vstate' = [vstate EXCEPT ![n] = "leader"]
    /\ AppendAndDispatch(n, TRUE)
    /\ UNCHANGED <<votes, waiting>>

\* consensus::do_replicate through the batcher; a batch is flushed when one of
\* its items asked for quorum_ack.
Replicate(l, flush) ==
    /\ vstate[l] = "leader"
    /\ AppendAndDispatch(l, flush)
    /\ waiting' = IF flush
                    THEN [waiting EXCEPT ![l] = @ \cup
                            {[offset |-> Len(log[l]) + 1, term |-> term[l],
                              initial |-> commit[l]]}]
                    ELSE waiting
    /\ UNCHANGED <<vstate, votes>>

\* RPCs from l to f that suppress heartbeats (suppress_heartbeats_guard).
Suppressing(l, f) ==
    {m \in rpcs : /\ m.kind # "heartbeat"
                  /\ \/ m.type = "request" /\ m.open /\ m.from = l /\ m.to = f
                        /\ m.term = term[l]
                     \/ m.type = "reply" /\ m.from = f /\ m.to = l
                        /\ m.sentIn = term[l]}
    \cup {m \in held[f].replies : /\ m.to = l /\ m.kind # "heartbeat"
                                  /\ m.sentIn = term[l]}

\* heartbeat_manager: a full heartbeat.
Heartbeat(l, f) ==
    LET end == Len(log[l])
        seq == fstats[l][f].sent + 1
    IN  /\ vstate[l] = "leader" /\ f # l
        /\ "heartbeat" \in Timers /\ Suppressing(l, f) = {}
        /\ seq <= MaxSeq /\ Cardinality(rpcs) < MaxRpc
        /\ fstats' = [fstats EXCEPT ![l][f].sent = seq]
        /\ rpcs' = rpcs \cup {NewRequest(l, f, "heartbeat", seq, end, end, <<>>,
                                         commit[l], FALSE)}
        /\ UNCHANGED <<term, election, storage, commit, held, client, history>>

---------------------------------------------------------------------------
\* Recovery of one follower (recovery_stm), outside _op_lock.

RecoveryRpcs(l, f) ==
    {m \in rpcs : /\ m.kind = "recovery"
                  /\ \/ m.type = "request" /\ m.open /\ m.from = l /\ m.to = f
                     \/ m.type = "reply" /\ m.from = f /\ m.to = l}
    \cup {m \in held[f].replies : m.to = l /\ m.kind = "recovery"}

\* The recovery fiber is between two requests.
RecoveryRuns(l, f) ==
    f # l /\ fstats[l][f].recovering /\ RecoveryRpcs(l, f) = {}

\* recovery_stm::is_recovery_finished.
RecoveryFinished(l, f) ==
    LET idx == fstats[l][f]
        end == Len(log[l])
    IN  \/ vstate[l] # "leader" \/ idx.recoveryTerm # term[l]
        \/ idx.dirty >= end /\ idx.match = end

\* do_recover up to its first await: next_index and the commit index are kept
\* for the request, which is built after the log has been read.  While all of
\* the log has been sent the fiber waits for replies.
StartRecoveryRead(l, f) ==
    LET idx == fstats[l][f]
    IN  /\ RecoveryRuns(l, f) /\ ~RecoveryFinished(l, f)
        /\ idx.base = 0 /\ idx.expectedEnd < Len(log[l])
        /\ fstats' = [fstats EXCEPT ![l][f] =
               [@ EXCEPT !.base = idx.next, !.committed = commit[l]]]
        /\ UNCHANGED <<term, election, storage, commit, held, rpcs, client,
                       history>>

\* The fiber ends: recovery is finished, there was nothing to read, or all it
\* read has been sent by somebody else meanwhile.
StopRecovery(l, f) ==
    LET idx == fstats[l][f]
    IN  /\ RecoveryRuns(l, f)
        /\ \/ RecoveryFinished(l, f)
           \/ idx.base > Len(log[l])
           \/ idx.base \in 1..idx.expectedEnd
        /\ fstats' = [fstats EXCEPT ![l][f] =
               [@ EXCEPT !.recovering = FALSE, !.base = 0]]
        /\ UNCHANGED <<term, election, storage, commit, held, rpcs, client,
                       history>>

\* recovery_stm::should_flush: the last batch is flushed when the leader's last
\* write was; for the others the bytes sent since the last flush decide.
MayFlush(l, last, flush) ==
    last = Len(log[l]) /\ FALSE \notin Levels => flush

\* The rest of do_recover, and replicate: what was read, up to some offset, is
\* sent.
SendRecovery(l, f, last, flush) ==
    LET idx == fstats[l][f]
        seq == idx.sent + 1
    IN  /\ RecoveryRuns(l, f) /\ ~RecoveryFinished(l, f) /\ idx.base > 0
        /\ last \in idx.base..Len(log[l]) /\ idx.expectedEnd < last
        /\ MayFlush(l, last, flush)
        /\ seq <= MaxSeq /\ Cardinality(rpcs) < MaxRpc
        /\ fstats' = [fstats EXCEPT ![l][f] =
               [@ EXCEPT !.expectedEnd = last, !.sent = seq, !.base = 0]]
        /\ rpcs' = rpcs \cup
               {NewRequest(l, f, "recovery", seq, Len(log[l]), idx.base - 1,
                           SubSeq(log[l], idx.base, last),
                           Least(last, idx.committed), flush)}
        /\ UNCHANGED <<term, election, storage, commit, held, client, history>>

---------------------------------------------------------------------------
\* The append entries handler.

\* The state of a node that consensus::do_append_entries reads and writes.
NodeState(n) ==
    [term |-> term[n], votedFor |-> votedFor[n], vstate |-> vstate[n],
     log |-> log[n], flushed |-> flushed[n], commit |-> commit[n],
     stepped |-> FALSE, rewrote |-> FALSE]

\* Mutant: the term of the previous entry is not compared.
LengthMatches(s, m) == m.prev <= Len(s.log)

LogMatches(s, m) ==
    /\ m.prev <= Len(s.log)
    /\ m.prev > 0 => s.log[m.prev] = m.prevTerm

\* The request ends before the end of the log and is not a heartbeat.
Overlaps(s, m) == m.entries # <<>> /\ m.prev < Len(s.log)

\* Mutant: committed entries are not protected.
NothingStale(s, m) == FALSE

\* "Stale append entries request": what it carries was committed already.
StaleRequest(s, m) == Overlaps(s, m) /\ m.prev < s.commit

Rejected(s, m) ==
    \/ m.term < s.term
    \/ ~LogMatches(s, m)
    \/ m.entries = <<>> /\ m.prev < Len(s.log)

Truncates(s, m) == ~Rejected(s, m) /\ Overlaps(s, m) /\ ~StaleRequest(s, m)

\* What every request of a current leader does first: do_step_down, and the
\* adoption of a newer term, in memory only.
Followed(s, m) ==
    [s EXCEPT !.term = m.term, !.vstate = "follower", !.stepped = TRUE,
              !.votedFor = IF m.term > s.term THEN Nil ELSE @]

\* The log is cut after prev_log_index, whatever it holds there, and the
\* entries are appended without a flush.  For a heartbeat nothing changes but
\* the commit index.
Accepted(s, m) ==
    LET stable == Least(m.prev, s.flushed)
    IN  [Followed(s, m) EXCEPT
            !.log = SubSeq(s.log, 1, m.prev) \o m.entries,
            !.flushed = stable,
            !.rewrote = @ \/ /\ Truncates(s, m) /\ m.prev < s.flushed
                             /\ s.log[m.prev + 1] = m.entries[1],
            !.commit = FollowerCommit(s.commit, m.commit, stable)]

\* The node after do_append_entries.
DoAppendEntries(s, m) ==
    IF m.term < s.term THEN s
    ELSE IF Rejected(s, m) \/ StaleRequest(s, m) THEN Followed(s, m)
    ELSE Accepted(s, m)

\* Its reply, in the order the buffer keeps; none when nobody waits for it.
AppendReply(s, m) ==
    LET t == DoAppendEntries(s, m)
    IN  [type |-> "reply", from |-> m.to, to |-> m.from, kind |-> m.kind,
         sentIn |-> m.term, seq |-> m.seq, upTo |-> m.upTo, base |-> m.base,
         term |-> t.term, success |-> ~Rejected(s, m),
         dirty |-> IF ~Rejected(s, m) /\ StaleRequest(s, m) THEN s.commit
                                                            ELSE Len(t.log),
         flushed |-> t.flushed]

\* A request that may arrive next.
Arrives(m, inFlight) ==
    InOrder => \A q \in inFlight :
                  /\ q.type = "request" /\ q.from = m.from /\ q.to = m.to
                  => q.term > m.term \/ (q.term = m.term /\ q.seq >= m.seq)

\* append_entries_buffer::flush and do_flush: the requests in the buffer are
\* handled under one _op_lock, then the log is flushed once if one of them
\* asked for it, and only then the replies leave.  The next requests wait.
Batches(f) ==
    LET mine == {m \in Requests : m.to = f}
        firsts == {m \in mine : Arrives(m, rpcs)}
    IN  {<<m>> : m \in firsts}
        \cup IF MaxBatch < 2 THEN {}
             ELSE UNION {{<<m, q>> : q \in {q \in mine \ {m} :
                                              Arrives(q, rpcs \ {m})}} :
                         m \in firsts}

AppendEntries(f, batch) ==
    LET Fold(s, i) == IF i > Len(batch) THEN s ELSE DoAppendEntries(s, batch[i])
        before == NodeState(f)
        middle == Fold(before, 1)
        after == Fold(middle, 2)
        taken == {batch[i] : i \in DOMAIN batch}
        replies == {AppendReply(IF i = 1 THEN before ELSE middle, batch[i]) :
                      i \in {i \in DOMAIN batch : batch[i].open}}
        flush == /\ \E m \in taken : m.flush
                 /\ HasPendingFlushes(Len(after.log), after.flushed,
                                      flushing[f])
    IN  /\ held[f] = NoneHeld
        \* storage::log::truncate waits for the flushes in progress
        /\ flushing[f] # {} => /\ ~Truncates(before, batch[1])
                               /\ Len(batch) = 2 => ~Truncates(middle, batch[2])
        /\ term' = [term EXCEPT ![f] = after.term]
        /\ votedFor' = [votedFor EXCEPT ![f] = after.votedFor]
        /\ vstate' = [vstate EXCEPT ![f] = after.vstate]
        /\ votes' = IF after.stepped THEN [votes EXCEPT ![f] = {}] ELSE votes
        /\ fstats' = IF after.stepped THEN [fstats EXCEPT ![f] = ResetAll(@)]
                                      ELSE fstats
        /\ log' = [log EXCEPT ![f] = after.log]
        /\ flushed' = [flushed EXCEPT ![f] = after.flushed]
        /\ commit' = [commit EXCEPT ![f] = after.commit]
        /\ IF flush
             THEN /\ flushing' = [flushing EXCEPT ![f] = @ \cup {Len(after.log)}]
                  /\ held' = [held EXCEPT ![f] = [awaits |-> Len(after.log),
                                                  replies |-> replies]]
                  /\ rpcs' = rpcs \ taken
             ELSE /\ rpcs' = (rpcs \ taken)
                               \cup Propagated(replies, after.flushed)
                  /\ UNCHANGED <<flushing, held>>
        /\ rewritten' = IF after.rewrote THEN rewritten \cup {f} ELSE rewritten
        /\ UNCHANGED <<kv, client, crashes, chosen>>

---------------------------------------------------------------------------
\* The reply handler.

\* The reply was overtaken by a later one and tells nothing new.
Reordered(idx, m, end) == m.seq < idx.received /\ m.dirty < end

Received(idx, m) ==
    [idx EXCEPT !.received = Least(Most(m.seq, @), idx.sent)]

\* Mutant: next_index before the end of the follower's log.
ReportedPrev(idx, m) ==
    [idx EXCEPT !.dirty = m.dirty, !.flushed = m.flushed, !.next = m.dirty - 1]

\* What a reply says of the follower's log.
Reported(idx, m) ==
    [idx EXCEPT !.dirty = m.dirty, !.flushed = m.flushed, !.next = m.dirty + 1]

\* successfull_append_entries_reply.
Matched(idx, m) ==
    [Reported(idx, m) EXCEPT !.match = m.dirty,
                             !.expectedEnd = Most(m.dirty, @)]

NeedsRecovery(idx, upTo) == idx.match < upTo \/ idx.match > idx.dirty

\* dispatch_recovery; a follower that is ahead is offered the leader's last
\* entry.
Recovering(idx, t, end) ==
    LET started == [idx EXCEPT !.recovering = TRUE, !.recoveryTerm = t]
    IN  IF idx.dirty >= end
          THEN [started EXCEPT !.next = end, !.expectedEnd = 0] ELSE started

\* update_follower_index for a failure: the index is taken from the reply
\* unless a recovery that is ahead of it runs; recovery starts if the follower
\* permits it.
Failed(idx, m, t, end, mayRecover) ==
    LET reset == [idx EXCEPT !.expectedEnd = 0]
        behind == Reported(reset, m)
    IN  IF idx.recovering
          THEN IF idx.dirty > m.dirty THEN behind ELSE reset
        ELSE IF NeedsRecovery(behind, m.upTo) /\ mayRecover
          THEN Recovering(behind, t, end) ELSE behind

UpdateFollowerIndex(idx, m, t, end, mayRecover) ==
    IF Reordered(idx, m, end) THEN idx
    ELSE IF m.success THEN Matched(Received(idx, m), m)
    ELSE Failed(Received(idx, m), m, t, end, mayRecover)

\* What recovery_stm::replicate does with the answer to its request: after a
\* failure it steps next_index back; a fiber of an earlier term ends.
Continued(idx, m, t) ==
    IF m.kind # "recovery" THEN idx
    ELSE IF m.sentIn # t \/ m.seq < idx.received
      THEN [idx EXCEPT !.recovering = FALSE]
    ELSE IF ~m.success THEN [idx EXCEPT !.next = Most(1, m.base - 1)]
    ELSE idx

\* process_append_entries_reply.  A greater term makes the leader step down: the
\* fiber that does so is part of the step, its delay that of the reply.
ProcessReply(m, mayRecover) ==
    LET l == m.to
        f == m.from
        idx == fstats[l][f]
        end == Len(log[l])
        fresh == vstate[l] = "leader" /\ ~Reordered(idx, m, end)
    IN  /\ m \in rpcs /\ m.type = "reply"
        /\ LateReplies \/ m.sentIn = term[l]
        /\ rpcs' = rpcs \ {m}
        /\ IF fresh /\ m.term > term[l]
             THEN /\ term' = [term EXCEPT ![l] = m.term]
                  /\ votedFor' = [votedFor EXCEPT ![l] = Nil]
                  /\ vstate' = [vstate EXCEPT ![l] = "follower"]
                  /\ votes' = [votes EXCEPT ![l] = {}]
                  /\ fstats' = [fstats EXCEPT ![l] =
                         [ResetAll(fstats[l]) EXCEPT
                             ![f] = Continued(Reset(idx), m, m.term)]]
             ELSE /\ fstats' = [fstats EXCEPT ![l][f] =
                         Continued(IF vstate[l] # "leader" THEN @
                                   ELSE UpdateFollowerIndex(@, m, term[l], end,
                                                            mayRecover),
                                   m, term[l])]
                  /\ UNCHANGED <<term, votedFor, vstate, votes>>
        /\ UNCHANGED <<kv, storage, commit, held, client, history>>

\* A recovery fiber whose request failed ends.
RecoveryGivesUp(m) ==
    LET l == IF m.type = "request" THEN m.from ELSE m.to
        f == IF m.type = "request" THEN m.to ELSE m.from
        awaited == m.kind = "recovery" /\ (m.type = "request" => m.open)
    IN  fstats' = IF awaited THEN [fstats EXCEPT ![l][f].recovering = FALSE]
                             ELSE fstats

\* An RPC fails or times out.  The request may be lost or may still arrive; a
\* reply is lost.
RpcFails(m) ==
    /\ m \in rpcs
    /\ \/ {m.from, m.to} \cap Flaky # {}
       \/ m.type = "reply" /\ m.sentIn # term[m.to]
    /\ \/ rpcs' = rpcs \ {m}
       \/ /\ m.type = "request" /\ m.open
          /\ rpcs' = (rpcs \ {m}) \cup {[m EXCEPT !.open = FALSE]}
    /\ RecoveryGivesUp(m)
    /\ UNCHANGED <<term, election, storage, commit, held, client, history>>

\* Mutant: what is not flushed on the follower counts.
MatchDirtyIndex(idx) == idx.match

\* follower_index_metadata::match_committed_index.
MatchCommittedIndex(idx) == Least(idx.flushed, idx.match)

\* Mutant: entries of earlier terms are committed by counting replicas.
AnyTermCommits(l, o) == o > commit[l]

MayCommit(l, o) == o > commit[l] /\ TermAt(log[l], o) = term[l]

\* do_maybe_update_leader_commit_idx, in a fiber of its own under _op_lock.
UpdateLeaderCommit(l) ==
    LET reached == [n \in Node |-> IF n = l THEN flushed[l]
                                   ELSE MatchCommittedIndex(fstats[l][n])]
    IN  /\ vstate[l] = "leader"
        /\ \E match \in QuorumMatch(reached) :
              LET majority == Least(match, flushed[l])
              IN  /\ MayCommit(l, majority)
                  /\ commit' = [commit EXCEPT ![l] = majority]
                  /\ chosen' = chosen \cup
                         {[offset |-> o, term |-> log[l][o], in |-> term[l]] :
                            o \in commit[l] + 1..majority}
        /\ UNCHANGED <<term, election, storage, fstats, held, rpcs, client,
                       crashes, rewritten>>

\* replicate_entries_stm::wait_for_majority and process_result: the write ends
\* when it is committed, or when later commits show that it was truncated.
FinishReplicate(n, w) ==
    LET same == TermAt(log[n], w.offset) = w.term
        committed == commit[n] >= w.offset
        truncated == term[n] > w.term /\ commit[n] > w.initial /\ ~same
        success == term[n] = w.term \/ same
    IN  /\ w \in waiting[n] /\ (committed \/ truncated)
        /\ waiting' = [waiting EXCEPT ![n] = @ \ {w}]
        /\ acked' = IF success
                      THEN acked \cup {[offset |-> w.offset, term |-> w.term]}
                      ELSE acked
        /\ UNCHANGED <<term, election, storage, commit, fstats, held, rpcs,
                       history>>

---------------------------------------------------------------------------
\* consensus::do_start after a crash.  Unflushed entries may or may not have
\* reached the disk.  The commit index starts at the offset the state machine
\* last recorded as applied.
Restart(n) ==
    /\ n \in Crashable /\ crashes < MaxCrash
    /\ crashes' = crashes + 1
    /\ \E end \in flushed[n]..Len(log[n]), applied \in 0..commit[n] :
          LET kept == SubSeq(log[n], 1, end)
              newer == LastTerm(kept) > kv[n].term
          IN  /\ log' = [log EXCEPT ![n] = kept]
              /\ flushed' = [flushed EXCEPT ![n] = end]
              /\ commit' = [commit EXCEPT ![n] = applied]
              /\ term' = [term EXCEPT ![n] = IF newer THEN LastTerm(kept)
                                                      ELSE kv[n].term]
              /\ votedFor' = [votedFor EXCEPT ![n] = IF newer THEN Nil
                                                              ELSE kv[n].node]
    /\ flushing' = [flushing EXCEPT ![n] = {}]
    /\ vstate' = [vstate EXCEPT ![n] = "follower"]
    /\ votes' = [votes EXCEPT ![n] = {}]
    /\ fstats' = [fstats EXCEPT ![n] = [f \in Node |-> NewIndex]]
    /\ held' = [held EXCEPT ![n] = NoneHeld]
    /\ rpcs' = {m \in rpcs : ~(m.type = "reply" /\ m.to = n)
                          /\ ~(m.type = "request" /\ m.from = n)}
               \cup {[m EXCEPT !.open = FALSE] :
                        m \in {q \in Requests : q.from = n}}
    /\ waiting' = [waiting EXCEPT ![n] = {}]
    /\ UNCHANGED <<kv, chosen, rewritten, acked>>

Init ==
    /\ term = [n \in Node |-> 0]
    /\ votedFor = [n \in Node |-> Nil]
    /\ kv = [n \in Node |-> [term |-> 0, node |-> Nil]]
    /\ vstate = [n \in Node |-> "follower"]
    /\ votes = [n \in Node |-> {}]
    /\ log = [n \in Node |-> <<>>]
    /\ flushed = [n \in Node |-> 0]
    /\ flushing = [n \in Node |-> {}]
    /\ commit = [n \in Node |-> 0]
    /\ fstats = [n \in Node |-> [f \in Node |-> NewIndex]]
    /\ held = [n \in Node |-> NoneHeld]
    /\ rpcs = {}
    /\ waiting = [n \in Node |-> {}]
    /\ crashes = 0
    /\ chosen = {}
    /\ rewritten = {}
    /\ acked = {}

Next ==
    \/ \E n \in Node : StandForElection(n)
    \/ \E c, v \in Node : Vote(c, v)
    \/ \E n \in Node : BecomeLeader(n)
    \/ \E l \in Node : StepDown(l)
    \/ \E l \in Node, flush \in Levels : Replicate(l, flush)
    \/ \E l, f \in Node : Heartbeat(l, f)
    \/ \E l, f \in Node : StartRecoveryRead(l, f) \/ StopRecovery(l, f)
    \/ \E l, f \in Node, last \in 1..MaxLog, flush \in BOOLEAN :
          SendRecovery(l, f, last, flush)
    \/ \E f \in Node : \E batch \in Batches(f) : AppendEntries(f, batch)
    \/ \E n \in Node : FlushLog(n)
    \/ \E n \in Node : \E o \in flushing[n] : FlushDone(n, o)
    \/ \E m \in rpcs, mayRecover \in BOOLEAN : ProcessReply(m, mayRecover)
    \/ \E m \in rpcs : RpcFails(m)
    \/ \E l \in Node : UpdateLeaderCommit(l)
    \/ \E n \in Node : \E w \in waiting[n] : FinishReplicate(n, w)
    \/ \E n \in Node : Restart(n)

Spec == Init /\ [][Next]_vars

---------------------------------------------------------------------------
\* Properties.

\* The types of the variables.
TypeOK ==
    /\ term \in [Node -> Term]
    /\ votedFor \in [Node -> Node \cup {Nil}]
    /\ kv \in [Node -> [term : Term, node : Node \cup {Nil}]]
    /\ vstate \in [Node -> {"follower", "candidate", "leader"}]
    /\ votes \in [Node -> SUBSET Node]
    /\ log \in [Node -> Seq(Term)]
    /\ flushed \in [Node -> Offset]
    /\ flushing \in [Node -> SUBSET Offset]
    /\ commit \in [Node -> Offset]
    /\ fstats \in [Node -> [Node -> FollowerIndex]]
    /\ held \in [Node -> [awaits : Offset, replies : SUBSET Reply]]
    /\ rpcs \in SUBSET (Request \cup Reply)
    /\ waiting \in [Node -> SUBSET [offset : Offset, term : Term,
                                    initial : Offset]]
    /\ crashes \in Nat
    /\ chosen \in SUBSET [offset : Offset, term : Term, in : Term]
    /\ rewritten \in SUBSET Node
    /\ acked \in SUBSET [offset : Offset, term : Term]

Has(n, c) == Len(log[n]) >= c.offset /\ log[n][c.offset] = c.term

\* follower_index_metadata::match_committed_index is "Used to establish index
\* persistently replicated by majority": an entry that
\* do_maybe_update_leader_commit_idx counted as committed is, from then on, on
\* the disks of a majority, whatever is truncated, re-sent or lost in a crash.
ChosenOnMajority ==
    \A c \in chosen :
        IsMajority({n \in Node : flushed[n] >= c.offset /\ Has(n, c)})

\* The same as long as do_append_entries never cuts off flushed entries that
\* the request brings again: with one follower, crashes, partial flushes,
\* unordered requests and forgotten terms lose no committed entry by themselves.
\* It is no theorem: with a third node, a rejection from before a follower's log
\* was repaired may be processed after the repair, and the larger offsets in it
\* are then taken for the follower's.
ChosenUnlessRewritten == rewritten = {} => ChosenOnMajority

\* A leader elected by do_vote's comparison of logs has every entry that an
\* earlier leader committed: do_maybe_update_leader_commit_idx commits entries
\* of earlier terms only together with one of its own.
LeaderCompleteness ==
    \A l \in Node, c \in chosen :
        vstate[l] = "leader" /\ term[l] > c.in => Has(l, c)

\* A node commits only what it can read back after a crash: _commit_index never
\* passes _flushed_offset, nor that the end of the log, although a truncation
\* in do_append_entries may come between the two halves of flush_log.
CommittedIsFlushed ==
    \A n \in Node : commit[n] <= flushed[n] /\ flushed[n] <= Len(log[n])

\* do_append_entries never truncates what the node takes for committed, even
\* for a request that arrives long after it was sent, and a crash does not lose
\* it.
CommittedStays ==
    [][\A n \in Node : /\ commit[n] <= Len(log'[n])
                       /\ \A o \in 1..commit[n] : log'[n][o] = log[n][o]]_vars

\* Logs that agree on the term of an entry agree on everything before it:
\* do_append_entries compares prev_log_term only, and never the entries.
LogMatching ==
    \A m, n \in Node : \A o \in 1..Least(Len(log[m]), Len(log[n])) :
        log[m][o] = log[n][o] => SubSeq(log[m], 1, o) = SubSeq(log[n], 1, o)

\* What a leader counts for a follower (match_committed_index) at an entry of
\* its own term is on the follower's disk until the follower follows a later
\* leader: update_follower_index may process replies out of order while
\* recovery, heartbeats and writes to the same follower overlap.  The bounds
\* matter as they do above; a follower that crashes may also forget the term of
\* the later leader that cut its log.
MatchIsFlushed ==
    \A l \in Node : rewritten = {} /\ vstate[l] = "leader" =>
        \A f \in Node \ {l} :
            LET o == MatchCommittedIndex(fstats[l][f])
            IN  o > 0 /\ TermAt(log[l], o) = term[l] /\ term[f] <= term[l]
                  => flushed[f] >= o /\ log[f][o] = term[l]
=============================================================================
