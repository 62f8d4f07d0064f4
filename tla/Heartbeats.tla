---------------------------- MODULE Heartbeats ----------------------------
(***************************************************************************)
(* heartbeat_manager: a leader keeps a follower in step by heartbeats.  A     *)
(* full heartbeat is an empty append request; a lightweight one carries only  *)
(* the group, and is sent when the leader takes the follower to be in step.   *)
(* Replicate requests overlap and their replies come in any order; requests   *)
(* are lost or given up, and the follower restarts without what it had not    *)
(* flushed.  The recovery that a reply starts is part of the model.           *)
(*                                                                          *)
(* One term and one follower.  Sequence numbers count from the last moment    *)
(* when no request was outstanding: only those of outstanding ones compare.   *)
(***************************************************************************)
EXTENDS Integers

CONSTANTS
    MaxOffset,    \* bound: entries
    MaxFaults     \* bound: lost requests, requests given up and restarts

VARIABLES
    dirty, flushed, commit,  \* the leader's offsets
    idx,                     \* follower_index_metadata
    recovering,              \* is_recovering
    recoverySeq,             \* the request of the recovery, 0 for none
    requests, replies,       \* the network
    open,                    \* sequence numbers of outstanding requests
    light,                   \* the lightweight heartbeat
    fdirty, fflushed, fcommit,
    fknows,                  \* the follower has a leader and has heard from it
    frs,                     \* _follower_recovery_state
    faults

leader == <<dirty, flushed, commit>>
follower == <<fdirty, fflushed, fcommit, fknows, frs>>
net == <<requests, replies, open>>
recovery == <<recovering, recoverySeq>>
vars == <<leader, idx, recovery, net, light, follower, faults>>

NoMeta == [commit |-> MaxOffset + 1, prev |-> 0]
Meta == [commit |-> commit, prev |-> dirty]
Smaller(a, b) == IF a < b THEN a ELSE b
Larger(a, b) == IF a > b THEN a ELSE b

Init ==
    /\ dirty = 0 /\ flushed = 0 /\ commit = 0
    /\ idx = [sent |-> 0, received |-> 0, successful |-> 0, meta |-> NoMeta,
              dirty |-> 0, flushed |-> 0, match |-> 0, next |-> 1, expected |-> 0]
    /\ recovering = FALSE /\ recoverySeq = 0 /\ requests = {} /\ replies = {} /\ open = {} /\ light = "none"
    /\ fdirty = 0 /\ fflushed = 0 /\ fcommit = 0 /\ fknows = FALSE /\ frs = "none"
    /\ faults = 0

---------------------------------------------------------------------------
\* The leader.

\* next_follower_sequence.
NextSeq == IF open = {} THEN 1 ELSE idx.sent + 1
Sequenced ==
    IF open = {} THEN [idx EXCEPT !.sent = 1, !.received = 0, !.successful = 0]
                 ELSE [idx EXCEPT !.sent = @ + 1]

\* A request with the entries prev + 1 to last, outstanding until its reply.
Send(prev, last, d) ==
    /\ requests' = requests \cup
         {[seq |-> NextSeq, live |-> TRUE, prev |-> prev, last |-> last,
           dirty |-> d, commit |-> commit]}
    /\ open' = open \cup {NextSeq}
    /\ UNCHANGED replies

\* replicate_entries_stm: the entry is appended, and sent to a follower whose
\* log is expected to end before it.
Replicate ==
    /\ dirty < MaxOffset /\ dirty' = dirty + 1
    /\ IF idx.expected = dirty
       THEN /\ Send(dirty, dirty + 1, dirty)
            /\ idx' = [Sequenced EXCEPT !.meta = Meta, !.expected = dirty + 1]
       ELSE /\ idx' = Sequenced /\ UNCHANGED net
    /\ UNCHANGED <<flushed, commit, recovery, light, follower, faults>>

\* maybe_flush_log.
FlushLog ==
    /\ flushed < dirty /\ flushed' = dirty
    /\ idx' = [idx EXCEPT !.meta = NoMeta]
    /\ UNCHANGED <<dirty, commit, recovery, net, light, follower, faults>>

\* do_maybe_update_leader_commit_idx with two voters.
UpdateCommitIndex ==
    LET o == Smaller(flushed, Smaller(idx.flushed, idx.match))
    IN  /\ o > commit /\ commit' = o
    /\ UNCHANGED <<dirty, flushed, idx, recovery, net, light, follower, faults>>

\* Mutant: the flushed offset of the follower is not compared.
NeedsFullButFlush == idx.sent # idx.successful \/ idx.meta # Meta

\* needs_full_heartbeat.
NeedsFullHeartbeat ==
    idx.sent # idx.successful \/ idx.meta # Meta \/ flushed # idx.flushed

\* requests_for_range_v2; nothing is sent while a request is outstanding.
Heartbeat ==
    /\ open = {} /\ light = "none"
    /\ IF NeedsFullHeartbeat
       THEN /\ Send(dirty, dirty, dirty) /\ idx' = [Sequenced EXCEPT !.meta = Meta]
            /\ UNCHANGED light
       ELSE light' = "sent" /\ UNCHANGED <<idx, net>>
    /\ UNCHANGED <<leader, recovery, follower, faults>>

Finished == idx.dirty >= dirty /\ idx.match = dirty

\* recovery_stm::do_recover and replicate; it waits when all that there is has
\* been sent.
Recover ==
    /\ recovering /\ recoverySeq = 0
    /\ \/ /\ Finished \/ (idx.expected < dirty /\ idx.next > dirty)
          /\ recovering' = FALSE /\ UNCHANGED <<idx, net, recoverySeq>>
       \/ /\ ~Finished /\ idx.expected < dirty /\ idx.next <= dirty
          /\ Send(idx.next - 1, dirty, dirty) /\ recoverySeq' = NextSeq
          /\ idx' = [Sequenced EXCEPT !.meta = [commit |-> commit, prev |-> idx.next - 1],
                                      !.expected = dirty]
          /\ UNCHANGED recovering
    /\ UNCHANGED <<leader, light, follower, faults>>

---------------------------------------------------------------------------
\* The follower.

Answer(r, ok, d, f, recover) ==
    replies' = IF ~r.live THEN replies
               ELSE replies \cup {[seq |-> r.seq, prev |-> r.prev, last |-> r.last, success |-> ok,
                                   dirty |-> d, flushed |-> f, mayRecover |-> recover]}

\* do_append_entries.  A gap asks for a recovery; an empty request succeeds only
\* at the end of the log; entries are written behind the previous one.
HandleRequest(r) ==
    LET empty == r.last = r.prev
        known == r.prev < fdirty /\ r.prev < fcommit
        forced == r.dirty > r.prev
    IN  /\ requests' = requests \ {r} /\ fknows' = TRUE
        /\ \/ /\ r.prev > fdirty
              /\ frs' = IF forced THEN "active" ELSE IF frs = "none" THEN "pending" ELSE frs
              /\ Answer(r, FALSE, fdirty, fflushed, frs' = "active")
              /\ UNCHANGED <<fdirty, fflushed, fcommit>>
           \/ /\ r.prev < fdirty /\ empty
              /\ Answer(r, FALSE, fdirty, fflushed, frs = "active")
              /\ UNCHANGED <<fdirty, fflushed, fcommit, frs>>
           \/ /\ r.prev = fdirty /\ empty
              /\ frs' = "none" /\ fcommit' = Larger(fcommit, Smaller(r.commit, fflushed))
              /\ Answer(r, TRUE, fdirty, fflushed, frs = "active")
              /\ UNCHANGED <<fdirty, fflushed>>
           \/ /\ known /\ ~empty
              /\ frs' = IF forced THEN "active" ELSE frs
              /\ Answer(r, TRUE, fcommit, fcommit, frs' = "active")
              /\ UNCHANGED <<fdirty, fflushed, fcommit>>
           \/ /\ r.prev <= fdirty /\ ~empty /\ ~known
              /\ fdirty' = r.last /\ fflushed' = Smaller(fflushed, r.prev)
              /\ fcommit' = Larger(fcommit, Smaller(r.commit, fflushed'))
              /\ frs' = IF forced THEN "active" ELSE "none"
              /\ Answer(r, TRUE, fdirty', fflushed', frs' = "active")
    /\ UNCHANGED <<leader, idx, recovery, open, light, faults>>

\* lightweight_heartbeat.
HandleLight ==
    /\ light = "sent"
    /\ light' = IF fknows /\ frs # "active" THEN "ok" ELSE "failed"
    /\ UNCHANGED <<leader, idx, recovery, net, follower, faults>>

FollowerFlush ==
    /\ fflushed < fdirty /\ fflushed' = fdirty
    /\ UNCHANGED <<leader, idx, recovery, net, light, fdirty, fcommit, fknows, frs, faults>>

\* The recovery scheduler lets the partition recover.
Activate ==
    /\ frs = "pending" /\ frs' = "active"
    /\ UNCHANGED <<leader, idx, recovery, net, light, fdirty, fflushed, fcommit, fknows, faults>>

---------------------------------------------------------------------------
\* Replies at the leader.

NeedsRecovery(i, d) == i.match < d \/ i.match > i.dirty

Learn(i, r) == [i EXCEPT !.dirty = r.dirty, !.flushed = r.flushed, !.next = r.dirty + 1]

Received(r) == Smaller(Larger(r.seq, idx.received), idx.sent)

\* A failed append: what becomes of the index, and whether a recovery starts.
Failed(r) ==
    LET i == [idx EXCEPT !.received = Received(r), !.expected = -1]
    IN  IF recovering /\ i.dirty <= r.dirty THEN i ELSE Learn(i, r)
Dispatched(r) == ~recovering /\ r.mayRecover /\ NeedsRecovery(Failed(r), r.last)

Reordered(r) == r.seq < idx.received /\ r.dirty < dirty

\* update_follower_index and dispatch_recovery, then the recovery's own use of
\* the reply to its request.
ProcessReply(r) ==
    LET mine == r.seq = recoverySeq
        late == mine /\ r.seq < idx.received
        index == IF Reordered(r) THEN idx
                 ELSE IF r.success
                 THEN [Learn(idx, r) EXCEPT !.received = Received(r), !.successful = Received(r),
                                            !.match = r.dirty, !.expected = Larger(r.dirty, @)]
                 ELSE IF Dispatched(r) /\ r.dirty >= dirty
                 THEN [Failed(r) EXCEPT !.next = dirty]
                 ELSE Failed(r)
    IN  /\ replies' = replies \ {r} /\ open' = open \ {r.seq}
        /\ recoverySeq' = IF mine THEN 0 ELSE recoverySeq
        /\ recovering' = IF Reordered(r) \/ r.success THEN recovering /\ ~late
                         ELSE (recovering /\ ~late) \/ Dispatched(r)
        /\ idx' = IF mine /\ ~late /\ ~r.success
                  THEN [index EXCEPT !.next = Larger(1, r.prev)] ELSE index
        /\ UNCHANGED requests
    /\ UNCHANGED <<leader, light, follower, faults>>

\* The reply to a lightweight heartbeat.
ProcessLight ==
    /\ light \in {"ok", "failed"}
    /\ idx' = IF light = "failed" THEN [idx EXCEPT !.meta = NoMeta] ELSE idx
    /\ light' = "none"
    /\ UNCHANGED <<leader, recovery, net, follower, faults>>

---------------------------------------------------------------------------
\* Faults.

\* A request is lost, or given up and handled later; the reply is not waited for.
RequestFails(r) ==
    /\ r.live /\ faults < MaxFaults /\ faults' = faults + 1
    /\ \/ requests' = requests \ {r}
       \/ requests' = (requests \ {r}) \cup {[r EXCEPT !.live = FALSE]}
    /\ open' = open \ {r.seq}
    /\ IF r.seq = recoverySeq THEN recovering' = FALSE /\ recoverySeq' = 0
                            ELSE UNCHANGED recovery
    /\ UNCHANGED <<leader, idx, replies, light, follower>>

LightFails ==
    /\ light = "sent" /\ faults < MaxFaults /\ faults' = faults + 1
    /\ light' = "none" /\ idx' = [idx EXCEPT !.meta = NoMeta]
    /\ UNCHANGED <<leader, recovery, net, follower>>

\* The connection breaks with it: the requests on it fail.
Restart ==
    /\ faults < MaxFaults /\ faults' = faults + 1
    /\ fdirty' = fflushed /\ fcommit' = 0 /\ fknows' = FALSE /\ frs' = "none"
    /\ requests' = {} /\ open' = {r.seq : r \in replies}
    /\ IF recoverySeq # 0 /\ recoverySeq \notin open' THEN recovering' = FALSE /\ recoverySeq' = 0
                                                     ELSE UNCHANGED recovery
    /\ UNCHANGED <<leader, idx, replies, light, fflushed>>

Handle == \E r \in requests : HandleRequest(r)
Process == \E r \in replies : ProcessReply(r)

Next ==
    \/ Replicate \/ FlushLog \/ UpdateCommitIndex \/ Heartbeat \/ Recover
    \/ Handle \/ HandleLight \/ FollowerFlush \/ Activate
    \/ Process \/ ProcessLight
    \/ (\E r \in requests : RequestFails(r)) \/ LightFails \/ Restart

Spec == Init /\ [][Next]_vars

---------------------------------------------------------------------------
\* Properties.

InStep == fdirty = dirty /\ fcommit = dirty

\* Once entries are no longer written and nothing fails, the follower has all of
\* the log and knows that it is committed, and the leader is then content with
\* lightweight heartbeats.
FollowerCatchesUp == <>[](dirty = MaxOffset => InStep)
=============================================================================
