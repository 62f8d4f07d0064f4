---------------------------- MODULE RaftElection ----------------------------
(***************************************************************************)
(* Leader election of a Redpanda Raft group (src/v/raft): the prevote and   *)
(* vote state machines (prevote_stm, vote_stm), the vote request handler    *)
(* (consensus::do_vote), the part of append_entries that concerns            *)
(* leadership, stepping down, leadership transfer through timeout_now, and  *)
(* the vote record kept in the key-value store across restarts.             *)
(*                                                                         *)
(* Every action is one critical section of consensus::_op_lock, or one      *)
(* piece of code that runs between two suspension points without the lock.  *)
(* The group has a fixed configuration in which every node is a voter.      *)
(***************************************************************************)
EXTENDS Integers, Sequences, FiniteSets

CONSTANTS
    Node,         \* the voters of the group
    Nil,          \* "no node": an empty vnode, or an empty optional
    Order,        \* group_configuration::all_nodes(), which ranks the nodes
    MaxPriority,  \* voter_priority::max()
    Maintainable, \* nodes whose leadership may be blocked (maintenance mode)
    Electable,    \* bound: nodes whose election timer may fire
    Targets,      \* bound: nodes that may be the target of a transfer
    Appended,     \* bound: nodes that may be sent append_entries
    WriteFails,   \* bound: nodes whose key-value writes may fail
    Flaky,        \* bound: nodes to which a vote RPC may fail or time out
    Crashable,    \* bound: nodes that may crash
    MaxTerm,      \* bound: no round of each kind starts from this term on
    MaxCrash      \* bound: number of crashes

\* The two ways to start an election: the election timer and timeout_now.
Kind == {"timer", "transfer"}

ASSUME NodeAssumption == IsFiniteSet(Node) /\ Nil \notin Node
ASSUME OrderAssumption == Order \in Seq(Node)
ASSUME BoundAssumption ==
    MaxPriority \in Nat \ {0} /\ MaxTerm \in [Kind -> Nat] /\ MaxCrash \in Nat
ASSUME SubsetAssumption ==
    \A S \in {Maintainable, Electable, Targets, Appended, WriteFails, Flaky,
             Crashable} : S \subseteq Node

VARIABLES
    term,       \* consensus::_term
    votedFor,   \* consensus::_voted_for
    vstate,     \* consensus::_vstate
    leaderId,   \* consensus::_leader_id
    hbeat,      \* consensus::_hbeat, relative to the election timeout
    target,     \* consensus::_target_priority
    blocked,    \* nodes with _node_priority_override = zero_voter_priority
    kv,         \* the voted_for record in the key-value store
    log,        \* last log entry: its term and offset (dirty_offset)
    durable,    \* last log entry that a crash preserves
    round,      \* the election rounds in flight, one per way to start one
    lockq,      \* rounds waiting for _op_lock, in the order they asked for it
    msgs,       \* RPC requests and replies in flight, and waiting step_down fibers
    crashes,    \* number of crashes so far
    votes,      \* history: every vote ever persisted
    elected     \* history: every <<term, node>> that became leader

disk == <<kv, durable>>
history == <<votes, elected>>
vars == <<term, votedFor, vstate, leaderId, hbeat, target, blocked, kv, log,
          durable, round, lockq, msgs, crashes, votes, elected>>

---------------------------------------------------------------------------
\* Data.

Term == Nat
EntryId == [term : Nat, offset : Nat]
Stage == {"idle", "prevote_lock", "prevote", "vote_lock", "vote", "update_lock"}

\* "min" and "max" are the extreme time points the code stores; "recent" and
\* "stale" say whether a real time point is within the last election timeout.
Hbeat == {"min", "stale", "recent", "max"}

Round == [stage : Stage, term : Term, ok : SUBSET Node, failed : SUBSET Node,
          seen : SUBSET Term, success : BOOLEAN]

NoRound == [stage |-> "idle", term |-> 0, ok |-> {}, failed |-> {},
            seen |-> {}, success |-> FALSE]

Message ==
    [type : {"vote"}, from : Node, to : Node, kind : Kind, prevote : BOOLEAN,
     term : Term, last : EntryId]
    \cup [type : {"append"}, from : Node, to : Node, term : Term, last : EntryId]
    \cup [type : {"timeout_now"}, from : Node, to : Node, term : Term]
    \cup [type : {"timeout_now_reply"}, from : Node, to : Node]
    \cup [type : {"step_down"}, to : Node, term : Term]

\* Mutant: half of the voters are taken for a majority.
HalfIsMajority(S) == Cardinality(S) >= Cardinality(Node) \div 2

\* A majority as group_configuration::majority counts it.
IsMajority(S) == Cardinality(S) >= (Cardinality(Node) \div 2) + 1

OnlyVoter == Cardinality(Node) = 1

\* Position-based priority of a node, as every other node sees it.
Rank(n) == CHOOSE i \in 1..Len(Order) : Order[i] = n
NodePriority(n) ==
    (Len(Order) - (Rank(n) - 1)) * (MaxPriority \div Len(Order))

\* The priority a node gives to itself takes the override into account.
SelfPriority(n) == IF n \in blocked THEN 0 ELSE NodePriority(n)

AtLeast(a, b) == IF a >= b THEN a ELSE b

\* Mutant: the target priority is not kept above zero_voter_priority.
UnclampedTargetPriority(n) ==
    (target[n] \div Cardinality(Node)) * (Cardinality(Node) - 1)

NextTargetPriority(n) ==
    AtLeast((target[n] \div Cardinality(Node)) * (Cardinality(Node) - 1), 1)

\* The candidate's log is at least as up to date as the voter's.
LogOk(cand, mine) ==
    \/ cand.term > mine.term
    \/ cand.term = mine.term /\ cand.offset >= mine.offset

HeardFromLeader(n) == hbeat[n] \in {"recent", "max"}

ShouldSkipVote(n, ignoreHeartbeat) ==
    \/ ~ignoreHeartbeat /\ HeardFromLeader(n)
    \/ vstate[n] = "leader"

\* Mutant: failed replies do not end a round.
OnlyGrantsSettle(r) == IsMajority(r.ok)

\* process_replies stops: a majority agreed, a majority did not, or no request is
\* in progress.
Settled(r) ==
    IsMajority(r.ok) \/ IsMajority(r.failed) \/ r.ok \cup r.failed = Node

\* Mutant: the vote is granted without being written.
VoteNotWritten(v, t, c) == UNCHANGED <<kv, votes>>

\* write_voted_for, awaited before the vote counts.
WriteVotedFor(v, t, c) ==
    /\ kv' = [kv EXCEPT ![v] = [term |-> t, node |-> c]]
    /\ votes' = votes \cup {<<v, t, c>>}

---------------------------------------------------------------------------
\* Starting a round.

\* _op_lock is a semaphore that serves its waiters in order. Only the rounds
\* queue visibly: every other critical section is one atomic action.
Await(n, k) == lockq' = [lockq EXCEPT ![n] = Append(@, k)]

Acquire(n, k) ==
    /\ lockq[n] # <<>> /\ Head(lockq[n]) = k
    /\ lockq' = [lockq EXCEPT ![n] = Tail(@)]

\* dispatch_vote: the early returns lower the target priority, or do nothing.
\* A round already in flight for the same reason has not re-armed its timer.
\* At the bound MaxTerm the timer still fires, to no effect.
DispatchVote(n, k) ==
    /\ round[n][k].stage = "idle"
    /\ IF ShouldSkipVote(n, k = "transfer") \/ term[n] >= MaxTerm[k]
       THEN UNCHANGED <<target, round, lockq>>
       ELSE /\ target' = [target EXCEPT ![n] = NextTargetPriority(n)]
            /\ IF target[n] > SelfPriority(n) /\ k = "timer" /\ ~OnlyVoter
               THEN UNCHANGED <<round, lockq>>
               ELSE /\ Await(n, k)
                    /\ round' = [round EXCEPT ![n][k] =
                          [NoRound EXCEPT !.stage = IF k = "transfer"
                                                    THEN "vote_lock"
                                                    ELSE "prevote_lock"]]

VoteTimeout(n) ==
    /\ n \in Electable
    /\ DispatchVote(n, "timer")
    /\ UNCHANGED <<term, votedFor, vstate, leaderId, hbeat, blocked, log, msgs,
                   crashes, disk, history>>

Requests(n, k, prevote, t) ==
    {[type |-> "vote", from |-> n, to |-> v, kind |-> k, prevote |-> prevote,
      term |-> t, last |-> log[n]] : v \in Node \ {n}}

\* prevote_stm::prevote under the lock: nothing is checked again, the node
\* becomes a candidate and asks for its current term.
Prevote(n, k) ==
    /\ round[n][k].stage = "prevote_lock"
    /\ Acquire(n, k)
    /\ vstate' = [vstate EXCEPT ![n] = "candidate"]
    /\ leaderId' = [leaderId EXCEPT ![n] = Nil]
    /\ round' = [round EXCEPT ![n][k] =
           [NoRound EXCEPT !.stage = "prevote", !.term = term[n], !.ok = {n}]]
    /\ msgs' = msgs \cup Requests(n, k, TRUE, term[n])
    /\ UNCHANGED <<term, votedFor, hbeat, target, blocked, log, crashes, disk,
                   history>>

\* prevote_stm::process_replies and do_prevote: the round goes on to the vote,
\* or ends and leaves the node a candidate.
PrevoteDone(n, k) ==
    LET r == round[n][k]
        won == IsMajority(r.ok) /\ (OnlyVoter \/ n \notin blocked)
    IN /\ r.stage = "prevote"
       /\ Settled(r)
       /\ round' = [round EXCEPT ![n][k] =
              IF won THEN [NoRound EXCEPT !.stage = "vote_lock"] ELSE NoRound]
       /\ IF won THEN Await(n, k) ELSE UNCHANGED lockq
       /\ UNCHANGED <<term, votedFor, vstate, leaderId, hbeat, target, blocked,
                      log, msgs, crashes, disk, history>>

\* vote_stm::vote under the lock. Writing the self vote may fail: the exception
\* ends the round, the in-memory changes stay.
Vote(n, k) ==
    /\ round[n][k].stage = "vote_lock"
    /\ Acquire(n, k)
    /\ UNCHANGED <<hbeat, target, blocked, log, durable, crashes, elected>>
    /\ \/ /\ ShouldSkipVote(n, k = "transfer")
          /\ round' = [round EXCEPT ![n][k] = NoRound]
          /\ UNCHANGED <<term, votedFor, vstate, leaderId, kv, msgs, votes>>
       \/ /\ ~ShouldSkipVote(n, k = "transfer")
          /\ vstate' = [vstate EXCEPT ![n] = "candidate"]
          /\ leaderId' = [leaderId EXCEPT ![n] = Nil]
          /\ term' = [term EXCEPT ![n] = @ + 1]
          /\ votedFor' = [votedFor EXCEPT ![n] = n]
          /\ \/ /\ WriteVotedFor(n, term[n] + 1, n)
                /\ round' = [round EXCEPT ![n][k] =
                       [NoRound EXCEPT !.stage = "vote", !.term = term[n] + 1,
                                       !.ok = {n}]]
                /\ msgs' = msgs \cup Requests(n, k, FALSE, term[n] + 1)
             \/ /\ n \in WriteFails
                /\ round' = [round EXCEPT ![n][k] = NoRound]
                /\ UNCHANGED <<kv, votes, msgs>>

\* vote_stm::process_replies: the outcome is fixed here, late replies are still
\* recorded while the fiber waits for the lock.
VoteDone(n, k) ==
    LET r == round[n][k]
    IN /\ r.stage = "vote"
       /\ Settled(r)
       /\ round' = [round EXCEPT ![n][k] =
              [r EXCEPT !.stage = "update_lock", !.success = IsMajority(r.ok)]]
       /\ Await(n, k)
       /\ UNCHANGED <<term, votedFor, vstate, leaderId, hbeat, target, blocked,
                      log, msgs, crashes, disk, history>>

\* vote_stm::update_vote_state under the lock. A new leader appends its
\* configuration to its own log before it gives the lock up.
UpdateVoteState(n, k) ==
    LET r == round[n][k]
        outrun == \E t \in r.seen : t > term[n]
        inRound == vstate[n] = "candidate" /\ term[n] = r.term
    IN /\ r.stage = "update_lock"
       /\ Acquire(n, k)
       /\ round' = [round EXCEPT ![n][k] = NoRound]
       /\ UNCHANGED <<blocked, msgs, crashes, kv, durable, votes>>
       /\ \/ /\ \E t \in r.seen : t > term[n] /\ term' = [term EXCEPT ![n] = t]
             /\ votedFor' = [votedFor EXCEPT ![n] = Nil]
             /\ vstate' = [vstate EXCEPT ![n] = "follower"]
             /\ UNCHANGED <<leaderId, hbeat, target, log, elected>>
          \/ /\ ~outrun /\ ~inRound
             /\ UNCHANGED <<term, votedFor, vstate, leaderId, hbeat, target,
                            log, elected>>
          \/ /\ ~outrun /\ inRound
             /\ ~r.success \/ (n \in blocked /\ ~OnlyVoter)
             /\ vstate' = [vstate EXCEPT ![n] = "follower"]
             /\ UNCHANGED <<term, votedFor, leaderId, hbeat, target, log,
                            elected>>
          \/ /\ ~outrun /\ inRound
             /\ r.success /\ (n \notin blocked \/ OnlyVoter)
             /\ vstate' = [vstate EXCEPT ![n] = "leader"]
             /\ leaderId' = [leaderId EXCEPT ![n] = n]
             /\ target' = [target EXCEPT ![n] = MaxPriority]
             /\ hbeat' = [hbeat EXCEPT ![n] = "max"]
             /\ log' = [log EXCEPT ![n] =
                           [term |-> term[n], offset |-> log[n].offset + 1]]
             /\ elected' = elected \cup {<<term[n], n>>}
             /\ UNCHANGED <<term, votedFor>>
---------------------------------------------------------------------------
\* The vote RPC.

\* The reply to m is recorded by prevote_stm::process_reply or
\* vote_stm::dispatch_one, unless the round it belongs to is over; a prevote
\* counts logOk only, a vote the grant. A reply may also be lost.
Reply(m, t, granted, logOk) ==
    LET n == m.from
        r == round[n][m.kind]
        yes == IF m.prevote THEN logOk ELSE granted
        waiting == /\ r.term = m.term
                   /\ r.stage \in IF m.prevote THEN {"prevote"}
                                              ELSE {"vote", "update_lock"}
                   /\ m.to \notin r.ok \cup r.failed
    IN /\ msgs' = msgs \ {m}
       /\ \/ /\ waiting
             /\ round' = [round EXCEPT ![n][m.kind] =
                   [r EXCEPT !.ok = IF yes THEN @ \cup {m.to} ELSE @,
                             !.failed = IF yes THEN @ ELSE @ \cup {m.to},
                             !.seen = IF ~m.prevote /\ t > r.term
                                      THEN @ \cup {t} ELSE @]]
          \/ /\ ~waiting \/ m.to \in Flaky
             /\ UNCHANGED round

\* The stable leadership check of do_vote lets the request through.
PassesStableLeader(m) ==
    \/ ~HeardFromLeader(m.to)
    \/ m.kind = "transfer"
    \/ m.from = votedFor[m.to]

\* A leader turns down a peer to which its heartbeats fail; the statistics this
\* depends on belong to the heartbeat manager.
MayRefuseFailingPeer(m) == vstate[m.to] = "leader" /\ m.term <= term[m.to]

PriorityTooLow(m) ==
    NodePriority(m.from) < target[m.to] /\ m.kind # "transfer"

\* do_vote without a change of state. (When consensus::vote does not get the
\* lock in time it refuses as well; for the candidate this is a failed RPC.)
RefuseVote(m) ==
    LET v == m.to
        logOk == LogOk(m.last, log[v])
    IN /\ m.type = "vote"
       /\ \/ /\ ~PassesStableLeader(m) \/ MayRefuseFailingPeer(m)
             /\ Reply(m, term[v], FALSE, FALSE)
          \/ /\ PassesStableLeader(m)
             /\ m.term < term[v] \/ PriorityTooLow(m)
                \/ (m.term = term[v] /\ ~logOk)
             /\ Reply(m, term[v], FALSE, logOk)
       /\ UNCHANGED <<term, votedFor, vstate, leaderId, hbeat, target, blocked,
                      log, lockq, crashes, disk, history>>

\* Mutant: a second request of the same term may take the vote over.
AlwaysFreeToVote(m) == m.term >= term[m.to]

FreeToVote(m) == m.term > term[m.to] \/ votedFor[m.to] = Nil

\* do_vote from the comparison of the terms on. The vote is persisted before it
\* is granted; when the write fails the vote is not granted.
DecideVote(m) ==
    LET v == m.to
        newTerm == m.term > term[v]
        logOk == LogOk(m.last, log[v])
        free == FreeToVote(m)
    IN /\ m.type = "vote"
       /\ PassesStableLeader(m) /\ m.term >= term[v] /\ ~PriorityTooLow(m)
       /\ newTerm \/ logOk
       /\ term' = [term EXCEPT ![v] = m.term]
       /\ vstate' = IF newTerm THEN [vstate EXCEPT ![v] = "follower"] ELSE vstate
       /\ leaderId' = IF newTerm THEN [leaderId EXCEPT ![v] = Nil] ELSE leaderId
       /\ hbeat' = IF newTerm
                   THEN [hbeat EXCEPT ![v] = IF logOk THEN "recent" ELSE "min"]
                   ELSE hbeat
       /\ \/ /\ ~logOk
             /\ votedFor' = [votedFor EXCEPT ![v] = Nil]
             /\ Reply(m, m.term, FALSE, FALSE)
             /\ UNCHANGED <<kv, votes>>
          \/ /\ logOk /\ free
             /\ votedFor' = [votedFor EXCEPT ![v] = m.from]
             /\ WriteVotedFor(v, m.term, m.from)
             /\ Reply(m, m.term, TRUE, TRUE)
          \/ /\ logOk /\ free /\ v \in WriteFails
             /\ votedFor' = [votedFor EXCEPT ![v] = Nil]
             /\ Reply(m, m.term, FALSE, TRUE)
             /\ UNCHANGED <<kv, votes>>
          \/ /\ logOk /\ ~free
             /\ Reply(m, m.term, m.from = votedFor[v], TRUE)
             /\ UNCHANGED <<votedFor, kv, votes>>
       /\ UNCHANGED <<target, blocked, log, durable, lockq, crashes, elected>>

\* The RPC fails or times out: its request may still reach the voter later.
VoteRpcFails(n, k, v) ==
    /\ round[n][k].stage \in {"prevote", "vote", "update_lock"}
    /\ v \in Flaky \ (round[n][k].ok \cup round[n][k].failed)
    /\ round' = [round EXCEPT ![n][k] =
                     [round[n][k] EXCEPT !.failed = @ \cup {v}]]
    /\ UNCHANGED <<term, votedFor, vstate, leaderId, hbeat, target, blocked,
                   log, msgs, lockq, crashes, disk, history>>
---------------------------------------------------------------------------
\* What the leader sends, and stepping down.

\* A heartbeat or a replicate request; its entries end where the leader's log
\* does, or it carries none.
SendAppend(l, f) ==
    /\ vstate[l] = "leader"
    /\ f \in Appended \ {l}
    /\ msgs' = msgs \cup {[type |-> "append", from |-> l, to |-> f,
                           term |-> term[l], last |-> log[l]]}
    /\ UNCHANGED <<term, votedFor, vstate, leaderId, hbeat, target, blocked,
                   log, round, lockq, crashes, disk, history>>

\* update_follower_index: a leader that sees a larger term spawns step_down.
LargerTermSeen(l, t) ==
    IF vstate[l] = "leader" /\ t > term[l]
    THEN {[type |-> "step_down", to |-> l, term |-> t]} ELSE {}

\* do_append_entries. Whether the entries fit the follower's log is decided by
\* the log matching of module RaftReplication; either outcome is possible here.
\* The term is adopted in memory only. The reply reaches the leader or is lost.
AppendEntries(m) ==
    LET f == m.to
    IN /\ m.type = "append"
       /\ \/ msgs' = (msgs \ {m}) \cup LargerTermSeen(m.from, term[f])
          \/ msgs' = msgs \ {m}
       /\ \/ /\ m.term < term[f]
             /\ UNCHANGED <<term, votedFor, vstate, leaderId, hbeat, target, log,
                            durable>>
          \/ /\ m.term >= term[f]
             /\ target' = [target EXCEPT ![f] = MaxPriority]
             /\ vstate' = [vstate EXCEPT ![f] = "follower"]
             /\ hbeat' = [hbeat EXCEPT ![f] = "recent"]
             /\ leaderId' = [leaderId EXCEPT ![f] = m.from]
             /\ term' = [term EXCEPT ![f] = m.term]
             /\ votedFor' = [votedFor EXCEPT ![f] =
                                IF m.term > term[f] THEN Nil ELSE @]
             /\ \/ /\ log' = [log EXCEPT ![f] = m.last]
                   /\ durable' = [durable EXCEPT ![f] =
                         IF @.offset >= m.last.offset THEN m.last ELSE @]
                \/ UNCHANGED <<log, durable>>
       /\ UNCHANGED <<blocked, round, lockq, crashes, kv, history>>

\* Mutant: step_down adopts the term and forgets to leave the leader state.
AdoptTermAsLeader(n, t) ==
    /\ term' = [term EXCEPT ![n] = t]
    /\ votedFor' = [votedFor EXCEPT ![n] = Nil]
    /\ UNCHANGED <<vstate, hbeat>>

AdoptTerm(n, t) ==
    /\ term' = [term EXCEPT ![n] = t]
    /\ votedFor' = [votedFor EXCEPT ![n] = Nil]
    /\ vstate' = [vstate EXCEPT ![n] = "follower"]
    /\ hbeat' = [hbeat EXCEPT ![n] = "recent"]

\* step_down(term), once it has the lock. It keeps _leader_id.
StepDownToTerm(m) ==
    LET n == m.to
    IN /\ m.type = "step_down"
       /\ msgs' = msgs \ {m}
       /\ IF m.term > term[n]
          THEN AdoptTerm(n, m.term)
          ELSE UNCHANGED <<term, votedFor, vstate, hbeat>>
       /\ UNCHANGED <<leaderId, target, blocked, log, round, lockq, crashes, disk,
                      history>>

DoStepDown(n) ==
    /\ vstate' = [vstate EXCEPT ![n] = "follower"]
    /\ hbeat' = [hbeat EXCEPT ![n] = "recent"]
    /\ leaderId' = [leaderId EXCEPT ![n] = Nil]
    /\ UNCHANGED <<term, votedFor, target, blocked, log, round, lockq, crashes, disk,
                   history>>

\* maybe_step_down: a majority has not answered for an election timeout.
MaybeStepDown(n) ==
    vstate[n] = "leader" /\ DoStepDown(n) /\ UNCHANGED msgs

\* Leadership transfer, from the point where the target has caught up: what the
\* leader knows of the target's log is true unless the target has moved on to
\* another leader.
TransferLeadership(l, f) ==
    /\ vstate[l] = "leader"
    /\ f \in Targets \ {l}
    /\ log[f] = log[l] \/ term[f] > term[l]
    /\ msgs' = msgs \cup {[type |-> "timeout_now", from |-> l, to |-> f,
                           term |-> term[l]]}
    /\ UNCHANGED <<term, votedFor, vstate, leaderId, hbeat, target, blocked,
                   log, round, lockq, crashes, disk, history>>

TimeoutNow(m) ==
    LET n == m.to
        reply == [type |-> "timeout_now_reply", from |-> n, to |-> m.from]
        accepted == m.term = term[n] /\ vstate[n] = "follower" /\ n \notin blocked
        fiber == IF m.term > term[n]
                 THEN {[type |-> "step_down", to |-> n, term |-> m.term]} ELSE {}
    IN /\ m.type = "timeout_now"
       /\ msgs' = (msgs \ {m}) \cup {reply} \cup fiber
       /\ IF accepted THEN DispatchVote(n, "transfer")
                      ELSE UNCHANGED <<target, round, lockq>>
       /\ UNCHANGED <<term, votedFor, vstate, leaderId, hbeat, blocked, log,
                      crashes, disk, history>>

\* do_transfer_leadership after the reply: whatever the reply says, and whatever
\* the node has become meanwhile, it steps down.
TimeoutNowReply(m) ==
    /\ m.type = "timeout_now_reply"
    /\ msgs' = msgs \ {m}
    /\ DoStepDown(m.to)

---------------------------------------------------------------------------
\* Time, disk, maintenance mode and crashes.

HbeatExpires(n) ==
    /\ hbeat[n] = "recent"
    /\ hbeat' = [hbeat EXCEPT ![n] = "stale"]
    /\ UNCHANGED <<term, votedFor, vstate, leaderId, target, blocked, log, round, lockq,
                   msgs, crashes, disk, history>>

FlushLog(n) ==
    /\ durable[n] # log[n]
    /\ durable' = [durable EXCEPT ![n] = log[n]]
    /\ UNCHANGED <<term, votedFor, vstate, leaderId, hbeat, target, blocked, log,
                   round, lockq, msgs, crashes, kv, history>>

BlockNewLeadership(n) ==
    /\ n \in Maintainable \ blocked
    /\ blocked' = blocked \cup {n}
    /\ UNCHANGED <<term, votedFor, vstate, leaderId, hbeat, target, log, round, lockq,
                   msgs, crashes, disk, history>>

UnblockNewLeadership(n) ==
    /\ n \in blocked
    /\ blocked' = blocked \ {n}
    /\ UNCHANGED <<term, votedFor, vstate, leaderId, hbeat, target, log, round, lockq,
                   msgs, crashes, disk, history>>

\* do_start: the log is ahead of the vote record.
LogTermWins(n) == durable[n].term > kv[n].term

\* A crash followed by do_start: the term and the vote come from the key-value
\* store, unless the log holds an entry of a later term.
Restart(n) ==
    LET fromLog == LogTermWins(n)
    IN /\ n \in Crashable /\ crashes < MaxCrash
       /\ crashes' = crashes + 1
       /\ log' = [log EXCEPT ![n] = durable[n]]
       /\ term' = [term EXCEPT ![n] = IF fromLog THEN durable[n].term
                                                 ELSE kv[n].term]
       /\ votedFor' = [votedFor EXCEPT ![n] = IF fromLog THEN Nil ELSE kv[n].node]
       /\ vstate' = [vstate EXCEPT ![n] = "follower"]
       /\ leaderId' = [leaderId EXCEPT ![n] = Nil]
       /\ hbeat' = [hbeat EXCEPT ![n] = "min"]
       /\ target' = [target EXCEPT ![n] = MaxPriority]
       /\ blocked' = blocked \ {n}
       /\ round' = [round EXCEPT ![n] = [k \in Kind |-> NoRound]]
       /\ lockq' = [lockq EXCEPT ![n] = <<>>]
       /\ msgs' = {m \in msgs :
                     ~(m.to = n /\ m.type \in {"timeout_now_reply", "step_down"})}
       /\ UNCHANGED <<disk, history>>
---------------------------------------------------------------------------
Init ==
    /\ term = [n \in Node |-> 0]
    /\ votedFor = [n \in Node |-> Nil]
    /\ vstate = [n \in Node |-> "follower"]
    /\ leaderId = [n \in Node |-> Nil]
    /\ hbeat = [n \in Node |-> "min"]
    /\ target = [n \in Node |-> MaxPriority]
    /\ blocked = {}
    /\ kv = [n \in Node |-> [term |-> 0, node |-> Nil]]
    /\ log = [n \in Node |-> [term |-> 0, offset |-> 0]]
    /\ durable = log
    /\ round = [n \in Node |-> [k \in Kind |-> NoRound]]
    /\ lockq = [n \in Node |-> <<>>]
    /\ msgs = {}
    /\ crashes = 0
    /\ votes = {}
    /\ elected = {}

RoundStep(n, k) ==
    \/ Prevote(n, k)
    \/ PrevoteDone(n, k)
    \/ Vote(n, k)
    \/ VoteDone(n, k)
    \/ UpdateVoteState(n, k)
    \/ \E v \in Node : VoteRpcFails(n, k, v)

Receive(m) ==
    \/ RefuseVote(m)
    \/ DecideVote(m)
    \/ AppendEntries(m)
    \/ StepDownToTerm(m)
    \/ TimeoutNow(m)
    \/ TimeoutNowReply(m)

NodeStep(n) ==
    \/ VoteTimeout(n)
    \/ MaybeStepDown(n)
    \/ HbeatExpires(n)
    \/ FlushLog(n)
    \/ BlockNewLeadership(n)
    \/ UnblockNewLeadership(n)
    \/ Restart(n)
    \/ \E f \in Node : SendAppend(n, f) \/ TransferLeadership(n, f)

Next ==
    \/ \E n \in Node, k \in Kind : RoundStep(n, k)
    \/ \E m \in msgs : Receive(m)
    \/ \E n \in Node : NodeStep(n)

Spec == Init /\ [][Next]_vars

\* Every RPC has a deadline (rpc::client_opts) and every fiber that waits for
\* the lock gets it (the lock is a FIFO semaphore): the steps of a round are
\* fair. Nothing is assumed of timers, the network or the other nodes.
Fairness == \A n \in Node, k \in Kind : WF_vars(RoundStep(n, k))

FairSpec == Spec /\ Fairness

---------------------------------------------------------------------------
\* Properties.

\* The state has the shape the declarations describe.
TypeOK ==
    /\ term \in [Node -> Term]
    /\ votedFor \in [Node -> Node \cup {Nil}]
    /\ vstate \in [Node -> {"follower", "candidate", "leader"}]
    /\ leaderId \in [Node -> Node \cup {Nil}]
    /\ hbeat \in [Node -> Hbeat]
    /\ target \in [Node -> Nat \ {0}]
    /\ blocked \subseteq Node
    /\ kv \in [Node -> [term : Term, node : Node \cup {Nil}]]
    /\ log \in [Node -> EntryId]
    /\ durable \in [Node -> EntryId]
    /\ round \in [Node -> [Kind -> Round]]
    /\ lockq \in [Node -> Seq(Kind)]
    /\ msgs \subseteq Message
    /\ crashes \in Nat
    /\ votes \subseteq Node \X Term \X Node
    /\ elected \subseteq Term \X Node

\* At most one node ever becomes leader in a term (update_vote_state), whatever
\* rounds overlap, requests arrive late, writes fail and nodes restart.
OneLeaderPerTerm ==
    \A a, b \in elected : a[1] = b[1] => a[2] = b[2]

\* A voter persists votes for one candidate only in a term (do_vote,
\* self_vote), although terms adopted from append_entries are lost in a crash
\* and a prevote may take the vote of the current term.
OneVotePerTerm ==
    \A a, b \in votes : a[1] = b[1] /\ a[2] = b[2] => a[3] = b[3]

\* No vote is counted that is not on the voter's disk: a majority that elected a
\* leader can lose its memory and still refuses a rival (write_voted_for comes
\* before the reply is granted).
CountedVotesPersisted ==
    \A n \in Node, k \in Kind :
        round[n][k].stage \in {"vote", "update_lock"} =>
            \A v \in round[n][k].ok :
                /\ <<v, round[n][k].term, n>> \in votes
                /\ kv[v].term >= round[n][k].term

\* A leader was elected in its current term, voted for itself in it, and holds
\* the marks (itself as leader, the maximal heartbeat) that keep it from starting
\* rounds and from voting: every way to another term (append_entries, vote
\* requests and replies, step_down) leaves the leader state.
LeaderOfItsTerm ==
    \A n \in Node : vstate[n] = "leader" =>
        /\ <<term[n], n>> \in elected
        /\ votedFor[n] = n /\ leaderId[n] = n /\ hbeat[n] = "max"

\* Every election round ends, also when voters never answer: the replies that
\* time out are enough for process_replies to stop.
RoundsEnd ==
    \A n \in Node, k \in Kind :
        round[n][k].stage # "idle" ~> round[n][k].stage = "idle"

\* "Set last heartbeat timestamp to max as we are the leader"
\* (vote_stm::update_vote_state): a node that holds the maximal heartbeat, and
\* so neither starts a round nor votes for another node, is the leader.
MaxHbeatMeansLeader ==
    \A n \in Node : hbeat[n] = "max" => vstate[n] = "leader"

---------------------------------------------------------------------------
\* The inductive invariant behind OneVotePerTerm and OneLeaderPerTerm.

\* The record on disk is the last vote: no persisted vote is of a later term, and
\* a node that is in the term of its record remembers it.
RecordIsLastVote ==
    /\ \A n \in Node :
          /\ kv[n].term <= term[n]
          /\ kv[n].node # Nil =>
                /\ <<n, kv[n].term, kv[n].node>> \in votes
                /\ kv[n].term = term[n] => votedFor[n] = kv[n].node
    /\ \A w \in votes :
          /\ w[2] <= kv[w[1]].term
          /\ w[2] = kv[w[1]].term => kv[w[1]].node = w[3]

\* A vote held in memory for another node was persisted; only a vote for itself
\* may be held although its write failed.
MemoryIsPersisted ==
    \A n \in Node :
        votedFor[n] \notin {Nil, n} => <<n, term[n], votedFor[n]>> \in votes

\* Nodes ask each other, not themselves.
RequestsToOthers == \A m \in msgs : m.type = "vote" => m.from # m.to

\* The replies a round counts are persisted votes, the node's own among them, and it
\* succeeds on a majority.
RoundCountsVotes ==
    \A n \in Node, k \in Kind :
        round[n][k].stage \in {"vote", "update_lock"} =>
            /\ n \in round[n][k].ok
            /\ \A v \in round[n][k].ok : <<v, round[n][k].term, n>> \in votes
            /\ round[n][k].success => IsMajority(round[n][k].ok)

\* Whoever was elected holds the persisted votes of a majority.
ElectedByMajority ==
    \A e \in elected : \E Q \in SUBSET Node :
        IsMajority(Q) /\ \A v \in Q : <<v, e[1], e[2]>> \in votes

ElectionInv ==
    /\ RecordIsLastVote
    /\ MemoryIsPersisted
    /\ OneVotePerTerm
    /\ RequestsToOthers
    /\ RoundCountsVotes
    /\ ElectedByMajority
=============================================================================
