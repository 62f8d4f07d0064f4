------------------------ MODULE LinearizableBarrier ------------------------
(***************************************************************************)
(* consensus::linearizable_barrier: a leader sends an empty append request to *)
(* every voter and returns its commit index once a majority has answered the  *)
(* request or a later one.  Answers come in any order, another node may be    *)
(* elected at any time, and what an answer causes (stepping down, the commit  *)
(* index) is queued on _op_lock while the barrier waits.                      *)
(*                                                                          *)
(* An election is one step here (RaftElection has its messages), and a node   *)
(* leads at most once: the sequence numbers of one leadership are compared.   *)
(* A log is the sequence of the terms of its entries.                         *)
(***************************************************************************)
EXTENDS Naturals, Sequences, FiniteSets, SequencesExt

CONSTANTS
    Node, First,   \* the voters and the one that leads at the start
    Second,        \* bound: the nodes that are elected later
    MaxTerm,       \* bound: elections
    MaxLog,        \* bound: entries of a log
    MaxSends,      \* bound: requests with entries
    MaxBarriers

VARIABLES
    term, leads,      \* _term; _vstate = leader
    led,              \* bound: the nodes that have been leader
    log, flushed,     \* the log; _flushed_offset
    commit,           \* _commit_index
    confirmed,        \* _confirmed_term
    fstats,           \* leader, follower -> sequence numbers and match index
    requests, replies,
    opLock,           \* what waits for _op_lock
    barrier,          \* the barrier of each node
    sends, barriers

vars == <<term, leads, led, log, flushed, commit, confirmed, fstats,
          requests, replies, opLock, barrier, sends, barriers>>
bounds == <<sends, barriers>>

Others(n) == Node \ {n}
Majorities == {Q \in SUBSET Node : 2 * Cardinality(Q) > Cardinality(Node)}
Smaller(a, b) == IF a < b THEN a ELSE b
Larger(a, b) == IF a > b THEN a ELSE b
TermAt(n, o) == IF o \in 1..Len(log[n]) THEN log[n][o] ELSE 0
Idle == [at |-> "idle", term |-> 0, seq |-> [n \in Node |-> 0], floor |-> 0, result |-> 0]
NoStats == [sent |-> 0, received |-> 0, successful |-> 0, flushed |-> 0]

\* A reply to a node that does not lead is ignored, and the node leads only once.
Kept(rs) == {r \in rs : leads'[r.to]}

Init ==
    /\ term = [n \in Node |-> 1]
    /\ leads = [n \in Node |-> n = First] /\ led = {First}
    /\ log = [n \in Node |-> <<1>>] /\ flushed = [n \in Node |-> 1]
    /\ commit = [n \in Node |-> IF n = First THEN 1 ELSE 0]
    /\ confirmed = [n \in Node |-> IF n = First THEN 1 ELSE 0]
    /\ fstats = [n \in Node |-> [m \in Node |-> NoStats]]
    /\ requests = {} /\ replies = {}
    /\ opLock = [n \in Node |-> <<>>]
    /\ barrier = [n \in Node |-> Idle]
    /\ sends = 0 /\ barriers = 0

---------------------------------------------------------------------------
\* Leading.

\* vote_stm: a majority votes for n in a new term; n appends the configuration.
UpToDate(n, m) ==
    LET a == Len(log[n]) b == Len(log[m])
    IN  TermAt(n, a) > TermAt(m, b) \/ (TermAt(n, a) = TermAt(m, b) /\ a >= b)


Elect(n, Q) ==
    LET t == term[n] + 1
    IN  /\ n \in Second \ led /\ n \in Q /\ Q \in Majorities
        /\ t <= MaxTerm /\ Len(log[n]) < MaxLog
        /\ \A m \in Node : term[m] < t
        /\ \A m \in Q : UpToDate(n, m)
        /\ term' = [m \in Node |-> IF m \in Q THEN t ELSE term[m]]
        /\ leads' = [m \in Node |-> IF m \in Q THEN m = n ELSE leads[m]]
        /\ led' = led \cup {n}
        /\ fstats' = [m \in Node |-> IF m \in Q THEN [k \in Node |-> NoStats] ELSE fstats[m]]
        /\ log' = [log EXCEPT ![n] = Append(@, t)]
        /\ replies' = Kept(replies)
    /\ UNCHANGED <<flushed, commit, confirmed, requests, opLock, barrier, bounds>>

\* A leader appends an entry to its log; the flush comes later.
Replicate(n) ==
    /\ leads[n] /\ Len(log[n]) < MaxLog
    /\ log' = [log EXCEPT ![n] = Append(@, term[n])]
    /\ UNCHANGED <<term, leads, led, flushed, commit, confirmed, fstats, requests,
                   replies, opLock, barrier, bounds>>

FlushLog(n) ==
    /\ flushed[n] < Len(log[n])
    /\ flushed' = [flushed EXCEPT ![n] = Len(log[n])]
    /\ UNCHANGED <<term, leads, led, log, commit, confirmed, fstats, requests,
                   replies, opLock, barrier, bounds>>

\* A request with the entries from prev + 1 to last; empty when they are equal.
Request(n, m, seq, prev) ==
    [from |-> n, to |-> m, term |-> term[n], seq |-> seq, prev |-> prev,
     prevTerm |-> TermAt(n, prev), entries |-> SubSeq(log[n], prev + 1, Len(log[n])),
     commit |-> commit[n]]

\* replicate_entries_stm and recovery_stm: entries are sent to a follower.
SendEntries(n, m) ==
    /\ leads[n] /\ n # m /\ sends < MaxSends
    /\ requests' = requests \cup {Request(n, m, fstats[n][m].sent + 1, Len(log[n]) - 1)}
    /\ sends' = sends + 1
    /\ fstats' = [fstats EXCEPT ![n][m].sent = @ + 1]
    /\ UNCHANGED <<term, leads, led, log, flushed, commit, confirmed, replies, opLock,
                   barrier, barriers>>

---------------------------------------------------------------------------
\* consensus::do_append_entries at a follower.

Reply(r, n, ok, t, o, f) ==
    [from |-> n, to |-> r.from, term |-> t, seq |-> r.seq, success |-> ok,
     dirty |-> o, flushed |-> f]

\* The follower sees an old term: the reply has the newer one.
Reject(r) ==
    LET n == r.to
    IN  /\ r.term < term[n]
        /\ leads' = leads
        /\ replies' = Kept(replies \cup
             {Reply(r, n, FALSE, term[n], Len(log[n]), flushed[n])})
        /\ requests' = requests \ {r}
    /\ UNCHANGED <<term, led, log, flushed, commit, confirmed, fstats, opLock, barrier, bounds>>

\* It steps down and looks for the previous entry.  An empty request that finds
\* entries behind it fails; one with entries overwrites what is behind, unless
\* that is committed.
Accept(r) ==
    LET n == r.to
        matches == TermAt(n, r.prev) = r.prevTerm /\ r.prev <= Len(log[n])
        behind == Len(log[n]) > r.prev
        known == behind /\ r.prev < commit[n]
        ok == matches /\ (r.entries # <<>> \/ ~behind)
        writes == ok /\ r.entries # <<>> /\ ~known
        newLog == IF writes THEN SubSeq(log[n], 1, r.prev) \o r.entries ELSE log[n]
        end == IF ok /\ known THEN commit[n] ELSE Len(newLog)
    IN  /\ r.term >= term[n]
        /\ term' = [term EXCEPT ![n] = r.term]
        /\ leads' = [leads EXCEPT ![n] = FALSE]
        /\ fstats' = [fstats EXCEPT ![n] = [k \in Node |-> NoStats]]
        /\ log' = [log EXCEPT ![n] = newLog]
        /\ flushed' = [flushed EXCEPT ![n] = IF ok /\ ~known THEN Len(newLog) ELSE @]
        /\ commit' = [commit EXCEPT ![n] = IF ok /\ ~known
                                           THEN Larger(@, Smaller(r.commit, flushed'[n])) ELSE @]
        /\ replies' = Kept(replies \cup
             {Reply(r, n, ok, r.term, end, IF ok /\ known THEN end ELSE flushed'[n])})
        /\ requests' = requests \ {r}
    /\ UNCHANGED <<led, confirmed, opLock, barrier, bounds>>

---------------------------------------------------------------------------
\* Replies at the leader.

\* A reply that came out of order counts only if it shows the whole log.
Stale(r, st) == r.seq < st.received /\ r.dirty < Len(log[r.to])

\* consensus::update_follower_index and process_append_entries_reply.  A newer
\* term has the leader step down under the lock; a success is counted for the
\* highest sequence number received so far.
ProcessReply(r) ==
    LET n == r.to
        st == fstats[n][r.from]
        seen == Smaller(Larger(r.seq, st.received), st.sent)
    IN  /\ replies' = replies \ {r}
        /\ \/ /\ ~leads[n] \/ Stale(r, st)
              /\ UNCHANGED <<fstats, opLock>>
           \/ /\ leads[n] /\ ~Stale(r, st) /\ r.term > term[n]
              /\ fstats' = [fstats EXCEPT ![n][r.from].received = seen]
              /\ opLock' = [opLock EXCEPT ![n] = Append(@, [op |-> "step_down", term |-> r.term])]
           \/ /\ leads[n] /\ ~Stale(r, st) /\ r.term <= term[n] /\ ~r.success
              /\ fstats' = [fstats EXCEPT ![n][r.from].received = seen]
              /\ UNCHANGED opLock
           \/ /\ leads[n] /\ ~Stale(r, st) /\ r.term <= term[n] /\ r.success
              /\ fstats' = [fstats EXCEPT ![n][r.from] =
                    [@ EXCEPT !.received = seen, !.successful = seen, !.flushed = r.flushed]]
              /\ opLock' = [opLock EXCEPT ![n] = IF @ # <<>> /\ Last(@).op = "commit" THEN @
                                               ELSE Append(@, [op |-> "commit", term |-> 0])]
    /\ UNCHANGED <<term, leads, led, log, flushed, commit, confirmed, requests, barrier, bounds>>

---------------------------------------------------------------------------
\* What runs under _op_lock, in the order in which it was asked for.

Next1(n, op) == opLock[n] # <<>> /\ Head(opLock[n]).op = op

Unlock(n) == opLock' = [opLock EXCEPT ![n] = Tail(@)]

\* consensus::step_down.
StepDown(n) ==
    LET t == Head(opLock[n]).term
    IN  /\ Next1(n, "step_down") /\ Unlock(n)
        /\ IF t > term[n]
           THEN /\ term' = [term EXCEPT ![n] = t] /\ leads' = [leads EXCEPT ![n] = FALSE]
                /\ fstats' = [fstats EXCEPT ![n] = [k \in Node |-> NoStats]]
           ELSE UNCHANGED <<term, leads, fstats>>
        /\ replies' = Kept(replies)
    /\ UNCHANGED <<led, log, flushed, commit, confirmed, requests, barrier, bounds>>

\* consensus::do_maybe_update_leader_commit_idx.  The term is confirmed by what
\* a majority has flushed, the commit index also waits for the leader's flush.
MajorityMatch(n) ==
    LET at(m) == IF m = n THEN flushed[n] ELSE fstats[n][m].flushed
    IN  CHOOSE o \in 0..MaxLog :
          /\ {m \in Node : at(m) >= o} \in Majorities
          /\ \A p \in o + 1..MaxLog : {m \in Node : at(m) >= p} \notin Majorities

MaybeUpdateCommitIndex(n) ==
    LET match == MajorityMatch(n)
        o == Smaller(match, flushed[n])
    IN  /\ Next1(n, "commit") /\ Unlock(n)
        /\ confirmed' = [confirmed EXCEPT ![n] =
              IF leads[n] /\ TermAt(n, match) = term[n] THEN term[n] ELSE @]
        /\ commit' = [commit EXCEPT ![n] =
              IF leads[n] /\ o > @ /\ TermAt(n, o) = term[n] THEN o ELSE @]
    /\ UNCHANGED <<term, leads, led, log, flushed, fstats, requests, replies, barrier, bounds>>

---------------------------------------------------------------------------
\* consensus::linearizable_barrier.

\* consensus::is_leader.
IsLeader(n) == leads[n] /\ confirmed[n] = term[n]

\* The highest index that is committed anywhere.
Committed == CHOOSE o \in {commit[n] : n \in Node} : \A n \in Node : commit[n] <= o

\* The log is flushed and the empty requests are sent.
StartBarrier(n) ==
    /\ barrier[n].at = "idle" /\ opLock[n] = <<>>
    /\ IsLeader(n)
    /\ barriers < MaxBarriers /\ barriers' = barriers + 1
    /\ flushed' = [flushed EXCEPT ![n] = Len(log[n])]
    /\ fstats' = [fstats EXCEPT ![n] =
          [m \in Node |-> IF m = n THEN @[m] ELSE [@[m] EXCEPT !.sent = @ + 1]]]
    /\ requests' = requests \cup
          {Request(n, m, fstats[n][m].sent + 1, Len(log[n])) : m \in Others(n)}
    /\ barrier' = [barrier EXCEPT ![n] =
          [at |-> "waiting", term |-> term[n], floor |-> Committed, result |-> 0,
           seq |-> [m \in Node |-> IF m = n THEN 0 ELSE fstats[n][m].sent + 1]]]
    /\ UNCHANGED <<term, leads, led, log, commit, confirmed, replies, opLock, sends>>

\* majority_sequences_updated.
MajorityAnswered(n) ==
    {m \in Node : m = n \/ fstats[n][m].successful >= barrier[n].seq[m]} \in Majorities

\* The wait is over: the barrier asks for the lock again.
Wake(n) ==
    /\ barrier[n].at = "waiting"
    /\ MajorityAnswered(n) \/ term[n] # barrier[n].term
    /\ barrier' = [barrier EXCEPT ![n].at = "locking"]
    /\ opLock' = [opLock EXCEPT ![n] = Append(@, [op |-> "barrier", term |-> 0])]
    /\ UNCHANGED <<term, leads, led, log, flushed, commit, confirmed, fstats, requests, replies, bounds>>

\* Mutant: the term is not looked at again.
ReturnAnyTerm(n) ==
    /\ Next1(n, "barrier") /\ Unlock(n)
    /\ barrier' = [barrier EXCEPT ![n].at = "done", ![n].result = commit[n]]
    /\ UNCHANGED <<term, leads, led, log, flushed, commit, confirmed, fstats, requests, replies, bounds>>

\* The commit index is the answer, or there is none in another term.
Return(n) ==
    /\ Next1(n, "barrier") /\ Unlock(n)
    /\ barrier' = [barrier EXCEPT ![n] =
          IF term[n] = @.term THEN [@ EXCEPT !.at = "done", !.result = commit[n]]
          ELSE [@ EXCEPT !.at = "not_leader"]]
    /\ UNCHANGED <<term, leads, led, log, flushed, commit, confirmed, fstats, requests, replies, bounds>>

Next ==
    \/ \E n \in Node :
         \/ \E Q \in Majorities : Elect(n, Q)
         \/ Replicate(n) \/ FlushLog(n) \/ StepDown(n) \/ MaybeUpdateCommitIndex(n)
         \/ StartBarrier(n) \/ Wake(n) \/ Return(n)
         \/ \E m \in Node : SendEntries(n, m)
    \/ \E r \in requests : Reject(r) \/ Accept(r)
    \/ \E r \in replies : ProcessReply(r)

Spec == Init /\ [][Next]_vars

---------------------------------------------------------------------------
\* Properties.

\* Type invariant: a leader's commit index and flushed offset are in its log.
TypeOK ==
    /\ term \in [Node -> 1..MaxTerm] /\ leads \in [Node -> BOOLEAN]
    /\ \A n \in Node : commit[n] <= flushed[n] /\ flushed[n] <= Len(log[n])
    /\ \A n, m \in Node : fstats[n][m].successful <= fstats[n][m].received
                          /\ fstats[n][m].received <= fstats[n][m].sent

\* The offset a barrier returns is at or above every offset that was committed,
\* by this leader or by another, when the barrier began: a read up to it is not
\* stale, whichever node has been elected meanwhile.
BarrierIsLinearizable ==
    \A n \in Node : barrier[n].at = "done" => barrier[n].result >= barrier[n].floor

=============================================================================
