----------------------- MODULE RaftReplicationProofs ------------------------
(***************************************************************************)
(* Theorems about RaftReplication: the types, and the two properties that    *)
(* every node keeps by itself, whatever the others send: the commit index    *)
(* stays within the flushed part of the log, and committed entries stay.     *)
(*                                                                         *)
(* The lemmas on the operators come first, with what do_append_entries does  *)
(* to one node, whatever request it is given; then every action keeps the    *)
(* types; and then the theorems.                                             *)
(*                                                                         *)
(* The second half prepares log matching.  A segment is a piece of a log: the *)
(* log of a node, or what a request carries together with the entry before   *)
(* it.  Segments that agree at an offset agree at every earlier offset both  *)
(* have, and do_append_entries only cuts and splices segments.               *)
(***************************************************************************)
EXTENDS RaftReplication, TLAPS

---------------------------------------------------------------------------
\* The helpers on numbers, terms and indices.

\* Least is a number and the smaller of the two.
LEMMA LeastFacts ==
    ASSUME NEW a \in Nat, NEW b \in Nat
    PROVE  Least(a, b) \in Nat /\ Least(a, b) <= a /\ Least(a, b) <= b
           /\ (Least(a, b) = a \/ Least(a, b) = b)
  BY DEF Least

\* Most is a number and the greater of the two.
LEMMA MostFacts ==
    ASSUME NEW a \in Nat, NEW b \in Nat
    PROVE  Most(a, b) \in Nat /\ Most(a, b) >= a /\ Most(a, b) >= b
           /\ (Most(a, b) = a \/ Most(a, b) = b)
  BY DEF Most

\* get_term gives a number at every offset.
LEMMA TermAtType ==
    ASSUME NEW lg \in Seq(Nat), NEW o \in Nat
    PROVE  TermAt(lg, o) \in Nat
  BY DEF TermAt

\* The term of the last entry is a number.
LEMMA LastTermType ==
    ASSUME NEW lg \in Seq(Nat)
    PROVE  LastTerm(lg) \in Nat
  BY DEF LastTerm

\* A part of a log is a log.
LEMMA SubSeqType ==
    ASSUME NEW lg \in Seq(Nat), NEW a \in Nat, NEW b \in Nat,
           a > 0, b <= Len(lg)
    PROVE  SubSeq(lg, a, b) \in Seq(Nat)
  OBVIOUS

\* The index of a new follower is well typed.
LEMMA NewIndexType == NewIndex \in FollowerIndex
  BY Zenon DEF NewIndex, FollowerIndex, Offset, Term

\* A reset on a new leadership keeps the type of a follower index.
LEMMA ResetType ==
    ASSUME NEW idx \in FollowerIndex
    PROVE  Reset(idx) \in FollowerIndex
  BY Zenon DEF Reset, FollowerIndex, Offset

\* So does a reset of all of them.
LEMMA ResetAllType ==
    ASSUME NEW stats \in [Node -> FollowerIndex]
    PROVE  ResetAll(stats) \in [Node -> FollowerIndex]
  BY ResetType, Zenon DEF ResetAll

\* The fields of an append_entries reply.
LEMMA ReplyFields ==
    ASSUME NEW m \in Reply
    PROVE  /\ m.type = "reply" /\ m.from \in Node /\ m.to \in Node
           /\ m.kind \in Kind /\ m.sentIn \in Nat /\ m.seq \in Nat
           /\ m.upTo \in Nat /\ m.base \in Nat /\ m.term \in Nat
           /\ m.success \in BOOLEAN /\ m.dirty \in Nat /\ m.flushed \in Nat
  BY Zenon DEF Reply, Term, Offset

\* The fields of an append_entries request.
LEMMA RequestFields ==
    ASSUME NEW m \in Request
    PROVE  /\ m.type = "request" /\ m.from \in Node /\ m.to \in Node
           /\ m.kind \in Kind /\ m.term \in Nat /\ m.seq \in Nat
           /\ m.upTo \in Nat /\ m.base \in Nat /\ m.prev \in Nat
           /\ m.prevTerm \in Nat /\ m.entries \in Seq(Nat)
           /\ m.commit \in Nat /\ m.flush \in BOOLEAN /\ m.open \in BOOLEAN
  BY Zenon DEF Request, Term, Offset

\* The fields of a follower index.
LEMMA IndexFields ==
    ASSUME NEW idx \in FollowerIndex
    PROVE  /\ idx.dirty \in Nat /\ idx.flushed \in Nat /\ idx.match \in Nat
           /\ idx.next \in Nat /\ idx.expectedEnd \in Nat /\ idx.sent \in Nat
           /\ idx.received \in Nat /\ idx.recovering \in BOOLEAN
           /\ idx.recoveryTerm \in Nat /\ idx.base \in Nat
           /\ idx.committed \in Nat
  BY Zenon DEF FollowerIndex, Term, Offset

\* Recording that a reply was received keeps the type of the index.
LEMMA ReceivedType ==
    ASSUME NEW idx \in FollowerIndex, NEW m \in Reply
    PROVE  Received(idx, m) \in FollowerIndex
  <1>1. Most(m.seq, idx.received) \in Nat
    BY MostFacts, ReplyFields, IndexFields, Zenon
  <1>2. Least(Most(m.seq, idx.received), idx.sent) \in Nat
    BY <1>1, LeastFacts, IndexFields, Zenon
  <1> QED
    BY <1>2, Zenon DEF Received, FollowerIndex

\* So does recording the offsets that the follower reports.
LEMMA ReportedType ==
    ASSUME NEW idx \in FollowerIndex, NEW m \in Reply
    PROVE  Reported(idx, m) \in FollowerIndex
  <1>1. m.dirty \in Nat /\ m.flushed \in Nat /\ m.dirty + 1 \in Nat
    BY ReplyFields
  <1> QED
    BY <1>1, Zenon DEF Reported, FollowerIndex, Offset

\* So does a successful reply.
LEMMA MatchedType ==
    ASSUME NEW idx \in FollowerIndex, NEW m \in Reply
    PROVE  Matched(idx, m) \in FollowerIndex
  <1>1. Reported(idx, m) \in FollowerIndex
    BY ReportedType, Zenon
  <1>2. m.dirty \in Nat
    BY ReplyFields, Zenon
  <1>3. Most(m.dirty, Reported(idx, m).expectedEnd) \in Nat
    BY <1>1, <1>2, MostFacts, IndexFields, Zenon
  <1> QED
    BY <1>1, <1>2, <1>3, Zenon DEF Matched, FollowerIndex, Offset

\* So does starting a recovery.
LEMMA RecoveringType ==
    ASSUME NEW idx \in FollowerIndex, NEW t \in Nat, NEW end \in Nat
    PROVE  Recovering(idx, t, end) \in FollowerIndex
  BY Zenon DEF Recovering, FollowerIndex, Offset, Term

\* So does a reply that reports a mismatch.
LEMMA FailedType ==
    ASSUME NEW idx \in FollowerIndex, NEW m \in Reply, NEW t \in Nat,
           NEW end \in Nat, NEW mayRecover \in BOOLEAN
    PROVE  Failed(idx, m, t, end, mayRecover) \in FollowerIndex
  <1> DEFINE reset == [idx EXCEPT !.expectedEnd = 0]
             behind == Reported(reset, m)
  <1>1. reset \in FollowerIndex
    BY Zenon DEF FollowerIndex, Offset
  <1> HIDE DEF reset
  <1>2. behind \in FollowerIndex
    BY <1>1, ReportedType, Zenon
  <1> HIDE DEF behind
  <1>3. Recovering(behind, t, end) \in FollowerIndex
    BY <1>2, RecoveringType, Zenon
  <1>4. Failed(idx, m, t, end, mayRecover)
          \in {reset, behind, Recovering(behind, t, end)}
    BY Zenon DEF Failed, reset, behind
  <1> QED
    BY <1>1, <1>2, <1>3, <1>4, Zenon

\* update_follower_index keeps the type, whatever the reply.
LEMMA UpdateFollowerIndexType ==
    ASSUME NEW idx \in FollowerIndex, NEW m \in Reply, NEW t \in Nat,
           NEW end \in Nat, NEW mayRecover \in BOOLEAN
    PROVE  UpdateFollowerIndex(idx, m, t, end, mayRecover) \in FollowerIndex
  <1>1. Received(idx, m) \in FollowerIndex
    BY ReceivedType, Zenon
  <1>2. /\ Matched(Received(idx, m), m) \in FollowerIndex
        /\ Failed(Received(idx, m), m, t, end, mayRecover) \in FollowerIndex
    BY <1>1, MatchedType, FailedType, Zenon
  <1> QED
    BY <1>2, Zenon DEF UpdateFollowerIndex

\* So does the reply handler as a whole.
LEMMA ContinuedType ==
    ASSUME NEW idx \in FollowerIndex, NEW m \in Reply, NEW t \in Nat
    PROVE  Continued(idx, m, t) \in FollowerIndex
  <1>1. [idx EXCEPT !.recovering = FALSE] \in FollowerIndex
    BY Zenon DEF FollowerIndex
  <1>2. m.base \in Nat
    BY ReplyFields, Zenon
  <1>3. Most(1, m.base - 1) \in Nat
    BY <1>2 DEF Most
  <1>4. [idx EXCEPT !.next = Most(1, m.base - 1)] \in FollowerIndex
    BY <1>3, Zenon DEF FollowerIndex, Offset
  <1> QED
    BY <1>1, <1>4, Zenon DEF Continued

---------------------------------------------------------------------------
\* The append entries handler on the state of one node.

NodeStates ==
    [term : Nat, votedFor : Node \cup {Nil},
     vstate : {"follower", "candidate", "leader"}, log : Seq(Nat),
     flushed : Nat, commit : Nat, stepped : BOOLEAN, rewrote : BOOLEAN]

\* Following a term keeps the type of the node, its log and its offsets.
LEMMA FollowedType ==
    ASSUME NEW s \in NodeStates, NEW m \in Request
    PROVE  /\ Followed(s, m) \in NodeStates
           /\ Followed(s, m).log = s.log
           /\ Followed(s, m).flushed = s.flushed
           /\ Followed(s, m).commit = s.commit
  <1>1. m.term \in Nat
    BY RequestFields, Zenon
  <1> QED
    BY <1>1, Zenon DEF Followed, NodeStates

\* The fields that Accepted writes.
LEMMA AcceptedFields ==
    ASSUME NEW s \in NodeStates, NEW m \in Request, m.prev <= Len(s.log)
    PROVE  /\ Accepted(s, m) \in NodeStates
           /\ Accepted(s, m).log = SubSeq(s.log, 1, m.prev) \o m.entries
           /\ Accepted(s, m).flushed = Least(m.prev, s.flushed)
           /\ Accepted(s, m).commit =
                 FollowerCommit(s.commit, m.commit, Least(m.prev, s.flushed))
  <1> DEFINE stable == Least(m.prev, s.flushed)
             lg == SubSeq(s.log, 1, m.prev) \o m.entries
             cm == FollowerCommit(s.commit, m.commit, stable)
             rw == Followed(s, m).rewrote
                     \/ /\ Truncates(s, m) /\ m.prev < s.flushed
                        /\ s.log[m.prev + 1] = m.entries[1]
  <1>1. /\ s.log \in Seq(Nat) /\ s.flushed \in Nat /\ s.commit \in Nat
        /\ m.prev \in Nat /\ m.entries \in Seq(Nat) /\ m.commit \in Nat
    BY RequestFields, Zenon DEF NodeStates
  <1>2. stable \in Nat
    BY <1>1, LeastFacts, Zenon
  <1>3. lg \in Seq(Nat)
    <2>1. SubSeq(s.log, 1, m.prev) \in Seq(Nat)
      BY <1>1, SubSeqType, SMTT(30)
    <2> HIDE DEF lg
    <2>2. SubSeq(s.log, 1, m.prev) \o m.entries \in Seq(Nat)
      BY <1>1, <2>1
    <2> QED
      BY <2>2, Zenon DEF lg
  <1>4. cm \in Nat
    BY <1>1, <1>2, Zenon DEF FollowerCommit, Least
  <1>5. Followed(s, m) \in NodeStates
    BY FollowedType, Zenon
  <1>6. rw \in BOOLEAN
    BY <1>5, Zenon DEF NodeStates
  <1>7. Accepted(s, m) = [Followed(s, m) EXCEPT !.log = lg, !.flushed = stable,
                                               !.rewrote = rw, !.commit = cm]
    <2>1. Followed(s, m).log = s.log /\ Followed(s, m).flushed = s.flushed
      BY FollowedType, Zenon
    <2> QED
      BY <1>5, Zenon DEF Accepted, NodeStates
  <1> HIDE DEF stable, lg, cm, rw
  <1>8. /\ Accepted(s, m) \in NodeStates
        /\ Accepted(s, m).log = lg
        /\ Accepted(s, m).flushed = stable
        /\ Accepted(s, m).commit = cm
    BY <1>2, <1>3, <1>4, <1>5, <1>6, <1>7, ZenonT(40) DEF NodeStates
  <1> QED
    BY <1>8, Zenon DEF stable, lg, cm

\* do_append_entries keeps the type of a node.
LEMMA AppendType ==
    ASSUME NEW s \in NodeStates, NEW m \in Request
    PROVE  DoAppendEntries(s, m) \in NodeStates
  <1>1. Followed(s, m) \in NodeStates
    BY FollowedType, Zenon
  <1>2. ~Rejected(s, m) => m.prev <= Len(s.log)
    BY Zenon DEF Rejected, LogMatches
  <1> QED
    BY <1>1, <1>2, AcceptedFields, Zenon DEF DoAppendEntries

\* The reply of do_append_entries is well typed.
LEMMA AppendReplyType ==
    ASSUME NEW s \in NodeStates, NEW m \in Request
    PROVE  AppendReply(s, m) \in Reply
  <1> DEFINE t == DoAppendEntries(s, m)
             d == IF ~Rejected(s, m) /\ StaleRequest(s, m) THEN s.commit
                                                           ELSE Len(t.log)
             ok == ~Rejected(s, m)
  <1>1. t \in NodeStates
    BY AppendType, Zenon
  <1> HIDE DEF t
  <1>2. t.term \in Nat /\ t.flushed \in Nat /\ Len(t.log) \in Nat
    BY <1>1 DEF NodeStates
  <1>3. s.commit \in Nat
    BY Zenon DEF NodeStates
  <1>4. d \in Nat /\ ok \in BOOLEAN
    BY <1>2, <1>3, Zenon
  <1>5. AppendReply(s, m) =
          [type |-> "reply", from |-> m.to, to |-> m.from, kind |-> m.kind,
           sentIn |-> m.term, seq |-> m.seq, upTo |-> m.upTo, base |-> m.base,
           term |-> t.term, success |-> ok, dirty |-> d, flushed |-> t.flushed]
    BY Zenon DEF AppendReply, t
  <1> HIDE DEF d, ok
  <1> QED
    BY <1>2, <1>4, <1>5, RequestFields DEF Reply, Term, Offset

\* The commit index of a node stays within what it has flushed.
Sound(s) == s.commit <= s.flushed /\ s.flushed <= Len(s.log)

\* t keeps what s has committed.
Keeps(s, t) ==
    /\ s.commit <= t.commit /\ t.commit <= Len(t.log)
    /\ \A o \in 1..s.commit : t.log[o] = s.log[o]

\* do_append_entries leaves the commit index within the flushed log, and what
\* was committed where it is: a request that would cut it off is stale.
LEMMA AppendIsSound ==
    ASSUME NEW s \in NodeStates, NEW m \in Request, Sound(s)
    PROVE  /\ Sound(DoAppendEntries(s, m))
           /\ Keeps(s, DoAppendEntries(s, m))
  <1>0. /\ s.log \in Seq(Nat) /\ s.flushed \in Nat /\ s.commit \in Nat
        /\ m.prev \in Nat /\ m.entries \in Seq(Nat) /\ m.commit \in Nat
    BY RequestFields, Zenon DEF NodeStates
  <1>1. CASE DoAppendEntries(s, m) = s
    BY <1>0, <1>1 DEF Sound, Keeps
  <1>2. CASE DoAppendEntries(s, m) = Followed(s, m)
    BY <1>0, <1>2, FollowedType, SMTT(30) DEF Sound, Keeps
  <1>3. CASE /\ DoAppendEntries(s, m) = Accepted(s, m)
             /\ ~Rejected(s, m) /\ ~StaleRequest(s, m)
    <2>1. m.prev <= Len(s.log) /\ s.commit <= m.prev
      BY <1>0, <1>3, SMTT(30) DEF Rejected, StaleRequest, LogMatches, Overlaps, Sound
    <2> DEFINE t == Accepted(s, m)
               stable == Least(m.prev, s.flushed)
    <2>2. stable \in Nat /\ s.commit <= stable /\ stable <= m.prev
      BY <1>0, <2>1 DEF Least, Sound
    <2>3. /\ t.log = SubSeq(s.log, 1, m.prev) \o m.entries
          /\ t.flushed = stable
          /\ t.commit = FollowerCommit(s.commit, m.commit, stable)
      BY <2>1, AcceptedFields, Zenon
    <2> HIDE DEF t, stable
    <2>4. t.commit \in Nat /\ s.commit <= t.commit /\ t.commit <= t.flushed
      BY <1>0, <2>2, <2>3 DEF FollowerCommit, Least
    <2>5. Len(t.log) = m.prev + Len(m.entries)
      BY <1>0, <2>1, <2>3
    <2>6. \A o \in 1..s.commit : t.log[o] = s.log[o]
      BY <1>0, <2>1, <2>3, SMTT(30)
    <2>7. t.flushed <= Len(t.log) /\ t.commit <= Len(t.log)
      BY <1>0, <2>2, <2>3, <2>4, <2>5, SMTT(30)
    <2>8. Sound(t) /\ Keeps(s, t)
      BY <2>4, <2>6, <2>7, Zenon DEF Sound, Keeps
    <2> QED
      BY <1>3, <2>8, Zenon DEF t
  <1> QED
    BY <1>1, <1>2, <1>3, Zenon DEF DoAppendEntries

---------------------------------------------------------------------------
\* A batch of requests at one node.

\* The state of every node is well typed.
LEMMA NodeStateType ==
    ASSUME TypeOK, NEW n \in Node
    PROVE  NodeState(n) \in NodeStates
  BY Zenon DEF TypeOK, NodeState, NodeStates, Term, Offset

\* The parts of a node's state.
LEMMA NodeFields ==
    ASSUME TypeOK, NEW n \in Node
    PROVE  /\ term[n] \in Nat /\ votedFor[n] \in Node \cup {Nil}
           /\ kv[n].term \in Nat /\ kv[n].node \in Node \cup {Nil}
           /\ log[n] \in Seq(Nat) /\ Len(log[n]) \in Nat
           /\ flushed[n] \in Nat /\ commit[n] \in Nat
           /\ flushing[n] \in SUBSET Nat /\ votes[n] \in SUBSET Node
           /\ fstats[n] \in [Node -> FollowerIndex]
           /\ held[n].awaits \in Nat /\ held[n].replies \in SUBSET Reply
  BY DEF TypeOK, Term, Offset

\* A message is a request or a reply.
LEMMA RpcKinds ==
    ASSUME TypeOK, NEW m \in rpcs
    PROVE  /\ m.type = "request" => m \in Request
           /\ m.type = "reply" => m \in Reply
           /\ m \in Request \/ m \in Reply
  BY Zenon DEF TypeOK, Request, Reply

\* A batch of requests keeps the type of a node, and its replies are well typed.
LEMMA BatchType ==
    ASSUME TypeOK, NEW f \in Node, NEW batch \in Batches(f)
    PROVE  \/ Len(batch) = 1 /\ DOMAIN batch = {1} /\ batch[1] \in Request
           \/ /\ Len(batch) = 2 /\ DOMAIN batch = {1, 2}
              /\ batch[1] \in Request /\ batch[2] \in Request
  <1>1. Requests \subseteq Request
    BY RpcKinds, Zenon DEF Requests
  <1>2. \/ \E m \in Requests : batch = <<m>>
        \/ \E m, q \in Requests : batch = <<m, q>>
    BY Zenon DEF Batches
  <1>3. CASE \E m \in Requests : batch = <<m>>
    BY <1>1, <1>3
  <1>4. CASE \E m, q \in Requests : batch = <<m, q>>
    BY <1>1, <1>4
  <1> QED
    BY <1>2, <1>3, <1>4, Zenon

\* The replies of a batch are well typed after they share one flushed offset.
LEMMA PropagatedType ==
    ASSUME NEW replies \in SUBSET Reply, NEW o \in Nat
    PROVE  Propagated(replies, o) \in SUBSET Reply
  BY DEF Propagated, Reply, Offset

\* AppendEntries moves the node to a state that is well typed and, for a sound
\* node, sound and keeps what is committed.
LEMMA BatchStep ==
    ASSUME TypeOK, NEW f \in Node, NEW batch \in Batches(f),
           AppendEntries(f, batch)
    PROVE  \E t \in NodeStates, replies \in SUBSET Reply :
              /\ Sound(NodeState(f)) => Sound(t) /\ Keeps(NodeState(f), t)
              /\ term' = [term EXCEPT ![f] = t.term]
              /\ votedFor' = [votedFor EXCEPT ![f] = t.votedFor]
              /\ vstate' = [vstate EXCEPT ![f] = t.vstate]
              /\ votes' = votes \/ votes' = [votes EXCEPT ![f] = {}]
              /\ fstats' = fstats
                   \/ fstats' = [fstats EXCEPT ![f] = ResetAll(fstats[f])]
              /\ log' = [log EXCEPT ![f] = t.log]
              /\ flushed' = [flushed EXCEPT ![f] = t.flushed]
              /\ commit' = [commit EXCEPT ![f] = t.commit]
              /\ \/ /\ flushing' = [flushing EXCEPT ![f] =
                                        flushing[f] \cup {Len(t.log)}]
                    /\ held' = [held EXCEPT ![f] = [awaits |-> Len(t.log),
                                                    replies |-> replies]]
                    /\ rpcs' \subseteq rpcs
                 \/ /\ rpcs' \subseteq rpcs \cup Propagated(replies, t.flushed)
                    /\ UNCHANGED <<flushing, held>>
              /\ rewritten' = rewritten \/ rewritten' = rewritten \cup {f}
              /\ UNCHANGED <<kv, client, crashes, chosen>>
  <1> DEFINE Fold(s, i) == IF i > Len(batch) THEN s
                                             ELSE DoAppendEntries(s, batch[i])
             before == NodeState(f)
             middle == Fold(before, 1)
             after == Fold(middle, 2)
             taken == {batch[i] : i \in DOMAIN batch}
             replies == {AppendReply(IF i = 1 THEN before ELSE middle, batch[i]) :
                           i \in {i \in DOMAIN batch : batch[i].open}}
             flush == /\ \E m \in taken : m.flush
                      /\ HasPendingFlushes(Len(after.log), after.flushed,
                                           flushing[f])
  <1>1. /\ term' = [term EXCEPT ![f] = after.term]
        /\ votedFor' = [votedFor EXCEPT ![f] = after.votedFor]
        /\ vstate' = [vstate EXCEPT ![f] = after.vstate]
        /\ votes' = IF after.stepped THEN [votes EXCEPT ![f] = {}] ELSE votes
        /\ fstats' = IF after.stepped THEN [fstats EXCEPT ![f] = ResetAll(@)]
                                      ELSE fstats
        /\ log' = [log EXCEPT ![f] = after.log]
        /\ flushed' = [flushed EXCEPT ![f] = after.flushed]
        /\ commit' = [commit EXCEPT ![f] = after.commit]
        /\ IF flush
             THEN /\ flushing' = [flushing EXCEPT ![f] = @ \cup {Len(after.log)}]
                  /\ held' = [held EXCEPT ![f] = [awaits |-> Len(after.log),
                                                  replies |-> replies]]
                  /\ rpcs' = rpcs \ taken
             ELSE /\ rpcs' = (rpcs \ taken)
                               \cup Propagated(replies, after.flushed)
                  /\ UNCHANGED <<flushing, held>>
        /\ rewritten' = IF after.rewrote THEN rewritten \cup {f} ELSE rewritten
        /\ UNCHANGED <<kv, client, crashes, chosen>>
    BY Zenon DEF AppendEntries
  <1>2. before \in NodeStates
    BY NodeStateType, Zenon
  <1>3. \/ /\ Len(batch) = 1 /\ DOMAIN batch = {1} /\ batch[1] \in Request
        \/ /\ Len(batch) = 2 /\ DOMAIN batch = {1, 2}
           /\ batch[1] \in Request /\ batch[2] \in Request
    BY BatchType, Zenon
  <1> HIDE DEF before
  <1>4. middle = DoAppendEntries(before, batch[1])
    BY <1>3
  <1>5. after = middle \/ (Len(batch) = 2 /\ after = DoAppendEntries(middle, batch[2]))
    BY <1>3
  <1> HIDE DEF middle
  <1>6. middle \in NodeStates
    BY <1>2, <1>3, <1>4, AppendType, Zenon
  <1>7. after \in NodeStates
    BY <1>3, <1>5, <1>6, AppendType, Zenon
  <1>8. replies \in SUBSET Reply
    BY <1>2, <1>3, <1>6, AppendReplyType, Zenon
  <1>9. Sound(before) => Sound(after) /\ Keeps(before, after)
    <2> SUFFICES ASSUME Sound(before) PROVE Sound(after) /\ Keeps(before, after)
      BY Zenon
    <2>1. Sound(middle) /\ Keeps(before, middle)
      BY <1>2, <1>3, <1>4, AppendIsSound, Zenon
    <2>2. CASE after = middle
      BY <2>1, <2>2, Zenon
    <2>3. CASE Len(batch) = 2 /\ after = DoAppendEntries(middle, batch[2])
      <3>1. Sound(after) /\ Keeps(middle, after)
        BY <1>3, <1>6, <2>1, <2>3, AppendIsSound, Zenon
      <3> HIDE DEF after
      <3>2. before.commit \in Nat /\ middle.commit \in Nat /\ after.commit \in Nat
        BY <1>2, <1>6, <1>7, Zenon DEF NodeStates
      <3> QED
        BY <2>1, <3>1, <3>2 DEF Keeps
    <2> QED
      BY <1>5, <2>2, <2>3, Zenon
  <1> HIDE DEF after, replies, flush, taken
  <1>10. \/ /\ flushing' = [flushing EXCEPT ![f] =
                                flushing[f] \cup {Len(after.log)}]
            /\ held' = [held EXCEPT ![f] = [awaits |-> Len(after.log),
                                            replies |-> replies]]
            /\ rpcs' \subseteq rpcs
         \/ /\ rpcs' \subseteq rpcs \cup Propagated(replies, after.flushed)
            /\ UNCHANGED <<flushing, held>>
    BY <1>1, Zenon
  <1> WITNESS after \in NodeStates, replies \in SUBSET Reply
  <1> QED
    BY <1>1, <1>9, <1>10, Zenon DEF before

---------------------------------------------------------------------------
\* Types.

\* The request that a leader builds is well typed.
LEMMA NewRequestType ==
    ASSUME TypeOK, NEW l \in Node, NEW f \in Node, NEW kind \in Kind,
           NEW seq \in Nat, NEW upTo \in Nat, NEW prev \in Nat,
           NEW entries \in Seq(Nat), NEW committed \in Nat, NEW flush \in BOOLEAN
    PROVE  NewRequest(l, f, kind, seq, upTo, prev, entries, committed, flush)
              \in Request
  <1>1. log[l] \in Seq(Nat) /\ term[l] \in Nat /\ prev + 1 \in Nat
    BY DEF TypeOK, Term
  <1>2. TermAt(log[l], prev) \in Nat
    BY <1>1, TermAtType, Zenon
  <1> QED
    BY <1>1, <1>2, Zenon DEF NewRequest, Request, Term, Offset

\* The six parts of the types, so that a step need only look at those it
\* touches.
NodeTypes ==
    /\ term \in [Node -> Nat]
    /\ votedFor \in [Node -> Node \cup {Nil}]
    /\ kv \in [Node -> [term : Nat, node : Node \cup {Nil}]]
    /\ vstate \in [Node -> {"follower", "candidate", "leader"}]
    /\ votes \in [Node -> SUBSET Node]

StorageTypes ==
    /\ log \in [Node -> Seq(Nat)]
    /\ flushed \in [Node -> Nat]
    /\ flushing \in [Node -> SUBSET Nat]
    /\ commit \in [Node -> Nat]

StatsType == fstats \in [Node -> [Node -> FollowerIndex]]
HeldType == held \in [Node -> [awaits : Nat, replies : SUBSET Reply]]
RpcsType == rpcs \in SUBSET (Request \cup Reply)

ClientTypes ==
    /\ waiting \in [Node -> SUBSET [offset : Nat, term : Nat, initial : Nat]]
    /\ crashes \in Nat
    /\ chosen \in SUBSET [offset : Nat, term : Nat, in : Nat]
    /\ rewritten \in SUBSET Node
    /\ acked \in SUBSET [offset : Nat, term : Nat]

\* TypeOK is the conjunction of its parts.
LEMMA TypeParts ==
    /\ TypeOK <=> NodeTypes /\ StorageTypes /\ StatsType /\ HeldType /\ RpcsType
                    /\ ClientTypes
    /\ TypeOK' <=> NodeTypes' /\ StorageTypes' /\ StatsType' /\ HeldType'
                     /\ RpcsType' /\ ClientTypes'
  BY Zenon DEF TypeOK, NodeTypes, StorageTypes, StatsType, HeldType, RpcsType,
         ClientTypes, Term, Offset

\* The parts that a step leaves alone.
LEMMA Untouched ==
    ASSUME TypeOK
    PROVE  /\ UNCHANGED <<term, election>> => NodeTypes'
           /\ UNCHANGED <<storage, commit>> => StorageTypes'
           /\ UNCHANGED fstats => StatsType'
           /\ UNCHANGED held => HeldType'
           /\ UNCHANGED rpcs => RpcsType'
           /\ UNCHANGED <<client, history>> => ClientTypes'
  <1> USE TypeParts
  <1>1. UNCHANGED <<term, election>> => NodeTypes'
    BY Zenon DEF NodeTypes, election
  <1>2. UNCHANGED <<storage, commit>> => StorageTypes'
    BY Zenon DEF StorageTypes, storage
  <1>3. UNCHANGED fstats => StatsType'
    BY Zenon DEF StatsType
  <1>4. UNCHANGED held => HeldType'
    BY Zenon DEF HeldType
  <1>5. UNCHANGED rpcs => RpcsType'
    BY Zenon DEF RpcsType
  <1>6. UNCHANGED <<client, history>> => ClientTypes'
    BY Zenon DEF ClientTypes, client, history
  <1> QED
    BY <1>1, <1>2, <1>3, <1>4, <1>5, <1>6, Zenon

\* A write of one follower index keeps the type of all.
LEMMA IndexUpdate ==
    ASSUME StatsType, NEW l \in Node, NEW f \in Node, NEW idx \in FollowerIndex,
           fstats' = [fstats EXCEPT ![l][f] = idx]
    PROVE  StatsType'
  BY Zenon DEF StatsType

\* A reset of the indices of one leader keeps the type of all.
LEMMA StatsReset ==
    ASSUME StatsType, NEW l \in Node,
           fstats' = [fstats EXCEPT ![l] = ResetAll(fstats[l])]
    PROVE  StatsType'
  <1>1. ResetAll(fstats[l]) \in [Node -> FollowerIndex]
    BY ResetAllType, Zenon DEF StatsType
  <1> QED
    BY <1>1, Zenon DEF StatsType

\* dispatch_replicate keeps the types.
LEMMA DispatchType ==
    ASSUME TypeOK, NEW l \in Node, NEW flush \in BOOLEAN,
           AppendAndDispatch(l, flush)
    PROVE  StorageTypes' /\ StatsType' /\ RpcsType' /\ HeldType'
  <1> DEFINE prev == Len(log[l])
  <1>1. /\ prev \in Nat /\ term[l] \in Nat /\ commit[l] \in Nat
        /\ log[l] \in Seq(Nat) /\ flushing[l] \in SUBSET Nat
        /\ fstats[l] \in [Node -> FollowerIndex]
    BY NodeFields, Zenon
  <1>2. StorageTypes'
    <2>1. /\ log' = [log EXCEPT ![l] = Append(log[l], term[l])]
          /\ \/ flushing' = [flushing EXCEPT ![l] = flushing[l]]
             \/ flushing' = [flushing EXCEPT ![l] = flushing[l] \cup {prev + 1}]
          /\ flushed' = flushed /\ commit' = commit
      BY Zenon DEF AppendAndDispatch, StartFlush
    <2>2. Append(log[l], term[l]) \in Seq(Nat) /\ prev + 1 \in Nat
      BY <1>1
    <2> HIDE DEF prev
    <2>3. StorageTypes
      BY TypeParts, Zenon
    <2> QED
      BY <1>1, <2>1, <2>2, <2>3, Zenon DEF StorageTypes
  <1>3. StatsType /\ RpcsType
    BY TypeParts, Zenon
  <1>4. PICK to \in SUBSET (Node \ {l}) :
           /\ fstats' = [fstats EXCEPT ![l] = [f \in Node |->
                  IF f = l THEN fstats[l][f]
                  ELSE [fstats[l][f] EXCEPT !.sent = @ + 1,
                          !.expectedEnd = IF f \in to THEN prev + 1 ELSE @]]]
           /\ rpcs' = rpcs \cup
                {NewRequest(l, f, "replicate", fstats[l][f].sent + 1, prev + 1,
                            prev, <<term[l]>>, commit[l], flush) : f \in to}
    <2> DEFINE others == Node \ {l}
               first == {f \in others : fstats[l][f].sent = 0}
               inSync == {f \in others : fstats[l][f].expectedEnd = prev}
    <2>1. PICK silent \in SUBSET ((inSync \ first) \cap Flaky) :
             LET to == (first \cup inSync) \ silent
             IN  /\ fstats' = [fstats EXCEPT ![l] = [f \in Node |->
                        IF f = l THEN fstats[l][f]
                        ELSE [fstats[l][f] EXCEPT !.sent = @ + 1,
                                !.expectedEnd = IF f \in to THEN prev + 1
                                                            ELSE @]]]
                 /\ rpcs' = rpcs \cup
                      {NewRequest(l, f, "replicate", fstats[l][f].sent + 1,
                                  prev + 1, prev, <<term[l]>>, commit[l],
                                  flush) : f \in to}
      BY <1>3, Zenon DEF AppendAndDispatch, StatsType
    <2>2. (first \cup inSync) \ silent \in SUBSET (Node \ {l})
      BY Zenon
    <2> QED
      BY <2>1, <2>2, Zenon
  <1>5. ASSUME NEW f \in Node
        PROVE  [fstats[l][f] EXCEPT !.sent = @ + 1,
                   !.expectedEnd = IF f \in to THEN prev + 1 ELSE @]
                  \in FollowerIndex
    <2>1. fstats[l][f] \in FollowerIndex
      BY <1>1, Zenon
    <2>2. fstats[l][f].sent + 1 \in Nat
      BY <2>1, IndexFields
    <2>3. (IF f \in to THEN prev + 1 ELSE fstats[l][f].expectedEnd) \in Nat
      BY <1>1, <2>1, IndexFields
    <2> QED
      BY <2>1, <2>2, <2>3, Zenon DEF FollowerIndex, Offset
  <1>6. StatsType'
    BY <1>1, <1>3, <1>4, <1>5, Zenon DEF StatsType
  <1>7. ASSUME NEW f \in to
        PROVE  NewRequest(l, f, "replicate", fstats[l][f].sent + 1, prev + 1,
                          prev, <<term[l]>>, commit[l], flush) \in Request
    <2>1. fstats[l][f].sent + 1 \in Nat /\ prev + 1 \in Nat
      BY <1>1, IndexFields
    <2>2. <<term[l]>> \in Seq(Nat) /\ "replicate" \in Kind
      BY <1>1 DEF Kind
    <2> HIDE DEF prev
    <2> QED
      BY <1>1, <2>1, <2>2, NewRequestType, Zenon
  <1>8. RpcsType'
    <2> HIDE DEF prev
    <2> QED
      BY <1>3, <1>4, <1>7, Zenon DEF RpcsType
  <1>9. HeldType'
    BY TypeParts, Zenon DEF AppendAndDispatch, HeldType
  <1> QED
    BY <1>2, <1>6, <1>8, <1>9, Zenon

\* An election keeps the types.
LEMMA ElectionStep ==
    ASSUME TypeOK, NEW n \in Node, NEW v \in Node,
           StandForElection(n) \/ Vote(n, v) \/ StepDown(n)
    PROVE  TypeOK'
  <1>0. NodeTypes /\ StatsType
    BY TypeParts, Zenon
  <1>1. UNCHANGED <<storage, commit>> /\ UNCHANGED held /\ UNCHANGED rpcs
          /\ UNCHANGED <<client, history>>
    BY Zenon DEF StandForElection, Vote, StepDown
  <1>2. CASE StandForElection(n)
    <2>1. NodeTypes'
      BY <1>0, <1>2 DEF StandForElection, NodeTypes
    <2>2. UNCHANGED fstats
      BY <1>2, Zenon DEF StandForElection
    <2> QED
      BY <1>1, <2>1, <2>2, Untouched, TypeParts, Zenon
  <1>3. CASE Vote(n, v)
    <2>1. /\ term' = [term EXCEPT ![v] = term[n]]
          /\ \E c \in {n, Nil} : votedFor' = [votedFor EXCEPT ![v] = c]
          /\ kv' = kv \/ kv' = [kv EXCEPT ![v] = [term |-> term[n], node |-> n]]
          /\ \E x \in {"follower", vstate[v]} : vstate' = [vstate EXCEPT ![v] = x]
      BY <1>3, Zenon DEF Vote
    <2>2. votes' \in [Node -> SUBSET Node]
      <3>1. PICK counted \in BOOLEAN, newer \in BOOLEAN :
               votes' = [votes EXCEPT ![v] = IF newer THEN {} ELSE @,
                                      ![n] = IF counted THEN @ \cup {v} ELSE @]
        BY <1>3, Zenon DEF Vote
      <3> QED
        BY <1>0, <3>1, Zenon DEF NodeTypes
    <2>3. NodeTypes'
      <3>1. term' \in [Node -> Nat]
        BY <1>0, <2>1, Zenon DEF NodeTypes
      <3>2. votedFor' \in [Node -> Node \cup {Nil}]
        BY <1>0, <2>1 DEF NodeTypes
      <3>3. kv' \in [Node -> [term : Nat, node : Node \cup {Nil}]]
        BY <1>0, <2>1 DEF NodeTypes
      <3>4. vstate' \in [Node -> {"follower", "candidate", "leader"}]
        BY <1>0, <2>1, Zenon DEF NodeTypes
      <3> QED
        BY <2>2, <3>1, <3>2, <3>3, <3>4, Zenon DEF NodeTypes
    <2>4. fstats' = fstats \/ fstats' = [fstats EXCEPT ![v] = ResetAll(fstats[v])]
      BY <1>3, Zenon DEF Vote
    <2>5. StatsType'
      BY <1>0, <2>4, StatsReset, Untouched, Zenon
    <2> QED
      BY <1>1, <2>3, <2>5, Untouched, TypeParts, Zenon
  <1>4. CASE StepDown(n)
    <2>1. NodeTypes'
      BY <1>0, <1>4, Zenon DEF StepDown, NodeTypes
    <2>2. StatsType'
      BY <1>0, <1>4, StatsReset, Zenon DEF StepDown
    <2> QED
      BY <1>1, <2>1, <2>2, Untouched, TypeParts, Zenon
  <1> QED
    BY <1>2, <1>3, <1>4, Zenon

\* flush_log keeps the types.
LEMMA FlushStep ==
    ASSUME TypeOK, NEW n \in Node, FlushLog(n) \/ \E o \in flushing[n] : FlushDone(n, o)
    PROVE  TypeOK'
  <1>0. StorageTypes /\ HeldType /\ RpcsType /\ Len(log[n]) \in Nat
    BY TypeParts, NodeFields, Zenon
  <1>1. UNCHANGED <<term, election>> /\ UNCHANGED fstats
          /\ UNCHANGED <<client, history>>
    BY Zenon DEF FlushLog, FlushDone
  <1>2. CASE FlushLog(n)
    <2>1. StorageTypes'
      BY <1>0, <1>2, Zenon DEF FlushLog, StorageTypes
    <2>2. UNCHANGED held /\ UNCHANGED rpcs
      BY <1>2, Zenon DEF FlushLog
    <2> QED
      BY <1>1, <2>1, <2>2, Untouched, TypeParts, Zenon
  <1>3. ASSUME NEW o \in flushing[n], FlushDone(n, o)
        PROVE  TypeOK'
    <2> DEFINE stable == IF o > Len(log[n]) THEN flushed[n] ELSE Most(o, flushed[n])
    <2>1. o \in Nat /\ flushed[n] \in Nat /\ held[n].replies \in SUBSET Reply
      BY NodeFields, Zenon
    <2>2. stable \in Nat
      BY <2>1, MostFacts, Zenon
    <2>3. /\ flushing' = [flushing EXCEPT ![n] = flushing[n] \ {o}]
          /\ flushed' = [flushed EXCEPT ![n] = stable]
          /\ log' = log /\ commit' = commit
      BY <1>3, Zenon DEF FlushDone
    <2>4. \/ /\ rpcs' = rpcs \cup Propagated(held[n].replies, stable)
             /\ held' = [held EXCEPT ![n] = NoneHeld]
          \/ UNCHANGED <<rpcs, held>>
      BY <1>3, Zenon DEF FlushDone
    <2> HIDE DEF stable
    <2>5. StorageTypes'
      BY <1>0, <2>2, <2>3, Zenon DEF StorageTypes
    <2>6. Propagated(held[n].replies, stable) \in SUBSET Reply
      BY <2>1, <2>2, PropagatedType, Zenon
    <2>7. RpcsType'
      BY <1>0, <2>4, <2>6, Zenon DEF RpcsType
    <2>8. NoneHeld \in [awaits : Nat, replies : SUBSET Reply]
      BY Zenon DEF NoneHeld
    <2>9. HeldType'
      BY <1>0, <2>4, <2>8, Zenon DEF HeldType
    <2> QED
      BY <1>1, <2>5, <2>7, <2>9, Untouched, TypeParts, Zenon
  <1> QED
    BY <1>2, <1>3, Zenon

\* A new leader, and a replicate request at a leader, keep the types.
LEMMA LeaderStep ==
    ASSUME TypeOK, NEW l \in Node,
           BecomeLeader(l) \/ \E flush \in Levels : Replicate(l, flush)
    PROVE  TypeOK'
  <1>0. NodeTypes /\ ClientTypes
    BY TypeParts, Zenon
  <1>1. Levels \subseteq BOOLEAN
    BY BoundAssumption, Zenon
  <1>2. CASE BecomeLeader(l)
    <2>1. AppendAndDispatch(l, TRUE)
      BY <1>2, Zenon DEF BecomeLeader
    <2>2. StorageTypes' /\ StatsType' /\ RpcsType' /\ HeldType'
      BY <2>1, DispatchType, Zenon
    <2>3. NodeTypes'
      BY <1>0, <1>2, Zenon DEF BecomeLeader, AppendAndDispatch, NodeTypes
    <2>4. ClientTypes'
      BY <1>0, <1>2, Zenon DEF BecomeLeader, AppendAndDispatch, ClientTypes, history
    <2> QED
      BY <2>2, <2>3, <2>4, TypeParts, Zenon
  <1>3. ASSUME NEW flush \in Levels, Replicate(l, flush)
        PROVE  TypeOK'
    <2>1. AppendAndDispatch(l, flush) /\ flush \in BOOLEAN
      BY <1>1, <1>3, Zenon DEF Replicate
    <2>2. StorageTypes' /\ StatsType' /\ RpcsType' /\ HeldType'
      BY <2>1, DispatchType, Zenon
    <2>3. NodeTypes'
      BY <1>0, <1>3, <2>1, Zenon DEF Replicate, AppendAndDispatch, NodeTypes
    <2> DEFINE w == [offset |-> Len(log[l]) + 1, term |-> term[l],
                     initial |-> commit[l]]
    <2>4. w \in [offset : Nat, term : Nat, initial : Nat]
      BY NodeFields
    <2>5. waiting' = waiting
            \/ waiting' = [waiting EXCEPT ![l] = waiting[l] \cup {w}]
      BY <1>3, Zenon DEF Replicate
    <2>6. UNCHANGED <<crashes, chosen, rewritten, acked>>
      BY <2>1, Zenon DEF AppendAndDispatch, history
    <2> HIDE DEF w
    <2>7. ClientTypes'
      BY <1>0, <2>4, <2>5, <2>6 DEF ClientTypes
    <2> QED
      BY <2>2, <2>3, <2>7, TypeParts, Zenon
  <1> QED
    BY <1>2, <1>3, Zenon

\* Heartbeats and the steps of a recovery keep the types.
LEMMA SendStep ==
    ASSUME TypeOK, NEW l \in Node, NEW f \in Node,
           NEW last, NEW flush \in BOOLEAN,
           \/ Heartbeat(l, f) \/ StartRecoveryRead(l, f) \/ StopRecovery(l, f)
           \/ SendRecovery(l, f, last, flush)
    PROVE  TypeOK'
  <1> DEFINE idx == fstats[l][f]
             end == Len(log[l])
  <1>0. /\ StatsType /\ RpcsType
        /\ end \in Nat /\ log[l] \in Seq(Nat) /\ commit[l] \in Nat
    BY TypeParts, NodeFields, Zenon
  <1>1. idx \in FollowerIndex
    BY <1>0, Zenon DEF StatsType
  <1>2. /\ idx.sent \in Nat /\ idx.sent + 1 \in Nat /\ idx.next \in Nat
        /\ idx.base \in Nat /\ idx.committed \in Nat
    BY <1>1, IndexFields
  <1>3. /\ UNCHANGED <<term, election>> /\ UNCHANGED <<storage, commit>>
        /\ UNCHANGED held /\ UNCHANGED <<client, history>>
    BY Zenon DEF Heartbeat, StartRecoveryRead, StopRecovery, SendRecovery
  <1>4. CASE Heartbeat(l, f)
    <2> DEFINE new == [idx EXCEPT !.sent = idx.sent + 1]
               m == NewRequest(l, f, "heartbeat", idx.sent + 1, end, end, <<>>,
                               commit[l], FALSE)
    <2>1. fstats' = [fstats EXCEPT ![l][f] = new]
      BY <1>0, <1>4, Zenon DEF Heartbeat, StatsType
    <2>2. rpcs' = rpcs \cup {m}
      BY <1>4, Zenon DEF Heartbeat
    <2>3. new \in FollowerIndex
      BY <1>1, <1>2, Zenon DEF FollowerIndex
    <2>4. <<>> \in Seq(Nat) /\ "heartbeat" \in Kind
      BY DEF Kind
    <2> HIDE DEF idx, end
    <2>5. m \in Request
      BY <1>0, <1>2, <2>4, NewRequestType, Zenon
    <2> HIDE DEF new, m
    <2>6. StatsType' /\ RpcsType'
      BY <1>0, <2>1, <2>2, <2>3, <2>5, IndexUpdate, Zenon DEF idx, RpcsType
    <2> QED
      BY <1>3, <2>6, Untouched, TypeParts, Zenon
  <1>5. CASE StartRecoveryRead(l, f)
    <2> DEFINE new == [idx EXCEPT !.base = idx.next, !.committed = commit[l]]
    <2>1. fstats' = [fstats EXCEPT ![l][f] = new] /\ UNCHANGED rpcs
      BY <1>5, Zenon DEF StartRecoveryRead
    <2>2. new \in FollowerIndex
      BY <1>0, <1>1, <1>2, Zenon DEF FollowerIndex, Offset
    <2> HIDE DEF new
    <2>3. StatsType'
      BY <1>0, <2>1, <2>2, IndexUpdate, Zenon
    <2> QED
      BY <1>3, <2>1, <2>3, Untouched, TypeParts, Zenon
  <1>6. CASE StopRecovery(l, f)
    <2> DEFINE new == [idx EXCEPT !.recovering = FALSE, !.base = 0]
    <2>1. fstats' = [fstats EXCEPT ![l][f] = new] /\ UNCHANGED rpcs
      BY <1>6, Zenon DEF StopRecovery
    <2>2. new \in FollowerIndex
      BY <1>1, Zenon DEF FollowerIndex, Offset
    <2> HIDE DEF new
    <2>3. StatsType'
      BY <1>0, <2>1, <2>2, IndexUpdate, Zenon
    <2> QED
      BY <1>3, <2>1, <2>3, Untouched, TypeParts, Zenon
  <1>7. CASE SendRecovery(l, f, last, flush)
    <2> DEFINE new == [idx EXCEPT !.expectedEnd = last, !.sent = idx.sent + 1,
                                  !.base = 0]
               entries == SubSeq(log[l], idx.base, last)
               committed == Least(last, idx.committed)
               m == NewRequest(l, f, "recovery", idx.sent + 1, end, idx.base - 1,
                               entries, committed, flush)
    <2>1. fstats' = [fstats EXCEPT ![l][f] = new]
      BY <1>7, Zenon DEF SendRecovery
    <2>2. rpcs' = rpcs \cup {m} /\ idx.base > 0 /\ last \in idx.base..end
      BY <1>7, Zenon DEF SendRecovery
    <2>3. last \in Nat /\ idx.base - 1 \in Nat
      BY <1>2, <2>2, SMTT(30)
    <2>4. new \in FollowerIndex
      BY <1>1, <1>2, <2>3, Zenon DEF FollowerIndex, Offset
    <2>5. entries \in Seq(Nat)
      <3>1. idx.base > 0 /\ last <= end
        BY <1>0, <1>2, <2>2
      <3> HIDE DEF idx
      <3> QED
        BY <1>0, <1>2, <2>3, <3>1, SubSeqType, Zenon
    <2>6. committed \in Nat
      BY <1>2, <2>3, LeastFacts, Zenon
    <2>7. "recovery" \in Kind
      BY Zenon DEF Kind
    <2> HIDE DEF idx, end, entries, committed
    <2>8. m \in Request
      BY <1>0, <1>2, <2>3, <2>5, <2>6, <2>7, NewRequestType, Zenon
    <2> HIDE DEF new, m
    <2>9. StatsType' /\ RpcsType'
      BY <1>0, <2>1, <2>2, <2>4, <2>8, IndexUpdate, Zenon DEF idx, RpcsType
    <2> QED
      BY <1>3, <2>9, Untouched, TypeParts, Zenon
  <1> QED
    BY <1>4, <1>5, <1>6, <1>7, Zenon

\* append_entries at a follower keeps the types.
LEMMA BatchTypes ==
    ASSUME TypeOK, NEW f \in Node, NEW batch \in Batches(f),
           AppendEntries(f, batch)
    PROVE  TypeOK'
  <1>0. /\ NodeTypes /\ StorageTypes /\ StatsType /\ HeldType /\ RpcsType
        /\ ClientTypes
    BY TypeParts, Zenon
  <1>1. PICK t \in NodeStates, replies \in SUBSET Reply :
           /\ term' = [term EXCEPT ![f] = t.term]
           /\ votedFor' = [votedFor EXCEPT ![f] = t.votedFor]
           /\ vstate' = [vstate EXCEPT ![f] = t.vstate]
           /\ votes' = votes \/ votes' = [votes EXCEPT ![f] = {}]
           /\ fstats' = fstats
                \/ fstats' = [fstats EXCEPT ![f] = ResetAll(fstats[f])]
           /\ log' = [log EXCEPT ![f] = t.log]
           /\ flushed' = [flushed EXCEPT ![f] = t.flushed]
           /\ commit' = [commit EXCEPT ![f] = t.commit]
           /\ \/ /\ flushing' = [flushing EXCEPT ![f] =
                                     flushing[f] \cup {Len(t.log)}]
                 /\ held' = [held EXCEPT ![f] = [awaits |-> Len(t.log),
                                                 replies |-> replies]]
                 /\ rpcs' \subseteq rpcs
              \/ /\ rpcs' \subseteq rpcs \cup Propagated(replies, t.flushed)
                 /\ UNCHANGED <<flushing, held>>
           /\ rewritten' = rewritten \/ rewritten' = rewritten \cup {f}
           /\ UNCHANGED <<kv, client, crashes, chosen>>
    BY BatchStep, ZenonT(40)
  <1>2. /\ t.term \in Nat /\ t.votedFor \in Node \cup {Nil}
        /\ t.vstate \in {"follower", "candidate", "leader"}
        /\ t.log \in Seq(Nat) /\ Len(t.log) \in Nat
        /\ t.flushed \in Nat /\ t.commit \in Nat
    BY DEF NodeStates
  <1>3. NodeTypes'
    <2>1. term' \in [Node -> Nat] /\ votedFor' \in [Node -> Node \cup {Nil}]
      BY <1>0, <1>1, <1>2, Zenon DEF NodeTypes
    <2>2. kv' \in [Node -> [term : Nat, node : Node \cup {Nil}]]
      BY <1>0, <1>1, Zenon DEF NodeTypes
    <2>3. vstate' \in [Node -> {"follower", "candidate", "leader"}]
      BY <1>0, <1>1, <1>2, Zenon DEF NodeTypes
    <2>4. votes' \in [Node -> SUBSET Node]
      BY <1>0, <1>1, Zenon DEF NodeTypes
    <2> QED
      BY <2>1, <2>2, <2>3, <2>4, Zenon DEF NodeTypes
  <1>4. StorageTypes'
    <2>1. log' \in [Node -> Seq(Nat)]
      BY <1>0, <1>1, <1>2, Zenon DEF StorageTypes
    <2>2. flushed' \in [Node -> Nat] /\ commit' \in [Node -> Nat]
      BY <1>0, <1>1, <1>2, Zenon DEF StorageTypes
    <2>3. flushing' \in [Node -> SUBSET Nat]
      <3>1. \/ flushing' = [flushing EXCEPT ![f] = flushing[f] \cup {Len(t.log)}]
            \/ flushing' = flushing
        BY <1>1, Zenon
      <3>2. flushing \in [Node -> SUBSET Nat]
        BY <1>0, Zenon DEF StorageTypes
      <3>3. flushing[f] \cup {Len(t.log)} \in SUBSET Nat
        BY <1>2, <3>2, Zenon
      <3> QED
        BY <3>1, <3>2, <3>3, Zenon
    <2> QED
      BY <2>1, <2>2, <2>3, Zenon DEF StorageTypes
  <1>5. StatsType'
    BY <1>0, <1>1, StatsReset, Zenon DEF StatsType
  <1>6. HeldType'
    <2> DEFINE h == [awaits |-> Len(t.log), replies |-> replies]
    <2>1. h \in [awaits : Nat, replies : SUBSET Reply]
      BY <1>2, Zenon
    <2>2. held' = [held EXCEPT ![f] = h] \/ held' = held
      BY <1>1, Zenon
    <2> HIDE DEF h
    <2> QED
      BY <1>0, <2>1, <2>2, Zenon DEF HeldType
  <1>7. RpcsType'
    <2>1. Propagated(replies, t.flushed) \in SUBSET Reply
      BY <1>2, PropagatedType, Zenon
    <2> QED
      BY <1>0, <1>1, <2>1, Zenon DEF RpcsType
  <1>8. ClientTypes'
    BY <1>0, <1>1, Zenon DEF ClientTypes, client
  <1> QED
    BY <1>3, <1>4, <1>5, <1>6, <1>7, <1>8, TypeParts, Zenon

\* The handler of a reply keeps the types.
LEMMA ReplyStep ==
    ASSUME TypeOK, NEW m \in rpcs, NEW mayRecover \in BOOLEAN,
           ProcessReply(m, mayRecover)
    PROVE  TypeOK'
  <1> DEFINE l == m.to
             f == m.from
             end == Len(log[l])
  <1>0. NodeTypes /\ StatsType /\ RpcsType
    BY TypeParts, Zenon
  <1>1. m \in Reply
    BY RpcKinds, Zenon DEF ProcessReply
  <1>2. l \in Node /\ f \in Node /\ m.term \in Nat
    BY <1>1, ReplyFields, Zenon
  <1>3. end \in Nat /\ term[l] \in Nat
    BY <1>2, NodeFields, Zenon
  <1>4. fstats[l] \in [Node -> FollowerIndex] /\ fstats[l][f] \in FollowerIndex
    BY <1>0, <1>2, Zenon DEF StatsType
  <1>5. /\ rpcs' = rpcs \ {m}
        /\ UNCHANGED <<kv, storage, commit, held, client, history>>
    BY Zenon DEF ProcessReply
  <1>6. RpcsType'
    BY <1>0, <1>5, Zenon DEF RpcsType
  <1> DEFINE updated == UpdateFollowerIndex(fstats[l][f], m, term[l], end,
                                            mayRecover)
  <1>7. updated \in FollowerIndex
    BY <1>1, <1>3, <1>4, UpdateFollowerIndexType, Zenon
  <1>8. \/ /\ term' = [term EXCEPT ![l] = m.term]
           /\ votedFor' = [votedFor EXCEPT ![l] = Nil]
           /\ vstate' = [vstate EXCEPT ![l] = "follower"]
           /\ votes' = [votes EXCEPT ![l] = {}]
           /\ fstats' = [fstats EXCEPT ![l] =
                  [ResetAll(fstats[l]) EXCEPT
                      ![f] = Continued(Reset(fstats[l][f]), m, m.term)]]
        \/ /\ \/ fstats' = [fstats EXCEPT ![l][f] =
                                Continued(fstats[l][f], m, term[l])]
              \/ fstats' = [fstats EXCEPT ![l][f] =
                                Continued(updated, m, term[l])]
           /\ UNCHANGED <<term, votedFor, vstate, votes>>
    BY Zenon DEF ProcessReply
  <1> HIDE DEF updated, l, f, end
  <1>9. CASE /\ term' = [term EXCEPT ![l] = m.term]
             /\ votedFor' = [votedFor EXCEPT ![l] = Nil]
             /\ vstate' = [vstate EXCEPT ![l] = "follower"]
             /\ votes' = [votes EXCEPT ![l] = {}]
             /\ fstats' = [fstats EXCEPT ![l] =
                    [ResetAll(fstats[l]) EXCEPT
                        ![f] = Continued(Reset(fstats[l][f]), m, m.term)]]
    <2>1. NodeTypes'
      BY <1>0, <1>2, <1>5, <1>9, Zenon DEF NodeTypes
    <2>2. ResetAll(fstats[l]) \in [Node -> FollowerIndex]
      BY <1>4, ResetAllType, Zenon
    <2>3. Reset(fstats[l][f]) \in FollowerIndex
      BY <1>4, ResetType, Zenon
    <2>4. Continued(Reset(fstats[l][f]), m, m.term) \in FollowerIndex
      BY <1>1, <1>2, <2>3, ContinuedType, Zenon
    <2>5. StatsType'
      BY <1>0, <1>2, <1>9, <2>2, <2>4, Zenon DEF StatsType
    <2> QED
      BY <1>5, <1>6, <2>1, <2>5, Untouched, TypeParts, Zenon
  <1>10. CASE /\ \/ fstats' = [fstats EXCEPT ![l][f] =
                                   Continued(fstats[l][f], m, term[l])]
                 \/ fstats' = [fstats EXCEPT ![l][f] =
                                   Continued(updated, m, term[l])]
              /\ UNCHANGED <<term, votedFor, vstate, votes>>
    <2>1. /\ Continued(fstats[l][f], m, term[l]) \in FollowerIndex
          /\ Continued(updated, m, term[l]) \in FollowerIndex
      BY <1>1, <1>3, <1>4, <1>7, ContinuedType, Zenon
    <2>2. StatsType'
      BY <1>0, <1>2, <1>10, <2>1, IndexUpdate, Zenon
    <2>3. UNCHANGED <<term, election>>
      BY <1>5, <1>10, Zenon DEF election
    <2> QED
      BY <1>5, <1>6, <2>2, <2>3, Untouched, TypeParts, Zenon
  <1> QED
    BY <1>8, <1>9, <1>10, Zenon

\* A request that fails keeps the types.
LEMMA FailStep ==
    ASSUME TypeOK, NEW m \in rpcs, RpcFails(m)
    PROVE  TypeOK'
  <1>0. StatsType /\ RpcsType
    BY TypeParts, Zenon
  <1>1. m.from \in Node /\ m.to \in Node
    BY RpcKinds, RequestFields, ReplyFields, Zenon
  <1>2. PICK l \in Node, f \in Node :
           fstats' = fstats
             \/ fstats' = [fstats EXCEPT ![l][f].recovering = FALSE]
    BY <1>1, Zenon DEF RpcFails, RecoveryGivesUp
  <1> DEFINE new == [fstats[l][f] EXCEPT !.recovering = FALSE]
  <1>3. fstats[l][f] \in FollowerIndex
    BY <1>0, Zenon DEF StatsType
  <1>4. new \in FollowerIndex
    BY <1>3, Zenon DEF FollowerIndex
  <1>5. fstats' = fstats \/ fstats' = [fstats EXCEPT ![l][f] = new]
    BY <1>0, <1>2, Zenon DEF StatsType
  <1> HIDE DEF new
  <1>6. StatsType'
    BY <1>0, <1>4, <1>5, IndexUpdate, Untouched, Zenon
  <1>7. RpcsType'
    <2>1. CASE rpcs' = rpcs \ {m}
      BY <1>0, <2>1, Zenon DEF RpcsType
    <2>2. CASE /\ m.type = "request"
               /\ rpcs' = (rpcs \ {m}) \cup {[m EXCEPT !.open = FALSE]}
      <3>1. m \in Request
        BY <2>2, RpcKinds, Zenon
      <3>2. [m EXCEPT !.open = FALSE] \in Request
        BY <3>1, Zenon DEF Request
      <3> QED
        BY <1>0, <2>2, <3>2, Zenon DEF RpcsType
    <2> QED
      BY <2>1, <2>2, Zenon DEF RpcFails
  <1>8. /\ UNCHANGED <<term, election>> /\ UNCHANGED <<storage, commit>>
        /\ UNCHANGED held /\ UNCHANGED <<client, history>>
    BY Zenon DEF RpcFails
  <1> QED
    BY <1>6, <1>7, <1>8, Untouched, TypeParts, Zenon

\* The values of which the leader takes the quorum are offsets, and what it
\* commits is within its flushed log.
LEMMA LeaderCommitFacts ==
    ASSUME TypeOK, NEW l \in Node, UpdateLeaderCommit(l)
    PROVE  \E o \in Nat :
              /\ commit[l] < o /\ o <= flushed[l]
              /\ commit' = [commit EXCEPT ![l] = o]
              /\ chosen' = chosen \cup
                    {[offset |-> p, term |-> log[l][p], in |-> term[l]] :
                        p \in commit[l] + 1..o}
  <1> DEFINE reached == [n \in Node |-> IF n = l THEN flushed[l]
                                        ELSE MatchCommittedIndex(fstats[l][n])]
  <1>1. flushed[l] \in Nat /\ commit[l] \in Nat
        /\ fstats[l] \in [Node -> FollowerIndex]
    BY NodeFields, Zenon
  <1>2. ASSUME NEW n \in Node PROVE reached[n] \in Nat
    <2>1. fstats[l][n].flushed \in Nat /\ fstats[l][n].match \in Nat
      BY <1>1, IndexFields, Zenon
    <2>2. MatchCommittedIndex(fstats[l][n]) \in Nat
      BY <2>1, LeastFacts, Zenon DEF MatchCommittedIndex
    <2> QED
      BY <1>1, <2>2, Zenon
  <1>3. PICK match \in QuorumMatch(reached) :
           /\ MayCommit(l, Least(match, flushed[l]))
           /\ commit' = [commit EXCEPT ![l] = Least(match, flushed[l])]
           /\ chosen' = chosen \cup
                 {[offset |-> p, term |-> log[l][p], in |-> term[l]] :
                     p \in commit[l] + 1..Least(match, flushed[l])}
    BY Zenon DEF UpdateLeaderCommit
  <1> HIDE DEF reached
  <1>4. match \in Nat
    BY <1>2, <1>3, Zenon DEF QuorumMatch
  <1> DEFINE o == Least(match, flushed[l])
  <1>5. o \in Nat /\ o <= flushed[l]
    BY <1>1, <1>4, LeastFacts, Zenon
  <1>6. commit[l] < o
    BY <1>1, <1>3, <1>5, Zenon DEF MayCommit
  <1>7. /\ commit' = [commit EXCEPT ![l] = o]
        /\ chosen' = chosen \cup
              {[offset |-> p, term |-> log[l][p], in |-> term[l]] :
                  p \in commit[l] + 1..o}
    BY <1>3, Zenon
  <1> HIDE DEF o
  <1> QED
    BY <1>5, <1>6, <1>7, Zenon

\* An advance of the leader commit index keeps the types.
LEMMA CommitStep ==
    ASSUME TypeOK, CommittedIsFlushed, NEW l \in Node, UpdateLeaderCommit(l)
    PROVE  TypeOK'
  <1>0. StorageTypes /\ ClientTypes
    BY TypeParts, Zenon
  <1>1. PICK o \in Nat :
           /\ o <= flushed[l]
           /\ commit' = [commit EXCEPT ![l] = o]
           /\ chosen' = chosen \cup
                 {[offset |-> p, term |-> log[l][p], in |-> term[l]] :
                     p \in commit[l] + 1..o}
    BY LeaderCommitFacts, Zenon
  <1>2. /\ log[l] \in Seq(Nat) /\ commit[l] \in Nat /\ flushed[l] \in Nat
        /\ term[l] \in Nat /\ Len(log[l]) \in Nat
    BY NodeFields, Zenon
  <1>3. flushed[l] <= Len(log[l])
    BY Zenon DEF CommittedIsFlushed
  <1>4. ASSUME NEW p \in commit[l] + 1..o
        PROVE  [offset |-> p, term |-> log[l][p], in |-> term[l]]
                 \in [offset : Nat, term : Nat, in : Nat]
    <2>1. p \in Nat /\ p \in 1..Len(log[l])
      BY <1>1, <1>2, <1>3, SMTT(30)
    <2>2. log[l][p] \in Nat
      BY <1>2, <2>1, SMTT(30)
    <2> QED
      BY <1>2, <2>1, <2>2, Zenon
  <1>5. chosen' \in SUBSET [offset : Nat, term : Nat, in : Nat]
    BY <1>0, <1>1, <1>4, Zenon DEF ClientTypes
  <1>6. /\ UNCHANGED <<term, election>> /\ UNCHANGED storage /\ UNCHANGED fstats
        /\ UNCHANGED held /\ UNCHANGED rpcs /\ UNCHANGED <<client, crashes, rewritten>>
    BY Zenon DEF UpdateLeaderCommit
  <1>7. StorageTypes'
    BY <1>0, <1>1, <1>6, Zenon DEF StorageTypes, storage
  <1>8. ClientTypes'
    BY <1>0, <1>5, <1>6, Zenon DEF ClientTypes, client
  <1> QED
    BY <1>6, <1>7, <1>8, Untouched, TypeParts, Zenon

\* The end of a replicate call keeps the types.
LEMMA FinishStep ==
    ASSUME TypeOK, NEW n \in Node, NEW w \in waiting[n], FinishReplicate(n, w)
    PROVE  TypeOK'
  <1>0. ClientTypes
    BY TypeParts, Zenon
  <1>1. w \in [offset : Nat, term : Nat, initial : Nat]
    BY <1>0, Zenon DEF ClientTypes
  <1>2. [offset |-> w.offset, term |-> w.term] \in [offset : Nat, term : Nat]
    BY <1>1, Zenon
  <1>3. /\ waiting' = [waiting EXCEPT ![n] = waiting[n] \ {w}]
        /\ acked' = acked
             \/ acked' = acked \cup {[offset |-> w.offset, term |-> w.term]}
        /\ UNCHANGED history
    BY Zenon DEF FinishReplicate
  <1>4. ClientTypes'
    BY <1>0, <1>2, <1>3, Zenon DEF ClientTypes, history
  <1>5. /\ UNCHANGED <<term, election>> /\ UNCHANGED <<storage, commit>>
        /\ UNCHANGED fstats /\ UNCHANGED held /\ UNCHANGED rpcs
    BY Zenon DEF FinishReplicate
  <1> QED
    BY <1>4, <1>5, Untouched, TypeParts, Zenon

\* A crash and restart keeps the types.
LEMMA RestartStep ==
    ASSUME TypeOK, NEW n \in Node, Restart(n)
    PROVE  TypeOK'
  <1>0. /\ NodeTypes /\ StorageTypes /\ StatsType /\ HeldType /\ RpcsType
        /\ ClientTypes
    BY TypeParts, Zenon
  <1>1. PICK end \in flushed[n]..Len(log[n]), applied \in 0..commit[n] :
           /\ log' = [log EXCEPT ![n] = SubSeq(log[n], 1, end)]
           /\ flushed' = [flushed EXCEPT ![n] = end]
           /\ commit' = [commit EXCEPT ![n] = applied]
           /\ \/ term' = [term EXCEPT ![n] = LastTerm(SubSeq(log[n], 1, end))]
              \/ term' = [term EXCEPT ![n] = kv[n].term]
           /\ \/ votedFor' = [votedFor EXCEPT ![n] = Nil]
              \/ votedFor' = [votedFor EXCEPT ![n] = kv[n].node]
    BY Zenon DEF Restart
  <1>2. /\ log[n] \in Seq(Nat) /\ flushed[n] \in Nat /\ commit[n] \in Nat
        /\ Len(log[n]) \in Nat
        /\ kv[n].term \in Nat /\ kv[n].node \in Node \cup {Nil}
    BY NodeFields, Zenon
  <1>3. end \in Nat /\ applied \in Nat
    BY <1>2
  <1>4. SubSeq(log[n], 1, end) \in Seq(Nat)
    BY <1>2, <1>3, SubSeqType, SMTT(30)
  <1>5. LastTerm(SubSeq(log[n], 1, end)) \in Nat
    BY <1>4, LastTermType, Zenon
  <1>6. /\ flushing' = [flushing EXCEPT ![n] = {}]
        /\ vstate' = [vstate EXCEPT ![n] = "follower"]
        /\ votes' = [votes EXCEPT ![n] = {}]
        /\ fstats' = [fstats EXCEPT ![n] = [f \in Node |-> NewIndex]]
        /\ held' = [held EXCEPT ![n] = NoneHeld]
        /\ waiting' = [waiting EXCEPT ![n] = {}]
        /\ crashes' = crashes + 1
        /\ UNCHANGED <<kv, chosen, rewritten, acked>>
    BY Zenon DEF Restart
  <1>7. NodeTypes'
    <2>1. term' \in [Node -> Nat]
      BY <1>0, <1>1, <1>2, <1>5, Zenon DEF NodeTypes
    <2>2. votedFor' \in [Node -> Node \cup {Nil}]
      BY <1>0, <1>1, <1>2, Zenon DEF NodeTypes
    <2>3. /\ kv' \in [Node -> [term : Nat, node : Node \cup {Nil}]]
          /\ vstate' \in [Node -> {"follower", "candidate", "leader"}]
          /\ votes' \in [Node -> SUBSET Node]
      BY <1>0, <1>6, Zenon DEF NodeTypes
    <2> QED
      BY <2>1, <2>2, <2>3, Zenon DEF NodeTypes
  <1>8. StorageTypes'
    BY <1>0, <1>1, <1>3, <1>4, <1>6, Zenon DEF StorageTypes
  <1>9. StatsType'
    BY <1>0, <1>6, NewIndexType, Zenon DEF StatsType
  <1>10. HeldType'
    BY <1>0, <1>6, Zenon DEF HeldType, NoneHeld
  <1>11. RpcsType'
    <2>1. ASSUME NEW q \in Requests PROVE [q EXCEPT !.open = FALSE] \in Request
      <3>1. q \in Request
        BY RpcKinds, Zenon DEF Requests
      <3> QED
        BY <3>1, Zenon DEF Request
    <2>2. rpcs' \subseteq rpcs \cup {[q EXCEPT !.open = FALSE] : q \in Requests}
      BY DEF Restart
    <2> QED
      BY <1>0, <2>1, <2>2, Zenon DEF RpcsType
  <1>12. ClientTypes'
    <2>1. crashes' \in Nat
      <3>1. crashes \in Nat /\ crashes' = crashes + 1
        BY <1>0, <1>6, Zenon DEF ClientTypes
      <3> QED
        BY <3>1
    <2> QED
      BY <1>0, <1>6, <2>1, Zenon DEF ClientTypes
  <1> QED
    BY <1>7, <1>8, <1>9, <1>10, <1>11, <1>12, TypeParts, Zenon

\* No step breaks the types.  The commit of a leader reads log[l] up to the new
\* commit index, so the types rest on CommittedIsFlushed.
LEMMA TypeStep ==
    ASSUME TypeOK, CommittedIsFlushed, [Next]_vars
    PROVE  TypeOK'
  <1>1. CASE UNCHANGED vars
    <2>1. /\ UNCHANGED <<term, election>> /\ UNCHANGED <<storage, commit>>
          /\ UNCHANGED fstats /\ UNCHANGED held /\ UNCHANGED rpcs
          /\ UNCHANGED <<client, history>>
      BY <1>1, Zenon DEF vars, election, storage, client, history
    <2> QED
      BY <2>1, Untouched, TypeParts, Zenon
  <1>2. CASE \E n \in Node : StandForElection(n)
    BY <1>2, ElectionStep, Zenon
  <1>3. CASE \E c, v \in Node : Vote(c, v)
    BY <1>3, ElectionStep, Zenon
  <1>4. CASE \E l \in Node : StepDown(l)
    BY <1>4, ElectionStep, Zenon
  <1>5. CASE \E n \in Node : BecomeLeader(n)
    BY <1>5, LeaderStep, Zenon
  <1>6. CASE \E l \in Node, flush \in Levels : Replicate(l, flush)
    BY <1>6, LeaderStep, Zenon
  <1>7. CASE \E l, f \in Node : Heartbeat(l, f)
    <2>1. PICK l \in Node, f \in Node : Heartbeat(l, f)
      BY <1>7, Zenon
    <2>2. \/ Heartbeat(l, f) \/ StartRecoveryRead(l, f) \/ StopRecovery(l, f)
          \/ SendRecovery(l, f, 0, TRUE)
      BY <2>1, Zenon
    <2> QED
      BY <2>2, SendStep, Zenon
  <1>8. CASE \E l, f \in Node : StartRecoveryRead(l, f) \/ StopRecovery(l, f)
    <2>1. PICK l \in Node, f \in Node :
             StartRecoveryRead(l, f) \/ StopRecovery(l, f)
      BY <1>8, Zenon
    <2>2. \/ Heartbeat(l, f) \/ StartRecoveryRead(l, f) \/ StopRecovery(l, f)
          \/ SendRecovery(l, f, 0, TRUE)
      BY <2>1, Zenon
    <2> QED
      BY <2>2, SendStep, Zenon
  <1>9. CASE \E l, f \in Node, last \in 1..MaxLog, flush \in BOOLEAN :
                SendRecovery(l, f, last, flush)
    BY <1>9, SendStep, Zenon
  <1>10. CASE \E f \in Node : \E batch \in Batches(f) : AppendEntries(f, batch)
    BY <1>10, BatchTypes, Zenon
  <1>11. CASE \E n \in Node : FlushLog(n)
    BY <1>11, FlushStep, Zenon
  <1>12. CASE \E n \in Node : \E o \in flushing[n] : FlushDone(n, o)
    BY <1>12, FlushStep, Zenon
  <1>13. CASE \E m \in rpcs, mayRecover \in BOOLEAN : ProcessReply(m, mayRecover)
    BY <1>13, ReplyStep, Zenon
  <1>14. CASE \E m \in rpcs : RpcFails(m)
    BY <1>14, FailStep, Zenon
  <1>15. CASE \E l \in Node : UpdateLeaderCommit(l)
    BY <1>15, CommitStep, Zenon
  <1>16. CASE \E n \in Node : \E w \in waiting[n] : FinishReplicate(n, w)
    BY <1>16, FinishStep, Zenon
  <1>17. CASE \E n \in Node : Restart(n)
    BY <1>17, RestartStep, Zenon
  <1> QED
    BY <1>1, <1>2, <1>3, <1>4, <1>5, <1>6, <1>7, <1>8, <1>9, <1>10, <1>11,
       <1>12, <1>13, <1>14, <1>15, <1>16, <1>17, Zenon DEF Next

---------------------------------------------------------------------------
\* Commit indexes.

\* The step keeps the entries that any node has committed.
Kept ==
    \A n \in Node : /\ commit[n] <= Len(log'[n])
                    /\ \A o \in 1..commit[n] : log'[n][o] = log[n][o]

\* A step that leaves the logs and the offsets alone.
LEMMA NothingMoves ==
    ASSUME TypeOK, CommittedIsFlushed, UNCHANGED <<log, flushed, commit>>
    PROVE  CommittedIsFlushed' /\ Kept
  <1>1. ASSUME NEW n \in Node PROVE commit[n] <= Len(log[n])
    <2>1. commit[n] <= flushed[n] /\ flushed[n] <= Len(log[n])
      BY Zenon DEF CommittedIsFlushed
    <2> QED
      BY <2>1, NodeFields
  <1> QED
    BY <1>1, Zenon DEF CommittedIsFlushed, Kept

\* A step of one node, which keeps what the node has committed.
LEMMA OneNodeMoves ==
    ASSUME TypeOK, CommittedIsFlushed, NEW n \in Node,
           NEW lg, NEW stable \in Nat, NEW committed \in Nat,
           log' = [log EXCEPT ![n] = lg],
           flushed' = [flushed EXCEPT ![n] = stable],
           commit' = [commit EXCEPT ![n] = committed],
           committed <= stable, stable <= Len(lg), commit[n] <= Len(lg),
           \A o \in 1..commit[n] : lg[o] = log[n][o]
    PROVE  CommittedIsFlushed' /\ Kept
  <1>0. StorageTypes
    BY TypeParts, Zenon
  <1>1. ASSUME NEW k \in Node
        PROVE  /\ commit'[k] <= flushed'[k] /\ flushed'[k] <= Len(log'[k])
               /\ commit[k] <= Len(log'[k])
               /\ \A o \in 1..commit[k] : log'[k][o] = log[k][o]
    <2>1. CASE k = n
      <3>1. log'[k] = lg /\ flushed'[k] = stable /\ commit'[k] = committed
        BY <1>0, <2>1, Zenon DEF StorageTypes
      <3> QED
        BY <2>1, <3>1, Zenon
    <2>2. CASE k # n
      <3>1. log'[k] = log[k] /\ flushed'[k] = flushed[k] /\ commit'[k] = commit[k]
        BY <1>0, <2>2, Zenon DEF StorageTypes
      <3>2. commit[k] <= flushed[k] /\ flushed[k] <= Len(log[k])
        BY Zenon DEF CommittedIsFlushed
      <3> QED
        BY <3>1, <3>2, NodeFields, SMTT(30)
    <2> QED
      BY <2>1, <2>2, Zenon
  <1> QED
    BY <1>1, Zenon DEF CommittedIsFlushed, Kept

\* A leader appends behind everything it has.
LEMMA DispatchKeeps ==
    ASSUME TypeOK, CommittedIsFlushed, NEW l \in Node, NEW flush \in BOOLEAN,
           AppendAndDispatch(l, flush)
    PROVE  CommittedIsFlushed' /\ Kept
  <1> DEFINE lg == Append(log[l], term[l])
  <1>1. /\ log' = [log EXCEPT ![l] = lg] /\ flushed' = flushed
        /\ commit' = commit
    BY Zenon DEF AppendAndDispatch
  <1>2. /\ log[l] \in Seq(Nat) /\ Len(log[l]) \in Nat /\ term[l] \in Nat
        /\ flushed[l] \in Nat /\ commit[l] \in Nat
    BY NodeFields, Zenon
  <1>3. Len(lg) = Len(log[l]) + 1 /\ \A o \in 1..Len(log[l]) : lg[o] = log[l][o]
    BY <1>2
  <1>4. commit[l] <= flushed[l] /\ flushed[l] <= Len(log[l])
    BY Zenon DEF CommittedIsFlushed
  <1> HIDE DEF lg
  <1>5. /\ flushed[l] <= Len(lg) /\ commit[l] <= Len(lg)
        /\ \A o \in 1..commit[l] : lg[o] = log[l][o]
    <2>1. flushed[l] <= Len(lg) /\ commit[l] <= Len(lg)
      BY <1>2, <1>3, <1>4
    <2>2. \A o \in 1..commit[l] : o \in 1..Len(log[l])
      BY <1>2, <1>4
    <2> QED
      BY <2>1, <2>2, <1>3, Zenon
  <1>6. /\ flushed' = [flushed EXCEPT ![l] = flushed[l]]
        /\ commit' = [commit EXCEPT ![l] = commit[l]]
    BY <1>1, TypeParts, Zenon DEF StorageTypes
  <1> QED
    BY <1>1, <1>2, <1>4, <1>5, <1>6, OneNodeMoves, Zenon

\* The offset that flush_log reports is dropped when a truncation has cut it
\* off, and never lowers the flushed offset.
LEMMA FlushKeeps ==
    ASSUME TypeOK, CommittedIsFlushed, NEW n \in Node, NEW p \in flushing[n],
           FlushDone(n, p)
    PROVE  CommittedIsFlushed' /\ Kept
  <1> DEFINE stable == IF p > Len(log[n]) THEN flushed[n] ELSE Most(p, flushed[n])
  <1>1. /\ log' = log /\ commit' = commit
        /\ flushed' = [flushed EXCEPT ![n] = stable]
    BY Zenon DEF FlushDone
  <1>2. /\ Len(log[n]) \in Nat /\ flushed[n] \in Nat /\ commit[n] \in Nat
        /\ p \in Nat
    BY NodeFields, Zenon
  <1>3. commit[n] <= flushed[n] /\ flushed[n] <= Len(log[n])
    BY Zenon DEF CommittedIsFlushed
  <1>4. stable \in Nat /\ commit[n] <= stable /\ stable <= Len(log[n])
    BY <1>2, <1>3 DEF Most
  <1> HIDE DEF stable
  <1>5. /\ log' = [log EXCEPT ![n] = log[n]]
        /\ commit' = [commit EXCEPT ![n] = commit[n]]
    BY <1>1, TypeParts, Zenon DEF StorageTypes
  <1>6. commit[n] <= Len(log[n])
    BY <1>2, <1>3
  <1> QED
    BY <1>1, <1>2, <1>4, <1>5, <1>6, OneNodeMoves, Zenon

\* append_entries keeps what every node has committed.
LEMMA BatchKeeps ==
    ASSUME TypeOK, CommittedIsFlushed, NEW f \in Node, NEW batch \in Batches(f),
           AppendEntries(f, batch)
    PROVE  CommittedIsFlushed' /\ Kept
  <1>1. PICK t \in NodeStates :
           /\ Sound(NodeState(f)) => Sound(t) /\ Keeps(NodeState(f), t)
           /\ log' = [log EXCEPT ![f] = t.log]
           /\ flushed' = [flushed EXCEPT ![f] = t.flushed]
           /\ commit' = [commit EXCEPT ![f] = t.commit]
    BY BatchStep, Zenon
  <1>2. Sound(NodeState(f))
    BY Zenon DEF CommittedIsFlushed, Sound, NodeState
  <1>3. /\ t.commit <= t.flushed /\ t.flushed <= Len(t.log)
        /\ commit[f] <= t.commit /\ t.commit <= Len(t.log)
        /\ \A o \in 1..commit[f] : t.log[o] = log[f][o]
    BY <1>1, <1>2, Zenon DEF Sound, Keeps, NodeState
  <1>4. /\ t.log \in Seq(Nat) /\ t.flushed \in Nat /\ t.commit \in Nat
        /\ Len(t.log) \in Nat /\ commit[f] \in Nat
    BY NodeFields, SMTT(20) DEF NodeStates
  <1>5. commit[f] <= Len(t.log)
    BY <1>3, <1>4, SMTT(20)
  <1> QED
    BY <1>1, <1>3, <1>4, <1>5, OneNodeMoves, Zenon

\* A leader that commits keeps what every node has committed.
LEMMA CommitKeeps ==
    ASSUME TypeOK, CommittedIsFlushed, NEW l \in Node, UpdateLeaderCommit(l)
    PROVE  CommittedIsFlushed' /\ Kept
  <1>1. PICK o \in Nat : o <= flushed[l] /\ commit' = [commit EXCEPT ![l] = o]
    BY LeaderCommitFacts, Zenon
  <1>2. log' = log /\ flushed' = flushed
    BY Zenon DEF UpdateLeaderCommit, storage
  <1>3. /\ Len(log[l]) \in Nat /\ flushed[l] \in Nat /\ commit[l] \in Nat
    BY NodeFields, Zenon
  <1>4. commit[l] <= flushed[l] /\ flushed[l] <= Len(log[l])
    BY Zenon DEF CommittedIsFlushed
  <1>5. commit[l] <= Len(log[l])
    BY <1>3, <1>4
  <1>6. /\ log' = [log EXCEPT ![l] = log[l]]
        /\ flushed' = [flushed EXCEPT ![l] = flushed[l]]
    BY <1>2, TypeParts, Zenon DEF StorageTypes
  <1> QED
    BY <1>1, <1>3, <1>4, <1>5, <1>6, OneNodeMoves, Zenon

\* A crash loses at most what was not flushed.
LEMMA RestartKeeps ==
    ASSUME TypeOK, CommittedIsFlushed, NEW n \in Node, Restart(n)
    PROVE  CommittedIsFlushed' /\ Kept
  <1>1. PICK end \in flushed[n]..Len(log[n]), applied \in 0..commit[n] :
           /\ log' = [log EXCEPT ![n] = SubSeq(log[n], 1, end)]
           /\ flushed' = [flushed EXCEPT ![n] = end]
           /\ commit' = [commit EXCEPT ![n] = applied]
    BY Zenon DEF Restart
  <1>2. /\ log[n] \in Seq(Nat) /\ Len(log[n]) \in Nat
        /\ flushed[n] \in Nat /\ commit[n] \in Nat
    BY NodeFields, Zenon
  <1>3. commit[n] <= flushed[n] /\ flushed[n] <= Len(log[n])
    BY Zenon DEF CommittedIsFlushed
  <1>4. /\ end \in Nat /\ applied \in Nat /\ end <= Len(log[n])
        /\ applied <= end /\ commit[n] <= end
    BY <1>2, <1>3
  <1> DEFINE lg == SubSeq(log[n], 1, end)
  <1>5. Len(lg) = end /\ \A o \in 1..end : lg[o] = log[n][o]
    BY <1>2, <1>4
  <1> HIDE DEF lg
  <1>6. /\ end <= Len(lg) /\ commit[n] <= Len(lg)
        /\ \A o \in 1..commit[n] : lg[o] = log[n][o]
    BY <1>2, <1>4, <1>5, SMTT(30)
  <1>7. log' = [log EXCEPT ![n] = lg]
    BY <1>1, Zenon DEF lg
  <1> QED
    BY <1>1, <1>4, <1>6, <1>7, OneNodeMoves, Zenon

\* Every step keeps the commit index within the flushed log, and what is committed.
LEMMA SoundStep ==
    ASSUME TypeOK, CommittedIsFlushed, [Next]_vars
    PROVE  CommittedIsFlushed' /\ Kept
  <1>1. CASE UNCHANGED <<log, flushed, commit>>
    BY <1>1, NothingMoves, Zenon
  <1>2. CASE \E l \in Node, flush \in BOOLEAN : AppendAndDispatch(l, flush)
    BY <1>2, DispatchKeeps, Zenon
  <1>3. CASE \E f \in Node : \E batch \in Batches(f) : AppendEntries(f, batch)
    BY <1>3, BatchKeeps, Zenon
  <1>4. CASE \E n \in Node : \E o \in flushing[n] : FlushDone(n, o)
    BY <1>4, FlushKeeps, Zenon
  <1>5. CASE \E l \in Node : UpdateLeaderCommit(l)
    BY <1>5, CommitKeeps, Zenon
  <1>6. CASE \E n \in Node : Restart(n)
    BY <1>6, RestartKeeps, Zenon
  <1>7. (\E n \in Node : BecomeLeader(n))
          => \E l \in Node, flush \in BOOLEAN : AppendAndDispatch(l, flush)
    BY Zenon DEF BecomeLeader
  <1>8. (\E l \in Node, flush \in Levels : Replicate(l, flush))
          => \E l \in Node, flush \in BOOLEAN : AppendAndDispatch(l, flush)
    BY BoundAssumption, Zenon DEF Replicate
  <1>9. \/ UNCHANGED vars
        \/ \E n \in Node : StandForElection(n) \/ StepDown(n) \/ FlushLog(n)
        \/ \E c, v \in Node : Vote(c, v)
        \/ \E l, f \in Node : \/ Heartbeat(l, f) \/ StartRecoveryRead(l, f)
                              \/ StopRecovery(l, f)
        \/ \E l, f \in Node, last \in 1..MaxLog, flush \in BOOLEAN :
              SendRecovery(l, f, last, flush)
        \/ \E m \in rpcs, mayRecover \in BOOLEAN : ProcessReply(m, mayRecover)
        \/ \E m \in rpcs : RpcFails(m)
        \/ \E n \in Node : \E w \in waiting[n] : FinishReplicate(n, w)
        => UNCHANGED <<log, flushed, commit>>
    <2>1. UNCHANGED vars => UNCHANGED <<log, flushed, commit>>
      BY Zenon DEF vars
    <2>2. ASSUME NEW n \in Node, StandForElection(n) \/ StepDown(n) \/ FlushLog(n)
          PROVE  UNCHANGED <<log, flushed, commit>>
      BY <2>2, Zenon DEF StandForElection, StepDown, FlushLog, storage
    <2>3. ASSUME NEW c \in Node, NEW v \in Node, Vote(c, v)
          PROVE  UNCHANGED <<log, flushed, commit>>
      BY <2>3, Zenon DEF Vote, storage
    <2>4. ASSUME NEW l \in Node, NEW f \in Node,
                 \/ Heartbeat(l, f) \/ StartRecoveryRead(l, f)
                 \/ StopRecovery(l, f)
          PROVE  UNCHANGED <<log, flushed, commit>>
      BY <2>4, Zenon DEF Heartbeat, StartRecoveryRead, StopRecovery, storage
    <2>5. ASSUME NEW l \in Node, NEW f \in Node, NEW last, NEW flush,
                 SendRecovery(l, f, last, flush)
          PROVE  UNCHANGED <<log, flushed, commit>>
      BY <2>5, Zenon DEF SendRecovery, storage
    <2>6. ASSUME NEW m \in rpcs, NEW mayRecover \in BOOLEAN,
                 ProcessReply(m, mayRecover)
          PROVE  UNCHANGED <<log, flushed, commit>>
      BY <2>6, Zenon DEF ProcessReply, storage
    <2>7. ASSUME NEW m \in rpcs, RpcFails(m)
          PROVE  UNCHANGED <<log, flushed, commit>>
      BY <2>7, Zenon DEF RpcFails, storage
    <2>8. ASSUME NEW n \in Node, NEW w \in waiting[n], FinishReplicate(n, w)
          PROVE  UNCHANGED <<log, flushed, commit>>
      BY <2>8, Zenon DEF FinishReplicate, storage
    <2> QED
      BY <2>1, <2>2, <2>3, <2>4, <2>5, <2>6, <2>7, <2>8, Zenon
  <1> QED
    BY <1>1, <1>2, <1>3, <1>4, <1>5, <1>6, <1>7, <1>8, <1>9, Zenon DEF Next

\* The initial states are well typed and sound.
LEMMA InitSound == Init => TypeOK /\ CommittedIsFlushed
  <1> SUFFICES ASSUME Init PROVE TypeOK /\ CommittedIsFlushed
    BY Zenon
  <1>1. /\ NodeTypes /\ StorageTypes /\ HeldType /\ RpcsType /\ ClientTypes
    BY SMTT(20) DEF Init, NodeTypes, StorageTypes, HeldType, RpcsType, ClientTypes,
           NoneHeld
  <1>2. StatsType
    BY NewIndexType, Zenon DEF Init, StatsType
  <1>3. CommittedIsFlushed
    BY DEF Init, CommittedIsFlushed
  <1> QED
    BY <1>1, <1>2, <1>3, TypeParts, Zenon

\* The types and the bound on the commit index hold together: neither is
\* inductive alone.
THEOREM ReplicationInvariant == Spec => [](TypeOK /\ CommittedIsFlushed)
  <1>1. TypeOK /\ CommittedIsFlushed /\ [Next]_vars
          => (TypeOK /\ CommittedIsFlushed)'
    BY TypeStep, SoundStep, Zenon
  <1> QED
    BY <1>1, InitSound, PTL DEF Spec

\* The variables keep their types in every behaviour of the replicated log, for
\* any number of nodes and any bounds.
THEOREM ReplicationTypes == Spec => []TypeOK
  BY ReplicationInvariant, PTL

\* consensus::_commit_index never passes _flushed_offset, nor that the end of
\* the log, on any node: for any number of nodes, crashes and requests,
\* delivered in any order.
THEOREM CommitIndexIsFlushed == Spec => []CommittedIsFlushed
  BY ReplicationInvariant, PTL

\* do_append_entries and a restart keep every entry at or below the commit index
\* of the node.
THEOREM CommittedEntriesStay == Spec => CommittedStays
  <1>1. TypeOK /\ CommittedIsFlushed /\ [Next]_vars
          => [\A n \in Node :
                 /\ commit[n] <= Len(log'[n])
                 /\ \A o \in 1..commit[n] : log'[n][o] = log[n][o]]_vars
    BY SoundStep, Zenon DEF Kept
  <1> QED
    BY <1>1, ReplicationInvariant, PTL DEF Spec, CommittedStays

---------------------------------------------------------------------------
\* The inductive invariant.

\* The log lg, from the offset 0 before its first entry.
LogSegment(lg) == [o \in 0..Len(lg) |-> IF o = 0 THEN 0 ELSE lg[o]]

\* The previous entry and the entries of an append entries request.
RequestSegment(m) ==
    [o \in m.prev..m.prev + Len(m.entries) |->
        IF o = 0 THEN 0
        ELSE IF o = m.prev THEN m.prevTerm
        ELSE m.entries[o - m.prev]]

Segments ==
    {LogSegment(log[n]) : n \in Node} \cup {RequestSegment(m) : m \in Requests}

\* Equal entries have equal predecessors.
Agree(A, B) ==
    \A o \in DOMAIN A \cap DOMAIN B :
        A[o] = B[o] => \A p \in DOMAIN A \cap DOMAIN B : p <= o => A[p] = B[p]

AllAgree(X) == \A A, B \in X : Agree(A, B)

\* A node's vote on disk and in memory.
VoteKept ==
    \A v \in Node :
        /\ kv[v].term <= term[v]
        /\ kv[v].term = term[v] => votedFor[v] = kv[v].node
        /\ kv[v].term > 0 => kv[v].node \in Node

\* A candidate, and a leader, has its own vote on disk.
OwnVote ==
    \A c \in Node :
        vstate[c] # "follower" =>
            term[c] > 0 /\ kv[c] = [term |-> term[c], node |-> c]

\* A vote that was counted was written.
CountedWritten ==
    \A c \in Node : vstate[c] # "follower" =>
        \A v \in votes[c] : kv[v].term >= term[c]

\* A voter counts for one candidate of a term.
CountedOnce ==
    \A c, d \in Node :
        /\ vstate[c] # "follower" /\ vstate[d] # "follower"
        /\ term[c] = term[d] /\ c # d
        => votes[c] \cap votes[d] = {}

VoteInv == VoteKept /\ OwnVote /\ CountedWritten /\ CountedOnce

\* A majority has voted in term t or later and counts for no candidate of t:
\* nobody becomes the leader of t any more.
Settled(t) ==
    \E Q \in SUBSET Node :
        /\ IsMajority(Q)
        /\ \A v \in Q :
              /\ kv[v].term >= t
              /\ \A c \in Node : vstate[c] = "candidate" /\ term[c] = t
                                    => v \notin votes[c]

\* A term that has an entry is settled.
EntriesSettled ==
    \A S \in Segments : \A o \in DOMAIN S : S[o] > 0 => Settled(S[o])

\* A leader's last entry is of its own term, nobody has a later one of that term,
\* and nobody else leads in it.
LeaderLast ==
    \A l \in Node : vstate[l] = "leader" => LastTerm(log[l]) = term[l]
LeaderAhead ==
    \A l \in Node : vstate[l] = "leader" =>
        \A S \in Segments : \A o \in DOMAIN S :
            S[o] = term[l] => o <= Len(log[l])
LeaderAlone ==
    \A l, k \in Node :
        vstate[l] = "leader" /\ vstate[k] = "leader" /\ term[l] = term[k]
        => l = k

LeaderInv == LeaderLast /\ LeaderAhead /\ LeaderAlone
MatchingInv == VoteInv /\ EntriesSettled /\ LeaderInv /\ AllAgree(Segments)

---------------------------------------------------------------------------
\* Segments.

IsSegment(S) == \E i, j \in Nat : S \in [i..j -> Nat]

\* Part is a piece of Whole.
Within(Part, Whole) ==
    /\ DOMAIN Part \subseteq DOMAIN Whole
    /\ \A o \in DOMAIN Part : Part[o] = Whole[o]

\* Every entry of S is, at the same offset, one of a segment of X.
Covered(S, X) ==
    \A o \in DOMAIN S : \E R \in X : o \in DOMAIN R /\ R[o] = S[o]

\* Agreement is symmetric.
LEMMA AgreeSymmetric ==
    ASSUME NEW A, NEW B, Agree(A, B)
    PROVE  Agree(B, A)
  BY Zenon DEF Agree

\* Pieces of segments that agree agree.
LEMMA AgreeWithin ==
    ASSUME NEW A, NEW B, NEW P, NEW Q, Agree(A, B), Within(P, A), Within(Q, B)
    PROVE  Agree(P, Q)
  <1> SUFFICES ASSUME NEW o \in DOMAIN P \cap DOMAIN Q, P[o] = Q[o],
                      NEW p \in DOMAIN P \cap DOMAIN Q, p <= o
               PROVE  P[p] = Q[p]
    BY Zenon DEF Agree
  <1>1. /\ o \in DOMAIN A \cap DOMAIN B /\ P[o] = A[o] /\ Q[o] = B[o]
        /\ p \in DOMAIN A \cap DOMAIN B /\ P[p] = A[p] /\ Q[p] = B[p]
    BY Zenon DEF Within
  <1> QED
    BY <1>1, Zenon DEF Agree

\* The pieces of a set of segments agree when the segments do, and have no other
\* entries.
LEMMA PiecesAgree ==
    ASSUME NEW X, NEW Y, AllAgree(X), \A P \in Y : \E A \in X : Within(P, A)
    PROVE  AllAgree(Y) /\ \A P \in Y : Covered(P, X)
  <1>1. AllAgree(Y)
    BY AgreeWithin, Zenon DEF AllAgree
  <1>2. \A P \in Y : Covered(P, X)
    BY Zenon DEF Covered, Within
  <1> QED
    BY <1>1, <1>2, Zenon

\* A segment A cut at an offset where it agrees with B, and continued with B,
\* agrees with what A and B agree with.
LEMMA SpliceAgrees ==
    ASSUME NEW X, AllAgree(X), \A S \in X : IsSegment(S),
           NEW A \in X, NEW B \in X, NEW N, NEW prev \in Nat, NEW end \in Nat,
           DOMAIN N = 0..end, prev <= end, 0..prev \subseteq DOMAIN A,
           DOMAIN B = prev..end, A[prev] = B[prev],
           \A o \in 0..prev : N[o] = A[o],
           \A o \in prev..end : N[o] = B[o]
    PROVE  AllAgree(X \cup {N}) /\ Covered(N, X)
  <1>1. ASSUME NEW C \in X
        PROVE  Agree(N, C)
    <2> SUFFICES ASSUME NEW o \in DOMAIN N \cap DOMAIN C, N[o] = C[o],
                        NEW p \in DOMAIN N \cap DOMAIN C, p <= o
                 PROVE  N[p] = C[p]
      BY Zenon DEF Agree
    <2>1. Agree(A, C) /\ Agree(B, C)
      BY Zenon DEF AllAgree
    <2>2. PICK i, j \in Nat : C \in [i..j -> Nat]
      BY <1>1, Zenon DEF IsSegment
    <2>3. o \in Nat /\ p \in Nat /\ DOMAIN C = i..j
      BY <2>2
    <2>4. CASE o <= prev
      <3>1. o \in DOMAIN A /\ p \in DOMAIN A /\ N[o] = A[o] /\ N[p] = A[p]
        BY <2>3, <2>4
      <3> QED
        BY <2>1, <3>1, Zenon DEF Agree
    <2>5. CASE o > prev
      <3>1. o \in DOMAIN B /\ N[o] = B[o]
        BY <2>3, <2>5
      <3>2. CASE p >= prev
        <4>1. p \in DOMAIN B /\ N[p] = B[p]
          BY <2>3, <3>2
        <4> QED
          BY <2>1, <3>1, <4>1, Zenon DEF Agree
      <3>3. CASE p < prev
        <4>1. prev \in DOMAIN C /\ prev \in DOMAIN B /\ prev \in DOMAIN A
          BY <2>3, <2>5, <3>3
        <4>2. B[prev] = C[prev]
          <5>1. B[o] = C[o] /\ prev <= o
            BY <2>3, <2>5, <3>1, SMTT(30)
          <5> QED
            BY <2>1, <3>1, <4>1, <5>1, Zenon DEF Agree
        <4>3. p \in DOMAIN A /\ N[p] = A[p]
          BY <2>3, <3>3, SMTT(30)
        <4>4. p <= prev /\ A[prev] = C[prev]
          BY <2>3, <3>3, <4>2, SMTT(30)
        <4> QED
          BY <2>1, <4>1, <4>3, <4>4, Zenon DEF Agree
      <3> QED
        BY <2>3, <3>2, <3>3, SMTT(30)
    <2> QED
      BY <2>3, <2>4, <2>5, SMTT(30)
  <1>2. Agree(N, N)
    BY Zenon DEF Agree
  <1>3. AllAgree(X \cup {N})
    BY <1>1, <1>2, AgreeSymmetric, Zenon DEF AllAgree
  <1>4. Covered(N, X)
    <2> SUFFICES ASSUME NEW o \in DOMAIN N
                 PROVE  \E R \in X : o \in DOMAIN R /\ R[o] = N[o]
      BY Zenon DEF Covered
    <2>1. CASE o <= prev
      <3>1. o \in DOMAIN A /\ A[o] = N[o]
        BY <2>1
      <3> QED
        BY <3>1, Zenon
    <2>2. CASE o > prev
      <3>1. o \in DOMAIN B /\ B[o] = N[o]
        BY <2>2
      <3> QED
        BY <3>1, Zenon
    <2> QED
      BY <2>1, <2>2
  <1> QED
    BY <1>3, <1>4, Zenon

\* A segment A continued by one entry that no segment has at that offset.
LEMMA ExtensionAgrees ==
    ASSUME NEW X, AllAgree(X), \A S \in X : IsSegment(S),
           NEW A \in X, NEW N, NEW end \in Nat,
           DOMAIN A = 0..end, DOMAIN N = 0..end + 1,
           \A o \in 0..end : N[o] = A[o],
           \A S \in X : end + 1 \in DOMAIN S => S[end + 1] # N[end + 1]
    PROVE  AllAgree(X \cup {N})
  <1>1. ASSUME NEW C \in X
        PROVE  Agree(N, C)
    <2> SUFFICES ASSUME NEW o \in DOMAIN N \cap DOMAIN C, N[o] = C[o],
                        NEW p \in DOMAIN N \cap DOMAIN C, p <= o
                 PROVE  N[p] = C[p]
      BY Zenon DEF Agree
    <2>1. Agree(A, C)
      BY Zenon DEF AllAgree
    <2>2. o # end + 1
      BY <1>1, Zenon
    <2>3. o \in 0..end /\ p \in 0..end
      BY <2>2
    <2> QED
      BY <2>1, <2>3, Zenon DEF Agree
  <1>2. Agree(N, N)
    BY Zenon DEF Agree
  <1> QED
    BY <1>1, <1>2, AgreeSymmetric, Zenon DEF AllAgree

---------------------------------------------------------------------------
\* Votes.

\* A settled term stays settled.
SettledStays == \A t \in Nat \ {0} : Settled(t) => Settled(t)'

\* Votes on disk only grow, and a candidate keeps the votes it has or takes one
\* of a node that had not voted in its term.
VotesAdvance ==
    /\ \A v \in Node : kv'[v].term >= kv[v].term
    /\ \A c \in Node : vstate'[c] = "candidate" =>
          \A v \in votes'[c] :
             \/ vstate[c] = "candidate" /\ term[c] = term'[c] /\ v \in votes[c]
             \/ kv[v].term < term'[c]

\* Such votes keep settled terms settled.
LEMMA AdvanceSettles ==
    ASSUME TypeOK, VotesAdvance, kv' \in [Node -> [term : Nat, node : Node \cup {Nil}]]
    PROVE  SettledStays
  <1> SUFFICES ASSUME NEW t \in Nat \ {0}, Settled(t) PROVE Settled(t)'
    BY Zenon DEF SettledStays
  <1>1. PICK Q \in SUBSET Node :
            /\ IsMajority(Q)
            /\ \A v \in Q :
                  /\ kv[v].term >= t
                  /\ \A c \in Node : vstate[c] = "candidate" /\ term[c] = t
                                        => v \notin votes[c]
    BY Zenon DEF Settled
  <1>2. ASSUME NEW v \in Q
        PROVE  /\ kv'[v].term >= t
               /\ \A c \in Node : vstate'[c] = "candidate" /\ term'[c] = t
                                     => v \notin votes'[c]
    <2>1. kv[v].term \in Nat /\ kv'[v].term \in Nat
      BY <1>1, NodeFields, Zenon
    <2>2. kv'[v].term >= t
      BY <1>1, <2>1, SMTT(30) DEF VotesAdvance
    <2>3. ASSUME NEW c \in Node, vstate'[c] = "candidate", term'[c] = t,
                 v \in votes'[c]
          PROVE  FALSE
      <3>1. ~(kv[v].term < t)
        BY <1>1, <2>1
      <3>2. vstate[c] = "candidate" /\ term[c] = term'[c] /\ v \in votes[c]
        BY <2>3, <3>1, Zenon DEF VotesAdvance
      <3> QED
        BY <1>1, <2>3, <3>2, Zenon
    <2> QED
      BY <2>2, <2>3, Zenon
  <1> QED
    BY <1>1, <1>2, Zenon DEF Settled

\* Node n adopts a term, or follows, without a vote of its own; or nothing
\* changes.
Follows(n) ==
    \E t \in Nat, w \in Node \cup {Nil}, st \in {"follower", "candidate", "leader"} :
        /\ term' = [term EXCEPT ![n] = t]
        /\ votedFor' = [votedFor EXCEPT ![n] = w]
        /\ vstate' = [vstate EXCEPT ![n] = st]
        /\ votes' = votes \/ votes' = [votes EXCEPT ![n] = {}]
        /\ kv' = kv
        /\ t >= kv[n].term /\ (t = kv[n].term => w = kv[n].node)
        /\ st = "follower" \/ (st = vstate[n] /\ t = term[n])

\* Following keeps the invariant of the votes.
LEMMA FollowsVotes ==
    ASSUME TypeOK, VoteInv, NEW n \in Node, Follows(n)
    PROVE  VoteInv' /\ SettledStays
  <1>1. PICK t \in Nat, w \in Node \cup {Nil},
             st \in {"follower", "candidate", "leader"} :
                /\ term' = [term EXCEPT ![n] = t]
                /\ votedFor' = [votedFor EXCEPT ![n] = w]
                /\ vstate' = [vstate EXCEPT ![n] = st]
                /\ votes' = votes \/ votes' = [votes EXCEPT ![n] = {}]
                /\ kv' = kv
                /\ t >= kv[n].term /\ (t = kv[n].term => w = kv[n].node)
                /\ st = "follower" \/ (st = vstate[n] /\ t = term[n])
    BY Zenon DEF Follows
  <1>2. /\ term \in [Node -> Nat] /\ votedFor \in [Node -> Node \cup {Nil}]
        /\ vstate \in [Node -> {"follower", "candidate", "leader"}]
        /\ votes \in [Node -> SUBSET Node]
        /\ kv \in [Node -> [term : Nat, node : Node \cup {Nil}]]
    BY Zenon DEF TypeOK, Term
  <1>3. \A v \in Node : kv[v].term \in Nat
    BY <1>2, Zenon
  <1>4. ASSUME NEW c \in Node, vstate'[c] # "follower"
        PROVE  vstate'[c] = vstate[c] /\ term'[c] = term[c] /\ votes'[c] \subseteq votes[c]
    BY <1>1, <1>2, <1>4, Zenon
  <1>5. VoteKept'
    <2> SUFFICES ASSUME NEW v \in Node
                 PROVE  /\ kv[v].term <= term'[v]
                        /\ kv[v].term = term'[v] => votedFor'[v] = kv[v].node
                        /\ kv[v].term > 0 => kv[v].node \in Node
      BY <1>1, Zenon DEF VoteKept
    <2>1. CASE v = n
      BY <1>1, <1>2, <1>3, <2>1, Zenon DEF VoteInv, VoteKept
    <2>2. CASE v # n
      <3>1. term'[v] = term[v] /\ votedFor'[v] = votedFor[v]
        BY <1>1, <1>2, <2>2, Zenon
      <3> QED
        BY <3>1, Zenon DEF VoteInv, VoteKept
    <2> QED
      BY <2>1, <2>2, Zenon
  <1>6. OwnVote'
    BY <1>1, <1>4, Zenon DEF VoteInv, OwnVote
  <1>7. CountedWritten'
    BY <1>1, <1>4, Zenon DEF VoteInv, CountedWritten
  <1>8. CountedOnce'
    <2> SUFFICES ASSUME NEW c \in Node, NEW d \in Node,
                        vstate'[c] # "follower", vstate'[d] # "follower",
                        term'[c] = term'[d], c # d
                 PROVE  votes'[c] \cap votes'[d] = {}
      BY Zenon DEF CountedOnce
    <2>1. votes[c] \cap votes[d] = {}
      BY <1>4, Zenon DEF VoteInv, CountedOnce
    <2> QED
      BY <1>4, <2>1, Zenon
  <1>9. VotesAdvance
    <2>1. \A v \in Node : kv'[v].term >= kv[v].term
      BY <1>1, <1>3
    <2>2. \A c \in Node : vstate'[c] = "candidate" =>
             /\ vstate[c] = "candidate" /\ term[c] = term'[c]
             /\ votes'[c] \subseteq votes[c]
      BY <1>4, Zenon
    <2> QED
      BY <2>1, <2>2, Zenon DEF VotesAdvance
  <1>10. SettledStays
    BY <1>1, <1>2, <1>9, AdvanceSettles, Zenon
  <1> QED
    BY <1>5, <1>6, <1>7, <1>8, <1>10, Zenon DEF VoteInv

\* Candidates and leaders keep what they count, except that c may count v in
\* term t and that v may begin to count itself.
CountsVote(v, c, t) ==
    \A d \in Node : vstate'[d] # "follower" =>
        \/ /\ d # v /\ vstate[d] # "follower"
           /\ vstate'[d] = vstate[d]
           /\ votes'[d] = votes[d]
                \/ (d = c /\ term[d] = t /\ votes'[d] = votes[d] \cup {v})
        \/ d = v /\ c = v /\ votes'[d] = {v}

\* Node v writes a vote for c in term t, in which it had not voted.
\* vote_stm::vote and consensus::do_vote.
LEMMA WrittenVote ==
    ASSUME TypeOK, VoteInv, NEW v \in Node, NEW c \in Node, NEW t \in Nat \ {0},
           t >= term[v], kv[v].term < t,
           term' = [term EXCEPT ![v] = t],
           votedFor' = [votedFor EXCEPT ![v] = c],
           kv' = [kv EXCEPT ![v] = [term |-> t, node |-> c]],
           vstate' \in [Node -> {"follower", "candidate", "leader"}],
           votes' \in [Node -> SUBSET Node],
           CountsVote(v, c, t)
    PROVE  VoteInv' /\ SettledStays
  <1>1. /\ term \in [Node -> Nat] /\ votedFor \in [Node -> Node \cup {Nil}]
        /\ votes \in [Node -> SUBSET Node]
        /\ kv \in [Node -> [term : Nat, node : Node \cup {Nil}]]
        /\ kv' \in [Node -> [term : Nat, node : Node \cup {Nil}]]
    BY Zenon DEF TypeOK, Term
  <1>2. \A w \in Node : kv[w].term \in Nat /\ kv'[w].term \in Nat
    BY <1>1, Zenon
  <1>3. /\ \A w \in Node : w # v => /\ term'[w] = term[w] /\ kv'[w] = kv[w]
                                    /\ votedFor'[w] = votedFor[w]
        /\ term'[v] = t /\ votedFor'[v] = c /\ kv'[v] = [term |-> t, node |-> c]
        /\ kv'[v].term = t /\ kv'[v].node = c
    BY <1>1, Zenon
  <1>4. \A w \in Node : kv'[w].term >= kv[w].term
    BY <1>2, <1>3
  <1>5. VoteKept'
    <2> SUFFICES ASSUME NEW w \in Node
                 PROVE  /\ kv'[w].term <= term'[w]
                        /\ kv'[w].term = term'[w] => votedFor'[w] = kv'[w].node
                        /\ kv'[w].term > 0 => kv'[w].node \in Node
      BY Zenon DEF VoteKept
    <2>1. CASE w = v
      BY <1>3, <2>1, SMTT(30)
    <2>2. CASE w # v
      BY <1>3, <2>2, SMTT(30) DEF VoteInv, VoteKept
    <2> QED
      BY <2>1, <2>2, Zenon
  <1>6. OwnVote'
    <2> SUFFICES ASSUME NEW d \in Node, vstate'[d] # "follower"
                 PROVE  term'[d] > 0 /\ kv'[d] = [term |-> term'[d], node |-> d]
      BY Zenon DEF OwnVote
    <2>1. CASE d = v
      <3>1. c = v
        BY <2>1, Zenon DEF CountsVote
      <3> QED
        BY <1>3, <2>1, <3>1, SMTT(30)
    <2>2. CASE d # v
      <3>1. vstate[d] # "follower"
        BY <2>2, Zenon DEF CountsVote
      <3> QED
        BY <1>3, <2>2, <3>1, ZenonT(40) DEF VoteInv, OwnVote
    <2> QED
      BY <2>1, <2>2, Zenon
  \* what a candidate or leader counts afterwards
  <1>7. ASSUME NEW d \in Node, vstate'[d] # "follower", NEW w \in votes'[d]
        PROVE  \/ /\ d # v /\ vstate[d] # "follower" /\ w \in votes[d]
                  /\ term'[d] = term[d] /\ vstate'[d] = vstate[d]
               \/ w = v /\ d = c /\ term'[d] = t
    BY <1>3, <1>7, SMTT(30) DEF CountsVote
  <1>8. CountedWritten'
    <2> SUFFICES ASSUME NEW d \in Node, vstate'[d] # "follower", NEW w \in votes'[d]
                 PROVE  kv'[w].term >= term'[d]
      BY Zenon DEF CountedWritten
    <2>1. CASE /\ vstate[d] # "follower" /\ w \in votes[d] /\ term'[d] = term[d]
      <3>1. kv[w].term >= term[d]
        BY <2>1, Zenon DEF VoteInv, CountedWritten
      <3>2. w \in Node /\ term[d] \in Nat
        BY <1>1, <2>1, Zenon
      <3>3. kv'[w].term >= kv[w].term /\ kv'[w].term \in Nat /\ kv[w].term \in Nat
        BY <1>2, <1>4, <3>2, Zenon
      <3> QED
        BY <2>1, <3>1, <3>2, <3>3, SMTT(30)
    <2>2. CASE w = v /\ d = c /\ term'[d] = t
      BY <1>3, <2>2, SMTT(30)
    <2> QED
      BY <1>7, <2>1, <2>2, Zenon
  \* v was counted in no candidate or leader of term t
  <1>9. ASSUME NEW d \in Node, vstate[d] # "follower", v \in votes[d]
        PROVE  term[d] # t
    <2>1. kv[v].term >= term[d]
      BY <1>9, Zenon DEF VoteInv, CountedWritten
    <2> QED
      BY <1>1, <1>2, <2>1, SMTT(30)
  <1>10. CountedOnce'
    <2> SUFFICES ASSUME NEW d \in Node, NEW e \in Node,
                        vstate'[d] # "follower", vstate'[e] # "follower",
                        term'[d] = term'[e], d # e,
                        NEW w \in votes'[d], w \in votes'[e]
                 PROVE  FALSE
      BY Zenon DEF CountedOnce
    <2>1. CASE w = v /\ d = c /\ term'[d] = t
      <3>1. vstate[e] # "follower" /\ v \in votes[e] /\ term[e] = t
        BY <1>7, <2>1, Zenon
      <3> QED
        BY <1>9, <3>1, Zenon
    <2>2. CASE w = v /\ e = c /\ term'[e] = t
      <3>1. vstate[d] # "follower" /\ v \in votes[d] /\ term[d] = t
        BY <1>7, <2>2, Zenon
      <3> QED
        BY <1>9, <3>1, Zenon
    <2>3. CASE /\ vstate[d] # "follower" /\ w \in votes[d] /\ term'[d] = term[d]
               /\ vstate[e] # "follower" /\ w \in votes[e] /\ term'[e] = term[e]
      BY <2>3, Zenon DEF VoteInv, CountedOnce
    <2> QED
      BY <1>7, <2>1, <2>2, <2>3, Zenon
  <1>11. VotesAdvance
    <2> SUFFICES ASSUME NEW d \in Node, vstate'[d] = "candidate", NEW w \in votes'[d]
                 PROVE  \/ /\ vstate[d] = "candidate" /\ term[d] = term'[d]
                           /\ w \in votes[d]
                        \/ kv[w].term < term'[d]
      BY <1>4, Zenon DEF VotesAdvance
    <2> QED
      BY <1>7, Zenon
  <1> QED
    BY <1>1, <1>5, <1>6, <1>8, <1>10, <1>11, AdvanceSettles, ZenonT(40) DEF VoteInv

\* A candidate votes for itself in a new term.
LEMMA StandVotes ==
    ASSUME TypeOK, VoteInv, NEW n \in Node, StandForElection(n)
    PROVE  VoteInv' /\ SettledStays
  <1>1. /\ term' = [term EXCEPT ![n] = term[n] + 1]
        /\ votedFor' = [votedFor EXCEPT ![n] = n]
        /\ kv' = [kv EXCEPT ![n] = [term |-> term[n] + 1, node |-> n]]
        /\ vstate' = [vstate EXCEPT ![n] = "candidate"]
        /\ votes' = [votes EXCEPT ![n] = {n}]
    BY Zenon DEF StandForElection
  <1>2. /\ vstate \in [Node -> {"follower", "candidate", "leader"}]
        /\ votes \in [Node -> SUBSET Node]
        /\ term[n] \in Nat /\ kv[n].term \in Nat
    BY NodeFields, Zenon DEF TypeOK
  <1>3. kv[n].term < term[n] + 1 /\ term[n] + 1 \in Nat \ {0} /\ term[n] + 1 >= term[n]
    <2>1. kv[n].term <= term[n]
      BY Zenon DEF VoteInv, VoteKept
    <2> QED
      BY <1>2, <2>1, SMTT(20)
  <1>4. /\ vstate' \in [Node -> {"follower", "candidate", "leader"}]
        /\ votes' \in [Node -> SUBSET Node]
    BY <1>1, <1>2, Zenon
  <1>5. CountsVote(n, n, term[n] + 1)
    BY <1>1, <1>2, Zenon DEF CountsVote
  <1> QED
    BY <1>1, <1>3, <1>4, <1>5, WrittenVote, Zenon

\* consensus::do_vote adopts the term of the candidate and may write a vote.
LEMMA VoteVotes ==
    ASSUME TypeOK, VoteInv, NEW c \in Node, NEW v \in Node, Vote(c, v)
    PROVE  VoteInv' /\ SettledStays
  <1> DEFINE newer == term[c] > term[v]
             grant == LogOk(c, v) /\ (newer \/ votedFor[v] = Nil)
  <1>1. /\ vstate[c] = "candidate" /\ c # v
        /\ term[c] >= term[v] /\ (newer \/ grant)
        /\ term' = [term EXCEPT ![v] = term[c]]
        /\ votedFor' = [votedFor EXCEPT ![v] = IF grant THEN c ELSE Nil]
        /\ kv' = IF grant
                   THEN [kv EXCEPT ![v] = [term |-> term[c], node |-> c]]
                   ELSE kv
        /\ vstate' = [vstate EXCEPT ![v] = IF newer THEN "follower" ELSE vstate[v]]
    BY Zenon DEF Vote
  <1>2. PICK counted \in BOOLEAN :
            /\ counted => grant
            /\ votes' = [votes EXCEPT
                           ![v] = IF newer THEN {} ELSE votes[v],
                           ![c] = IF counted THEN votes[c] \cup {v} ELSE votes[c]]
    <2>1. \E counted \in BOOLEAN :
            /\ counted => grant
            /\ votes' = [votes EXCEPT ![v] = IF newer THEN {} ELSE @,
                                      ![c] = IF counted THEN @ \cup {v} ELSE @]
      BY Zenon DEF Vote
    <2>2. votes \in [Node -> SUBSET Node]
      BY Zenon DEF TypeOK
    <2> QED
      BY <1>1, <2>1, <2>2, Zenon
  <1>3. /\ term \in [Node -> Nat] /\ votedFor \in [Node -> Node \cup {Nil}]
        /\ vstate \in [Node -> {"follower", "candidate", "leader"}]
        /\ votes \in [Node -> SUBSET Node]
    BY Zenon DEF TypeOK, Term
  <1>4. /\ term[c] \in Nat /\ term[v] \in Nat /\ kv[v].term \in Nat
        /\ votedFor[v] \in Node \cup {Nil} /\ kv[v].node \in Node \cup {Nil}
    BY NodeFields, Zenon
  <1>5. term[c] > 0
    BY <1>1, Zenon DEF VoteInv, OwnVote
  <1> HIDE DEF newer, grant
  \* a node that may vote in the term of the candidate has not done so
  <1>6. newer \/ votedFor[v] = Nil => kv[v].term < term[c]
    <2>1. kv[v].term <= term[v] /\ (kv[v].term = term[v] => votedFor[v] = kv[v].node)
          /\ (kv[v].term > 0 => kv[v].node \in Node)
      BY Zenon DEF VoteInv, VoteKept
    <2>2. CASE newer
      BY <1>4, <2>1, <2>2, SMTT(30) DEF newer
    <2>3. CASE votedFor[v] = Nil /\ ~newer
      <3>1. term[v] = term[c]
        BY <1>1, <1>4, <2>3, SMTT(30) DEF newer
      <3>2. kv[v].term # term[v]
        BY <1>5, <2>1, <2>3, <3>1, NodeAssumption, Zenon
      <3> QED
        BY <1>4, <2>1, <3>1, <3>2, SMTT(30)
    <2> QED
      BY <2>2, <2>3, Zenon
  <1>7. CASE grant
    <2>1. kv[v].term < term[c]
      BY <1>6, <1>7, Zenon DEF grant
    <2>2. vstate[v] = "follower" \/ newer
      <3>1. vstate[v] # "follower" => kv[v] = [term |-> term[v], node |-> v]
        BY Zenon DEF VoteInv, OwnVote
      <3>2. vstate[v] # "follower" => kv[v].term = term[v]
        BY <3>1
      <3> QED
        BY <1>1, <1>4, <2>1, <3>2, Zenon DEF newer
    <2>3. /\ vstate' \in [Node -> {"follower", "candidate", "leader"}]
          /\ votes' \in [Node -> SUBSET Node]
      BY <1>1, <1>2, <1>3, Zenon
    <2>4. /\ term' = [term EXCEPT ![v] = term[c]]
          /\ votedFor' = [votedFor EXCEPT ![v] = c]
          /\ kv' = [kv EXCEPT ![v] = [term |-> term[c], node |-> c]]
      BY <1>1, <1>7, Zenon
    <2>5. vstate'[v] = "follower"
      BY <1>1, <1>3, <2>2, Zenon
    <2>6. \A d \in Node : d # v =>
              /\ vstate'[d] = vstate[d]
              /\ votes'[d] = votes[d] \/ (d = c /\ votes'[d] = votes[d] \cup {v})
      BY <1>1, <1>2, <1>3, Zenon
    <2>7. CountsVote(v, c, term[c])
      BY <2>5, <2>6, Zenon DEF CountsVote
    <2>8. term[c] \in Nat \ {0} /\ term[c] >= term[v]
      BY <1>1, <1>4, <1>5, SMTT(30)
    <2> QED
      BY <2>1, <2>3, <2>4, <2>7, <2>8, WrittenVote, Zenon
  <1>8. CASE ~grant
    <2>1. newer /\ kv[v].term < term[c]
      BY <1>1, <1>6, <1>8, Zenon
    <2>2. /\ votedFor' = [votedFor EXCEPT ![v] = Nil] /\ kv' = kv
          /\ vstate' = [vstate EXCEPT ![v] = "follower"]
      BY <1>1, <1>8, <2>1, Zenon
    <2>3. votes' = [votes EXCEPT ![v] = {}]
      BY <1>1, <1>2, <1>3, <1>8, <2>1, Zenon
    <2>4. term[c] >= kv[v].term /\ term[c] # kv[v].term
      BY <1>4, <2>1, SMTT(30)
    <2>5. Follows(v)
      BY <1>1, <1>4, <2>2, <2>3, <2>4, Zenon DEF Follows
    <2> QED
      BY <2>5, FollowsVotes, Zenon
  <1> QED
    BY <1>7, <1>8, Zenon

---------------------------------------------------------------------------
\* The segments of a state.

\* The segment of a log.
LEMMA LogSegmentFacts ==
    ASSUME NEW lg \in Seq(Nat)
    PROVE  /\ Len(lg) \in Nat
           /\ DOMAIN LogSegment(lg) = 0..Len(lg)
           /\ LogSegment(lg)[0] = 0
           /\ \A o \in 1..Len(lg) : LogSegment(lg)[o] = lg[o]
           /\ IsSegment(LogSegment(lg))
  <1>1. LogSegment(lg) \in [0..Len(lg) -> Nat] /\ Len(lg) \in Nat /\ 0 \in Nat
    BY DEF LogSegment
  <1>2. IsSegment(LogSegment(lg))
    BY <1>1, Zenon DEF IsSegment
  <1> QED
    BY <1>1, <1>2 DEF LogSegment

\* The segment of a request.
LEMMA RequestSegmentFacts ==
    ASSUME NEW m \in Request
    PROVE  /\ m.prev \in Nat /\ Len(m.entries) \in Nat
           /\ DOMAIN RequestSegment(m) = m.prev..m.prev + Len(m.entries)
           /\ RequestSegment(m)[m.prev] = IF m.prev = 0 THEN 0 ELSE m.prevTerm
           /\ \A o \in m.prev + 1..m.prev + Len(m.entries) :
                 RequestSegment(m)[o] = m.entries[o - m.prev]
           /\ IsSegment(RequestSegment(m))
  <1>1. m.prev \in Nat /\ m.prevTerm \in Nat /\ m.entries \in Seq(Nat)
    BY RequestFields, Zenon DEF Request, Term, Offset
  <1>2. Len(m.entries) \in Nat
    BY <1>1, SMTT(30)
  <1>3. RequestSegment(m) \in [m.prev..m.prev + Len(m.entries) -> Nat]
    BY <1>1, <1>2, SMTT(30) DEF RequestSegment
  <1>4. IsSegment(RequestSegment(m))
    <2>1. m.prev + Len(m.entries) \in Nat
      BY <1>1, <1>2
    <2> QED
      BY <1>1, <1>3, <2>1, Zenon DEF IsSegment
  <1> QED
    BY <1>1, <1>2, <1>4, SMTT(30) DEF RequestSegment

\* Every segment is one.
LEMMA SegmentTypes ==
    ASSUME TypeOK
    PROVE  \A S \in Segments : IsSegment(S)
  <1>1. ASSUME NEW n \in Node PROVE IsSegment(LogSegment(log[n]))
    BY NodeFields, LogSegmentFacts, Zenon
  <1>2. ASSUME NEW m \in Requests PROVE IsSegment(RequestSegment(m))
    <2>1. m \in Request
      BY RpcKinds, Zenon DEF Requests
    <2> QED
      BY <2>1, RequestSegmentFacts, Zenon
  <1> QED
    BY <1>1, <1>2, Zenon DEF Segments

\* Entries are terms.
LEMMA SegmentValues ==
    ASSUME NEW S, IsSegment(S), NEW o \in DOMAIN S
    PROVE  o \in Nat /\ S[o] \in Nat
  BY DEF IsSegment

\* What a request takes from a log is a piece of it.
LEMMA TakenWithin ==
    ASSUME NEW lg \in Seq(Nat), NEW m \in Request,
           m.prevTerm = TermAt(lg, m.prev),
           m.prev + Len(m.entries) <= Len(lg),
           \A i \in 1..Len(m.entries) : m.entries[i] = lg[m.prev + i]
    PROVE  Within(RequestSegment(m), LogSegment(lg))
  <1> DEFINE R == RequestSegment(m)
             L == LogSegment(lg)
  <1>1. /\ m.prev \in Nat /\ Len(m.entries) \in Nat
        /\ DOMAIN R = m.prev..m.prev + Len(m.entries)
        /\ R[m.prev] = IF m.prev = 0 THEN 0 ELSE m.prevTerm
        /\ \A o \in m.prev + 1..m.prev + Len(m.entries) : R[o] = m.entries[o - m.prev]
    BY RequestSegmentFacts, Zenon
  <1>2. /\ Len(lg) \in Nat /\ DOMAIN L = 0..Len(lg) /\ L[0] = 0
        /\ \A o \in 1..Len(lg) : L[o] = lg[o]
    BY LogSegmentFacts, Zenon
  <1> HIDE DEF R, L
  <1>3. DOMAIN R \subseteq DOMAIN L
    BY <1>1, <1>2
  <1>4. ASSUME NEW o \in DOMAIN R PROVE R[o] = L[o]
    <2>1. CASE o = m.prev
      BY <1>1, <1>2, <2>1, SMTT(30) DEF TermAt
    <2>2. CASE o # m.prev
      <3>1. o \in m.prev + 1..m.prev + Len(m.entries) /\ o \in 1..Len(lg)
        BY <1>1, <1>2, <2>2, SMTT(30)
      <3>2. o - m.prev \in 1..Len(m.entries) /\ m.prev + (o - m.prev) = o
        BY <1>1, <3>1, SMTT(20)
      <3> QED
        BY <1>1, <1>2, <3>1, <3>2, Zenon
    <2> QED
      BY <2>1, <2>2, Zenon
  <1> QED
    BY <1>3, <1>4, Zenon DEF Within, R, L

\* A prefix of a log is a piece of it.
LEMMA PrefixWithin ==
    ASSUME NEW lg \in Seq(Nat), NEW end \in 0..Len(lg)
    PROVE  Within(LogSegment(SubSeq(lg, 1, end)), LogSegment(lg))
  <1> DEFINE kept == SubSeq(lg, 1, end)
  <1>1. Len(lg) \in Nat /\ end \in Nat /\ end <= Len(lg)
    OBVIOUS
  <1>2. kept \in Seq(Nat)
    BY <1>1, SubSeqType, SMTT(30)
  <1>3. Len(kept) = end /\ \A o \in 1..end : kept[o] = lg[o]
    BY <1>1
  <1> HIDE DEF kept
  <1>4. /\ DOMAIN LogSegment(kept) = 0..end /\ LogSegment(kept)[0] = 0
        /\ \A o \in 1..end : LogSegment(kept)[o] = lg[o]
    BY <1>2, <1>3, LogSegmentFacts, Zenon
  <1>5. /\ DOMAIN LogSegment(lg) = 0..Len(lg) /\ LogSegment(lg)[0] = 0
        /\ \A o \in 1..Len(lg) : LogSegment(lg)[o] = lg[o]
    BY LogSegmentFacts, Zenon
  <1>6. ASSUME NEW o \in 0..end PROVE LogSegment(kept)[o] = LogSegment(lg)[o]
    <2>1. CASE o = 0
      BY <1>4, <1>5, <2>1, Zenon
    <2>2. CASE o # 0
      <3>1. o \in 1..end /\ o \in 1..Len(lg)
        BY <1>1, <2>2, SMTT(30)
      <3> QED
        BY <1>4, <1>5, <3>1, Zenon
    <2> QED
      BY <2>1, <2>2, Zenon
  <1>7. 0..end \subseteq 0..Len(lg)
    BY <1>1
  <1> QED
    BY <1>4, <1>5, <1>6, <1>7, Zenon DEF Within, kept

---------------------------------------------------------------------------
\* Steps that write no new entry.

\* A leader stays what it was.
LeadersStay ==
    \A l \in Node : vstate'[l] = "leader" =>
        vstate[l] = "leader" /\ term'[l] = term[l] /\ log'[l] = log[l]

\* A step that makes segments only of the entries there are keeps the invariant.
LEMMA CoveredStep ==
    ASSUME TypeOK, MatchingInv, VoteInv', SettledStays, LeadersStay,
           \A S \in Segments' : Covered(S, Segments), AllAgree(Segments')
    PROVE  MatchingInv'
  <1>1. ASSUME NEW S \in Segments', NEW o \in DOMAIN S
        PROVE  \E R \in Segments : o \in DOMAIN R /\ R[o] = S[o] /\ R[o] \in Nat
    BY SegmentTypes, SegmentValues, Zenon DEF Covered
  <1>2. EntriesSettled'
    <2> SUFFICES ASSUME NEW S \in Segments', NEW o \in DOMAIN S, S[o] > 0
                 PROVE  Settled(S[o])'
      BY Zenon DEF EntriesSettled
    <2>1. PICK R \in Segments : o \in DOMAIN R /\ R[o] = S[o] /\ R[o] \in Nat
      BY <1>1, Zenon
    <2>2. R[o] > 0 /\ R[o] \in Nat \ {0}
      BY <2>1
    <2>3. Settled(R[o])
      BY <2>1, <2>2, Zenon DEF MatchingInv, EntriesSettled
    <2>4. Settled(R[o])'
      BY <2>2, <2>3, Zenon DEF SettledStays
    <2> QED
      BY <2>1, <2>4, Zenon
  <1>3. LeaderLast'
    BY Zenon DEF LeadersStay, MatchingInv, LeaderInv, LeaderLast
  <1>4. LeaderAhead'
    <2> SUFFICES ASSUME NEW l \in Node, vstate'[l] = "leader",
                        NEW S \in Segments', NEW o \in DOMAIN S, S[o] = term'[l]
                 PROVE  o <= Len(log'[l])
      BY Zenon DEF LeaderAhead
    <2>1. vstate[l] = "leader" /\ term'[l] = term[l] /\ log'[l] = log[l]
      BY Zenon DEF LeadersStay
    <2>2. PICK R \in Segments : o \in DOMAIN R /\ R[o] = S[o]
      BY <1>1, Zenon
    <2> QED
      BY <2>1, <2>2, Zenon DEF MatchingInv, LeaderInv, LeaderAhead
  <1>5. LeaderAlone'
    BY Zenon DEF LeadersStay, MatchingInv, LeaderInv, LeaderAlone
  <1> QED
    BY <1>2, <1>3, <1>4, <1>5, Zenon DEF MatchingInv, LeaderInv

\* A step that makes only pieces of the segments there are keeps the invariant.
LEMMA PiecesStep ==
    ASSUME TypeOK, MatchingInv, VoteInv', SettledStays, LeadersStay,
           \A S \in Segments' : \E R \in Segments : Within(S, R)
    PROVE  MatchingInv'
  <1>1. AllAgree(Segments)
    BY Zenon DEF MatchingInv
  <1>2. AllAgree(Segments') /\ \A S \in Segments' : Covered(S, Segments)
    BY <1>1, PiecesAgree, Zenon
  <1> QED
    BY <1>2, CoveredStep, Zenon

\* A segment is a piece of itself.
LEMMA WithinItself ==
    ASSUME NEW S
    PROVE  Within(S, S)
  BY Zenon DEF Within

\* A request of which the sender gives up is still the same piece.
LEMMA ClosedSegment ==
    ASSUME NEW m \in Request
    PROVE  RequestSegment([m EXCEPT !.open = FALSE]) = RequestSegment(m)
  <1> DEFINE q == [m EXCEPT !.open = FALSE]
  <1>1. q.prev = m.prev /\ q.prevTerm = m.prevTerm /\ q.entries = m.entries
    BY Zenon DEF Request
  <1> HIDE DEF q
  <1>2. RequestSegment(q) = RequestSegment(m)
    BY <1>1, Zenon DEF RequestSegment
  <1> QED
    BY <1>2, Zenon DEF q

\* The segments of a step that leaves the logs alone and sends requests with
\* pieces of the segments there are.
LEMMA SamePieces ==
    ASSUME log' = log,
           \A m \in Requests' : \E R \in Segments : Within(RequestSegment(m), R)
    PROVE  \A S \in Segments' : \E R \in Segments : Within(S, R)
  <1> SUFFICES ASSUME NEW S \in Segments'
               PROVE  \E R \in Segments : Within(S, R)
    BY Zenon
  <1>1. \/ \E n \in Node : S = LogSegment(log[n])
        \/ \E m \in Requests' : S = RequestSegment(m)
    BY Zenon DEF Segments
  <1>2. CASE \E n \in Node : S = LogSegment(log[n])
    BY <1>2, WithinItself, Zenon DEF Segments
  <1>3. CASE \E m \in Requests' : S = RequestSegment(m)
    BY <1>3, Zenon
  <1> QED
    BY <1>1, <1>2, <1>3, Zenon

\* The same for a step that sends no request.
LEMMA NothingSent ==
    ASSUME log' = log, Requests' \subseteq Requests
    PROVE  \A S \in Segments' : \E R \in Segments : Within(S, R)
  <1>1. \A m \in Requests' : \E R \in Segments : Within(RequestSegment(m), R)
    BY WithinItself, Zenon DEF Segments
  <1> QED
    BY <1>1, SamePieces, Zenon

---------------------------------------------------------------------------
\* The append entries handler.

\* A node that handled a request stays as it is or follows.
FollowsFrom(s, t) ==
    \/ /\ t.term = s.term /\ t.votedFor = s.votedFor /\ t.vstate = s.vstate
       /\ t.log = s.log
    \/ /\ t.vstate = "follower" /\ t.term >= s.term
       /\ t.term = s.term => t.votedFor = s.votedFor

\* The entries of a concatenation.
LEMMA ConcatFacts ==
    ASSUME NEW a \in Seq(Nat), NEW b \in Seq(Nat)
    PROVE  /\ a \o b \in Seq(Nat) /\ Len(a \o b) = Len(a) + Len(b)
           /\ \A o \in 1..Len(a) : (a \o b)[o] = a[o]
           /\ \A o \in Len(a) + 1..Len(a) + Len(b) : (a \o b)[o] = b[o - Len(a)]
  <1>1. a \o b \in Seq(Nat)
    OBVIOUS
  <1>2. Len(a \o b) = Len(a) + Len(b)
    OBVIOUS
  <1>3. \A o \in 1..Len(a) : (a \o b)[o] = a[o]
    OBVIOUS
  <1>4. \A o \in Len(a) + 1..Len(a) + Len(b) : (a \o b)[o] = b[o - Len(a)]
    OBVIOUS
  <1> QED
    BY <1>1, <1>2, <1>3, <1>4, Zenon

\* do_append_entries makes the node follow and splices the segment of its log
\* with that of the request.
LEMMA AppendSplices ==
    ASSUME NEW s \in NodeStates, NEW m \in Request,
           NEW X, AllAgree(X), \A S \in X : IsSegment(S),
           LogSegment(s.log) \in X, RequestSegment(m) \in X
    PROVE  LET t == DoAppendEntries(s, m)
           IN  /\ FollowsFrom(s, t)
               /\ AllAgree(X \cup {LogSegment(t.log)})
               /\ Covered(LogSegment(t.log), X)
  <1> DEFINE t == DoAppendEntries(s, m)
  <1>1. /\ s.term \in Nat /\ s.log \in Seq(Nat)
        /\ m.term \in Nat /\ m.prev \in Nat /\ m.prevTerm \in Nat
        /\ m.entries \in Seq(Nat)
    BY RequestFields, Zenon DEF NodeStates
  <1>2. ASSUME t.log = s.log
        PROVE  /\ AllAgree(X \cup {LogSegment(t.log)})
               /\ Covered(LogSegment(t.log), X)
    <2>1. X \cup {LogSegment(t.log)} = X
      BY <1>2, Zenon
    <2>2. Covered(LogSegment(t.log), X)
      BY <1>2, Zenon DEF Covered
    <2> QED
      BY <2>1, <2>2, Zenon
  <1>3. CASE m.term < s.term
    <2>1. t = s
      BY <1>3, Zenon DEF DoAppendEntries
    <2> QED
      BY <1>2, <2>1, Zenon DEF FollowsFrom
  <1>4. /\ Followed(s, m).term = m.term /\ Followed(s, m).vstate = "follower"
        /\ Followed(s, m).votedFor = IF m.term > s.term THEN Nil ELSE s.votedFor
        /\ Followed(s, m).log = s.log
    BY Zenon DEF Followed, NodeStates
  <1>5. CASE ~(m.term < s.term) /\ (Rejected(s, m) \/ StaleRequest(s, m))
    <2>1. t = Followed(s, m)
      BY <1>5, Zenon DEF DoAppendEntries
    <2>2. FollowsFrom(s, t)
      BY <1>1, <1>4, <1>5, <2>1, SMTT(30) DEF FollowsFrom
    <2> QED
      BY <1>2, <1>4, <2>1, <2>2, Zenon
  <1>6. CASE ~(m.term < s.term) /\ ~Rejected(s, m) /\ ~StaleRequest(s, m)
    <2>1. t = Accepted(s, m)
      BY <1>6, Zenon DEF DoAppendEntries
    <2>2. m.prev <= Len(s.log) /\ (m.prev > 0 => s.log[m.prev] = m.prevTerm)
      BY <1>6, Zenon DEF Rejected, LogMatches
    <2>3. t.log = SubSeq(s.log, 1, m.prev) \o m.entries
      BY <2>1, <2>2, AcceptedFields, ZenonT(40)
    <2>4. FollowsFrom(s, t)
      <3>1. /\ t.term = m.term /\ t.vstate = "follower"
            /\ t.votedFor = Followed(s, m).votedFor
        <4>1. Followed(s, m) \in NodeStates
          BY FollowedType, Zenon
        <4> QED
          BY <1>4, <2>1, <4>1, Zenon DEF Accepted, NodeStates
      <3> QED
        BY <1>1, <1>4, <1>6, <3>1, SMTT(20) DEF FollowsFrom
    <2> HIDE DEF t
    <2> DEFINE N == LogSegment(t.log)
               A == LogSegment(s.log)
               B == RequestSegment(m)
               end == m.prev + Len(m.entries)
    <2>5. /\ Len(s.log) \in Nat /\ Len(m.entries) \in Nat /\ end \in Nat
          /\ m.prev <= end
      BY <1>1, SMTT(30)
    <2>6. /\ t.log \in Seq(Nat) /\ Len(t.log) = end
          /\ \A o \in 1..m.prev : t.log[o] = s.log[o]
          /\ \A o \in m.prev + 1..end : t.log[o] = m.entries[o - m.prev]
      <3> DEFINE kept == SubSeq(s.log, 1, m.prev)
      <3>1. kept \in Seq(Nat)
        BY <1>1, <2>2, SubSeqType, SMTT(20)
      <3>2. Len(kept) = m.prev /\ \A o \in 1..m.prev : kept[o] = s.log[o]
        BY <1>1, <2>2, <2>5
      <3>3. t.log = kept \o m.entries
        BY <2>3, Zenon
      <3> HIDE DEF kept
      <3>4. /\ t.log \in Seq(Nat) /\ Len(t.log) = end
            /\ \A o \in 1..m.prev : t.log[o] = kept[o]
            /\ \A o \in m.prev + 1..end : t.log[o] = m.entries[o - m.prev]
        <4> DEFINE lg == kept \o m.entries
        <4>1. /\ lg \in Seq(Nat) /\ Len(lg) = Len(kept) + Len(m.entries)
              /\ \A o \in 1..Len(kept) : lg[o] = kept[o]
              /\ \A o \in Len(kept) + 1..Len(kept) + Len(m.entries) :
                    lg[o] = m.entries[o - Len(kept)]
          BY <1>1, <3>1, ConcatFacts, Zenon
        <4>2. t.log = lg
          BY <3>3, Zenon
        <4> HIDE DEF lg
        <4> QED
          BY <3>2, <4>1, <4>2, Zenon
      <3> QED
        BY <3>2, <3>4, Zenon
    <2>7. /\ DOMAIN N = 0..end /\ N[0] = 0
          /\ \A o \in 1..end : N[o] = t.log[o]
      BY <2>6, LogSegmentFacts, Zenon
    <2>8. /\ DOMAIN A = 0..Len(s.log) /\ A[0] = 0
          /\ \A o \in 1..Len(s.log) : A[o] = s.log[o]
      BY <1>1, LogSegmentFacts, Zenon
    <2>9. /\ DOMAIN B = m.prev..end
          /\ B[m.prev] = IF m.prev = 0 THEN 0 ELSE m.prevTerm
          /\ \A o \in m.prev + 1..end : B[o] = m.entries[o - m.prev]
      BY RequestSegmentFacts, Zenon
    <2> HIDE DEF N, A, B, end
    <2>10. \A o \in 0..m.prev : N[o] = A[o]
      <3> SUFFICES ASSUME NEW o \in 0..m.prev PROVE N[o] = A[o]
        BY Zenon
      <3>1. CASE o = 0
        BY <2>7, <2>8, <3>1, Zenon
      <3>2. CASE o # 0
        <4>1. o \in 1..m.prev /\ o \in 1..end /\ o \in 1..Len(s.log)
          BY <1>1, <2>2, <2>5, <3>2, SMTT(30)
        <4> QED
          BY <2>6, <2>7, <2>8, <4>1, ZenonT(40)
      <3> QED
        BY <3>1, <3>2, Zenon
    <2>11. A[m.prev] = B[m.prev]
      <3>1. m.prev > 0 => m.prev \in 1..Len(s.log)
        BY <1>1, <2>2, <2>5, SMTT(30)
      <3> QED
        BY <1>1, <2>2, <2>8, <2>9, <3>1, SMTT(30)
    <2>12. \A o \in m.prev..end : N[o] = B[o]
      <3> SUFFICES ASSUME NEW o \in m.prev..end PROVE N[o] = B[o]
        BY Zenon
      <3>1. CASE o = m.prev
        BY <1>1, <2>10, <2>11, <3>1, SMTT(30)
      <3>2. CASE o # m.prev
        <4>1. o \in m.prev + 1..end /\ o \in 1..end
          BY <1>1, <2>5, <3>2, SMTT(30)
        <4> QED
          BY <2>6, <2>7, <2>9, <4>1, Zenon
      <3> QED
        BY <3>1, <3>2, Zenon
    <2>13. 0..m.prev \subseteq DOMAIN A
      BY <1>1, <2>2, <2>5, <2>8, SMTT(30)
    <2>14. A \in X /\ B \in X
      BY Zenon DEF A, B
    <2>15. AllAgree(X \cup {N}) /\ Covered(N, X)
      BY <1>1, <2>5, <2>7, <2>9, <2>10, <2>11, <2>12, <2>13, <2>14, SpliceAgrees, Zenon
    <2> QED
      BY <2>4, <2>15, Zenon DEF N, t
  <1> QED
    BY <1>3, <1>5, <1>6, Zenon

\* Following twice is following.
LEMMA FollowsTwice ==
    ASSUME NEW r \in NodeStates, NEW s \in NodeStates, NEW t \in NodeStates,
           FollowsFrom(r, s), FollowsFrom(s, t)
    PROVE  FollowsFrom(r, t)
  <1>1. r.term \in Nat /\ s.term \in Nat /\ t.term \in Nat
    BY Zenon DEF NodeStates
  <1> QED
    BY <1>1 DEF FollowsFrom

\* A batch of requests does the same, one request after the other.
LEMMA BatchSplices ==
    ASSUME TypeOK, AllAgree(Segments), NEW f \in Node, NEW batch \in Batches(f),
           AppendEntries(f, batch)
    PROVE  \E t \in NodeStates :
              /\ FollowsFrom(NodeState(f), t)
              /\ AllAgree(Segments \cup {LogSegment(t.log)})
              /\ Covered(LogSegment(t.log), Segments)
              /\ term' = [term EXCEPT ![f] = t.term]
              /\ votedFor' = [votedFor EXCEPT ![f] = t.votedFor]
              /\ vstate' = [vstate EXCEPT ![f] = t.vstate]
              /\ votes' = votes \/ votes' = [votes EXCEPT ![f] = {}]
              /\ kv' = kv
              /\ log' = [log EXCEPT ![f] = t.log]
  <1> DEFINE Fold(s, i) == IF i > Len(batch) THEN s
                                             ELSE DoAppendEntries(s, batch[i])
             before == NodeState(f)
             middle == Fold(before, 1)
             after == Fold(middle, 2)
             Middle == Segments \cup {LogSegment(middle.log)}
  <1>1. /\ term' = [term EXCEPT ![f] = after.term]
        /\ votedFor' = [votedFor EXCEPT ![f] = after.votedFor]
        /\ vstate' = [vstate EXCEPT ![f] = after.vstate]
        /\ votes' = IF after.stepped THEN [votes EXCEPT ![f] = {}] ELSE votes
        /\ log' = [log EXCEPT ![f] = after.log]
        /\ kv' = kv
    BY Zenon DEF AppendEntries
  <1>2. before \in NodeStates
    BY NodeStateType, Zenon
  <1>3. before.log = log[f]
    BY Zenon DEF NodeState
  <1>4. \/ Len(batch) = 1 /\ batch[1] \in Requests
        \/ Len(batch) = 2 /\ batch[1] \in Requests /\ batch[2] \in Requests
    <2>1. \/ \E m \in Requests : batch = <<m>>
          \/ \E m, q \in Requests : batch = <<m, q>>
      BY Zenon DEF Batches
    <2> QED
      BY <2>1
  <1>5. \A m \in Requests : m \in Request
    BY RpcKinds, Zenon DEF Requests
  <1> HIDE DEF before
  <1>6. middle = DoAppendEntries(before, batch[1])
    BY <1>4, SMTT(30)
  <1>7. after = middle \/ (Len(batch) = 2 /\ after = DoAppendEntries(middle, batch[2]))
    BY <1>4
  <1> HIDE DEF middle
  <1>8. middle \in NodeStates
    BY <1>2, <1>4, <1>5, <1>6, AppendType, ZenonT(40)
  <1>9. after \in NodeStates
    BY <1>4, <1>5, <1>7, <1>8, AppendType, ZenonT(40)
  <1>10. /\ \A S \in Segments : IsSegment(S)
         /\ LogSegment(before.log) \in Segments
         /\ \A m \in Requests : RequestSegment(m) \in Segments
    BY <1>3, SegmentTypes, Zenon DEF Segments
  <1>11. /\ FollowsFrom(before, middle) /\ AllAgree(Middle)
         /\ Covered(LogSegment(middle.log), Segments)
    BY <1>2, <1>4, <1>5, <1>6, <1>10, AppendSplices, Zenon
  <1> HIDE DEF after
  <1>12. CASE after = middle
    BY <1>1, <1>9, <1>11, <1>12, Zenon DEF before
  <1>13. CASE Len(batch) = 2 /\ after = DoAppendEntries(middle, batch[2])
    <2>1. /\ \A S \in Middle : IsSegment(S)
          /\ LogSegment(middle.log) \in Middle /\ RequestSegment(batch[2]) \in Middle
      <3>1. IsSegment(LogSegment(middle.log))
        BY <1>8, LogSegmentFacts, Zenon DEF NodeStates
      <3> QED
        BY <1>4, <1>10, <1>13, <3>1, Zenon
    <2>2. batch[2] \in Request
      BY <1>4, <1>5, <1>13, Zenon
    <2> HIDE DEF Middle
    <2>3. /\ FollowsFrom(middle, after)
          /\ AllAgree(Middle \cup {LogSegment(after.log)})
          /\ Covered(LogSegment(after.log), Middle)
      BY <1>8, <1>11, <1>13, <2>1, <2>2, AppendSplices, ZenonT(40)
    <2>4. FollowsFrom(before, after)
      BY <1>2, <1>8, <1>9, <1>11, <2>3, FollowsTwice, ZenonT(40)
    <2>5. AllAgree(Segments \cup {LogSegment(after.log)})
      BY <2>3, Zenon DEF AllAgree, Middle
    <2>6. Covered(LogSegment(after.log), Segments)
      BY <1>11, <2>3, Zenon DEF Covered, Middle
    <2> QED
      BY <1>1, <1>9, <2>4, <2>5, <2>6, ZenonT(40) DEF before
  <1> QED
    BY <1>7, <1>12, <1>13, Zenon

\* AppendEntries keeps the invariant.
LEMMA BatchMatches ==
    ASSUME TypeOK, MatchingInv, NEW f \in Node, NEW batch \in Batches(f),
           AppendEntries(f, batch), Requests' \subseteq Requests
    PROVE  MatchingInv'
  <1>1. PICK t \in NodeStates :
              /\ FollowsFrom(NodeState(f), t)
              /\ AllAgree(Segments \cup {LogSegment(t.log)})
              /\ Covered(LogSegment(t.log), Segments)
              /\ term' = [term EXCEPT ![f] = t.term]
              /\ votedFor' = [votedFor EXCEPT ![f] = t.votedFor]
              /\ vstate' = [vstate EXCEPT ![f] = t.vstate]
              /\ votes' = votes \/ votes' = [votes EXCEPT ![f] = {}]
              /\ kv' = kv
              /\ log' = [log EXCEPT ![f] = t.log]
    BY BatchSplices, Zenon DEF MatchingInv
  <1>2. /\ t.term \in Nat /\ t.votedFor \in Node \cup {Nil}
        /\ t.vstate \in {"follower", "candidate", "leader"}
    BY Zenon DEF NodeStates
  <1>3. /\ term[f] \in Nat /\ kv[f].term \in Nat
        /\ term \in [Node -> Nat] /\ log \in [Node -> Seq(Nat)]
        /\ vstate \in [Node -> {"follower", "candidate", "leader"}]
    BY NodeFields, Zenon DEF TypeOK, Term
  <1>4. \/ /\ t.term = term[f] /\ t.votedFor = votedFor[f] /\ t.vstate = vstate[f]
           /\ t.log = log[f]
        \/ /\ t.vstate = "follower" /\ t.term >= term[f]
           /\ t.term = term[f] => t.votedFor = votedFor[f]
    BY <1>1, Zenon DEF FollowsFrom, NodeState
  <1>5. Follows(f)
    <2>1. kv[f].term <= term[f] /\ (kv[f].term = term[f] => votedFor[f] = kv[f].node)
      BY Zenon DEF MatchingInv, VoteInv, VoteKept
    <2>2. /\ t.term >= kv[f].term /\ (t.term = kv[f].term => t.votedFor = kv[f].node)
          /\ t.vstate = "follower" \/ (t.vstate = vstate[f] /\ t.term = term[f])
      BY <1>2, <1>3, <1>4, <2>1, SMTT(30)
    <2> QED
      BY <1>1, <1>2, <2>2, Zenon DEF Follows
  <1>6. VoteInv' /\ SettledStays
    BY <1>5, FollowsVotes, Zenon DEF MatchingInv
  <1>7. LeadersStay
    BY <1>1, <1>3, <1>4, Zenon DEF LeadersStay
  <1>8. Segments' \subseteq Segments \cup {LogSegment(t.log)}
    <2>1. \A n \in Node : log'[n] = log[n] \/ log'[n] = t.log
      BY <1>1, <1>3, Zenon
    <2> QED
      BY <2>1, Zenon DEF Segments
  <1>9. AllAgree(Segments')
    BY <1>1, <1>8, Zenon DEF AllAgree
  <1>10. \A S \in Segments' : Covered(S, Segments)
    BY <1>1, <1>8, Zenon DEF Covered
  <1> QED
    BY <1>6, <1>7, <1>9, <1>10, CoveredStep, Zenon

=============================================================================
