------------------------- MODULE RaftElectionProofs -------------------------
(***************************************************************************)
(* Election safety of RaftElection, for every set of voters, every bound     *)
(* and every pattern of crashes, lost replies and failed writes.            *)
(***************************************************************************)
EXTENDS RaftElection, FiniteSetTheorems, TLAPS

---------------------------------------------------------------------------
\* Majorities.

\* Two majorities of the voters have a voter in common.
LEMMA MajoritiesMeet ==
    ASSUME NEW P \in SUBSET Node, NEW Q \in SUBSET Node,
           IsMajority(P), IsMajority(Q)
    PROVE  P \cap Q # {}
  <1>1. /\ Cardinality(Node) \in Nat
        /\ Cardinality(P) \in Nat
        /\ Cardinality(Q) \in Nat
    BY FS_CardinalityType, FS_Subset, NodeAssumption, Zenon
  <1>2. Cardinality(P) + Cardinality(Q) > Cardinality(Node)
    BY <1>1 DEF IsMajority
  <1> QED  BY <1>2, FS_MajoritiesIntersect, NodeAssumption, Zenon

\* A set of voters that contains a majority is one.
LEMMA MajorityGrows ==
    ASSUME NEW P \in SUBSET Node, NEW Q \in SUBSET Node,
           P \subseteq Q, IsMajority(P)
    PROVE  IsMajority(Q)
  <1>1. IsFiniteSet(P) /\ IsFiniteSet(Q) /\ Cardinality(P) <= Cardinality(Q)
    BY FS_Subset, NodeAssumption, Zenon
  <1>2. /\ Cardinality(Node) \in Nat
        /\ Cardinality(P) \in Nat
        /\ Cardinality(Q) \in Nat
    BY <1>1, FS_CardinalityType, NodeAssumption, Zenon
  <1> QED  BY <1>1, <1>2 DEF IsMajority

---------------------------------------------------------------------------
\* Types.

\* The fields of a message of each type.
LEMMA MessageFields ==
    ASSUME TypeOK, NEW m \in msgs
    PROVE  /\ m.to \in Node
           /\ m.type = "vote" =>
                 /\ m.from \in Node /\ m.kind \in Kind /\ m.prevote \in BOOLEAN
                 /\ m.term \in Nat /\ m.last \in EntryId
           /\ m.type = "append" =>
                 m.from \in Node /\ m.term \in Nat /\ m.last \in EntryId
           /\ m.type = "timeout_now" => m.from \in Node /\ m.term \in Nat
           /\ m.type = "step_down" => m.term \in Nat
  BY Zenon DEF TypeOK, Message, Term

\* Replacing one round by a round keeps the table of rounds well typed.
LEMMA RoundUpdate ==
    ASSUME TypeOK, NEW n \in Node, NEW k \in Kind, NEW r \in Round
    PROVE  [round EXCEPT ![n][k] = r] \in [Node -> [Kind -> Round]]
  BY Zenon DEF TypeOK

\* The round of a node that has none is well typed.
LEMMA NoRoundType == NoRound \in Round
  BY Zenon DEF NoRound, Round, Stage, Term

\* A round of a node is well typed.
LEMMA RoundFields ==
    ASSUME TypeOK, NEW n \in Node, NEW k \in Kind
    PROVE  round[n][k] \in Round
  BY DEF TypeOK

\* A round whose result is known is well typed.
LEMMA DoneType ==
    ASSUME NEW r \in Round, NEW b \in BOOLEAN
    PROVE  [r EXCEPT !.stage = "update_lock", !.success = b] \in Round
  BY Zenon DEF Round, Stage

\* The fields of a node.
LEMMA NodeFields ==
    ASSUME TypeOK, NEW n \in Node
    PROVE  /\ term[n] \in Nat /\ votedFor[n] \in Node \cup {Nil}
           /\ log[n] \in EntryId /\ durable[n] \in EntryId
           /\ kv[n].term \in Nat /\ kv[n].node \in Node \cup {Nil}
  BY Zenon DEF TypeOK, Term

\* The fields of the identity of a log entry.
LEMMA EntryFields ==
    ASSUME NEW e \in EntryId
    PROVE  e.term \in Nat /\ e.offset \in Nat
  BY Zenon DEF EntryId

\* A vote record is written well typed.
LEMMA WriteType ==
    ASSUME TypeOK, NEW v \in Node, NEW c \in Node, NEW t \in Nat,
           WriteVotedFor(v, t, c)
    PROVE  /\ kv' \in [Node -> [term : Term, node : Node \cup {Nil}]]
           /\ votes' \subseteq Node \X Term \X Node
  <1>1. [term |-> t, node |-> c] \in [term : Term, node : Node \cup {Nil}]
    BY Zenon DEF Term
  <1>2. <<v, t, c>> \in Node \X Term \X Node
    BY Zenon DEF Term
  <1> QED  BY <1>1, <1>2, Zenon DEF WriteVotedFor, TypeOK

\* The next target priority is a priority, also after many lost rounds.
LEMMA TargetType ==
    ASSUME TypeOK, NEW n \in Node
    PROVE  NextTargetPriority(n) \in Nat \ {0}
  <1>1. Cardinality(Node) \in Nat \ {0}
    BY FS_CardinalityType, FS_EmptySet, NodeAssumption, Zenon
  <1>2. target[n] \in Nat
    BY Zenon DEF TypeOK
  <1>3. (target[n] \div Cardinality(Node)) \in Int
    BY <1>1, <1>2
  <1>4. (target[n] \div Cardinality(Node)) * (Cardinality(Node) - 1) \in Int
    BY <1>1, <1>3
  <1> QED  BY <1>4 DEF NextTargetPriority, AtLeast

\* The requests that a round sends are messages.
LEMMA RequestsType ==
    ASSUME TypeOK, NEW n \in Node, NEW k \in Kind, NEW b \in BOOLEAN, NEW t \in Nat
    PROVE  msgs \cup Requests(n, k, b, t) \subseteq Message
  BY DEF TypeOK, Requests, Message, Term

\* Asking for and getting the lock keep the queue a sequence of rounds.
LEMMA AwaitType ==
    ASSUME TypeOK, NEW n \in Node, NEW k \in Kind, Await(n, k)
    PROVE  lockq' \in [Node -> Seq(Kind)]
  BY DEF TypeOK, Await

\* The round at the head of the queue leaves it.
LEMMA AcquireType ==
    ASSUME TypeOK, NEW n \in Node, NEW k \in Kind, Acquire(n, k)
    PROVE  lockq' \in [Node -> Seq(Kind)]
  BY DEF TypeOK, Acquire

\* A new round is well typed, queued or not.
LEMMA DispatchVoteType ==
    ASSUME TypeOK, NEW n \in Node, NEW k \in Kind, DispatchVote(n, k)
    PROVE  /\ target' \in [Node -> Nat \ {0}]
           /\ round' \in [Node -> [Kind -> Round]]
           /\ lockq' \in [Node -> Seq(Kind)]
  <1> DEFINE r == [NoRound EXCEPT !.stage = IF k = "transfer" THEN "vote_lock"
                                                              ELSE "prevote_lock"]
  <1>1. r \in Round
    BY NoRoundType, Zenon DEF Round, Stage
  <1>2. [round EXCEPT ![n][k] = r] \in [Node -> [Kind -> Round]]
    BY <1>1, RoundUpdate, Zenon
  <1>3. Await(n, k) => lockq' \in [Node -> Seq(Kind)]
    BY AwaitType, Zenon
  <1>4. round' \in [Node -> [Kind -> Round]]
    BY <1>2, Zenon DEF DispatchVote, TypeOK
  <1>5. target' \in [Node -> Nat \ {0}]
    <2>1. \/ target' = target
          \/ target' = [target EXCEPT ![n] = NextTargetPriority(n)]
      BY Zenon DEF DispatchVote
    <2>2. target \in [Node -> Nat \ {0}]
      BY Zenon DEF TypeOK
    <2> QED  BY <2>1, <2>2, TargetType, Zenon
  <1>6. lockq' \in [Node -> Seq(Kind)]
    BY <1>3, Zenon DEF DispatchVote, TypeOK
  <1> QED  BY <1>4, <1>5, <1>6, Zenon

\* Recording a reply keeps the rounds and the messages well typed.
LEMMA ReplyType ==
    ASSUME TypeOK, NEW m \in msgs, m.type = "vote", NEW t \in Nat,
           NEW granted \in BOOLEAN, NEW logOk \in BOOLEAN,
           Reply(m, t, granted, logOk)
    PROVE  /\ round' \in [Node -> [Kind -> Round]]
           /\ msgs' \subseteq Message
  <1> DEFINE old == round[m.from][m.kind]
             yes == IF m.prevote THEN logOk ELSE granted
             new == [old EXCEPT !.ok = IF yes THEN @ \cup {m.to} ELSE @,
                                !.failed = IF yes THEN @ ELSE @ \cup {m.to},
                                !.seen = IF ~m.prevote /\ t > old.term
                                         THEN @ \cup {t} ELSE @]
  <1>1. m.from \in Node /\ m.to \in Node /\ m.kind \in Kind
    BY MessageFields, Zenon
  <1>2. old \in Round
    BY <1>1, RoundFields, Zenon
  <1>3. new \in Round
    BY <1>1, <1>2, Zenon DEF Round, Term
  <1>4. [round EXCEPT ![m.from][m.kind] = new] \in [Node -> [Kind -> Round]]
    BY <1>1, <1>3, RoundUpdate
  <1>5. round' = [round EXCEPT ![m.from][m.kind] = new] \/ round' = round
    BY Zenon DEF Reply
  <1> QED  BY <1>4, <1>5, Zenon DEF Reply, TypeOK

\* Every action keeps the state well typed.
LEMMA TypeStep == TypeOK /\ [Next]_vars => TypeOK'
  <1> SUFFICES ASSUME TypeOK, [Next]_vars PROVE TypeOK'
    BY Zenon
  <1> USE DEF disk, history, Term
  <1>1. ASSUME NEW n \in Node, NEW k \in Kind, Prevote(n, k) PROVE TypeOK'
    <2> DEFINE r == [NoRound EXCEPT !.stage = "prevote", !.term = term[n],
                                    !.ok = {n}]
    <2>1. r \in Round
      BY NoRoundType, Zenon DEF Round, Stage, TypeOK
    <2>2. round' \in [Node -> [Kind -> Round]]
      BY <1>1, <2>1, RoundUpdate, Zenon DEF Prevote
    <2>3. msgs' \subseteq Message
      BY <1>1, RequestsType, Zenon DEF Prevote, TypeOK
    <2>4. lockq' \in [Node -> Seq(Kind)]
      BY <1>1, AcquireType, Zenon DEF Prevote
    <2> QED  BY <1>1, <2>2, <2>3, <2>4, Zenon DEF Prevote, TypeOK
  <1>2. ASSUME NEW n \in Node, NEW k \in Kind, PrevoteDone(n, k) PROVE TypeOK'
    <2>1. [NoRound EXCEPT !.stage = "vote_lock"] \in Round
      BY NoRoundType, Zenon DEF Round, Stage
    <2>2. round' \in [Node -> [Kind -> Round]]
      BY <1>2, <2>1, RoundUpdate, NoRoundType, Zenon DEF PrevoteDone
    <2>3. lockq' \in [Node -> Seq(Kind)]
      BY <1>2, AwaitType, Zenon DEF PrevoteDone, TypeOK
    <2> QED  BY <1>2, <2>2, <2>3, Zenon DEF PrevoteDone, TypeOK
  <1>3. ASSUME NEW n \in Node, NEW k \in Kind, Vote(n, k) PROVE TypeOK'
    <2> DEFINE r == [NoRound EXCEPT !.stage = "vote", !.term = term[n] + 1,
                                    !.ok = {n}]
    <2>0. term[n] \in Nat /\ term[n] + 1 \in Nat
      BY NodeFields
    <2>1. r \in Round
      BY <2>0, NoRoundType, Zenon DEF Round, Stage
    <2>2. round' \in [Node -> [Kind -> Round]]
      <3>1. \/ round' = [round EXCEPT ![n][k] = r]
            \/ round' = [round EXCEPT ![n][k] = NoRound]
        BY <1>3, Zenon DEF Vote
      <3> QED  BY <3>1, <2>1, RoundUpdate, NoRoundType
    <2>3. msgs' \subseteq Message
      <3>1. msgs' = msgs \/ msgs' = msgs \cup Requests(n, k, FALSE, term[n] + 1)
        BY <1>3, Zenon DEF Vote
      <3> QED  BY <3>1, <2>0, RequestsType, Zenon DEF TypeOK
    <2>4. lockq' \in [Node -> Seq(Kind)]
      BY <1>3, AcquireType, Zenon DEF Vote
    <2>5. /\ kv' \in [Node -> [term : Term, node : Node \cup {Nil}]]
          /\ votes' \subseteq Node \X Term \X Node
      <3>1. WriteVotedFor(n, term[n] + 1, n) \/ UNCHANGED <<kv, votes>>
        BY <1>3, Zenon DEF Vote
      <3> QED  BY <3>1, <2>0, WriteType, Zenon DEF TypeOK
    <2>6. /\ term' \in [Node -> Nat] /\ votedFor' \in [Node -> Node \cup {Nil}]
          /\ vstate' \in [Node -> {"follower", "candidate", "leader"}]
          /\ leaderId' \in [Node -> Node \cup {Nil}]
      <3>1. /\ term' = term \/ term' = [term EXCEPT ![n] = term[n] + 1]
            /\ votedFor' = votedFor \/ votedFor' = [votedFor EXCEPT ![n] = n]
            /\ vstate' = vstate \/ vstate' = [vstate EXCEPT ![n] = "candidate"]
            /\ leaderId' = leaderId \/ leaderId' = [leaderId EXCEPT ![n] = Nil]
        BY <1>3, Zenon DEF Vote
      <3>2. /\ term \in [Node -> Nat] /\ votedFor \in [Node -> Node \cup {Nil}]
            /\ vstate \in [Node -> {"follower", "candidate", "leader"}]
            /\ leaderId \in [Node -> Node \cup {Nil}]
        BY Zenon DEF TypeOK
      <3>3. term' \in [Node -> Nat]
        BY <3>1, <3>2, <2>0, Zenon
      <3>4. votedFor' \in [Node -> Node \cup {Nil}]
        BY <3>1, <3>2
      <3>5. vstate' \in [Node -> {"follower", "candidate", "leader"}]
        BY <3>1, <3>2, Zenon
      <3>6. leaderId' \in [Node -> Node \cup {Nil}]
        BY <3>1, <3>2, Zenon
      <3> QED  BY <3>3, <3>4, <3>5, <3>6, Zenon
    <2> QED  BY <1>3, <2>2, <2>3, <2>4, <2>5, <2>6, Zenon DEF Vote, TypeOK
  <1>4. ASSUME NEW n \in Node, NEW k \in Kind, VoteDone(n, k) PROVE TypeOK'
    <2> DEFINE r == [round[n][k] EXCEPT !.stage = "update_lock",
                                        !.success = IsMajority(round[n][k].ok)]
    <2>1. r \in Round
      <3>1. IsMajority(round[n][k].ok) \in BOOLEAN
        BY DEF IsMajority
      <3> QED  BY <3>1, RoundFields, DoneType, Zenon
    <2>2. round' \in [Node -> [Kind -> Round]]
      BY <1>4, <2>1, RoundUpdate, Zenon DEF VoteDone
    <2>3. lockq' \in [Node -> Seq(Kind)]
      BY <1>4, AwaitType, Zenon DEF VoteDone
    <2> QED  BY <1>4, <2>2, <2>3, Zenon DEF VoteDone, TypeOK
  <1>5. ASSUME NEW n \in Node, NEW k \in Kind, UpdateVoteState(n, k)
        PROVE  TypeOK'
    <2>1. round' \in [Node -> [Kind -> Round]]
      BY <1>5, RoundUpdate, NoRoundType, Zenon DEF UpdateVoteState
    <2>2. lockq' \in [Node -> Seq(Kind)]
      BY <1>5, AcquireType, Zenon DEF UpdateVoteState
    <2>3. round[n][k].seen \subseteq Nat
      BY RoundFields, Zenon DEF Round
    <2>4. term' \in [Node -> Nat]
      BY <1>5, <2>3, SMTT(30) DEF UpdateVoteState, TypeOK
    <2>5. log' \in [Node -> EntryId] /\ elected' \subseteq Nat \X Node
      <3>1. [term |-> term[n], offset |-> log[n].offset + 1] \in EntryId
        BY NodeFields, EntryFields DEF EntryId
      <3>2. \/ UNCHANGED <<log, elected>>
            \/ /\ log' = [log EXCEPT ![n] =
                      [term |-> term[n], offset |-> log[n].offset + 1]]
               /\ elected' = elected \cup {<<term[n], n>>}
        BY <1>5, Zenon DEF UpdateVoteState
      <3>3. log' \in [Node -> EntryId]
        BY <3>1, <3>2, Zenon DEF TypeOK
      <3>4. elected' \subseteq Nat \X Node
        <4>1. <<term[n], n>> \in Nat \X Node
          BY NodeFields, Zenon
        <4>2. elected \subseteq Nat \X Node
          BY Zenon DEF TypeOK
        <4> QED  BY <3>2, <4>1, <4>2, Zenon
      <3> QED  BY <3>3, <3>4, Zenon
    <2>6. target' \in [Node -> Nat \ {0}]
      <3>1. target' = target \/ target' = [target EXCEPT ![n] = MaxPriority]
        BY <1>5, Zenon DEF UpdateVoteState
      <3> QED  BY <3>1, BoundAssumption, Zenon DEF TypeOK
    <2>7. /\ votedFor' \in [Node -> Node \cup {Nil}]
          /\ vstate' \in [Node -> {"follower", "candidate", "leader"}]
          /\ leaderId' \in [Node -> Node \cup {Nil}]
          /\ hbeat' \in [Node -> Hbeat]
      <3>1. /\ votedFor' = votedFor \/ votedFor' = [votedFor EXCEPT ![n] = Nil]
            /\ \/ vstate' = vstate
               \/ vstate' = [vstate EXCEPT ![n] = "follower"]
               \/ vstate' = [vstate EXCEPT ![n] = "leader"]
            /\ leaderId' = leaderId \/ leaderId' = [leaderId EXCEPT ![n] = n]
            /\ hbeat' = hbeat \/ hbeat' = [hbeat EXCEPT ![n] = "max"]
        BY <1>5, Zenon DEF UpdateVoteState
      <3>2. /\ votedFor \in [Node -> Node \cup {Nil}]
            /\ vstate \in [Node -> {"follower", "candidate", "leader"}]
            /\ leaderId \in [Node -> Node \cup {Nil}]
            /\ hbeat \in [Node -> Hbeat]
        BY Zenon DEF TypeOK
      <3>3. votedFor' \in [Node -> Node \cup {Nil}]
        BY <3>1, <3>2, Zenon
      <3>4. vstate' \in [Node -> {"follower", "candidate", "leader"}]
        BY <3>1, <3>2, Zenon
      <3>5. leaderId' \in [Node -> Node \cup {Nil}]
        BY <3>1, <3>2
      <3>6. hbeat' \in [Node -> Hbeat]
        BY <3>1, <3>2, Zenon DEF Hbeat
      <3> QED  BY <3>3, <3>4, <3>5, <3>6, Zenon
    <2> QED  BY <1>5, <2>1, <2>2, <2>4, <2>5, <2>6, <2>7, Zenon DEF UpdateVoteState, TypeOK
  <1>6. ASSUME NEW n \in Node, NEW k \in Kind, NEW v \in Node, VoteRpcFails(n, k, v)
        PROVE  TypeOK'
    <2>1. [round[n][k] EXCEPT !.failed = @ \cup {v}] \in Round
      BY RoundFields DEF Round
    <2>2. round' \in [Node -> [Kind -> Round]]
      <3>1. round' = [round EXCEPT ![n][k] =
                         [round[n][k] EXCEPT !.failed = @ \cup {v}]]
        BY <1>6, Zenon DEF VoteRpcFails
      <3> QED  BY <3>1, <2>1, RoundUpdate, Zenon
    <2> QED  BY <1>6, <2>2, Zenon DEF VoteRpcFails, TypeOK
  <1>7. ASSUME NEW m \in msgs, RefuseVote(m) PROVE TypeOK'
    <2>1. m.to \in Node /\ m.type = "vote" /\ term[m.to] \in Nat
      BY <1>7, MessageFields, Zenon DEF RefuseVote, TypeOK
    <2>2. LogOk(m.last, log[m.to]) \in BOOLEAN
      BY Zenon DEF LogOk
    <2>3. round' \in [Node -> [Kind -> Round]] /\ msgs' \subseteq Message
      BY <1>7, <2>1, <2>2, ReplyType, Zenon DEF RefuseVote
    <2> QED  BY <1>7, <2>3, Zenon DEF RefuseVote, TypeOK
  <1>8. ASSUME NEW m \in msgs, DecideVote(m) PROVE TypeOK'
    <2>1. /\ m.to \in Node /\ m.from \in Node /\ m.term \in Nat
          /\ m.type = "vote"
      BY <1>8, MessageFields, Zenon DEF DecideVote
    <2>2. (m.from = votedFor[m.to]) \in BOOLEAN
      BY Zenon
    <2>3. round' \in [Node -> [Kind -> Round]] /\ msgs' \subseteq Message
      BY <1>8, <2>1, <2>2, ReplyType, Zenon DEF DecideVote
    <2>4. /\ kv' \in [Node -> [term : Term, node : Node \cup {Nil}]]
          /\ votes' \subseteq Node \X Term \X Node
      <3>1. WriteVotedFor(m.to, m.term, m.from) \/ UNCHANGED <<kv, votes>>
        BY <1>8, Zenon DEF DecideVote
      <3> QED  BY <3>1, <2>1, WriteType, Zenon DEF TypeOK
    <2>5. /\ term' \in [Node -> Nat]
          /\ votedFor' \in [Node -> Node \cup {Nil}]
          /\ vstate' \in [Node -> {"follower", "candidate", "leader"}]
          /\ leaderId' \in [Node -> Node \cup {Nil}]
          /\ hbeat' \in [Node -> Hbeat]
      BY <1>8, <2>1, Zenon DEF DecideVote, TypeOK, Hbeat
    <2> QED  BY <1>8, <2>3, <2>4, <2>5, Zenon DEF DecideVote, TypeOK
  <1>9. ASSUME NEW m \in msgs, AppendEntries(m) PROVE TypeOK'
    <2>1. /\ m.to \in Node /\ m.from \in Node /\ m.term \in Nat
          /\ m.last \in EntryId
      BY <1>9, MessageFields, Zenon DEF AppendEntries
    <2>2. msgs' \subseteq Message
      <3>1. msgs' \subseteq msgs \cup LargerTermSeen(m.from, term[m.to])
        BY <1>9, Zenon DEF AppendEntries
      <3>2. LargerTermSeen(m.from, term[m.to]) \subseteq Message
        BY <2>1, NodeFields DEF LargerTermSeen, Message
      <3> QED  BY <3>1, <3>2, Zenon DEF TypeOK
    <2>3. log' \in [Node -> EntryId] /\ durable' \in [Node -> EntryId]
      <3>1. /\ log' = log \/ log' = [log EXCEPT ![m.to] = m.last]
            /\ \/ durable' = durable
               \/ durable' = [durable EXCEPT ![m.to] =
                     IF @.offset >= m.last.offset THEN m.last ELSE @]
        BY <1>9, Zenon DEF AppendEntries
      <3> QED  BY <3>1, <2>1, Zenon DEF TypeOK
    <2>4. /\ term' \in [Node -> Nat]
          /\ votedFor' \in [Node -> Node \cup {Nil}]
          /\ vstate' \in [Node -> {"follower", "candidate", "leader"}]
          /\ leaderId' \in [Node -> Node \cup {Nil}]
          /\ hbeat' \in [Node -> Hbeat]
          /\ target' \in [Node -> Nat \ {0}]
      <3>1. CASE m.term < term[m.to]
        <4>1. UNCHANGED <<term, votedFor, vstate, leaderId, hbeat, target>>
          BY <1>9, <2>1, <3>1, NodeFields DEF AppendEntries
        <4> QED  BY <4>1, Zenon DEF TypeOK
      <3>2. CASE m.term >= term[m.to]
        <4>1. /\ term' = [term EXCEPT ![m.to] = m.term]
              /\ votedFor' = [votedFor EXCEPT ![m.to] =
                                IF m.term > term[m.to] THEN Nil ELSE @]
              /\ vstate' = [vstate EXCEPT ![m.to] = "follower"]
              /\ leaderId' = [leaderId EXCEPT ![m.to] = m.from]
              /\ hbeat' = [hbeat EXCEPT ![m.to] = "recent"]
              /\ target' = [target EXCEPT ![m.to] = MaxPriority]
          BY <1>9, <2>1, <3>2, NodeFields DEF AppendEntries
        <4> QED  BY <4>1, <2>1, BoundAssumption, Zenon DEF TypeOK, Hbeat
      <3> QED  BY <3>1, <3>2, <2>1, NodeFields
    <2> QED  BY <1>9, <2>2, <2>3, <2>4, Zenon DEF AppendEntries, TypeOK
  <1>10. ASSUME NEW m \in msgs, StepDownToTerm(m) PROVE TypeOK'
    <2>1. m.to \in Node /\ m.term \in Nat
      BY <1>10, MessageFields, Zenon DEF StepDownToTerm
    <2> QED  BY <1>10, <2>1, ZenonT(40) DEF StepDownToTerm, AdoptTerm, TypeOK, Hbeat
  <1>11. ASSUME NEW m \in msgs, TimeoutNow(m) PROVE TypeOK'
    <2>1. m.to \in Node /\ m.from \in Node /\ m.term \in Nat
      BY <1>11, MessageFields, Zenon DEF TimeoutNow
    <2>2. /\ target' \in [Node -> Nat \ {0}]
          /\ round' \in [Node -> [Kind -> Round]]
          /\ lockq' \in [Node -> Seq(Kind)]
      BY <1>11, <2>1, DispatchVoteType, Zenon DEF TimeoutNow, TypeOK, Kind
    <2>3. msgs' \subseteq Message
      <3>1. \A x \in msgs' :
                \/ x \in msgs
                \/ x = [type |-> "timeout_now_reply", from |-> m.to, to |-> m.from]
                \/ x = [type |-> "step_down", to |-> m.to, term |-> m.term]
        BY <1>11, Zenon DEF TimeoutNow
      <3>2. /\ [type |-> "timeout_now_reply", from |-> m.to, to |-> m.from]
                  \in Message
            /\ [type |-> "step_down", to |-> m.to, term |-> m.term] \in Message
        BY <2>1, Zenon DEF Message
      <3> QED  BY <3>1, <3>2, Zenon DEF TypeOK
    <2> QED  BY <1>11, <2>2, <2>3, Zenon DEF TimeoutNow, TypeOK
  <1>12. ASSUME NEW m \in msgs, TimeoutNowReply(m) PROVE TypeOK'
    BY <1>12, MessageFields, Zenon DEF TimeoutNowReply, DoStepDown, TypeOK, Hbeat
  <1>13. ASSUME NEW n \in Node, VoteTimeout(n) PROVE TypeOK'
    BY <1>13, DispatchVoteType, Zenon DEF VoteTimeout, TypeOK, Kind
  <1>14. ASSUME NEW n \in Node, Restart(n) PROVE TypeOK'
    <2>1. round' \in [Node -> [Kind -> Round]]
      BY <1>14, NoRoundType, Zenon DEF Restart, TypeOK
    <2>2. /\ term' \in [Node -> Nat]
          /\ votedFor' \in [Node -> Node \cup {Nil}]
          /\ log' \in [Node -> EntryId]
      BY <1>14, Zenon DEF Restart, TypeOK, EntryId
    <2>3. lockq' \in [Node -> Seq(Kind)]
      BY <1>14 DEF Restart, TypeOK
    <2>4. /\ vstate' \in [Node -> {"follower", "candidate", "leader"}]
          /\ leaderId' \in [Node -> Node \cup {Nil}]
          /\ hbeat' \in [Node -> Hbeat]
          /\ target' \in [Node -> Nat \ {0}]
      BY <1>14, BoundAssumption, Zenon DEF Restart, TypeOK, Hbeat
    <2>5. blocked' \subseteq Node /\ msgs' \subseteq Message /\ crashes' \in Nat
      BY <1>14 DEF Restart, TypeOK
    <2> QED  BY <1>14, <2>1, <2>2, <2>3, <2>4, <2>5, Zenon DEF Restart, TypeOK
  <1>15. ASSUME NEW n \in Node, NEW f \in Node, SendAppend(n, f) PROVE TypeOK'
    <2>1. [type |-> "append", from |-> n, to |-> f, term |-> term[n],
           last |-> log[n]] \in Message
      BY NodeFields, Zenon DEF Message
    <2> QED  BY <1>15, <2>1, Zenon DEF SendAppend, TypeOK
  <1>16. ASSUME NEW n \in Node, NEW f \in Node, TransferLeadership(n, f)
         PROVE  TypeOK'
    <2>1. [type |-> "timeout_now", from |-> n, to |-> f, term |-> term[n]]
             \in Message
      BY NodeFields, Zenon DEF Message
    <2> QED  BY <1>16, <2>1, Zenon DEF TransferLeadership, TypeOK
  <1>17. ASSUME NEW n \in Node, MaybeStepDown(n) \/ HbeatExpires(n) \/ FlushLog(n)
         PROVE  TypeOK'
    BY <1>17, Zenon DEF MaybeStepDown, DoStepDown, HbeatExpires, FlushLog, TypeOK, Hbeat
  <1>18. ASSUME NEW n \in Node, BlockNewLeadership(n) \/ UnblockNewLeadership(n)
         PROVE  TypeOK'
    BY <1>18, SubsetAssumption, Zenon DEF BlockNewLeadership, UnblockNewLeadership, TypeOK
  <1>19. CASE UNCHANGED vars
    BY <1>19, Zenon DEF vars, TypeOK
  <1> QED
    BY <1>1, <1>2, <1>3, <1>4, <1>5, <1>6, <1>7, <1>8, <1>9, <1>10, <1>11, <1>12,
       <1>13, <1>14, <1>15, <1>16, <1>17, <1>18, <1>19, Zenon
       DEF Next, RoundStep, Receive, NodeStep

---------------------------------------------------------------------------
\* Votes. A step treats the vote of a node in one of five ways.

VoteInv == RecordIsLastVote /\ MemoryIsPersisted /\ OneVotePerTerm

\* The vote and the term stay as they are.
LEMMA VoteUntouched ==
    ASSUME VoteInv, UNCHANGED <<term, votedFor, kv, votes>>
    PROVE  VoteInv'
  BY Zenon DEF VoteInv, RecordIsLastVote, MemoryIsPersisted, OneVotePerTerm

\* A later term is adopted: the vote is free again.
LEMMA VoteForgotten ==
    ASSUME TypeOK, VoteInv, NEW n \in Node, NEW t \in Nat, t > term[n],
           term' = [term EXCEPT ![n] = t],
           votedFor' = [votedFor EXCEPT ![n] = Nil],
           UNCHANGED <<kv, votes>>
    PROVE  VoteInv'
  <1>1. /\ term \in [Node -> Nat] /\ votedFor \in [Node -> Node \cup {Nil}]
        /\ \A i \in Node : kv[i].term \in Nat
    BY NodeFields, Zenon DEF TypeOK, Term
  <1>2. RecordIsLastVote'
    <2>1. \A i \in Node : i # n => term'[i] = term[i] /\ votedFor'[i] = votedFor[i]
      BY <1>1, Zenon
    <2>2. term'[n] = t /\ kv[n].term < t
      <3>1. kv[n].term <= term[n]
        BY Zenon DEF VoteInv, RecordIsLastVote
      <3> QED  BY <1>1, <3>1
    <2> QED  BY <1>1, <2>1, <2>2 DEF VoteInv, RecordIsLastVote
  <1>3. MemoryIsPersisted'
    BY <1>1, Zenon DEF VoteInv, MemoryIsPersisted
  <1> QED  BY <1>2, <1>3, Zenon DEF VoteInv, OneVotePerTerm

\* A node moves to a later term with a vote for itself that was not written.
LEMMA VoteNotKept ==
    ASSUME TypeOK, VoteInv, NEW n \in Node, NEW t \in Nat, t > term[n],
           term' = [term EXCEPT ![n] = t],
           votedFor' = [votedFor EXCEPT ![n] = n],
           UNCHANGED <<kv, votes>>
    PROVE  VoteInv'
  <1>1. /\ term \in [Node -> Nat] /\ votedFor \in [Node -> Node \cup {Nil}]
        /\ \A i \in Node : kv[i].term \in Nat
    BY NodeFields, Zenon DEF TypeOK, Term
  <1>2. RecordIsLastVote'
    <2>1. \A i \in Node : i # n => term'[i] = term[i] /\ votedFor'[i] = votedFor[i]
      BY <1>1, Zenon
    <2>2. term'[n] = t /\ kv[n].term < t
      <3>1. kv[n].term <= term[n]
        BY Zenon DEF VoteInv, RecordIsLastVote
      <3> QED  BY <1>1, <3>1
    <2> QED  BY <1>1, <2>1, <2>2 DEF VoteInv, RecordIsLastVote
  <1>3. MemoryIsPersisted'
    BY <1>1, Zenon DEF VoteInv, MemoryIsPersisted
  <1> QED  BY <1>2, <1>3, Zenon DEF VoteInv, OneVotePerTerm

\* A free vote is written: every vote persisted so far is of an earlier term.
LEMMA VoteWritten ==
    ASSUME TypeOK, VoteInv, NEW n \in Node, NEW c \in Node, NEW t \in Nat,
           t > term[n] \/ (t = term[n] /\ votedFor[n] = Nil),
           term' = [term EXCEPT ![n] = t],
           votedFor' = [votedFor EXCEPT ![n] = c],
           WriteVotedFor(n, t, c)
    PROVE  VoteInv'
  <1>1. /\ term \in [Node -> Nat] /\ votedFor \in [Node -> Node \cup {Nil}]
        /\ votes \subseteq Node \X Nat \X Node
        /\ kv \in [Node -> [term : Nat, node : Node \cup {Nil}]]
    BY Zenon DEF TypeOK, Term
  <1>2. \A w \in votes : w[1] = n => w[2] < t
    <2> SUFFICES ASSUME NEW w \in votes, w[1] = n PROVE w[2] < t
      BY Zenon
    <2>1. w[2] \in Nat /\ w[3] \in Node /\ kv[n].term \in Nat
      BY <1>1, Zenon
    <2>2. w[2] <= kv[n].term /\ kv[n].term <= term[n]
      BY Zenon DEF VoteInv, RecordIsLastVote
    <2>3. CASE t > term[n]
      BY <1>1, <2>1, <2>2, <2>3
    <2>4. CASE t = term[n] /\ votedFor[n] = Nil
      <3>1. w[2] # t
        <4> SUFFICES ASSUME w[2] = t PROVE FALSE
          BY Zenon
        <4>1. w[2] = kv[n].term /\ kv[n].term = term[n]
          BY <1>1, <2>1, <2>2, <2>4
        <4>2. kv[n].node = w[3]
          BY <4>1, Zenon DEF VoteInv, RecordIsLastVote
        <4>3. kv[n].node # Nil
          BY <4>2, <2>1, NodeAssumption, Zenon
        <4> QED  BY <4>1, <4>3, <2>4, Zenon DEF VoteInv, RecordIsLastVote
      <3> QED  BY <1>1, <2>1, <2>2, <2>4, <3>1
    <2> QED  BY <2>3, <2>4, Zenon
  <1>3. /\ kv' = [kv EXCEPT ![n] = [term |-> t, node |-> c]]
        /\ votes' = votes \cup {<<n, t, c>>}
    BY Zenon DEF WriteVotedFor
  <1>4. RecordIsLastVote'
    <2>1. ASSUME NEW i \in Node
          PROVE  /\ kv'[i].term <= term'[i]
                 /\ kv'[i].node # Nil =>
                       /\ <<i, kv'[i].term, kv'[i].node>> \in votes'
                       /\ kv'[i].term = term'[i] => votedFor'[i] = kv'[i].node
      <3>1. CASE i = n
        BY <1>1, <1>3, <3>1
      <3>2. CASE i # n
        BY <1>1, <1>3, <3>2, Zenon DEF VoteInv, RecordIsLastVote
      <3> QED  BY <3>1, <3>2, Zenon
    <2>2. ASSUME NEW w \in votes'
          PROVE  /\ w[2] <= kv'[w[1]].term
                 /\ w[2] = kv'[w[1]].term => kv'[w[1]].node = w[3]
      <3>1. CASE w = <<n, t, c>>
        BY <1>1, <1>3, <3>1
      <3>2. CASE w \in votes /\ w[1] = n
        <4>1. kv'[w[1]].term = t /\ w[2] \in Nat
          BY <1>1, <1>3, <3>2, Zenon
        <4> QED  BY <1>2, <4>1, <3>2
      <3>3. CASE w \in votes /\ w[1] # n
        <4>1. kv'[w[1]] = kv[w[1]]
          BY <1>1, <1>3, <3>3, Zenon
        <4> QED  BY <3>3, <4>1, Zenon DEF VoteInv, RecordIsLastVote
      <3> QED  BY <1>3, <3>1, <3>2, <3>3, Zenon
    <2> QED  BY <2>1, <2>2, Zenon DEF RecordIsLastVote
  <1>5. MemoryIsPersisted'
    BY <1>1, <1>3, Zenon DEF VoteInv, MemoryIsPersisted
  <1>6. OneVotePerTerm'
    <2> SUFFICES ASSUME NEW a \in votes', NEW b \in votes',
                        a[1] = b[1], a[2] = b[2]
                 PROVE  a[3] = b[3]
      BY Zenon DEF OneVotePerTerm
    <2>1. CASE a \in votes /\ b \in votes
      BY <2>1, Zenon DEF VoteInv, OneVotePerTerm
    <2>2. CASE a = <<n, t, c>> /\ b \in votes
      BY <1>2, <2>2
    <2>3. CASE b = <<n, t, c>> /\ a \in votes
      BY <1>2, <2>3
    <2>4. CASE a = <<n, t, c>> /\ b = <<n, t, c>>
      BY <2>4, Zenon
    <2> QED  BY <1>3, <2>1, <2>2, <2>3, <2>4, Zenon
  <1> QED  BY <1>4, <1>5, <1>6, Zenon DEF VoteInv

\* A restart brings back the record, or the later term of the log.
LEMMA VoteRecovered ==
    ASSUME TypeOK, VoteInv, NEW n \in Node, Restart(n)
    PROVE  VoteInv'
  <1>1. /\ term \in [Node -> Nat] /\ votedFor \in [Node -> Node \cup {Nil}]
        /\ \A i \in Node : kv[i].term \in Nat
        /\ durable[n].term \in Nat
    BY NodeFields, EntryFields, Zenon DEF TypeOK, Term
  <1>2. UNCHANGED <<kv, votes>>
    BY Zenon DEF Restart, disk, history
  <1>3. /\ term' = [term EXCEPT ![n] = IF durable[n].term > kv[n].term
                                      THEN durable[n].term ELSE kv[n].term]
        /\ votedFor' = [votedFor EXCEPT ![n] = IF durable[n].term > kv[n].term
                                               THEN Nil ELSE kv[n].node]
    BY Zenon DEF Restart, LogTermWins
  <1>4. RecordIsLastVote'
    <2>1. \A i \in Node : i # n => term'[i] = term[i] /\ votedFor'[i] = votedFor[i]
      BY <1>1, <1>3, Zenon
    <2>2. \/ term'[n] > kv[n].term
          \/ term'[n] = kv[n].term /\ votedFor'[n] = kv[n].node
      BY <1>1, <1>3, Zenon
    <2>3. term'[n] \in Nat /\ kv[n].term \in Nat
      BY <1>1, <1>3, Zenon
    <2>4. \A i \in Node : /\ kv[i].term <= term'[i]
                          /\ kv[i].node # Nil /\ kv[i].term = term'[i]
                                => votedFor'[i] = kv[i].node
      <3>1. SUFFICES ASSUME NEW i \in Node
                     PROVE  /\ kv[i].term <= term'[i]
                            /\ kv[i].node # Nil /\ kv[i].term = term'[i]
                                  => votedFor'[i] = kv[i].node
        BY Zenon
      <3>2. CASE i = n
        BY <2>2, <2>3, <3>2, SMTT(30)
      <3>3. CASE i # n
        BY <2>1, <3>3, Zenon DEF VoteInv, RecordIsLastVote
      <3> QED  BY <3>2, <3>3, Zenon
    <2> QED  BY <1>2, <2>4, Zenon DEF VoteInv, RecordIsLastVote
  <1>5. MemoryIsPersisted'
    BY <1>1, <1>2, <1>3, Zenon DEF VoteInv, RecordIsLastVote, MemoryIsPersisted
  <1> QED  BY <1>2, <1>4, <1>5, Zenon DEF VoteInv, OneVotePerTerm

\* Every action treats votes in one of these ways.
LEMMA VoteStep ==
    ASSUME TypeOK, VoteInv, [Next]_vars
    PROVE  VoteInv'
  <1> USE DEF disk, history
  <1>1. ASSUME NEW n \in Node, NEW k \in Kind, Vote(n, k) PROVE VoteInv'
    <2>1. term[n] \in Nat /\ term[n] + 1 \in Nat /\ term[n] + 1 > term[n]
      <3>1. term[n] \in Nat
        BY NodeFields, Zenon
      <3> QED  BY <3>1
    <2>2. CASE UNCHANGED <<term, votedFor, kv, votes>>
      BY <2>2, VoteUntouched, Zenon
    <2>3. CASE /\ term' = [term EXCEPT ![n] = term[n] + 1]
               /\ votedFor' = [votedFor EXCEPT ![n] = n]
               /\ WriteVotedFor(n, term[n] + 1, n)
      BY <2>1, <2>3, VoteWritten, Zenon
    <2>4. CASE /\ term' = [term EXCEPT ![n] = term[n] + 1]
               /\ votedFor' = [votedFor EXCEPT ![n] = n]
               /\ UNCHANGED <<kv, votes>>
      BY <2>1, <2>4, VoteNotKept, Zenon
    <2> QED  BY <1>1, <2>2, <2>3, <2>4, Zenon DEF Vote
  <1>2. ASSUME NEW n \in Node, NEW k \in Kind, UpdateVoteState(n, k)
        PROVE  VoteInv'
    <2>1. CASE UNCHANGED <<term, votedFor, kv, votes>>
      BY <2>1, VoteUntouched, Zenon
    <2>2. ASSUME NEW t \in round[n][k].seen, t > term[n],
                 term' = [term EXCEPT ![n] = t],
                 votedFor' = [votedFor EXCEPT ![n] = Nil],
                 UNCHANGED <<kv, votes>>
          PROVE  VoteInv'
      <3>1. t \in Nat
        BY RoundFields, Zenon DEF Round, Term
      <3> QED  BY <2>2, <3>1, VoteForgotten, Zenon
    <2> QED  BY <1>2, <2>1, <2>2, Zenon DEF UpdateVoteState
  <1>3. ASSUME NEW m \in msgs, DecideVote(m) PROVE VoteInv'
    <2>1. /\ m.to \in Node /\ m.from \in Node /\ m.term \in Nat
          /\ term[m.to] \in Nat
      BY <1>3, MessageFields, NodeFields, Zenon DEF DecideVote
    <2>2. term' = [term EXCEPT ![m.to] = m.term] /\ m.term >= term[m.to]
      BY <1>3, Zenon DEF DecideVote
    <2>3. CASE /\ FreeToVote(m)
               /\ votedFor' = [votedFor EXCEPT ![m.to] = m.from]
               /\ WriteVotedFor(m.to, m.term, m.from)
      <3>1. \/ m.term > term[m.to]
            \/ m.term = term[m.to] /\ votedFor[m.to] = Nil
        BY <2>1, <2>2, <2>3 DEF FreeToVote
      <3> QED  BY <2>1, <2>2, <2>3, <3>1, VoteWritten, Zenon
    <2>4. CASE /\ m.term > term[m.to]
               /\ votedFor' = [votedFor EXCEPT ![m.to] = Nil]
               /\ UNCHANGED <<kv, votes>>
      BY <2>1, <2>2, <2>4, VoteForgotten, Zenon
    <2>5. CASE m.term = term[m.to] /\ UNCHANGED <<votedFor, kv, votes>>
      <3>1. term' = term
        BY <2>2, <2>5, Zenon DEF TypeOK
      <3> QED  BY <2>5, <3>1, VoteUntouched, Zenon
    <2>6. CASE /\ m.term = term[m.to] /\ votedFor[m.to] = Nil
               /\ votedFor' = [votedFor EXCEPT ![m.to] = Nil]
               /\ UNCHANGED <<kv, votes>>
      <3>1. term' = term /\ votedFor' = votedFor
        BY <2>2, <2>6, Zenon DEF TypeOK
      <3> QED  BY <2>6, <3>1, VoteUntouched, Zenon
    <2>7. m.term > term[m.to] \/ m.term = term[m.to]
      BY <2>1, <2>2
    <2>8. \/ /\ FreeToVote(m)
             /\ votedFor' = [votedFor EXCEPT ![m.to] = m.from]
             /\ WriteVotedFor(m.to, m.term, m.from)
          \/ /\ m.term > term[m.to] \/ FreeToVote(m)
             /\ votedFor' = [votedFor EXCEPT ![m.to] = Nil]
             /\ UNCHANGED <<kv, votes>>
          \/ ~FreeToVote(m) /\ UNCHANGED <<votedFor, kv, votes>>
      BY <1>3, Zenon DEF DecideVote
    <2>9. CASE /\ m.term > term[m.to] \/ FreeToVote(m)
               /\ votedFor' = [votedFor EXCEPT ![m.to] = Nil]
               /\ UNCHANGED <<kv, votes>>
      BY <2>4, <2>6, <2>7, <2>9, Zenon DEF FreeToVote
    <2>10. CASE ~FreeToVote(m) /\ UNCHANGED <<votedFor, kv, votes>>
      BY <2>5, <2>7, <2>10, Zenon DEF FreeToVote
    <2> QED  BY <2>3, <2>8, <2>9, <2>10, Zenon
  <1>4. ASSUME NEW m \in msgs, AppendEntries(m) PROVE VoteInv'
    <2>1. m.to \in Node /\ m.term \in Nat /\ term[m.to] \in Nat
      BY <1>4, MessageFields, NodeFields, Zenon DEF AppendEntries
    <2>2. UNCHANGED <<kv, votes>>
      BY <1>4, Zenon DEF AppendEntries
    <2>3. CASE m.term < term[m.to]
      <3>1. UNCHANGED <<term, votedFor>>
        BY <1>4, <2>1, <2>3 DEF AppendEntries
      <3> QED  BY <2>2, <3>1, VoteUntouched, Zenon
    <2>4. CASE m.term > term[m.to]
      <3>1. /\ term' = [term EXCEPT ![m.to] = m.term]
            /\ votedFor' = [votedFor EXCEPT ![m.to] = Nil]
        BY <1>4, <2>1, <2>4 DEF AppendEntries
      <3> QED  BY <2>1, <2>2, <2>4, <3>1, VoteForgotten, Zenon
    <2>5. CASE m.term = term[m.to]
      <3>1. term' = term /\ votedFor' = votedFor
        <4>1. /\ term' = term \/ term' = [term EXCEPT ![m.to] = m.term]
              /\ \/ votedFor' = votedFor
                 \/ votedFor' = [votedFor EXCEPT ![m.to] =
                                    IF m.term > term[m.to] THEN Nil ELSE @]
          BY <1>4, Zenon DEF AppendEntries
        <4> QED  BY <2>1, <2>5, <4>1 DEF TypeOK
      <3> QED  BY <2>2, <3>1, VoteUntouched, Zenon
    <2> QED  BY <2>1, <2>3, <2>4, <2>5
  <1>5. ASSUME NEW m \in msgs, StepDownToTerm(m) PROVE VoteInv'
    <2>1. m.to \in Node /\ m.term \in Nat
      BY <1>5, MessageFields, Zenon DEF StepDownToTerm
    <2> QED  BY <1>5, <2>1, VoteForgotten, VoteUntouched, Zenon
             DEF StepDownToTerm, AdoptTerm
  <1>6. ASSUME NEW n \in Node, Restart(n) PROVE VoteInv'
    BY <1>6, VoteRecovered, Zenon
  <1>7. ASSUME NEW n \in Node, NEW k \in Kind,
               \/ Prevote(n, k) \/ PrevoteDone(n, k) \/ VoteDone(n, k)
               \/ \E v \in Node : VoteRpcFails(n, k, v)
        PROVE  VoteInv'
    BY <1>7, VoteUntouched, Zenon DEF Prevote, PrevoteDone, VoteDone, VoteRpcFails
  <1>8. ASSUME NEW m \in msgs,
               RefuseVote(m) \/ TimeoutNow(m) \/ TimeoutNowReply(m)
        PROVE  VoteInv'
    BY <1>8, VoteUntouched, Zenon DEF RefuseVote, TimeoutNow, TimeoutNowReply, DoStepDown
  <1>9. ASSUME NEW n \in Node,
               \/ VoteTimeout(n) \/ MaybeStepDown(n) \/ HbeatExpires(n)
               \/ FlushLog(n) \/ BlockNewLeadership(n) \/ UnblockNewLeadership(n)
               \/ \E f \in Node : SendAppend(n, f) \/ TransferLeadership(n, f)
        PROVE  VoteInv'
    BY <1>9, VoteUntouched, Zenon
       DEF VoteTimeout, MaybeStepDown, DoStepDown, HbeatExpires, FlushLog,
           BlockNewLeadership, UnblockNewLeadership, SendAppend, TransferLeadership
  <1>10. CASE UNCHANGED vars
    BY <1>10, VoteUntouched, Zenon DEF vars
  <1> QED
    BY <1>1, <1>2, <1>3, <1>4, <1>5, <1>6, <1>7, <1>8, <1>9, <1>10, Zenon
       DEF Next, RoundStep, Receive, NodeStep

---------------------------------------------------------------------------
\* Rounds and leaders.

\* What RoundCountsVotes asks of one round of n.
Counted(n, r) ==
    r.stage \in {"vote", "update_lock"} =>
        /\ n \in r.ok
        /\ \A v \in r.ok : <<v, r.term, n>> \in votes'
        /\ r.success => IsMajority(r.ok)

\* Votes are only added.
LEMMA VotesGrow ==
    ASSUME [Next]_vars
    PROVE  votes \subseteq votes'
  <1> USE DEF history
  <1>1. ASSUME NEW n \in Node, NEW k \in Kind, RoundStep(n, k)
        PROVE  votes \subseteq votes'
    BY <1>1, Zenon DEF RoundStep, Prevote, PrevoteDone, Vote, VoteDone, UpdateVoteState,
                VoteRpcFails, WriteVotedFor
  <1>2. ASSUME NEW m \in msgs, Receive(m) PROVE votes \subseteq votes'
    BY <1>2, Zenon DEF Receive, RefuseVote, DecideVote, AppendEntries, StepDownToTerm,
                TimeoutNow, TimeoutNowReply, DoStepDown, WriteVotedFor
  <1>3. ASSUME NEW n \in Node, NodeStep(n) PROVE votes \subseteq votes'
    BY <1>3, Zenon DEF NodeStep, VoteTimeout, MaybeStepDown, DoStepDown, HbeatExpires,
                FlushLog, BlockNewLeadership, UnblockNewLeadership, Restart,
                SendAppend, TransferLeadership
  <1> QED  BY <1>1, <1>2, <1>3, Zenon DEF Next, vars

\* A step that leaves the rounds alone.
LEMMA RoundKept ==
    ASSUME RoundCountsVotes, votes \subseteq votes', UNCHANGED round
    PROVE  RoundCountsVotes'
  BY Zenon DEF RoundCountsVotes, IsMajority

\* A step that replaces one round by a sound one.
LEMMA RoundReplaced ==
    ASSUME TypeOK, RoundCountsVotes, votes \subseteq votes',
           NEW n \in Node, NEW k \in Kind, NEW r, Counted(n, r),
           round' = [round EXCEPT ![n][k] = r]
    PROVE  RoundCountsVotes'
  <1> SUFFICES ASSUME NEW i \in Node, NEW j \in Kind,
                      round'[i][j].stage \in {"vote", "update_lock"}
               PROVE  /\ i \in round'[i][j].ok
                      /\ \A v \in round'[i][j].ok :
                            <<v, round'[i][j].term, i>> \in votes'
                      /\ round'[i][j].success => IsMajority(round'[i][j].ok)
    BY Zenon DEF RoundCountsVotes, IsMajority
  <1>1. round \in [Node -> [Kind -> Round]]
    BY Zenon DEF TypeOK
  <1>2. CASE i = n /\ j = k
    <2>1. round'[i][j] = r
      BY <1>1, <1>2, Zenon
    <2> QED  BY <1>2, <2>1, Zenon DEF Counted
  <1>3. CASE ~(i = n /\ j = k)
    <2>1. round'[i][j] = round[i][j]
      BY <1>1, <1>3, Zenon
    <2> QED  BY <2>1, Zenon DEF RoundCountsVotes
  <1> QED  BY <1>2, <1>3, Zenon

\* A round that counts nothing.
LEMMA NoRoundCounted ==
    ASSUME NEW n, NEW s \in {"idle", "prevote_lock", "prevote", "vote_lock"},
           NEW r, r.stage = s
    PROVE  Counted(n, r)
  BY Zenon DEF Counted

\* The answer to a request counts for the round that sent it: a granted vote is
\* persisted, and a late answer does not undo a majority.
LEMMA ReplyCounted ==
    ASSUME TypeOK, RoundCountsVotes, votes \subseteq votes',
           NEW m \in msgs, m.type = "vote", NEW t \in Nat,
           NEW granted \in BOOLEAN, NEW logOk \in BOOLEAN,
           Reply(m, t, granted, logOk),
           granted => <<m.to, m.term, m.from>> \in votes'
    PROVE  RoundCountsVotes'
  <1> DEFINE old == round[m.from][m.kind]
             yes == IF m.prevote THEN logOk ELSE granted
             new == [old EXCEPT !.ok = IF yes THEN @ \cup {m.to} ELSE @,
                                !.failed = IF yes THEN @ ELSE @ \cup {m.to},
                                !.seen = IF ~m.prevote /\ t > old.term
                                         THEN @ \cup {t} ELSE @]
  <1>1. m.from \in Node /\ m.to \in Node /\ m.kind \in Kind
    BY MessageFields, Zenon
  <1>2. old \in Round
    BY <1>1, RoundFields, Zenon
  <1>3. CASE /\ old.term = m.term
             /\ old.stage \in IF m.prevote THEN {"prevote"}
                                           ELSE {"vote", "update_lock"}
             /\ round' = [round EXCEPT ![m.from][m.kind] = new]
    <2>1. /\ new.stage = old.stage /\ new.term = old.term
          /\ new.success = old.success
          /\ new.ok = IF yes THEN old.ok \cup {m.to} ELSE old.ok
          /\ old.ok \subseteq Node
      BY <1>2, Zenon DEF Round
    <2> HIDE DEF old, yes, new
    <2>2. Counted(m.from, new)
      <3>1. CASE m.prevote
        BY <1>3, <2>1, <3>1, Zenon DEF Counted
      <3>2. CASE ~m.prevote
        <4>1. /\ m.from \in old.ok
              /\ \A v \in old.ok : <<v, old.term, m.from>> \in votes
              /\ old.success => IsMajority(old.ok)
          BY <1>1, <1>3, <3>2, Zenon DEF RoundCountsVotes, old
        <4>2. \A v \in new.ok : <<v, new.term, m.from>> \in votes'
          BY <1>3, <2>1, <3>2, <4>1 DEF yes
        <4>3. new.success => IsMajority(new.ok)
          <5>1. old.ok \subseteq new.ok /\ new.ok \subseteq Node
            BY <1>1, <2>1, Zenon
          <5> QED  BY <2>1, <4>1, <5>1, MajorityGrows, Zenon
        <4>4. m.from \in new.ok
          BY <2>1, <4>1, Zenon
        <4> QED  BY <4>2, <4>3, <4>4, Zenon DEF Counted
      <3> QED  BY <3>1, <3>2, Zenon
    <2> QED  BY <1>1, <1>3, <2>2, RoundReplaced, Zenon
  <1>4. CASE UNCHANGED round
    BY <1>4, RoundKept, Zenon
  <1> QED  BY <1>3, <1>4, Zenon DEF Reply

\* Every step keeps the rounds sound.
LEMMA RoundStepCounts ==
    ASSUME TypeOK, VoteInv, RequestsToOthers, RoundCountsVotes, [Next]_vars
    PROVE  RoundCountsVotes'
  <1> USE DEF disk, history
  <1>0. votes \subseteq votes'
    BY VotesGrow, Zenon
  <1>1. ASSUME NEW n \in Node, NEW k \in Kind, Prevote(n, k)
        PROVE  RoundCountsVotes'
    <2> DEFINE r == [NoRound EXCEPT !.stage = "prevote", !.term = term[n],
                                    !.ok = {n}]
    <2>1. r.stage = "prevote"
      BY Zenon DEF NoRound
    <2>2. round' = [round EXCEPT ![n][k] = r]
      BY <1>1, Zenon DEF Prevote
    <2> QED  BY <1>0, <2>1, <2>2, NoRoundCounted, RoundReplaced, Zenon
  <1>2. ASSUME NEW n \in Node, NEW k \in Kind, PrevoteDone(n, k)
        PROVE  RoundCountsVotes'
    <2>1. PICK r \in {NoRound, [NoRound EXCEPT !.stage = "vote_lock"]} :
              round' = [round EXCEPT ![n][k] = r]
      BY <1>2, Zenon DEF PrevoteDone
    <2>2. r.stage \in {"idle", "vote_lock"}
      BY DEF NoRound
    <2> QED  BY <1>0, <2>1, <2>2, NoRoundCounted, RoundReplaced, Zenon
  <1>3. ASSUME NEW n \in Node, NEW k \in Kind, Vote(n, k)
        PROVE  RoundCountsVotes'
    <2> DEFINE r == [NoRound EXCEPT !.stage = "vote", !.term = term[n] + 1,
                                    !.ok = {n}]
    <2>1. CASE round' = [round EXCEPT ![n][k] = NoRound]
      <3>1. NoRound.stage = "idle"
        BY Zenon DEF NoRound
      <3> QED  BY <1>0, <2>1, <3>1, NoRoundCounted, RoundReplaced, Zenon
    <2>2. CASE /\ WriteVotedFor(n, term[n] + 1, n)
               /\ round' = [round EXCEPT ![n][k] = r]
      <3>1. r.ok = {n} /\ r.term = term[n] + 1 /\ r.success = FALSE
        BY Zenon DEF NoRound
      <3>2. Counted(n, r)
        BY <2>2, <3>1 DEF Counted, WriteVotedFor
      <3> QED  BY <1>0, <2>2, <3>2, RoundReplaced, Zenon
    <2> QED  BY <1>3, <2>1, <2>2, Zenon DEF Vote
  <1>4. ASSUME NEW n \in Node, NEW k \in Kind, VoteDone(n, k)
        PROVE  RoundCountsVotes'
    <2> DEFINE old == round[n][k]
               r == [old EXCEPT !.stage = "update_lock",
                                !.success = IsMajority(old.ok)]
    <2>1. old.stage = "vote" /\ round' = [round EXCEPT ![n][k] = r]
      BY <1>4, Zenon DEF VoteDone
    <2>2. r.ok = old.ok /\ r.term = old.term /\ r.success = IsMajority(old.ok)
      BY RoundFields DEF Round
    <2>3. n \in old.ok /\ \A v \in old.ok : <<v, old.term, n>> \in votes
      BY <2>1, Zenon DEF RoundCountsVotes
    <2>4. Counted(n, r)
      BY <1>0, <2>2, <2>3, Zenon DEF Counted
    <2> QED  BY <1>0, <2>1, <2>4, RoundReplaced, Zenon
  <1>5. ASSUME NEW n \in Node, NEW k \in Kind, UpdateVoteState(n, k)
        PROVE  RoundCountsVotes'
    <2>1. NoRound.stage = "idle"
      BY Zenon DEF NoRound
    <2>2. round' = [round EXCEPT ![n][k] = NoRound]
      BY <1>5, Zenon DEF UpdateVoteState
    <2> QED  BY <1>0, <2>1, <2>2, NoRoundCounted, RoundReplaced, Zenon
  <1>6. ASSUME NEW n \in Node, NEW k \in Kind, NEW v \in Node,
               VoteRpcFails(n, k, v)
        PROVE  RoundCountsVotes'
    <2> DEFINE old == round[n][k]
               r == [old EXCEPT !.failed = @ \cup {v}]
    <2>1. round' = [round EXCEPT ![n][k] = r]
      BY <1>6, Zenon DEF VoteRpcFails
    <2>2. /\ r.stage = old.stage /\ r.ok = old.ok /\ r.term = old.term
          /\ r.success = old.success
      BY RoundFields DEF Round
    <2>3. Counted(n, r)
      BY <1>0, <2>2, Zenon DEF Counted, RoundCountsVotes
    <2> QED  BY <1>0, <2>1, <2>3, RoundReplaced, Zenon
  <1>7. ASSUME NEW m \in msgs, RefuseVote(m) PROVE RoundCountsVotes'
    <2>1. m.type = "vote" /\ term[m.to] \in Nat
      BY <1>7, MessageFields, NodeFields, Zenon DEF RefuseVote
    <2>2. LogOk(m.last, log[m.to]) \in BOOLEAN
      BY Zenon DEF LogOk
    <2> QED  BY <1>0, <1>7, <2>1, <2>2, ReplyCounted, Zenon DEF RefuseVote
  <1>8. ASSUME NEW m \in msgs, DecideVote(m) PROVE RoundCountsVotes'
    <2>1. /\ m.type = "vote" /\ m.term \in Nat /\ m.to \in Node
          /\ m.from \in Node /\ m.from # m.to /\ term[m.to] \in Nat
      BY <1>8, MessageFields, NodeFields, Zenon DEF DecideVote, RequestsToOthers
    <2>2. CASE /\ WriteVotedFor(m.to, m.term, m.from)
               /\ Reply(m, m.term, TRUE, TRUE)
      <3>1. <<m.to, m.term, m.from>> \in votes'
        BY <2>2, Zenon DEF WriteVotedFor
      <3> QED  BY <1>0, <2>1, <2>2, <3>1, ReplyCounted, Zenon
    <2>3. CASE \E b \in BOOLEAN : Reply(m, m.term, FALSE, b)
      BY <1>0, <2>1, <2>3, ReplyCounted, Zenon
    <2>4. CASE /\ ~FreeToVote(m)
               /\ Reply(m, m.term, m.from = votedFor[m.to], TRUE)
      <3>1. m.term = term[m.to]
        <4>1. m.term >= term[m.to]
          BY <1>8, Zenon DEF DecideVote
        <4> QED  BY <2>1, <2>4, <4>1 DEF FreeToVote
      <3>2. m.from = votedFor[m.to] => <<m.to, m.term, m.from>> \in votes'
        <4>1. ASSUME m.from = votedFor[m.to]
              PROVE  <<m.to, term[m.to], votedFor[m.to]>> \in votes
          <5>1. votedFor[m.to] \notin {Nil, m.to}
            BY <2>1, <4>1, NodeAssumption, Zenon
          <5> QED  BY <2>1, <5>1, Zenon DEF VoteInv, MemoryIsPersisted
        <4> QED  BY <1>0, <3>1, <4>1, Zenon
      <3>3. (m.from = votedFor[m.to]) \in BOOLEAN
        BY Zenon
      <3> QED  BY <1>0, <2>1, <2>4, <3>2, <3>3, ReplyCounted, Zenon
    <2> QED  BY <1>8, <2>2, <2>3, <2>4, Zenon DEF DecideVote
  <1>9. ASSUME NEW m \in msgs,
               AppendEntries(m) \/ StepDownToTerm(m) \/ TimeoutNowReply(m)
        PROVE  RoundCountsVotes'
    BY <1>0, <1>9, RoundKept, Zenon
       DEF AppendEntries, StepDownToTerm, TimeoutNowReply, DoStepDown
  <1>10. ASSUME NEW n \in Node, NEW k \in Kind, DispatchVote(n, k)
         PROVE  RoundCountsVotes'
    <2>1. CASE UNCHANGED round
      BY <1>0, <2>1, RoundKept, Zenon
    <2> DEFINE r == [NoRound EXCEPT !.stage = IF k = "transfer" THEN "vote_lock"
                                                               ELSE "prevote_lock"]
    <2>2. CASE round' = [round EXCEPT ![n][k] = r]
      <3>1. r.stage \in {"prevote_lock", "vote_lock"}
        BY Zenon DEF NoRound
      <3> QED  BY <1>0, <2>2, <3>1, NoRoundCounted, RoundReplaced, Zenon
    <2> QED  BY <1>10, <2>1, <2>2, Zenon DEF DispatchVote
  <1>11. ASSUME NEW m \in msgs, TimeoutNow(m) PROVE RoundCountsVotes'
    <2>1. m.to \in Node
      BY MessageFields, Zenon
    <2>2. DispatchVote(m.to, "transfer") \/ UNCHANGED round
      BY <1>11, Zenon DEF TimeoutNow
    <2> QED  BY <1>0, <1>10, <2>1, <2>2, RoundKept, Zenon DEF Kind
  <1>12. ASSUME NEW n \in Node, VoteTimeout(n) PROVE RoundCountsVotes'
    BY <1>10, <1>12, Zenon DEF VoteTimeout, Kind
  <1>13. ASSUME NEW n \in Node, Restart(n) PROVE RoundCountsVotes'
    <2>1. round' = [round EXCEPT ![n] = [k \in Kind |-> NoRound]]
      BY <1>13, Zenon DEF Restart
    <2>2. round \in [Node -> [Kind -> Round]]
      BY Zenon DEF TypeOK
    <2>3. ASSUME NEW i \in Node, NEW j \in Kind,
                 round'[i][j].stage \in {"vote", "update_lock"}
          PROVE  round'[i][j] = round[i][j]
      <3>1. CASE i = n
        BY <2>1, <2>2, <2>3, <3>1, Zenon DEF NoRound
      <3>2. CASE i # n
        BY <2>1, <2>2, <3>2, Zenon
      <3> QED  BY <3>1, <3>2, Zenon
    <2> QED  BY <1>0, <2>3, Zenon DEF RoundCountsVotes, IsMajority
  <1>14. ASSUME NEW n \in Node,
                \/ MaybeStepDown(n) \/ HbeatExpires(n) \/ FlushLog(n)
                \/ BlockNewLeadership(n) \/ UnblockNewLeadership(n)
                \/ \E f \in Node : SendAppend(n, f) \/ TransferLeadership(n, f)
         PROVE  RoundCountsVotes'
    BY <1>0, <1>14, RoundKept, Zenon
       DEF MaybeStepDown, DoStepDown, HbeatExpires, FlushLog, BlockNewLeadership,
           UnblockNewLeadership, SendAppend, TransferLeadership
  <1>15. CASE UNCHANGED vars
    BY <1>0, <1>15, RoundKept, Zenon DEF vars
  <1> QED
    BY <1>1, <1>2, <1>3, <1>4, <1>5, <1>6, <1>7, <1>8, <1>9, <1>11, <1>12, <1>13,
       <1>14, <1>15, Zenon
       DEF Next, RoundStep, Receive, NodeStep

\* Only a round sends vote requests, and not to its own node.
LEMMA RequestsStep ==
    ASSUME TypeOK, RequestsToOthers, [Next]_vars
    PROVE  RequestsToOthers'
  <1>1. ASSUME NEW n \in Node, NEW k \in Kind, RoundStep(n, k)
        PROVE  RequestsToOthers'
    <2>1. \/ msgs' = msgs
          \/ msgs' = msgs \cup Requests(n, k, TRUE, term[n])
          \/ msgs' = msgs \cup Requests(n, k, FALSE, term[n] + 1)
      BY <1>1, Zenon DEF RoundStep, Prevote, PrevoteDone, Vote, VoteDone,
                  UpdateVoteState, VoteRpcFails
    <2>2. ASSUME NEW b \in BOOLEAN, NEW t \in Nat, NEW x \in Requests(n, k, b, t)
          PROVE  x.from # x.to
      <3>1. PICK v \in Node \ {n} : x = [type |-> "vote", from |-> n, to |-> v,
                kind |-> k, prevote |-> b, term |-> t, last |-> log[n]]
        BY Zenon DEF Requests
      <3>2. x.from = n /\ x.to = v
        BY <3>1, Zenon
      <3> QED  BY <3>2, Zenon
    <2>3. term[n] \in Nat /\ term[n] + 1 \in Nat
      BY NodeFields
    <2> QED  BY <2>1, <2>2, <2>3, Zenon DEF RequestsToOthers
  <1>2. ASSUME NEW m \in msgs, Receive(m) PROVE RequestsToOthers'
    <2>1. CASE \/ RefuseVote(m) \/ DecideVote(m) \/ StepDownToTerm(m)
               \/ TimeoutNowReply(m)
      <3>1. msgs' = msgs \ {m}
        BY <2>1, Zenon DEF RefuseVote, DecideVote, StepDownToTerm, TimeoutNowReply, Reply
      <3> QED  BY <3>1, Zenon DEF RequestsToOthers
    <2>2. CASE AppendEntries(m)
      <3>1. msgs' \subseteq msgs \cup LargerTermSeen(m.from, term[m.to])
        BY <2>2, Zenon DEF AppendEntries
      <3> QED  BY <3>1 DEF RequestsToOthers, LargerTermSeen
    <2>3. CASE TimeoutNow(m)
      BY <2>3 DEF TimeoutNow, RequestsToOthers
    <2> QED  BY <1>2, <2>1, <2>2, <2>3, Zenon DEF Receive
  <1>3. ASSUME NEW n \in Node, NodeStep(n) PROVE RequestsToOthers'
    <2>1. CASE \E f \in Node : SendAppend(n, f)
      <3>1. PICK f \in Node :
                msgs' = msgs \cup {[type |-> "append", from |-> n, to |-> f,
                                    term |-> term[n], last |-> log[n]]}
        BY <2>1, Zenon DEF SendAppend
      <3> QED  BY <3>1, SMTT(20) DEF RequestsToOthers
    <2>2. CASE \E f \in Node : TransferLeadership(n, f)
      BY <2>2 DEF TransferLeadership, RequestsToOthers
    <2>3. CASE \/ VoteTimeout(n) \/ MaybeStepDown(n) \/ HbeatExpires(n)
               \/ FlushLog(n) \/ BlockNewLeadership(n) \/ UnblockNewLeadership(n)
               \/ Restart(n)
      <3>1. msgs' \subseteq msgs
        BY <2>3, Zenon DEF VoteTimeout, MaybeStepDown, HbeatExpires, FlushLog,
                    BlockNewLeadership, UnblockNewLeadership, Restart
      <3> QED  BY <3>1, Zenon DEF RequestsToOthers
    <2> QED  BY <1>3, <2>1, <2>2, <2>3, Zenon DEF NodeStep
  <1>4. CASE UNCHANGED vars
    BY <1>4, Zenon DEF vars, RequestsToOthers
  <1> QED  BY <1>1, <1>2, <1>3, <1>4, Zenon DEF Next

\* Nobody becomes leader but by update_vote_state, in the term of a round that
\* succeeded.
LEMMA ElectedStep ==
    ASSUME TypeOK, RoundCountsVotes, ElectedByMajority, [Next]_vars
    PROVE  ElectedByMajority'
  <1> USE DEF history
  <1>0. votes \subseteq votes'
    BY VotesGrow, Zenon
  <1>1. CASE UNCHANGED elected
    BY <1>0, <1>1, Zenon DEF ElectedByMajority, IsMajority
  <1>2. ASSUME NEW n \in Node, NEW k \in Kind, UpdateVoteState(n, k),
               elected' # elected
        PROVE  ElectedByMajority'
    <2> DEFINE r == round[n][k]
    <2>1. /\ elected' = elected \cup {<<term[n], n>>}
          /\ r.stage = "update_lock" /\ r.success /\ term[n] = r.term
      BY <1>2, Zenon DEF UpdateVoteState
    <2>2. /\ r.ok \in SUBSET Node
          /\ IsMajority(r.ok)
          /\ \A v \in r.ok : <<v, term[n], n>> \in votes
      BY <2>1, RoundFields, Zenon DEF RoundCountsVotes, Round
    <2>3. ASSUME NEW e \in elected'
          PROVE  \E Q \in SUBSET Node :
                     IsMajority(Q) /\ \A v \in Q : <<v, e[1], e[2]>> \in votes'
      <3>1. CASE e \in elected
        BY <1>0, <3>1, Zenon DEF ElectedByMajority
      <3>2. CASE e = <<term[n], n>>
        BY <1>0, <2>2, <3>2, Zenon
      <3> QED  BY <2>1, <3>1, <3>2, Zenon
    <2> QED  BY <2>3, Zenon DEF ElectedByMajority, IsMajority
  <1>3. ASSUME NEW n \in Node, NEW k \in Kind, RoundStep(n, k)
        PROVE  ElectedByMajority'
    BY <1>1, <1>2, <1>3, Zenon DEF RoundStep, Prevote, PrevoteDone, Vote, VoteDone,
                            VoteRpcFails
  <1>4. ASSUME NEW m \in msgs, Receive(m) PROVE ElectedByMajority'
    BY <1>1, <1>4, Zenon DEF Receive, RefuseVote, DecideVote, AppendEntries,
                      StepDownToTerm, TimeoutNow, TimeoutNowReply, DoStepDown
  <1>5. ASSUME NEW n \in Node, NodeStep(n) PROVE ElectedByMajority'
    BY <1>1, <1>5, Zenon DEF NodeStep, VoteTimeout, MaybeStepDown, DoStepDown,
                      HbeatExpires, FlushLog, BlockNewLeadership,
                      UnblockNewLeadership, Restart, SendAppend, TransferLeadership
  <1> QED  BY <1>1, <1>3, <1>4, <1>5, Zenon DEF Next, vars

---------------------------------------------------------------------------
\* Leaders. A step treats the marks of a leader in one of three ways.

marks == <<vstate, term, votedFor, leaderId, hbeat, elected>>

\* What LeaderOfItsTerm asks of a leader.
Marked(n) ==
    /\ <<term[n], n>> \in elected
    /\ votedFor[n] = n /\ leaderId[n] = n /\ hbeat[n] = "max"

\* No mark changes.
LEMMA MarksKept ==
    ASSUME LeaderOfItsTerm, UNCHANGED marks
    PROVE  LeaderOfItsTerm'
  BY Zenon DEF LeaderOfItsTerm, marks

\* The marks of one node change, and it is not a leader then, or has all of them.
LEMMA MarksOf ==
    ASSUME TypeOK, LeaderOfItsTerm, NEW n \in Node, elected \subseteq elected',
           \A i \in Node \ {n} :
              /\ vstate'[i] = vstate[i] /\ term'[i] = term[i]
              /\ votedFor'[i] = votedFor[i] /\ leaderId'[i] = leaderId[i]
              /\ hbeat'[i] = hbeat[i],
           vstate'[n] = "leader" => Marked(n)'
    PROVE  LeaderOfItsTerm'
  BY Zenon DEF LeaderOfItsTerm, Marked

\* A node leaves the leader state, or is not in it.
LEMMA MarksLost ==
    ASSUME TypeOK, LeaderOfItsTerm, NEW n \in Node, elected' = elected,
           NEW s, s # "leader", vstate' = [vstate EXCEPT ![n] = s],
           term' = term \/ \E t : term' = [term EXCEPT ![n] = t],
           votedFor' = votedFor \/ \E v : votedFor' = [votedFor EXCEPT ![n] = v],
           leaderId' = leaderId \/ \E l : leaderId' = [leaderId EXCEPT ![n] = l],
           hbeat' = hbeat \/ \E h : hbeat' = [hbeat EXCEPT ![n] = h]
    PROVE  LeaderOfItsTerm'
  <1>1. vstate'[n] # "leader"
    BY Zenon DEF TypeOK
  <1>2. \A i \in Node \ {n} : vstate'[i] = vstate[i]
    BY Zenon DEF TypeOK
  <1>3. \A i \in Node \ {n} : term'[i] = term[i]
    BY Zenon DEF TypeOK
  <1>4. \A i \in Node \ {n} : votedFor'[i] = votedFor[i]
    BY Zenon DEF TypeOK
  <1>5. \A i \in Node \ {n} : leaderId'[i] = leaderId[i]
    BY Zenon DEF TypeOK
  <1>6. \A i \in Node \ {n} : hbeat'[i] = hbeat[i]
    BY Zenon DEF TypeOK
  <1> QED  BY <1>1, <1>2, <1>3, <1>4, <1>5, <1>6, MarksOf, Zenon

\* A candidate that is still in the term of its round has not changed its vote.
LEMMA VotedForItself ==
    ASSUME TypeOK, ElectionInv, NEW n \in Node, NEW k \in Kind,
           round[n][k].stage = "update_lock", term[n] = round[n][k].term
    PROVE  votedFor[n] = n
  <1>1. <<n, term[n], n>> \in votes
    BY Zenon DEF ElectionInv, RoundCountsVotes
  <1>2. term[n] <= kv[n].term /\ (term[n] = kv[n].term => kv[n].node = n)
    BY <1>1, Zenon DEF ElectionInv, RecordIsLastVote
  <1>3. kv[n].term <= term[n]
    BY Zenon DEF ElectionInv, RecordIsLastVote
  <1>4. term[n] = kv[n].term /\ kv[n].node = n /\ n # Nil
    BY <1>2, <1>3, NodeFields, NodeAssumption
  <1> QED  BY <1>4, Zenon DEF ElectionInv, RecordIsLastVote

\* A leader does not vote in its term: its vote is taken.
LEMMA LeaderDecides ==
    ASSUME TypeOK, LeaderOfItsTerm, NEW m \in msgs, DecideVote(m)
    PROVE  LeaderOfItsTerm'
  <1> DEFINE v == m.to
  <1>1. /\ v \in Node /\ m.term \in Nat /\ term[v] \in Nat
    BY MessageFields, NodeFields, Zenon DEF DecideVote
  <1>2. /\ m.term >= term[v] /\ term' = [term EXCEPT ![v] = m.term]
        /\ elected' = elected
        /\ votedFor' = votedFor \/ \E c : votedFor' = [votedFor EXCEPT ![v] = c]
    BY Zenon DEF DecideVote, history
  <1>3. CASE m.term > term[v]
    <2>1. /\ vstate' = [vstate EXCEPT ![v] = "follower"]
          /\ leaderId' = [leaderId EXCEPT ![v] = Nil]
          /\ \E h : hbeat' = [hbeat EXCEPT ![v] = h]
      BY <1>3, Zenon DEF DecideVote
    <2> QED  BY <1>1, <1>2, <2>1, MarksLost, Zenon
  <1>4. CASE m.term = term[v]
    <2>1. vstate' = vstate /\ leaderId' = leaderId /\ hbeat' = hbeat
      BY <1>1, <1>4 DEF DecideVote
    <2>2. term' = term
      BY <1>2, <1>4, Zenon DEF TypeOK
    <2>3. CASE votedFor[v] # Nil
      <3>1. ~FreeToVote(m) /\ LogOk(m.last, log[v])
        BY <1>1, <1>4, <2>3 DEF DecideVote, FreeToVote
      <3>2. votedFor' = votedFor
        BY <3>1, Zenon DEF DecideVote
      <3> QED  BY <1>2, <2>1, <2>2, <3>2, MarksKept, Zenon DEF marks
    <2>4. CASE votedFor[v] = Nil
      <3>1. vstate[v] # "leader"
        BY <1>1, <2>4, NodeAssumption, Zenon DEF LeaderOfItsTerm
      <3>2. \A i \in Node \ {v} : votedFor'[i] = votedFor[i]
        BY <1>2, Zenon DEF TypeOK
      <3> QED  BY <1>1, <1>2, <2>1, <2>2, <3>1, <3>2, MarksOf, Zenon
    <2> QED  BY <2>3, <2>4, Zenon
  <1> QED  BY <1>1, <1>2, <1>3, <1>4

\* Every step keeps the marks of the leaders.
LEMMA LeaderStep ==
    ASSUME TypeOK, ElectionInv, LeaderOfItsTerm, [Next]_vars
    PROVE  LeaderOfItsTerm'
  <1> USE DEF disk, history
  <1>1. ASSUME NEW n \in Node, NEW k \in Kind, Prevote(n, k) PROVE LeaderOfItsTerm'
    <2>1. /\ vstate' = [vstate EXCEPT ![n] = "candidate"]
          /\ leaderId' = [leaderId EXCEPT ![n] = Nil]
          /\ term' = term /\ votedFor' = votedFor /\ hbeat' = hbeat /\ elected' = elected
      BY <1>1, Zenon DEF Prevote
    <2> QED  BY <2>1, MarksLost, Zenon
  <1>2. ASSUME NEW n \in Node, NEW k \in Kind, Vote(n, k) PROVE LeaderOfItsTerm'
    <2>1. CASE ShouldSkipVote(n, k = "transfer")
      BY <1>2, <2>1, MarksKept, Zenon DEF Vote, marks
    <2>2. CASE ~ShouldSkipVote(n, k = "transfer")
      <3>1. /\ vstate' = [vstate EXCEPT ![n] = "candidate"]
            /\ leaderId' = [leaderId EXCEPT ![n] = Nil]
            /\ term' = [term EXCEPT ![n] = term[n] + 1]
            /\ votedFor' = [votedFor EXCEPT ![n] = n]
            /\ hbeat' = hbeat /\ elected' = elected
        BY <1>2, <2>2, Zenon DEF Vote
      <3> QED  BY <3>1, MarksLost, Zenon
    <2> QED  BY <2>1, <2>2, Zenon
  <1>3. ASSUME NEW n \in Node, NEW k \in Kind, UpdateVoteState(n, k)
        PROVE  LeaderOfItsTerm'
    <2>1. \/ /\ \E t : term' = [term EXCEPT ![n] = t]
             /\ votedFor' = [votedFor EXCEPT ![n] = Nil]
             /\ vstate' = [vstate EXCEPT ![n] = "follower"]
             /\ leaderId' = leaderId /\ hbeat' = hbeat /\ elected' = elected
          \/ UNCHANGED marks
          \/ /\ vstate' = [vstate EXCEPT ![n] = "follower"]
             /\ term' = term /\ votedFor' = votedFor
             /\ leaderId' = leaderId /\ hbeat' = hbeat /\ elected' = elected
          \/ /\ round[n][k].stage = "update_lock" /\ term[n] = round[n][k].term
             /\ vstate' = [vstate EXCEPT ![n] = "leader"]
             /\ leaderId' = [leaderId EXCEPT ![n] = n]
             /\ hbeat' = [hbeat EXCEPT ![n] = "max"]
             /\ elected' = elected \cup {<<term[n], n>>}
             /\ term' = term /\ votedFor' = votedFor
      BY <1>3, Zenon DEF UpdateVoteState, marks
    <2>2. CASE UNCHANGED marks
      BY <2>2, MarksKept, Zenon
    <2>3. CASE /\ \E t : term' = [term EXCEPT ![n] = t]
               /\ votedFor' = [votedFor EXCEPT ![n] = Nil]
               /\ vstate' = [vstate EXCEPT ![n] = "follower"]
               /\ leaderId' = leaderId /\ hbeat' = hbeat /\ elected' = elected
      BY <2>3, MarksLost, Zenon
    <2>4. CASE /\ vstate' = [vstate EXCEPT ![n] = "follower"]
               /\ term' = term /\ votedFor' = votedFor
               /\ leaderId' = leaderId /\ hbeat' = hbeat /\ elected' = elected
      BY <2>4, MarksLost, Zenon
    <2>5. CASE /\ round[n][k].stage = "update_lock" /\ term[n] = round[n][k].term
               /\ vstate' = [vstate EXCEPT ![n] = "leader"]
               /\ leaderId' = [leaderId EXCEPT ![n] = n]
               /\ hbeat' = [hbeat EXCEPT ![n] = "max"]
               /\ elected' = elected \cup {<<term[n], n>>}
               /\ term' = term /\ votedFor' = votedFor
      <3>1. votedFor'[n] = n
        BY <2>5, VotedForItself, Zenon
      <3>2. <<term'[n], n>> \in elected' /\ elected \subseteq elected'
        BY <2>5, Zenon
      <3>3. leaderId'[n] = n /\ hbeat'[n] = "max"
        BY <2>5, Zenon DEF TypeOK
      <3>4. \A i \in Node \ {n} : /\ vstate'[i] = vstate[i] /\ leaderId'[i] = leaderId[i]
                                  /\ hbeat'[i] = hbeat[i]
        BY <2>5, Zenon DEF TypeOK
      <3>5. Marked(n)'
        BY <3>1, <3>2, <3>3, Zenon DEF Marked
      <3> QED  BY <2>5, <3>2, <3>4, <3>5, MarksOf, Zenon
    <2> QED  BY <2>1, <2>2, <2>3, <2>4, <2>5, Zenon
  <1>4. ASSUME NEW m \in msgs, DecideVote(m) PROVE LeaderOfItsTerm'
    BY <1>4, LeaderDecides, Zenon
  <1>5. ASSUME NEW m \in msgs, AppendEntries(m) PROVE LeaderOfItsTerm'
    <2>1. m.to \in Node
      BY MessageFields, Zenon
    <2>2. CASE UNCHANGED <<term, votedFor, vstate, leaderId, hbeat>>
      BY <1>5, <2>2, MarksKept, Zenon DEF AppendEntries, marks
    <2>3. CASE /\ vstate' = [vstate EXCEPT ![m.to] = "follower"]
               /\ hbeat' = [hbeat EXCEPT ![m.to] = "recent"]
               /\ leaderId' = [leaderId EXCEPT ![m.to] = m.from]
               /\ term' = [term EXCEPT ![m.to] = m.term]
               /\ \E v : votedFor' = [votedFor EXCEPT ![m.to] = v]
      <3>1. elected' = elected
        BY <1>5, Zenon DEF AppendEntries
      <3> QED  BY <2>1, <2>3, <3>1, MarksLost, Zenon
    <2> QED  BY <1>5, <2>2, <2>3, Zenon DEF AppendEntries
  <1>6. ASSUME NEW m \in msgs, StepDownToTerm(m) PROVE LeaderOfItsTerm'
    <2>1. m.to \in Node /\ elected' = elected /\ leaderId' = leaderId
      BY <1>6, MessageFields, Zenon DEF StepDownToTerm
    <2>2. CASE UNCHANGED <<term, votedFor, vstate, hbeat>>
      BY <2>1, <2>2, MarksKept, Zenon DEF marks
    <2>3. CASE AdoptTerm(m.to, m.term)
      BY <2>1, <2>3, MarksLost, Zenon DEF AdoptTerm
    <2> QED  BY <1>6, <2>2, <2>3, Zenon DEF StepDownToTerm
  <1>7. ASSUME NEW n \in Node, DoStepDown(n) PROVE LeaderOfItsTerm'
    <2>1. /\ vstate' = [vstate EXCEPT ![n] = "follower"]
          /\ hbeat' = [hbeat EXCEPT ![n] = "recent"]
          /\ leaderId' = [leaderId EXCEPT ![n] = Nil]
          /\ term' = term /\ votedFor' = votedFor /\ elected' = elected
      BY <1>7, Zenon DEF DoStepDown
    <2> QED  BY <2>1, MarksLost, Zenon
  <1>8. ASSUME NEW n \in Node, HbeatExpires(n) PROVE LeaderOfItsTerm'
    <2>1. /\ hbeat[n] = "recent" /\ hbeat' = [hbeat EXCEPT ![n] = "stale"]
          /\ vstate' = vstate /\ term' = term /\ votedFor' = votedFor
          /\ leaderId' = leaderId /\ elected' = elected
      BY <1>8, Zenon DEF HbeatExpires
    <2>2. vstate[n] # "leader"
      BY <2>1, Zenon DEF LeaderOfItsTerm
    <2>3. \A i \in Node \ {n} : hbeat'[i] = hbeat[i]
      BY <2>1, Zenon DEF TypeOK
    <2> QED  BY <2>1, <2>2, <2>3, MarksOf, Zenon
  <1>9. ASSUME NEW n \in Node, Restart(n) PROVE LeaderOfItsTerm'
    <2>1. /\ vstate' = [vstate EXCEPT ![n] = "follower"]
          /\ leaderId' = [leaderId EXCEPT ![n] = Nil]
          /\ hbeat' = [hbeat EXCEPT ![n] = "min"]
          /\ \E t : term' = [term EXCEPT ![n] = t]
          /\ \E v : votedFor' = [votedFor EXCEPT ![n] = v]
          /\ elected' = elected
      BY <1>9, Zenon DEF Restart
    <2> QED  BY <2>1, MarksLost, Zenon
  <1>10. ASSUME NEW n \in Node, NEW k \in Kind,
                \/ PrevoteDone(n, k) \/ VoteDone(n, k)
                \/ \E v \in Node : VoteRpcFails(n, k, v)
         PROVE  LeaderOfItsTerm'
    BY <1>10, MarksKept, Zenon DEF PrevoteDone, VoteDone, VoteRpcFails, marks
  <1>11. ASSUME NEW m \in msgs, RefuseVote(m) \/ TimeoutNow(m) PROVE LeaderOfItsTerm'
    BY <1>11, MarksKept, Zenon DEF RefuseVote, TimeoutNow, marks
  <1>12. ASSUME NEW m \in msgs, TimeoutNowReply(m) PROVE LeaderOfItsTerm'
    BY <1>7, <1>12, MessageFields, Zenon DEF TimeoutNowReply
  <1>13. ASSUME NEW n \in Node,
                \/ VoteTimeout(n) \/ FlushLog(n) \/ BlockNewLeadership(n)
                \/ UnblockNewLeadership(n)
                \/ \E f \in Node : SendAppend(n, f) \/ TransferLeadership(n, f)
         PROVE  LeaderOfItsTerm'
    BY <1>13, MarksKept, Zenon
       DEF VoteTimeout, FlushLog, BlockNewLeadership, UnblockNewLeadership, SendAppend,
           TransferLeadership, marks
  <1>14. ASSUME NEW n \in Node, MaybeStepDown(n) PROVE LeaderOfItsTerm'
    BY <1>7, <1>14, Zenon DEF MaybeStepDown
  <1>15. CASE UNCHANGED vars
    BY <1>15, MarksKept, Zenon DEF vars, marks
  <1> QED
    BY <1>1, <1>2, <1>3, <1>4, <1>5, <1>6, <1>8, <1>9, <1>10, <1>11, <1>12, <1>13,
       <1>14, <1>15, Zenon
       DEF Next, RoundStep, Receive, NodeStep

---------------------------------------------------------------------------
\* The theorems.

\* The types hold initially.
LEMMA InitTypeOK == Init => TypeOK
  <1> SUFFICES ASSUME Init PROVE TypeOK
    BY Zenon
  <1>1. round \in [Node -> [Kind -> Round]]
    BY NoRoundType, Zenon DEF Init
  <1>2. lockq \in [Node -> Seq(Kind)]
    BY DEF Init
  <1>3. log \in [Node -> EntryId] /\ durable \in [Node -> EntryId]
    BY Zenon DEF Init, EntryId
  <1>4. /\ kv \in [Node -> [term : Nat, node : Node \cup {Nil}]]
        /\ target \in [Node -> Nat \ {0}]
    BY BoundAssumption, Zenon DEF Init
  <1> QED  BY <1>1, <1>2, <1>3, <1>4, Zenon DEF Init, TypeOK, Term, Hbeat

\* The invariant holds initially.
LEMMA InitElectionInv == Init => ElectionInv
  <1> SUFFICES ASSUME Init PROVE ElectionInv
    BY Zenon
  <1>1. RecordIsLastVote
    <2>1. /\ votes = {}
          /\ \A n \in Node : term[n] = 0 /\ kv[n].term = 0 /\ kv[n].node = Nil
      BY Zenon DEF Init
    <2>2. \A n \in Node : kv[n].term <= term[n]
      BY <2>1
    <2>3. \A w \in votes : /\ w[2] <= kv[w[1]].term
                          /\ w[2] = kv[w[1]].term => kv[w[1]].node = w[3]
      BY <2>1, Zenon
    <2> QED  BY <2>1, <2>2, <2>3, Zenon DEF RecordIsLastVote
  <1>2. RoundCountsVotes
    BY Zenon DEF Init, RoundCountsVotes, NoRound
  <1>3. MemoryIsPersisted
    BY Zenon DEF Init, MemoryIsPersisted
  <1> QED  BY <1>1, <1>2, <1>3, Zenon DEF Init, ElectionInv, OneVotePerTerm,
                                   RequestsToOthers, ElectedByMajority

\* Every step keeps the invariant.
LEMMA ElectionInvStep ==
    ASSUME TypeOK, ElectionInv, [Next]_vars
    PROVE  ElectionInv'
  <1>1. VoteInv'
    BY VoteStep, Zenon DEF ElectionInv, VoteInv
  <1>2. RoundCountsVotes'
    BY RoundStepCounts, Zenon DEF ElectionInv, VoteInv
  <1>3. RequestsToOthers'
    BY RequestsStep, Zenon DEF ElectionInv
  <1>4. ElectedByMajority'
    BY ElectedStep, Zenon DEF ElectionInv
  <1> QED  BY <1>1, <1>2, <1>3, <1>4, Zenon DEF ElectionInv, VoteInv

\* Two leaders of one term would share a voter, who voted once.
LEMMA LeadersAgree ==
    ASSUME TypeOK, ElectionInv
    PROVE  OneLeaderPerTerm
  <1> SUFFICES ASSUME NEW a \in elected, NEW b \in elected, a[1] = b[1]
               PROVE  a[2] = b[2]
    BY Zenon DEF OneLeaderPerTerm
  <1>1. PICK P \in SUBSET Node :
            IsMajority(P) /\ \A v \in P : <<v, a[1], a[2]>> \in votes
    BY Zenon DEF ElectionInv, ElectedByMajority
  <1>2. PICK Q \in SUBSET Node :
            IsMajority(Q) /\ \A v \in Q : <<v, b[1], b[2]>> \in votes
    BY Zenon DEF ElectionInv, ElectedByMajority
  <1>3. PICK v \in Node : v \in P /\ v \in Q
    BY <1>1, <1>2, MajoritiesMeet, Zenon
  <1>4. <<v, a[1], a[2]>> \in votes /\ <<v, b[1], b[2]>> \in votes
    BY <1>1, <1>2, <1>3, Zenon
  <1> QED  BY <1>4, Zenon DEF ElectionInv, OneVotePerTerm

\* The vote record of a voter is at least of the term of each vote it gave.
LEMMA CountedOnDisk ==
    ASSUME TypeOK, ElectionInv
    PROVE  CountedVotesPersisted
  <1> SUFFICES ASSUME NEW n \in Node, NEW k \in Kind,
                      round[n][k].stage \in {"vote", "update_lock"},
                      NEW v \in round[n][k].ok
               PROVE  /\ <<v, round[n][k].term, n>> \in votes
                      /\ kv[v].term >= round[n][k].term
    BY Zenon DEF CountedVotesPersisted
  <1>1. <<v, round[n][k].term, n>> \in votes
    BY Zenon DEF ElectionInv, RoundCountsVotes
  <1>2. round[n][k].term <= kv[v].term
    BY <1>1, Zenon DEF ElectionInv, RecordIsLastVote
  <1>3. v \in Node /\ kv[v].term \in Nat /\ round[n][k].term \in Nat
    BY RoundFields, NodeFields, Zenon DEF Round, Term
  <1> QED  BY <1>1, <1>2, <1>3, Zenon

\* Every reachable state is well typed: in particular the target priority of a
\* node never drops to zero, the priority that keeps every node from voting.
THEOREM TypeCorrect == Spec => []TypeOK
  BY InitTypeOK, TypeStep, PTL DEF Spec

\* The strengthening that the safety theorems rest on.
THEOREM ElectionInvariant == Spec => []ElectionInv
  BY InitElectionInv, ElectionInvStep, TypeCorrect, PTL DEF Spec

\* do_vote and self_vote: no voter ever persists two different votes of a term.
THEOREM VotesOnce == Spec => []OneVotePerTerm
  <1>1. ElectionInv => OneVotePerTerm
    BY Zenon DEF ElectionInv
  <1> QED  BY <1>1, ElectionInvariant, PTL

\* update_vote_state: no term ever has two leaders.
THEOREM ElectionSafety == Spec => []OneLeaderPerTerm
  BY LeadersAgree, TypeCorrect, ElectionInvariant, PTL

\* vote_stm counts only votes that are on the disk of their voter.
THEOREM CountedVotesOnDisk == Spec => []CountedVotesPersisted
  BY CountedOnDisk, TypeCorrect, ElectionInvariant, PTL

\* No way to another term leaves a node the leader, and in its own term a leader
\* neither gives its vote away nor loses the heartbeat that keeps it from voting.
THEOREM LeadersKeepTheirTerm == Spec => []LeaderOfItsTerm
  <1>1. Init => LeaderOfItsTerm
    BY Zenon DEF Init, LeaderOfItsTerm
  <1> QED  BY <1>1, LeaderStep, TypeCorrect, ElectionInvariant, PTL DEF Spec
=============================================================================
