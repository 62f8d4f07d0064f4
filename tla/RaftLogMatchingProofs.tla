----------------------- MODULE RaftLogMatchingProofs -----------------------
(***************************************************************************)
(* Log matching of RaftReplication, for every set of voters, every bound,    *)
(* every order of delivery and every pattern of crashes.                     *)
(*                                                                         *)
(* RaftReplicationProofs has the invariant and how it fares when logs are    *)
(* cut and spliced.  What remains is that a leader which appends is the only *)
(* one to write in its term, across votes that are on disk and terms that    *)
(* are not: elections come first, then every action.                        *)
(***************************************************************************)
EXTENDS RaftReplicationProofs, FiniteSetTheorems

---------------------------------------------------------------------------
\* The election of a leader.

\* Two majorities of the voters have a voter in common.
LEMMA MajoritiesShare ==
    ASSUME NEW P \in SUBSET Node, NEW Q \in SUBSET Node,
           IsMajority(P), IsMajority(Q)
    PROVE  \E v \in P : v \in Q
  <1>1. /\ Cardinality(Node) \in Nat /\ Cardinality(P) \in Nat
        /\ Cardinality(Q) \in Nat
    BY FS_CardinalityType, FS_Subset, NodeAssumption, Zenon
  <1>2. Cardinality(P) + Cardinality(Q) > Cardinality(Node)
    BY <1>1 DEF IsMajority
  <1>3. P \cap Q # {}
    BY <1>2, FS_MajoritiesIntersect, NodeAssumption, Zenon
  <1> QED
    BY <1>3, Zenon

\* vote_stm::update_vote_state: the new leader's term is settled, and had no
\* entry.
LEMMA LeadVotes ==
    ASSUME TypeOK, VoteInv, NEW n \in Node, BecomeLeader(n)
    PROVE  VoteInv' /\ SettledStays /\ ~Settled(term[n]) /\ Settled(term[n])'
  <1>1. /\ vstate[n] = "candidate" /\ IsMajority(votes[n])
        /\ vstate' = [vstate EXCEPT ![n] = "leader"]
        /\ UNCHANGED <<votes, term, votedFor, kv>>
    BY Zenon DEF BecomeLeader, AppendAndDispatch
  <1>2. /\ vstate \in [Node -> {"follower", "candidate", "leader"}]
        /\ votes[n] \in SUBSET Node
        /\ kv \in [Node -> [term : Nat, node : Node \cup {Nil}]]
        /\ \A v \in Node : kv[v].term \in Nat
    BY NodeFields, Zenon DEF TypeOK, Term
  <1>3. \A d \in Node : /\ vstate'[d] # "follower" <=> vstate[d] # "follower"
                        /\ vstate'[d] = "candidate" => vstate[d] = "candidate" /\ d # n
    BY <1>1, <1>2, Zenon
  <1>4. VoteInv'
    BY <1>1, <1>3, Zenon DEF VoteInv, VoteKept, OwnVote, CountedWritten, CountedOnce
  <1>5. VotesAdvance
    BY <1>1, <1>2, <1>3, SMTT(30) DEF VotesAdvance
  <1>6. SettledStays
    BY <1>1, <1>2, <1>5, AdvanceSettles, Zenon
  <1>7. ~Settled(term[n])
    <2> SUFFICES ASSUME NEW Q \in SUBSET Node, IsMajority(Q),
                        \A v \in Q : v \notin votes[n]
                 PROVE  FALSE
      BY <1>1, Zenon DEF Settled
    <2> QED
      BY <1>1, <1>2, MajoritiesShare, Zenon
  <1>8. Settled(term[n])'
    <2>1. ASSUME NEW v \in votes[n]
          PROVE  /\ kv'[v].term >= term'[n]
                 /\ \A c \in Node : vstate'[c] = "candidate" /\ term'[c] = term'[n]
                                       => v \notin votes'[c]
      BY <1>1, <1>3, Zenon DEF VoteInv, CountedWritten, CountedOnce
    <2> QED
      BY <1>1, <1>2, <2>1, Zenon DEF Settled
  <1> QED
    BY <1>4, <1>6, <1>7, <1>8, Zenon

---------------------------------------------------------------------------
\* The leader appends.

\* The segments after replicate_entries_stm has appended and dispatched: the
\* pieces of the old ones, and one new entry.
LEMMA DispatchSegments ==
    ASSUME TypeOK, AllAgree(Segments), NEW l \in Node, NEW flush \in BOOLEAN,
           AppendAndDispatch(l, flush),
           \A S \in Segments :
              Len(log[l]) + 1 \in DOMAIN S => S[Len(log[l]) + 1] # term[l]
    PROVE  /\ AllAgree(Segments')
           /\ \A S \in Segments' : \A o \in DOMAIN S :
                 \/ \E R \in Segments : o \in DOMAIN R /\ R[o] = S[o]
                 \/ o = Len(log[l]) + 1 /\ S[o] = term[l]
           /\ log' = [log EXCEPT ![l] = Append(log[l], term[l])]
           /\ Len(log'[l]) = Len(log[l]) + 1 /\ LastTerm(log'[l]) = term[l]
           /\ UNCHANGED <<term, votedFor, kv>>
  <1> DEFINE prev == Len(log[l])
             lg == Append(log[l], term[l])
             N == LogSegment(lg)
             X == Segments \cup {N}
             New(f) == NewRequest(l, f, "replicate", fstats[l][f].sent + 1,
                                  prev + 1, prev, <<term[l]>>, commit[l], flush)
  <1>1. /\ log' = [log EXCEPT ![l] = lg]
        /\ \E to \in SUBSET Node : rpcs' = rpcs \cup {New(f) : f \in to}
        /\ UNCHANGED <<term, votedFor, kv>>
    <2>1. /\ log' = [log EXCEPT ![l] = lg] /\ UNCHANGED <<term, votedFor, kv>>
      BY Zenon DEF AppendAndDispatch
    <2>2. \E to \in SUBSET Node : rpcs' = rpcs \cup {New(f) : f \in to}
      BY Zenon DEF AppendAndDispatch
    <2> QED
      BY <2>1, <2>2, Zenon
  <1>2. /\ log[l] \in Seq(Nat) /\ term[l] \in Nat /\ prev \in Nat
        /\ log \in [Node -> Seq(Nat)]
    BY NodeFields, Zenon DEF TypeOK, Term
  <1>3. /\ lg \in Seq(Nat) /\ Len(lg) = prev + 1 /\ lg[prev + 1] = term[l]
        /\ \A o \in 1..prev : lg[o] = log[l][o]
    BY <1>2
  <1>4. /\ log'[l] = lg /\ LastTerm(lg) = term[l]
        /\ \A n \in Node : n # l => log'[n] = log[n]
    <2> HIDE DEF lg, prev
    <2>1. lg # <<>>
      <3>1. Len(lg) # 0 /\ Len(<<>>) = 0
        BY <1>2, <1>3
      <3> QED
        BY <3>1, Zenon
    <2> QED
      BY <1>1, <1>2, <1>3, <2>1, Zenon DEF LastTerm
  <1> HIDE DEF lg
  <1>5. /\ DOMAIN LogSegment(log[l]) = 0..prev /\ LogSegment(log[l])[0] = 0
        /\ \A o \in 1..prev : LogSegment(log[l])[o] = log[l][o]
        /\ LogSegment(log[l]) \in Segments
    BY <1>2, LogSegmentFacts, Zenon DEF Segments
  <1>6. /\ DOMAIN N = 0..prev + 1 /\ N[0] = 0
        /\ \A o \in 1..prev + 1 : N[o] = lg[o]
    BY <1>3, LogSegmentFacts, Zenon
  <1>7. /\ N[prev + 1] = term[l]
        /\ \A o \in 0..prev : N[o] = LogSegment(log[l])[o]
    <2>1. N[prev + 1] = term[l]
      <3>1. prev + 1 \in 1..prev + 1
        BY <1>2, SMTT(30)
      <3> QED
        BY <1>3, <1>6, <3>1, Zenon
    <2>2. ASSUME NEW o \in 0..prev PROVE N[o] = LogSegment(log[l])[o]
      <3>1. CASE o = 0
        BY <1>5, <1>6, <3>1, Zenon
      <3>2. CASE o # 0
        <4>1. o \in 1..prev /\ o \in 1..prev + 1
          BY <1>2, <3>2, SMTT(30)
        <4> QED
          BY <1>3, <1>5, <1>6, <4>1, Zenon
      <3> QED
        BY <3>1, <3>2, Zenon
    <2> QED
      BY <2>1, <2>2, Zenon
  <1>8. \A S \in Segments : IsSegment(S)
    BY SegmentTypes, Zenon
  <1> HIDE DEF N
  <1>9. AllAgree(X)
    <2>1. \A S \in Segments : prev + 1 \in DOMAIN S => S[prev + 1] # N[prev + 1]
      BY <1>7, Zenon
    <2> QED
      BY <1>2, <1>5, <1>6, <1>7, <1>8, <2>1, ExtensionAgrees, ZenonT(40)
  <1>10. \A S \in Segments' : \E R \in X : Within(S, R)
    <2> SUFFICES ASSUME NEW S \in Segments' PROVE \E R \in X : Within(S, R)
      BY Zenon
    <2>1. CASE \E n \in Node : S = LogSegment(log'[n])
      BY <1>4, <2>1, WithinItself, Zenon DEF Segments, N
    <2>2. CASE \E m \in Requests : S = RequestSegment(m)
      BY <2>2, WithinItself, Zenon DEF Segments
    <2>3. ASSUME NEW f \in Node, S = RequestSegment(New(f)) PROVE Within(S, N)
      <3> DEFINE m == New(f)
      <3>1. m \in Request
        <4>1. /\ fstats[l][f].sent + 1 \in Nat /\ prev + 1 \in Nat /\ commit[l] \in Nat
              /\ <<term[l]>> \in Seq(Nat) /\ "replicate" \in Kind
          <5>1. fstats[l][f].sent \in Nat /\ commit[l] \in Nat
            BY NodeFields, IndexFields, Zenon
          <5> QED
            BY <1>2, <5>1, SMTT(30) DEF Kind
        <4> QED
          BY <1>2, <4>1, NewRequestType, Zenon
      <3>2. /\ m.prev = prev /\ m.prevTerm = TermAt(log[l], prev)
            /\ m.entries = <<term[l]>>
        BY Zenon DEF NewRequest
      <3> HIDE DEF m
      <3>3. m.prevTerm = TermAt(lg, m.prev)
        BY <1>2, <1>3, <3>2, SMTT(30) DEF TermAt
      <3>4. Len(m.entries) = 1 /\ m.entries[1] = term[l]
        BY <1>2, <3>2
      <3>5. /\ m.prev + Len(m.entries) <= Len(lg)
            /\ \A i \in 1..Len(m.entries) : m.entries[i] = lg[m.prev + i]
        BY <1>2, <1>3, <3>2, <3>4, SMTT(30)
      <3>6. Within(RequestSegment(m), LogSegment(lg))
        BY <1>3, <3>1, <3>3, <3>5, TakenWithin, Zenon
      <3> QED
        BY <2>3, <3>6, Zenon DEF N, m
    <2>4. \/ \E n \in Node : S = LogSegment(log'[n])
          \/ \E m \in Requests : S = RequestSegment(m)
          \/ \E f \in Node : S = RequestSegment(New(f))
      BY <1>1, Zenon DEF Segments, Requests
    <2> QED
      BY <2>1, <2>2, <2>3, <2>4, Zenon
  <1>11. AllAgree(Segments') /\ \A S \in Segments' : Covered(S, X)
    BY <1>9, <1>10, PiecesAgree, Zenon
  <1>12. ASSUME NEW S \in Segments', NEW o \in DOMAIN S
         PROVE  \/ \E R \in Segments : o \in DOMAIN R /\ R[o] = S[o]
                \/ o = prev + 1 /\ S[o] = term[l]
    <2>1. PICK R \in X : o \in DOMAIN R /\ R[o] = S[o]
      BY <1>11, Zenon DEF Covered
    <2>2. CASE R \in Segments
      BY <2>1, <2>2, Zenon
    <2>3. CASE R = N
      <3>1. o = prev + 1 \/ o \in 0..prev
        BY <1>2, <1>6, <2>1, <2>3, SMTT(30)
      <3> QED
        BY <1>5, <1>7, <2>1, <2>3, <3>1, Zenon
    <2> QED
      BY <2>2, <2>3, Zenon
  <1> QED
    BY <1>1, <1>3, <1>4, <1>11, <1>12, ZenonT(40) DEF lg

\* A leader that appends keeps the invariant: its term is settled, and nobody
\* else writes in it.
LEMMA ReplicateMatches ==
    ASSUME TypeOK, MatchingInv, NEW l \in Node, NEW flush \in BOOLEAN,
           Replicate(l, flush)
    PROVE  MatchingInv'
  <1>1. vstate[l] = "leader" /\ AppendAndDispatch(l, flush)
          /\ UNCHANGED <<vstate, votes>>
    BY Zenon DEF Replicate
  <1>2. /\ log[l] \in Seq(Nat) /\ term[l] \in Nat /\ Len(log[l]) \in Nat
        /\ log \in [Node -> Seq(Nat)]
    BY NodeFields, Zenon DEF TypeOK, Term
  <1>3. term[l] > 0 /\ LastTerm(log[l]) = term[l]
    BY <1>1, Zenon DEF MatchingInv, VoteInv, OwnVote, LeaderInv, LeaderLast
  <1>4. \A S \in Segments :
           Len(log[l]) + 1 \in DOMAIN S => S[Len(log[l]) + 1] # term[l]
    <2> SUFFICES ASSUME NEW S \in Segments, Len(log[l]) + 1 \in DOMAIN S,
                        S[Len(log[l]) + 1] = term[l]
                 PROVE  FALSE
      BY Zenon
    <2>1. Len(log[l]) + 1 <= Len(log[l])
      BY <1>1, Zenon DEF MatchingInv, LeaderInv, LeaderAhead
    <2> QED
      BY <1>2, <2>1, SMTT(30)
  <1>5. /\ AllAgree(Segments')
        /\ \A S \in Segments' : \A o \in DOMAIN S :
              \/ \E R \in Segments : o \in DOMAIN R /\ R[o] = S[o]
              \/ o = Len(log[l]) + 1 /\ S[o] = term[l]
        /\ log' = [log EXCEPT ![l] = Append(log[l], term[l])]
        /\ Len(log'[l]) = Len(log[l]) + 1 /\ LastTerm(log'[l]) = term[l]
        /\ UNCHANGED <<term, votedFor, kv>>
    BY <1>1, <1>4, DispatchSegments, Zenon DEF MatchingInv
  <1>6. \A n \in Node : n # l => log'[n] = log[n]
    BY <1>2, <1>5, ZenonT(40)
  <1>7. VoteInv' /\ \A t : Settled(t)' <=> Settled(t)
    BY <1>1, <1>5, SMTT(30) DEF MatchingInv, VoteInv, VoteKept, OwnVote, CountedWritten,
                      CountedOnce, Settled
  <1>8. Settled(term[l])
    <2>1. /\ Len(log[l]) \in DOMAIN LogSegment(log[l])
          /\ LogSegment(log[l])[Len(log[l])] = term[l]
      <3>1. log[l] # <<>> /\ log[l][Len(log[l])] = term[l]
        BY <1>2, <1>3, SMTT(30) DEF LastTerm
      <3>2. Len(log[l]) \in 1..Len(log[l])
        BY <1>2, <3>1, SMTT(30)
      <3> QED
        BY <1>2, <3>1, <3>2, LogSegmentFacts, SMTT(30)
    <2>2. LogSegment(log[l]) \in Segments
      BY Zenon DEF Segments
    <2> QED
      BY <1>3, <2>1, <2>2, Zenon DEF MatchingInv, EntriesSettled
  <1>9. EntriesSettled'
    <2> SUFFICES ASSUME NEW S \in Segments', NEW o \in DOMAIN S, S[o] > 0
                 PROVE  Settled(S[o])
      BY <1>7, Zenon DEF EntriesSettled
    <2> QED
      BY <1>5, <1>8, Zenon DEF MatchingInv, EntriesSettled
  <1>10. LeaderLast'
    BY <1>1, <1>5, <1>6, Zenon DEF MatchingInv, LeaderInv, LeaderLast
  <1>11. LeaderAhead'
    <2> SUFFICES ASSUME NEW k \in Node, vstate[k] = "leader",
                        NEW S \in Segments', NEW o \in DOMAIN S, S[o] = term[k]
                 PROVE  o <= Len(log'[k])
      BY <1>1, <1>5, Zenon DEF LeaderAhead
    <2>1. CASE \E R \in Segments : o \in DOMAIN R /\ R[o] = S[o]
      <3>1. PICK R \in Segments : o \in DOMAIN R /\ R[o] = S[o]
        BY <2>1, Zenon
      <3>2. o \in Nat
        BY <3>1, SegmentTypes, SegmentValues, Zenon
      <3>3. o <= Len(log[k])
        BY <3>1, Zenon DEF MatchingInv, LeaderInv, LeaderAhead
      <3>4. CASE k = l
        BY <1>2, <1>5, <3>2, <3>3, <3>4, SMTT(30)
      <3>5. CASE k # l
        BY <1>6, <3>3, <3>5, Zenon
      <3> QED
        BY <3>4, <3>5, Zenon
    <2>2. CASE o = Len(log[l]) + 1 /\ S[o] = term[l]
      <3>1. k = l
        BY <1>1, <2>2, Zenon DEF MatchingInv, LeaderInv, LeaderAlone
      <3> QED
        BY <1>2, <1>5, <2>2, <3>1, SMTT(30)
    <2> QED
      BY <1>5, <2>1, <2>2, Zenon
  <1>12. LeaderAlone'
    BY <1>1, <1>5, Zenon DEF MatchingInv, LeaderInv, LeaderAlone
  <1> QED
    BY <1>5, <1>7, <1>9, <1>10, <1>11, <1>12, Zenon DEF MatchingInv, LeaderInv

\* A new leader writes the first entry of its term: had there been one, a
\* majority would count for nobody who still stands in it.
LEMMA LeadMatches ==
    ASSUME TypeOK, MatchingInv, NEW n \in Node, BecomeLeader(n)
    PROVE  MatchingInv'
  <1>1. /\ vstate[n] = "candidate" /\ AppendAndDispatch(n, TRUE)
        /\ vstate' = [vstate EXCEPT ![n] = "leader"]
    BY Zenon DEF BecomeLeader
  <1>2. /\ log[n] \in Seq(Nat) /\ term[n] \in Nat /\ Len(log[n]) \in Nat
        /\ log \in [Node -> Seq(Nat)]
        /\ vstate \in [Node -> {"follower", "candidate", "leader"}]
    BY NodeFields, Zenon DEF TypeOK, Term
  <1>3. term[n] > 0
    BY <1>1, Zenon DEF MatchingInv, VoteInv, OwnVote
  <1>4. VoteInv' /\ SettledStays /\ ~Settled(term[n]) /\ Settled(term[n])'
    BY LeadVotes, Zenon DEF MatchingInv
  <1>5. \A S \in Segments : \A o \in DOMAIN S : S[o] # term[n]
    BY <1>3, <1>4, Zenon DEF MatchingInv, EntriesSettled
  <1>6. /\ AllAgree(Segments')
        /\ \A S \in Segments' : \A o \in DOMAIN S :
              \/ \E R \in Segments : o \in DOMAIN R /\ R[o] = S[o]
              \/ o = Len(log[n]) + 1 /\ S[o] = term[n]
        /\ log' = [log EXCEPT ![n] = Append(log[n], term[n])]
        /\ Len(log'[n]) = Len(log[n]) + 1 /\ LastTerm(log'[n]) = term[n]
        /\ UNCHANGED <<term, votedFor, kv>>
    BY <1>1, <1>5, DispatchSegments, Zenon DEF MatchingInv
  <1>7. \A k \in Node : k # n => log'[k] = log[k] /\ vstate'[k] = vstate[k]
    BY <1>1, <1>2, <1>6, Zenon
  <1>8. EntriesSettled'
    <2> SUFFICES ASSUME NEW S \in Segments', NEW o \in DOMAIN S, S[o] > 0
                 PROVE  Settled(S[o])'
      BY Zenon DEF EntriesSettled
    <2>1. CASE \E R \in Segments : o \in DOMAIN R /\ R[o] = S[o]
      <3>1. PICK R \in Segments : o \in DOMAIN R /\ R[o] = S[o]
        BY <2>1, Zenon
      <3>2. S[o] \in Nat \ {0}
        BY <3>1, SegmentTypes, SegmentValues, SMTT(30)
      <3>3. Settled(S[o])
        BY <3>1, Zenon DEF MatchingInv, EntriesSettled
      <3> QED
        BY <1>4, <3>2, <3>3, Zenon DEF SettledStays
    <2>2. CASE S[o] = term[n]
      BY <1>4, <1>6, <2>2, Zenon
    <2> QED
      BY <1>6, <2>1, <2>2, Zenon
  <1>9. ASSUME NEW k \in Node, k # n, vstate'[k] = "leader"
        PROVE  vstate[k] = "leader" /\ log'[k] = log[k] /\ term[k] # term[n]
    <2>1. vstate[k] = "leader" /\ log'[k] = log[k]
      BY <1>7, <1>9, Zenon
    <2>2. LastTerm(log[k]) = term[k] /\ term[k] > 0 /\ log[k] \in Seq(Nat)
      BY <2>1, NodeFields, Zenon DEF MatchingInv, VoteInv, OwnVote, LeaderInv, LeaderLast
    <2>3. log[k] # <<>> /\ log[k][Len(log[k])] = term[k]
      BY <2>2, SMTT(30) DEF LastTerm
    <2>4. Len(log[k]) \in 1..Len(log[k])
      BY <2>2, <2>3, SMTT(30)
    <2>5. /\ LogSegment(log[k]) \in Segments
          /\ Len(log[k]) \in DOMAIN LogSegment(log[k])
          /\ LogSegment(log[k])[Len(log[k])] = term[k]
      BY <2>2, <2>3, <2>4, LogSegmentFacts, SMTT(30) DEF Segments
    <2> QED
      BY <1>5, <2>1, <2>5, Zenon
  <1>10. LeaderLast'
    BY <1>6, <1>9, Zenon DEF MatchingInv, LeaderInv, LeaderLast
  <1>11. LeaderAhead'
    <2> SUFFICES ASSUME NEW k \in Node, vstate'[k] = "leader",
                        NEW S \in Segments', NEW o \in DOMAIN S, S[o] = term[k]
                 PROVE  o <= Len(log'[k])
      BY <1>6, Zenon DEF LeaderAhead
    <2>1. CASE k = n
      <3>1. o = Len(log[n]) + 1
        BY <1>5, <1>6, <2>1, SMTT(30)
      <3> QED
        BY <1>2, <1>6, <2>1, <3>1, SMTT(30)
    <2>2. CASE k # n
      <3>1. vstate[k] = "leader" /\ log'[k] = log[k] /\ term[k] # term[n]
        BY <1>9, <2>2, Zenon
      <3>2. \E R \in Segments : o \in DOMAIN R /\ R[o] = S[o]
        BY <1>6, <3>1, Zenon
      <3> QED
        BY <3>1, <3>2, Zenon DEF MatchingInv, LeaderInv, LeaderAhead
    <2> QED
      BY <2>1, <2>2, Zenon
  <1>12. LeaderAlone'
    BY <1>6, <1>9, Zenon DEF MatchingInv, LeaderInv, LeaderAlone
  <1> QED
    BY <1>4, <1>6, <1>8, <1>10, <1>11, <1>12, Zenon DEF MatchingInv, LeaderInv

---------------------------------------------------------------------------
\* The other steps.

\* Replies are not requests.
LEMMA RepliesOnly ==
    ASSUME NEW X, X \subseteq Reply, rpcs' \subseteq rpcs \cup X
    PROVE  Requests' \subseteq Requests
  <1>1. \A m \in X : m.type # "request"
    BY ReplyFields, Zenon
  <1> QED
    BY <1>1, Zenon DEF Requests

\* Votes and leaders when a step leaves them alone.
LEMMA VotesSame ==
    ASSUME TypeOK, VoteInv, UNCHANGED <<term, election>>
    PROVE  VoteInv' /\ SettledStays
  BY Zenon DEF election, VoteInv, VoteKept, OwnVote, CountedWritten, CountedOnce,
         SettledStays, Settled

\* A step that leaves votes and logs alone and sends nothing.
LEMMA QuietMatches ==
    ASSUME TypeOK, MatchingInv, UNCHANGED <<term, election, log>>,
           Requests' \subseteq Requests
    PROVE  MatchingInv'
  <1>1. VoteInv' /\ SettledStays
    BY VotesSame, Zenon DEF MatchingInv
  <1>2. LeadersStay
    BY Zenon DEF LeadersStay, election
  <1>3. \A S \in Segments' : \E R \in Segments : Within(S, R)
    BY NothingSent, Zenon
  <1> QED
    BY <1>1, <1>2, <1>3, PiecesStep, Zenon

\* A step that sends a piece of a log.
LEMMA SendMatches ==
    ASSUME TypeOK, MatchingInv, UNCHANGED <<term, election, log>>,
           NEW l \in Node, NEW m \in Request, rpcs' = rpcs \cup {m},
           Within(RequestSegment(m), LogSegment(log[l]))
    PROVE  MatchingInv'
  <1>1. VoteInv' /\ SettledStays
    BY VotesSame, Zenon DEF MatchingInv
  <1>2. LeadersStay
    BY Zenon DEF LeadersStay, election
  <1>3. \A q \in Requests' : \E R \in Segments : Within(RequestSegment(q), R)
    <2> SUFFICES ASSUME NEW q \in Requests'
                 PROVE  \E R \in Segments : Within(RequestSegment(q), R)
      BY Zenon
    <2>1. CASE q \in Requests
      BY <2>1, WithinItself, Zenon DEF Segments
    <2>2. CASE q = m
      BY <2>2, Zenon DEF Segments
    <2> QED
      BY <2>1, <2>2, Zenon DEF Requests
  <1>4. \A S \in Segments' : \E R \in Segments : Within(S, R)
    BY <1>3, SamePieces, Zenon
  <1> QED
    BY <1>1, <1>2, <1>4, PiecesStep, Zenon

\* heartbeat_manager sends no entries.
LEMMA HeartbeatMatches ==
    ASSUME TypeOK, MatchingInv, NEW l \in Node, NEW f \in Node, Heartbeat(l, f)
    PROVE  MatchingInv'
  <1> DEFINE end == Len(log[l])
             seq == fstats[l][f].sent + 1
             m == NewRequest(l, f, "heartbeat", seq, end, end, <<>>, commit[l], FALSE)
  <1>1. rpcs' = rpcs \cup {m} /\ UNCHANGED <<term, election, log>>
    BY Zenon DEF Heartbeat, storage
  <1>2. log[l] \in Seq(Nat) /\ end \in Nat /\ commit[l] \in Nat /\ seq \in Nat
    <2>1. fstats[l][f].sent \in Nat
      BY NodeFields, IndexFields, Zenon
    <2> QED
      BY <2>1, NodeFields, SMTT(30)
  <1>3. <<>> \in Seq(Nat) /\ "heartbeat" \in Kind
    BY DEF Kind
  <1>4. m \in Request
    BY <1>2, <1>3, NewRequestType, Zenon
  <1>5. m.prev = end /\ m.prevTerm = TermAt(log[l], end) /\ m.entries = <<>>
    BY Zenon DEF NewRequest
  <1> HIDE DEF m
  <1>6. /\ m.prev + Len(m.entries) <= Len(log[l])
        /\ \A i \in 1..Len(m.entries) : m.entries[i] = log[l][m.prev + i]
    BY <1>2, <1>5, SMTT(30)
  <1>7. Within(RequestSegment(m), LogSegment(log[l]))
    BY <1>2, <1>4, <1>5, <1>6, TakenWithin, Zenon
  <1> QED
    BY <1>1, <1>4, <1>7, SendMatches, Zenon

\* recovery_stm sends what it read from the log.
LEMMA RecoveryMatches ==
    ASSUME TypeOK, MatchingInv, NEW l \in Node, NEW f \in Node,
           NEW last \in 1..MaxLog, NEW flush \in BOOLEAN,
           SendRecovery(l, f, last, flush)
    PROVE  MatchingInv'
  <1> DEFINE idx == fstats[l][f]
             entries == SubSeq(log[l], idx.base, last)
             m == NewRequest(l, f, "recovery", idx.sent + 1, Len(log[l]),
                             idx.base - 1, entries, Least(last, idx.committed), flush)
  <1>1. /\ rpcs' = rpcs \cup {m} /\ UNCHANGED <<term, election, log>>
        /\ idx.base > 0 /\ last \in idx.base..Len(log[l])
    BY Zenon DEF SendRecovery, storage
  <1>2. /\ log[l] \in Seq(Nat) /\ Len(log[l]) \in Nat
        /\ idx.base \in Nat /\ idx.sent \in Nat /\ idx.committed \in Nat
    BY NodeFields, IndexFields, Zenon
  <1> HIDE DEF idx
  <1>3. /\ last \in Nat /\ idx.sent + 1 \in Nat /\ idx.base - 1 \in Nat
        /\ idx.base <= last /\ last <= Len(log[l])
    BY <1>1, <1>2, SMTT(30)
  <1>4. /\ entries \in Seq(Nat) /\ "recovery" \in Kind
        /\ Least(last, idx.committed) \in Nat
    BY <1>1, <1>2, <1>3, SubSeqType, LeastFacts, ZenonT(40) DEF Kind
  <1>5. /\ Len(entries) = last - idx.base + 1
        /\ \A i \in 1..last - idx.base + 1 : entries[i] = log[l][idx.base + i - 1]
    <2>1. \A lg \in Seq(Nat), a, b \in Nat :
             a > 0 /\ a <= b /\ b <= Len(lg) =>
                /\ Len(SubSeq(lg, a, b)) = b - a + 1
                /\ \A i \in 1..b - a + 1 : SubSeq(lg, a, b)[i] = lg[a + i - 1]
      OBVIOUS
    <2> QED
      BY <1>1, <1>2, <1>3, <2>1, ZenonT(40)
  <1> HIDE DEF entries
  <1>6. m \in Request
    BY <1>2, <1>3, <1>4, NewRequestType, Zenon
  <1>7. /\ m.prev = idx.base - 1 /\ m.prevTerm = TermAt(log[l], idx.base - 1)
        /\ m.entries = entries
    BY Zenon DEF NewRequest
  <1> HIDE DEF m
  <1>8. /\ m.prev + Len(m.entries) <= Len(log[l])
        /\ \A i \in 1..Len(m.entries) : m.entries[i] = log[l][m.prev + i]
    <2>1. m.prev + Len(m.entries) <= Len(log[l])
      BY <1>2, <1>3, <1>5, <1>7, SMTT(30)
    <2>2. ASSUME NEW i \in 1..Len(m.entries)
          PROVE  m.entries[i] = log[l][m.prev + i]
      <3>1. i \in 1..last - idx.base + 1 /\ idx.base + i - 1 = m.prev + i
        BY <1>2, <1>3, <1>5, <1>7, SMTT(30)
      <3> QED
        BY <1>5, <1>7, <3>1, Zenon
    <2> QED
      BY <2>1, <2>2, Zenon
  <1>9. Within(RequestSegment(m), LogSegment(log[l]))
    BY <1>2, <1>6, <1>7, <1>8, TakenWithin, Zenon
  <1> QED
    BY <1>1, <1>6, <1>9, SendMatches, Zenon

\* Elections write no entry.
LEMMA ElectionMatches ==
    ASSUME TypeOK, MatchingInv,
           \/ \E n \in Node : StandForElection(n) \/ StepDown(n)
           \/ \E c, v \in Node : Vote(c, v)
    PROVE  MatchingInv'
  <1>1. vstate \in [Node -> {"follower", "candidate", "leader"}]
        /\ term \in [Node -> Nat]
    BY Zenon DEF TypeOK, Term
  <1>2. /\ VoteInv' /\ SettledStays /\ log' = log /\ rpcs' = rpcs
        /\ \A l \in Node : vstate'[l] = "leader" =>
              vstate[l] = "leader" /\ term'[l] = term[l]
    <2>1. ASSUME NEW n \in Node, StandForElection(n)
          PROVE  /\ VoteInv' /\ SettledStays /\ log' = log /\ rpcs' = rpcs
                 /\ \A l \in Node : vstate'[l] = "leader" =>
                       vstate[l] = "leader" /\ term'[l] = term[l]
      <3>1. VoteInv' /\ SettledStays
        BY <2>1, StandVotes, Zenon DEF MatchingInv
      <3>2. /\ log' = log /\ rpcs' = rpcs
            /\ vstate' = [vstate EXCEPT ![n] = "candidate"]
            /\ term' = [term EXCEPT ![n] = term[n] + 1]
        BY <2>1, Zenon DEF StandForElection, storage
      <3> QED
        BY <1>1, <3>1, <3>2, Zenon
    <2>2. ASSUME NEW n \in Node, StepDown(n)
          PROVE  /\ VoteInv' /\ SettledStays /\ log' = log /\ rpcs' = rpcs
                 /\ \A l \in Node : vstate'[l] = "leader" =>
                       vstate[l] = "leader" /\ term'[l] = term[l]
      <3>1. /\ log' = log /\ rpcs' = rpcs /\ kv' = kv
            /\ vstate' = [vstate EXCEPT ![n] = "follower"]
            /\ term' = term /\ votedFor' = votedFor
            /\ votes' = [votes EXCEPT ![n] = {}]
        BY <2>2, Zenon DEF StepDown, storage
      <3>2. Follows(n)
        <4>1. /\ term' = [term EXCEPT ![n] = term[n]]
              /\ votedFor' = [votedFor EXCEPT ![n] = votedFor[n]]
              /\ term[n] \in Nat /\ votedFor[n] \in Node \cup {Nil}
          BY <3>1, Zenon DEF TypeOK, Term
        <4>2. /\ term[n] >= kv[n].term
              /\ term[n] = kv[n].term => votedFor[n] = kv[n].node
          BY NodeFields, Zenon DEF MatchingInv, VoteInv, VoteKept
        <4> QED
          BY <3>1, <4>1, <4>2, ZenonT(40) DEF Follows
      <3>3. VoteInv' /\ SettledStays
        BY <3>2, FollowsVotes, Zenon DEF MatchingInv
      <3> QED
        BY <1>1, <3>1, <3>3, Zenon
    <2>3. ASSUME NEW c \in Node, NEW v \in Node, Vote(c, v)
          PROVE  /\ VoteInv' /\ SettledStays /\ log' = log /\ rpcs' = rpcs
                 /\ \A l \in Node : vstate'[l] = "leader" =>
                       vstate[l] = "leader" /\ term'[l] = term[l]
      <3>1. VoteInv' /\ SettledStays
        BY <2>3, VoteVotes, Zenon DEF MatchingInv
      <3>2. /\ log' = log /\ rpcs' = rpcs /\ term[c] >= term[v]
            /\ vstate' = [vstate EXCEPT ![v] = IF term[c] > term[v] THEN "follower"
                                                                   ELSE vstate[v]]
            /\ term' = [term EXCEPT ![v] = term[c]]
        BY <2>3, Zenon DEF Vote, storage
      <3> QED
        BY <1>1, <3>1, <3>2, SMTT(30)
    <2> QED
      BY <2>1, <2>2, <2>3, Zenon
  <1>3. \A S \in Segments' : \E R \in Segments : Within(S, R)
    <2>1. Requests' \subseteq Requests
      BY <1>2, Zenon DEF Requests
    <2> QED
      BY <1>2, <2>1, NothingSent, Zenon
  <1>4. LeadersStay
    BY <1>2, Zenon DEF LeadersStay
  <1> QED
    BY <1>2, <1>3, <1>4, PiecesStep, ZenonT(40)

\* process_append_entries_reply may make the leader step down.
LEMMA ReplyMatches ==
    ASSUME TypeOK, MatchingInv, NEW m \in rpcs, NEW mayRecover \in BOOLEAN,
           ProcessReply(m, mayRecover)
    PROVE  MatchingInv'
  <1>1. m \in Reply /\ m.to \in Node /\ m.term \in Nat
    BY RpcKinds, ReplyFields, Zenon DEF ProcessReply
  <1>2. /\ log' = log /\ kv' = kv /\ rpcs' = rpcs \ {m}
        /\ \/ UNCHANGED <<term, votedFor, vstate, votes>>
           \/ /\ m.term > term[m.to]
              /\ term' = [term EXCEPT ![m.to] = m.term]
              /\ votedFor' = [votedFor EXCEPT ![m.to] = Nil]
              /\ vstate' = [vstate EXCEPT ![m.to] = "follower"]
              /\ votes' = [votes EXCEPT ![m.to] = {}]
    BY Zenon DEF ProcessReply, storage
  <1>3. Requests' \subseteq Requests
    BY <1>2, Zenon DEF Requests
  <1>4. CASE UNCHANGED <<term, votedFor, vstate, votes>>
    BY <1>2, <1>3, <1>4, QuietMatches, ZenonT(40) DEF election
  <1>5. CASE /\ m.term > term[m.to]
             /\ term' = [term EXCEPT ![m.to] = m.term]
             /\ votedFor' = [votedFor EXCEPT ![m.to] = Nil]
             /\ vstate' = [vstate EXCEPT ![m.to] = "follower"]
             /\ votes' = [votes EXCEPT ![m.to] = {}]
    <2>1. Follows(m.to)
      <3>1. m.term >= kv[m.to].term /\ m.term # kv[m.to].term
        <4>1. kv[m.to].term <= term[m.to]
          BY <1>1, Zenon DEF MatchingInv, VoteInv, VoteKept
        <4>2. kv[m.to].term \in Nat /\ term[m.to] \in Nat
          BY <1>1, NodeFields, Zenon
        <4> QED
          BY <1>1, <1>5, <4>1, <4>2, SMTT(30)
      <3> QED
        BY <1>1, <1>2, <1>5, <3>1, ZenonT(40) DEF Follows
    <2>2. VoteInv' /\ SettledStays
      BY <1>1, <2>1, FollowsVotes, ZenonT(40) DEF MatchingInv
    <2>3. LeadersStay
      BY <1>1, <1>2, <1>5, ZenonT(40) DEF LeadersStay, TypeOK
    <2>4. \A S \in Segments' : \E R \in Segments : Within(S, R)
      BY <1>2, <1>3, NothingSent, Zenon
    <2> QED
      BY <2>2, <2>3, <2>4, PiecesStep, ZenonT(40)
  <1> QED
    BY <1>2, <1>4, <1>5, Zenon

\* A crash keeps a prefix of the log, the vote on disk, and requests on their way.
LEMMA RestartMatches ==
    ASSUME TypeOK, CommittedIsFlushed, MatchingInv, NEW n \in Node, Restart(n)
    PROVE  MatchingInv'
  <1>1. PICK end \in flushed[n]..Len(log[n]) :
           /\ log' = [log EXCEPT ![n] = SubSeq(log[n], 1, end)]
           /\ \/ /\ LastTerm(SubSeq(log[n], 1, end)) > kv[n].term
                 /\ term' = [term EXCEPT ![n] = LastTerm(SubSeq(log[n], 1, end))]
                 /\ votedFor' = [votedFor EXCEPT ![n] = Nil]
              \/ /\ term' = [term EXCEPT ![n] = kv[n].term]
                 /\ votedFor' = [votedFor EXCEPT ![n] = kv[n].node]
    BY Zenon DEF Restart
  <1>2. /\ vstate' = [vstate EXCEPT ![n] = "follower"]
        /\ votes' = [votes EXCEPT ![n] = {}] /\ kv' = kv
        /\ rpcs' \subseteq rpcs \cup {[m EXCEPT !.open = FALSE] : m \in Requests}
    BY DEF Restart
  <1>3. /\ log[n] \in Seq(Nat) /\ Len(log[n]) \in Nat /\ flushed[n] \in Nat
        /\ kv[n].term \in Nat /\ kv[n].node \in Node \cup {Nil}
        /\ log \in [Node -> Seq(Nat)]
        /\ vstate \in [Node -> {"follower", "candidate", "leader"}]
    BY NodeFields, Zenon DEF TypeOK, Term
  <1>4. end \in 0..Len(log[n])
    BY <1>3
  <1> DEFINE kept == SubSeq(log[n], 1, end)
  <1>5. kept \in Seq(Nat) /\ LastTerm(kept) \in Nat
    <2>1. kept \in Seq(Nat)
      BY <1>3, <1>4, SubSeqType, SMTT(30)
    <2> QED
      BY <2>1, LastTermType, Zenon
  <1>6. Within(LogSegment(kept), LogSegment(log[n]))
    BY <1>3, <1>4, PrefixWithin, Zenon
  <1> HIDE DEF kept
  <1>7. Follows(n)
    <2>1. CASE /\ LastTerm(kept) > kv[n].term
               /\ term' = [term EXCEPT ![n] = LastTerm(kept)]
               /\ votedFor' = [votedFor EXCEPT ![n] = Nil]
      <3>1. LastTerm(kept) >= kv[n].term /\ LastTerm(kept) # kv[n].term
        BY <1>3, <1>5, <2>1, SMTT(30)
      <3> QED
        BY <1>2, <1>5, <2>1, <3>1, ZenonT(40) DEF Follows
    <2>2. CASE /\ term' = [term EXCEPT ![n] = kv[n].term]
               /\ votedFor' = [votedFor EXCEPT ![n] = kv[n].node]
      <3>1. kv[n].term >= kv[n].term
        BY <1>3, SMTT(30)
      <3> QED
        BY <1>2, <1>3, <2>2, <3>1, ZenonT(40) DEF Follows
    <2> QED
      BY <1>1, <2>1, <2>2, ZenonT(40) DEF kept
  <1>8. VoteInv' /\ SettledStays
    BY <1>7, FollowsVotes, ZenonT(40) DEF MatchingInv
  <1>9. \A k \in Node : k # n => log'[k] = log[k] /\ vstate'[k] = vstate[k]
                                   /\ term'[k] = term[k]
    BY <1>1, <1>2, <1>3, SMTT(30) DEF TypeOK
  <1>10. log'[n] = kept /\ vstate'[n] = "follower"
    BY <1>1, <1>2, <1>3, Zenon DEF kept
  <1>11. LeadersStay
    BY <1>9, <1>10, Zenon DEF LeadersStay
  <1>12. \A S \in Segments' : \E R \in Segments : Within(S, R)
    <2> SUFFICES ASSUME NEW S \in Segments' PROVE \E R \in Segments : Within(S, R)
      BY Zenon
    <2>1. CASE \E k \in Node : S = LogSegment(log'[k])
      <3>1. PICK k \in Node : S = LogSegment(log'[k])
        BY <2>1, Zenon
      <3>2. LogSegment(log[k]) \in Segments
        BY Zenon DEF Segments
      <3>3. Within(S, LogSegment(log[k]))
        BY <1>6, <1>9, <1>10, <3>1, WithinItself, ZenonT(40)
      <3> QED
        BY <3>2, <3>3, Zenon
    <2>2. ASSUME NEW m \in Requests, S = RequestSegment(m)
          PROVE  \E R \in Segments : Within(S, R)
      BY <2>2, WithinItself, Zenon DEF Segments
    <2>3. ASSUME NEW m \in Requests, S = RequestSegment([m EXCEPT !.open = FALSE])
          PROVE  \E R \in Segments : Within(S, R)
      <3>1. m \in Request
        BY RpcKinds, Zenon DEF Requests
      <3>2. S = RequestSegment(m)
        BY <2>3, <3>1, ClosedSegment, Zenon
      <3> QED
        BY <2>2, <3>2, Zenon
    <2>4. \/ \E k \in Node : S = LogSegment(log'[k])
          \/ \E m \in Requests' : S = RequestSegment(m)
      BY Zenon DEF Segments
    <2>5. \A m \in Requests' :
             m \in Requests \/ \E q \in Requests : m = [q EXCEPT !.open = FALSE]
      BY <1>2, Zenon DEF Requests
    <2> QED
      BY <2>1, <2>2, <2>3, <2>4, <2>5, ZenonT(40)
  <1> QED
    BY <1>8, <1>11, <1>12, PiecesStep, Zenon

\* Flushes, commits and recovery fibers touch neither votes nor logs, and RPCs
\* that fail bring no new request.
LEMMA RestMatches ==
    ASSUME TypeOK, MatchingInv,
           \/ \E n \in Node : FlushLog(n)
           \/ \E n \in Node : \E o \in flushing[n] : FlushDone(n, o)
           \/ \E l, f \in Node : StartRecoveryRead(l, f) \/ StopRecovery(l, f)
           \/ \E l \in Node : UpdateLeaderCommit(l)
           \/ \E n \in Node : \E w \in waiting[n] : FinishReplicate(n, w)
           \/ \E m \in rpcs : RpcFails(m)
           \/ UNCHANGED vars
    PROVE  MatchingInv'
  <1>1. CASE \/ \E n \in Node : FlushLog(n)
             \/ \E l, f \in Node : StartRecoveryRead(l, f) \/ StopRecovery(l, f)
             \/ \E l \in Node : UpdateLeaderCommit(l)
             \/ \E n \in Node : \E w \in waiting[n] : FinishReplicate(n, w)
             \/ UNCHANGED vars
    <2>1. UNCHANGED <<term, election, log, rpcs>>
      <3>1. ASSUME NEW n \in Node, FlushLog(n)
            PROVE  UNCHANGED <<term, election, log, rpcs>>
        BY <3>1, Zenon DEF FlushLog
      <3>2. ASSUME NEW l \in Node, NEW f \in Node,
                   StartRecoveryRead(l, f) \/ StopRecovery(l, f)
            PROVE  UNCHANGED <<term, election, log, rpcs>>
        BY <3>2, Zenon DEF StartRecoveryRead, StopRecovery, storage
      <3>3. ASSUME NEW l \in Node, UpdateLeaderCommit(l)
            PROVE  UNCHANGED <<term, election, log, rpcs>>
        BY <3>3, Zenon DEF UpdateLeaderCommit, storage
      <3>4. ASSUME NEW n \in Node, NEW w \in waiting[n], FinishReplicate(n, w)
            PROVE  UNCHANGED <<term, election, log, rpcs>>
        BY <3>4, Zenon DEF FinishReplicate, storage
      <3>5. UNCHANGED vars => UNCHANGED <<term, election, log, rpcs>>
        BY Zenon DEF vars, election
      <3> QED
        BY <1>1, <3>1, <3>2, <3>3, <3>4, <3>5, ZenonT(40)
    <2>2. Requests' \subseteq Requests
      BY <2>1, Zenon DEF Requests
    <2> QED
      BY <2>1, <2>2, QuietMatches, Zenon
  <1>2. ASSUME NEW n \in Node, NEW o \in flushing[n], FlushDone(n, o)
        PROVE  MatchingInv'
    <2> DEFINE stable == IF o > Len(log[n]) THEN flushed[n] ELSE Most(o, flushed[n])
    <2>1. /\ UNCHANGED <<term, election, log>>
          /\ rpcs' \subseteq rpcs \cup Propagated(held[n].replies, stable)
      <3>1. UNCHANGED <<term, election, log>>
        BY <1>2, Zenon DEF FlushDone
      <3>2. \/ rpcs' = rpcs \cup Propagated(held[n].replies, stable)
            \/ rpcs' = rpcs
        BY <1>2, Zenon DEF FlushDone
      <3> QED
        BY <3>1, <3>2, Zenon
    <2>2. stable \in Nat /\ held[n].replies \in SUBSET Reply
      <3>1. /\ o \in Nat /\ flushed[n] \in Nat
            /\ held[n].replies \in SUBSET Reply
        BY <1>2, NodeFields, Zenon
      <3> QED
        BY <3>1, MostFacts, Zenon
    <2> HIDE DEF stable
    <2>3. Propagated(held[n].replies, stable) \subseteq Reply
      BY <2>2, PropagatedType, Zenon
    <2>4. Requests' \subseteq Requests
      BY <2>1, <2>3, RepliesOnly, Zenon
    <2> QED
      BY <2>1, <2>4, QuietMatches, Zenon
  <1>3. ASSUME NEW m \in rpcs, RpcFails(m)
        PROVE  MatchingInv'
    <2>1. /\ UNCHANGED <<term, election, log>>
          /\ \/ rpcs' = rpcs \ {m}
             \/ /\ m.type = "request"
                /\ rpcs' = (rpcs \ {m}) \cup {[m EXCEPT !.open = FALSE]}
      BY <1>3, Zenon DEF RpcFails, storage
    <2>2. CASE rpcs' = rpcs \ {m}
      <3>1. Requests' \subseteq Requests
        BY <2>2, Zenon DEF Requests
      <3> QED
        BY <2>1, <3>1, QuietMatches, Zenon
    <2>3. CASE /\ m.type = "request"
               /\ rpcs' = (rpcs \ {m}) \cup {[m EXCEPT !.open = FALSE]}
      <3>1. m \in Request /\ m \in Requests
        BY <2>3, RpcKinds, Zenon DEF Requests
      <3>2. RequestSegment([m EXCEPT !.open = FALSE]) = RequestSegment(m)
        BY <3>1, ClosedSegment, Zenon
      <3>3. \A q \in Requests' : q \in Requests \/ q = [m EXCEPT !.open = FALSE]
        BY <2>3, Zenon DEF Requests
      <3>4. \A q \in Requests : RequestSegment(q) \in Segments
        BY Zenon DEF Segments
      <3>5. \A q \in Requests' : \E R \in Segments : Within(RequestSegment(q), R)
        BY <3>1, <3>2, <3>3, <3>4, WithinItself, ZenonT(40)
      <3>6. \A S \in Segments' : \E R \in Segments : Within(S, R)
        BY <2>1, <3>5, SamePieces, Zenon
      <3>7. VoteInv' /\ SettledStays
        BY <2>1, VotesSame, Zenon DEF MatchingInv
      <3>8. LeadersStay
        BY <2>1, ZenonT(40) DEF LeadersStay, election
      <3> QED
        BY <3>6, <3>7, <3>8, PiecesStep, ZenonT(40)
    <2> QED
      BY <2>1, <2>2, <2>3, Zenon
  <1> QED
    BY <1>1, <1>2, <1>3, Zenon

---------------------------------------------------------------------------
\* Log matching.

\* Every step keeps the invariant.
LEMMA MatchingStep ==
    ASSUME TypeOK, CommittedIsFlushed, MatchingInv, [Next]_vars
    PROVE  MatchingInv'
  <1>1. CASE \/ \E n \in Node : StandForElection(n) \/ StepDown(n)
             \/ \E c, v \in Node : Vote(c, v)
    BY <1>1, ElectionMatches, Zenon
  <1>2. ASSUME NEW n \in Node, BecomeLeader(n) PROVE MatchingInv'
    BY <1>2, LeadMatches, Zenon
  <1>3. ASSUME NEW l \in Node, NEW flush \in Levels, Replicate(l, flush)
        PROVE  MatchingInv'
    BY <1>3, ReplicateMatches, BoundAssumption, Zenon
  <1>4. ASSUME NEW l \in Node, NEW f \in Node, Heartbeat(l, f) PROVE MatchingInv'
    BY <1>4, HeartbeatMatches, Zenon
  <1>5. ASSUME NEW l \in Node, NEW f \in Node, NEW last \in 1..MaxLog,
               NEW flush \in BOOLEAN, SendRecovery(l, f, last, flush)
        PROVE  MatchingInv'
    BY <1>5, RecoveryMatches, Zenon
  <1>6. ASSUME NEW f \in Node, NEW batch \in Batches(f), AppendEntries(f, batch)
        PROVE  MatchingInv'
    <2>1. \E X \in SUBSET Reply : rpcs' \subseteq rpcs \cup X
      <3>1. PICK t \in NodeStates, replies \in SUBSET Reply :
                \/ rpcs' \subseteq rpcs
                \/ rpcs' \subseteq rpcs \cup Propagated(replies, t.flushed)
        BY <1>6, BatchStep, Zenon
      <3>2. Propagated(replies, t.flushed) \in SUBSET Reply
        BY PropagatedType, Zenon DEF NodeStates
      <3> QED
        BY <3>1, <3>2, Zenon
    <2>2. Requests' \subseteq Requests
      BY <2>1, RepliesOnly, Zenon
    <2> QED
      BY <1>6, <2>2, BatchMatches, Zenon
  <1>7. ASSUME NEW m \in rpcs, NEW mayRecover \in BOOLEAN, ProcessReply(m, mayRecover)
        PROVE  MatchingInv'
    BY <1>7, ReplyMatches, Zenon
  <1>8. ASSUME NEW n \in Node, Restart(n) PROVE MatchingInv'
    BY <1>8, RestartMatches, Zenon
  <1>9. CASE \/ \E n \in Node : FlushLog(n)
             \/ \E n \in Node : \E o \in flushing[n] : FlushDone(n, o)
             \/ \E l, f \in Node : StartRecoveryRead(l, f) \/ StopRecovery(l, f)
             \/ \E l \in Node : UpdateLeaderCommit(l)
             \/ \E n \in Node : \E w \in waiting[n] : FinishReplicate(n, w)
             \/ \E m \in rpcs : RpcFails(m)
             \/ UNCHANGED vars
    BY <1>9, RestMatches, Zenon
  <1> QED
    BY <1>1, <1>2, <1>3, <1>4, <1>5, <1>6, <1>7, <1>8, <1>9, SMTT(30) DEF Next

\* The initial states satisfy it.
LEMMA InitMatching == Init => MatchingInv
  <1> SUFFICES ASSUME Init PROVE MatchingInv
    BY Zenon
  <1>1. /\ \A n \in Node : /\ term[n] = 0 /\ votedFor[n] = Nil
                           /\ kv[n] = [term |-> 0, node |-> Nil]
                           /\ vstate[n] = "follower" /\ log[n] = <<>>
        /\ rpcs = {}
    BY Zenon DEF Init
  <1>2. VoteInv /\ LeaderInv
    BY <1>1 DEF VoteInv, VoteKept, OwnVote, CountedWritten, CountedOnce, LeaderInv,
                LeaderLast, LeaderAhead, LeaderAlone
  <1>3. \A S \in Segments : S = LogSegment(<<>>)
    BY <1>1, Zenon DEF Segments, Requests
  <1>4. <<>> \in Seq(Nat) /\ Len(<<>>) = 0
    OBVIOUS
  <1>5. DOMAIN LogSegment(<<>>) = {0} /\ LogSegment(<<>>)[0] = 0
    BY <1>4 DEF LogSegment
  <1> DEFINE E == LogSegment(<<>>)
  <1>6. E \in {LogSegment(<<>>)} /\ \A S \in Segments : S = E
    BY <1>3, Zenon
  <1>7. \A o \in DOMAIN E : o = 0 /\ E[o] = 0
    BY <1>5, Zenon
  <1> HIDE DEF E
  <1>8. EntriesSettled
    BY <1>6, <1>7, SMTT(30) DEF EntriesSettled
  <1>9. Agree(E, E)
    BY <1>7, Zenon DEF Agree
  <1>10. AllAgree(Segments)
    BY <1>6, <1>9, Zenon DEF AllAgree
  <1> QED
    BY <1>2, <1>8, <1>10, Zenon DEF MatchingInv

\* Logs whose segments agree match.
LEMMA AgreeMatches ==
    ASSUME TypeOK, AllAgree(Segments)
    PROVE  LogMatching
  <1> SUFFICES ASSUME NEW m \in Node, NEW n \in Node,
                      NEW o \in 1..Least(Len(log[m]), Len(log[n])),
                      log[m][o] = log[n][o]
               PROVE  SubSeq(log[m], 1, o) = SubSeq(log[n], 1, o)
    BY Zenon DEF LogMatching
  <1> DEFINE A == LogSegment(log[m])
             B == LogSegment(log[n])
  <1>1. /\ log[m] \in Seq(Nat) /\ Len(log[m]) \in Nat
        /\ log[n] \in Seq(Nat) /\ Len(log[n]) \in Nat
    BY NodeFields, Zenon
  <1>2. o \in Nat /\ o > 0 /\ o <= Len(log[m]) /\ o <= Len(log[n])
    BY <1>1, SMTT(30) DEF Least
  <1>3. /\ DOMAIN A = 0..Len(log[m]) /\ \A p \in 1..Len(log[m]) : A[p] = log[m][p]
        /\ DOMAIN B = 0..Len(log[n]) /\ \A p \in 1..Len(log[n]) : B[p] = log[n][p]
    BY <1>1, LogSegmentFacts, Zenon
  <1>4. Agree(A, B)
    BY Zenon DEF AllAgree, Segments
  <1> HIDE DEF A, B
  <1>5. \A p \in 1..o : /\ p \in DOMAIN A \cap DOMAIN B /\ p <= o
                        /\ A[p] = log[m][p] /\ B[p] = log[n][p]
    <2>1. \A p \in 1..o : /\ p \in 1..Len(log[m]) /\ p \in 0..Len(log[m])
                          /\ p \in 1..Len(log[n]) /\ p \in 0..Len(log[n])
                          /\ p <= o
      BY <1>1, <1>2, SMTT(30)
    <2> QED
      BY <2>1, <1>3, Zenon
  <1>6. o \in 1..o
    BY <1>2, SMTT(30)
  <1>7. \A p \in 1..o : log[m][p] = log[n][p]
    BY <1>4, <1>5, <1>6, ZenonT(40) DEF Agree
  <1>8. ASSUME NEW lg \in Seq(Nat), o <= Len(lg)
        PROVE  SubSeq(lg, 1, o) = [p \in 1..o |-> lg[p]]
    BY <1>2, <1>8, SMTT(30)
  <1> QED
    BY <1>1, <1>2, <1>7, <1>8, SMTT(30)

\* The inductive invariant holds with the types and the bound on the commit
\* index.
THEOREM MatchingInvariant ==
    Spec => [](TypeOK /\ CommittedIsFlushed /\ MatchingInv)
  <1>1. TypeOK /\ CommittedIsFlushed /\ MatchingInv /\ [Next]_vars => MatchingInv'
    BY MatchingStep, Zenon
  <1> QED
    BY <1>1, ReplicationInvariant, InitMatching, PTL DEF Spec

\* Two logs that agree on the term of an entry agree on everything before it,
\* for any number of nodes, although do_append_entries compares prev_log_term
\* only, adopts terms it does not write to disk, and cuts off entries that the
\* request brings again: in every order of delivery and with any crashes.
THEOREM LogsMatch == Spec => []LogMatching
  <1>1. TypeOK /\ MatchingInv => LogMatching
    BY AgreeMatches, Zenon DEF MatchingInv
  <1> QED
    BY <1>1, MatchingInvariant, PTL
=============================================================================
