-------------------------- MODULE IdAllocatorProofs --------------------------
(***************************************************************************)
(* No id is handed out twice unless a reset is lost, for any number of nodes, *)
(* terms, entries and failures: the inductive invariant, how requests keep it *)
(* (sync, allocation, reset, and the entries they wait for), and how          *)
(* elections, restarts, snapshots and the replication of entries do.          *)
(***************************************************************************)
EXTENDS IdAllocator, TLAPS

\* The types of the variables.
Stm == [insync : Nat, currId : Nat, currBatch : Nat, state : Nat, legacy : BOOLEAN,
        processed : Nat, nextSnapshot : Nat \cup {NoSnapshot},
        writing : Nat \cup {NoSnapshot}]

Req == [pc : {"idle", "replicate", "wait"}, kind : {"none", "allocate", "reset"},
        legacy : BOOLEAN, value : Nat, offset : Nat]

Types ==
    /\ committed \in Seq(Nat) /\ orphans \subseteq [term : Nat, value : Nat]
    /\ term \in Nat /\ leader \in [Node -> Nat] /\ syncTo \in [Node -> Nat]
    /\ start \in [Node -> Nat] /\ applied \in [Node -> Nat]
    /\ stm \in [Node -> Stm] /\ req \in [Node -> Req]
    /\ given \subseteq Nat /\ twice \subseteq Nat /\ resetLost \in BOOLEAN

\* The value of the last of the first i entries.
ValueAt(i) == IF i = 0 THEN 0 ELSE committed[i]
Last == ValueAt(Len(committed))

\* Every term belongs to one node.
TermOfOne ==
    \A n, m \in Node : n # m =>
        /\ leader[n] > 0 => leader[n] # leader[m] /\ leader[n] # stm[m].insync
        /\ stm[n].insync > 0 => stm[n].insync # stm[m].insync

\* Entries that are written and not committed are of requests that still wait for
\* them, or of requests that are lost.
Pending ==
    \A o \in orphans :
        /\ o.term > 0 /\ o.term <= term
        /\ \A n \in Node :
              /\ o.term = stm[n].insync => /\ req[n].pc = "replicate" /\ o = Entry(n)
                                           /\ syncTo[n] = Len(committed)
              /\ o.term = leader[n] => stm[n].insync = leader[n]

TermsInv ==
    /\ term > 0
    /\ \A n \in Node :
          /\ leader[n] <= term /\ stm[n].insync <= term
          /\ req[n].pc # "idle" => stm[n].insync > 0
          /\ req[n].pc = "wait" => req[n].offset > 0
          /\ leader[n] = term => syncTo[n] = Len(committed)
          /\ syncTo[n] <= Len(committed)
    /\ TermOfOne /\ Pending

\* Snapshots leave an entry behind them, from which the state is known again.
AppliedInv ==
    \A n \in Node :
        /\ applied[n] <= Len(committed)
        /\ start[n] = 0 \/ start[n] < Len(committed)
        /\ stm[n].writing = NoSnapshot \/ stm[n].writing < Len(committed)
        /\ stm[n].nextSnapshot = NoSnapshot \/ stm[n].nextSnapshot <= applied[n]
        /\ applied[n] = 0 => stm[n].state = 0 /\ stm[n].legacy
        /\ applied[n] > start[n] => /\ stm[n].state = committed[applied[n]]
                                    /\ ~stm[n].legacy

\* n goes on in the term of its last sync.
Leads(n) == leader[n] > 0 /\ leader[n] = stm[n].insync

\* How many ids from currId on n may hand out without another write.
Owned(n) ==
    IF req[n].pc = "wait" /\ ~req[n].legacy THEN BatchSize
    ELSE IF req[n].pc = "idle" /\ Leads(n) THEN stm[n].currBatch
    ELSE 0

\* The k ids from id on are not those that another node owns.
Apart(m, id, k) ==
    Owned(m) > 0 /\ k > 0 =>
        stm[m].currId + Owned(m) <= id \/ id + k <= stm[m].currId

\* The k ids from id on are reserved and not handed out.
Unused(id, k) ==
    k > 0 => /\ id + k <= Last
             /\ \A g \in given : g < id \/ g >= id + k

\* The entry of n may still be committed.
Live(n) == req[n].pc = "replicate" /\ Entry(n) \in orphans

\* All of the committed entries are in the log of n, which writes behind them.
Current(n) == leader[n] > 0 /\ Attached(n, stm[n])

\* What n reserves next is behind all that was handed out or is owned by others.
Ahead(n) == Current(n) \/ Live(n)

\* The node m has handed out, or may hand out, ids before id only.
Before(m, id) == Owned(m) > 0 => stm[m].currId + Owned(m) <= id

\* The batch is used up before another is asked for, unless by a reset.
Asked(n) ==
    /\ stm[n].legacy => stm[n].currBatch = 0
    /\ req[n].pc # "idle" =>
          /\ req[n].kind # "reset" \/ req[n].legacy => stm[n].currBatch = 0
          /\ ~req[n].legacy => ~stm[n].legacy

\* An entry that may still be committed reserves the batch from currId on.
Reserves(n) ==
    /\ ~req[n].legacy => req[n].value = stm[n].currId + BatchSize
    /\ req[n].legacy => req[n].value = 1

\* The state that n goes on from.
Known(n, s) ==
    /\ s.state = ValueAt(applied[n]) /\ (s.legacy <=> applied[n] = 0)
    /\ Last <= s.currId + BatchSize
    /\ s.legacy => Last <= 1

\* The batch that n has is the last one that was reserved.
LastBatch(s) ==
    /\ s.currId + s.currBatch <= s.state
    /\ s.currBatch > 0 => Last = s.currId + s.currBatch

Ready(n) ==
    /\ Known(n, stm[n])
    /\ req[n].pc = "idle" => LastBatch(stm[n])
    /\ req[n].pc # "idle" /\ (req[n].kind # "reset" \/ req[n].legacy)
          => stm[n].currId <= stm[n].state
    /\ req[n].pc = "wait" =>
          /\ req[n].offset = Len(committed)
          /\ ~req[n].legacy => Last = stm[n].currId + BatchSize

NodeInv(n) ==
    /\ Asked(n)
    /\ Unused(stm[n].currId, Owned(n))
    /\ Ahead(n) => \A g \in given : g < stm[n].currId
    /\ Live(n) => Reserves(n)
    /\ Current(n) => Ready(n)

PairInv(n, m) ==
    /\ Apart(m, stm[n].currId, Owned(n))
    /\ Ahead(n) => Before(m, stm[n].currId)

\* What is committed never decreases and covers all that was handed out.
LogInv ==
    /\ \A i, j \in 1..Len(committed) : i <= j => committed[i] <= committed[j]
    /\ \A g \in given : g < Last
    /\ \A o \in orphans : o.value >= Last

IdsInv ==
    /\ twice = {} /\ LogInv
    /\ \A n \in Node : NodeInv(n)
    /\ \A n \in Node : \A m \in Node \ {n} : PairInv(n, m)

IdInv == Types /\ TermsInv /\ AppliedInv /\ (resetLost \/ IdsInv)

---------------------------------------------------------------------------
\* Types.

\* The fields of a node.
LEMMA Fields ==
    ASSUME Types, NEW n \in Node
    PROVE  /\ stm[n] \in Stm /\ req[n] \in Req
           /\ stm[n].insync \in Nat /\ stm[n].currId \in Nat /\ stm[n].currBatch \in Nat
           /\ stm[n].state \in Nat /\ stm[n].legacy \in BOOLEAN
           /\ stm[n].processed \in Nat
           /\ stm[n].nextSnapshot \in Nat \cup {NoSnapshot}
           /\ stm[n].writing \in Nat \cup {NoSnapshot}
           /\ req[n].pc \in {"idle", "replicate", "wait"}
           /\ req[n].kind \in {"none", "allocate", "reset"}
           /\ req[n].legacy \in BOOLEAN /\ req[n].value \in Nat /\ req[n].offset \in Nat
           /\ leader[n] \in Nat /\ syncTo[n] \in Nat /\ start[n] \in Nat
           /\ applied[n] \in Nat
  <1>1. stm[n] \in Stm /\ req[n] \in Req
    BY Zenon DEF Types
  <1>2. leader[n] \in Nat /\ syncTo[n] \in Nat /\ start[n] \in Nat /\ applied[n] \in Nat
    BY Zenon DEF Types
  <1> QED
    BY <1>1, <1>2, Zenon DEF Stm, Req

\* The values of the log.
LEMMA Values ==
    ASSUME Types
    PROVE  /\ Len(committed) \in Nat
           /\ \A i \in 0..Len(committed) : ValueAt(i) \in Nat
           /\ Last \in Nat
  <1>1. committed \in Seq(Nat) /\ Len(committed) \in Nat
    BY DEF Types
  <1>2. \A i \in 1..Len(committed) : committed[i] \in Nat
    BY <1>1
  <1> QED
    BY <1>1, <1>2 DEF ValueAt, Last

\* An entry more.
LEMMA AppendValues ==
    ASSUME Types, NEW v \in Nat, committed' = Append(committed, v)
    PROVE  /\ committed' \in Seq(Nat) /\ Len(committed') = Len(committed) + 1
           /\ committed'[Len(committed) + 1] = v /\ Last' = v
           /\ \A i \in 1..Len(committed) : committed'[i] = committed[i]
           /\ \A i \in 0..Len(committed) : ValueAt(i)' = ValueAt(i)
  <1>1. committed \in Seq(Nat) /\ Len(committed) \in Nat
    BY DEF Types
  <1>2. /\ committed' \in Seq(Nat) /\ Len(committed') = Len(committed) + 1
        /\ committed'[Len(committed) + 1] = v
        /\ \A i \in 1..Len(committed) : committed'[i] = committed[i]
    BY <1>1
  <1> QED
    BY <1>1, <1>2 DEF ValueAt, Last

---------------------------------------------------------------------------
\* Requests.

\* What s has to be for n to go on with it as a node without request: its term,
RestsTerm(n, s) ==
    /\ s \in Stm /\ s.insync > 0 /\ s.insync <= term
    /\ \A m \in Node \ {n} : s.insync # stm[m].insync /\ s.insync # leader[m]
    /\ \A o \in orphans : o.term # s.insync /\ o.term # leader[n]

\* what it has applied,
RestsApplied(n, s) ==
    /\ s.writing = NoSnapshot \/ s.writing < Len(committed)
    /\ s.nextSnapshot = NoSnapshot \/ s.nextSnapshot <= applied[n]
    /\ applied[n] = 0 => s.state = 0 /\ s.legacy
    /\ applied[n] > start[n] => s.state = committed[applied[n]] /\ ~s.legacy

\* and its batch.
RestsIds(n, s) ==
    /\ s.legacy => s.currBatch = 0
    /\ Unused(s.currId, s.currBatch)
    /\ \A m \in Node \ {n} :
          /\ Apart(m, s.currId, s.currBatch)
          /\ Ahead(m) /\ s.currBatch > 0 => s.currId + s.currBatch <= stm[m].currId
    /\ leader[n] > 0 /\ Attached(n, s) =>
          /\ \A g \in given : g < s.currId
          /\ \A m \in Node \ {n} : Before(m, s.currId)
          /\ Known(n, s) /\ LastBatch(s)

Rests(n, s) ==
    RestsTerm(n, s) /\ RestsApplied(n, s) /\ (resetLost \/ RestsIds(n, s))

\* What a request leaves alone until it is committed.
others == <<committed, term, leader, syncTo, start, applied, faults>>

\* How a request goes on with it.
Acts(n, s) ==
    \/ s.currBatch > 0 /\ HandOut(n, s)
    \/ /\ s.currBatch = 0 /\ ~s.legacy
       /\ SetState(n, [s EXCEPT !.currId = s.state], "allocate", FALSE, s.state + BatchSize)
    \/ \E id \in Nat :
          /\ id >= s.currId /\ ~s.legacy
          /\ SetState(n, [s EXCEPT !.currId = id], "reset", FALSE, id + BatchSize)
    \/ \E kind \in {"allocate", "reset"} :
          s.legacy /\ SetState(n, s, kind, TRUE, s.state + 1)
    \/ /\ stm' = [stm EXCEPT ![n] = s] /\ req' = [req EXCEPT ![n] = Idle]
       /\ UNCHANGED <<orphans, history>>

\* The state machine and the request of n after such a step, and the entries that
\* are written.
Shape(n, s, d, r) ==
    /\ stm' = [stm EXCEPT ![n] = d] /\ req' = [req EXCEPT ![n] = r]
    /\ d.insync = s.insync /\ d.state = s.state /\ d.legacy = s.legacy
    /\ d.writing = s.writing /\ d.nextSnapshot = s.nextSnapshot
    /\ resetLost' = resetLost
    /\ \/ /\ s.currBatch > 0 /\ r.pc = "idle"
          /\ d.currId = s.currId + 1 /\ d.currBatch = s.currBatch - 1
          /\ given' = given \cup {s.currId} /\ orphans' = orphans
          /\ twice' = IF s.currId \in given THEN twice \cup {s.currId} ELSE twice
       \/ /\ r.pc = "replicate" /\ d.currBatch = s.currBatch
          /\ given' = given /\ twice' = twice
          /\ orphans' = IF Attached(n, s)
                        THEN orphans \cup {[term |-> s.insync, value |-> r.value]}
                        ELSE orphans
          /\ \/ /\ r.kind = "allocate" /\ ~r.legacy /\ ~s.legacy
                /\ s.currBatch = 0 /\ d.currId = s.state
                /\ r.value = s.state + BatchSize
             \/ /\ r.kind = "reset" /\ ~r.legacy /\ ~s.legacy
                /\ d.currId >= s.currId /\ r.value = d.currId + BatchSize
             \/ /\ r.legacy /\ s.legacy /\ d.currId = s.currId
                /\ r.value = s.state + 1
       \/ /\ r.pc = "idle" /\ d.currId = s.currId /\ d.currBatch = s.currBatch
          /\ given' = given /\ twice' = twice /\ orphans' = orphans

\* Every way to go on has this shape.
LEMMA ActShape ==
    ASSUME Types, NEW n \in Node, NEW s \in Stm, Acts(n, s)
    PROVE  \E d \in Stm, r \in Req : Shape(n, s, d, r)
  <1> USE DEF Shape
  <1>0. BatchSize \in Nat /\ Idle \in Req /\ Idle.pc = "idle"
    BY IdAssumption, Zenon DEF Idle, Req
  <1>1. CASE s.currBatch > 0 /\ HandOut(n, s)
    <2> DEFINE d == [s EXCEPT !.currId = @ + 1, !.currBatch = @ - 1]
    <2>0. s.currId \in Nat /\ s.currBatch \in Nat /\ s.currBatch > 0
      BY <1>1, Zenon DEF Stm
    <2>a. s.currBatch - 1 \in Nat /\ s.currId + 1 \in Nat
      BY <2>0
    <2>b. d = [[s EXCEPT !.currId = s.currId + 1] EXCEPT !.currBatch = s.currBatch - 1]
      BY Zenon DEF Stm
    <2>c. d \in Stm
      BY <2>a, <2>b, Zenon DEF Stm
    <2>1. /\ d \in Stm /\ d.insync = s.insync /\ d.state = s.state /\ d.legacy = s.legacy
          /\ d.writing = s.writing /\ d.nextSnapshot = s.nextSnapshot
          /\ d.currId = s.currId + 1 /\ d.currBatch = s.currBatch - 1
      BY <2>c, Zenon DEF Stm
    <2>2. /\ stm' = [stm EXCEPT ![n] = d] /\ req' = [req EXCEPT ![n] = Idle]
          /\ given' = given \cup {s.currId} /\ orphans' = orphans
          /\ twice' = IF s.currId \in given THEN twice \cup {s.currId} ELSE twice
          /\ resetLost' = resetLost
      BY <1>1, Zenon DEF HandOut
    <2> HIDE DEF d
    <2> QED
      BY <1>0, <1>1, <2>1, <2>2, Zenon
  <1>2. ASSUME NEW d \in Stm, NEW kind \in {"allocate", "reset"}, NEW legacy \in BOOLEAN,
               NEW value \in Nat, SetState(n, d, kind, legacy, value)
        PROVE  \E r \in Req :
                  /\ stm' = [stm EXCEPT ![n] = d] /\ req' = [req EXCEPT ![n] = r]
                  /\ r.pc = "replicate" /\ r.kind = kind /\ r.legacy = legacy
                  /\ r.value = value
                  /\ orphans' = IF Attached(n, d)
                                THEN orphans \cup {[term |-> d.insync, value |-> value]}
                                ELSE orphans
                  /\ given' = given /\ twice' = twice /\ resetLost' = resetLost
    <2> DEFINE r == [pc |-> "replicate", kind |-> kind, legacy |-> legacy,
                     value |-> value, offset |-> 0]
    <2>1. /\ r \in Req /\ r.pc = "replicate" /\ r.kind = kind /\ r.legacy = legacy
          /\ r.value = value
      BY Zenon DEF Req
    <2>2. /\ stm' = [stm EXCEPT ![n] = d] /\ req' = [req EXCEPT ![n] = r]
          /\ orphans' = IF Attached(n, d)
                        THEN orphans \cup {[term |-> d.insync, value |-> value]}
                        ELSE orphans
          /\ UNCHANGED history
      BY <1>2, Zenon DEF SetState
    <2>3. given' = given /\ twice' = twice /\ resetLost' = resetLost
      BY <2>2, Zenon DEF history
    <2> HIDE DEF r
    <2> QED
      BY <2>1, <2>2, <2>3, Zenon
  <1>3. ASSUME NEW id \in Nat
        PROVE  LET d == [s EXCEPT !.currId = id]
               IN  /\ d \in Stm /\ d.insync = s.insync /\ d.state = s.state
                   /\ d.legacy = s.legacy /\ d.writing = s.writing
                   /\ d.nextSnapshot = s.nextSnapshot /\ d.currId = id
                   /\ d.currBatch = s.currBatch /\ Attached(n, d) = Attached(n, s)
    BY Zenon DEF Stm, Attached
  <1>4. CASE /\ s.currBatch = 0 /\ ~s.legacy
             /\ SetState(n, [s EXCEPT !.currId = s.state], "allocate", FALSE,
                         s.state + BatchSize)
    <2> DEFINE d == [s EXCEPT !.currId = s.state]
    <2>1. s.state \in Nat /\ s.state + BatchSize \in Nat
      BY <1>0 DEF Stm
    <2>2. /\ d \in Stm /\ d.insync = s.insync /\ d.state = s.state
          /\ d.legacy = s.legacy /\ d.writing = s.writing
          /\ d.nextSnapshot = s.nextSnapshot /\ d.currId = s.state
          /\ d.currBatch = s.currBatch /\ Attached(n, d) = Attached(n, s)
      BY <1>3, <2>1, Zenon
    <2>3. SetState(n, d, "allocate", FALSE, s.state + BatchSize)
      BY <1>4, Zenon
    <2> HIDE DEF d
    <2>4. PICK r \in Req :
             /\ stm' = [stm EXCEPT ![n] = d] /\ req' = [req EXCEPT ![n] = r]
             /\ r.pc = "replicate" /\ r.kind = "allocate" /\ r.legacy = FALSE
             /\ r.value = s.state + BatchSize
             /\ orphans' = IF Attached(n, d)
                           THEN orphans \cup {[term |-> d.insync, value |-> s.state + BatchSize]}
                           ELSE orphans
             /\ given' = given /\ twice' = twice /\ resetLost' = resetLost
      BY <1>2, <2>1, <2>2, <2>3, Zenon
    <2> QED
      BY <1>4, <2>2, <2>4, Zenon
  <1>5. ASSUME NEW id \in Nat, id >= s.currId, ~s.legacy,
               SetState(n, [s EXCEPT !.currId = id], "reset", FALSE, id + BatchSize)
        PROVE  \E d \in Stm, r \in Req :
                  /\ stm' = [stm EXCEPT ![n] = d] /\ req' = [req EXCEPT ![n] = r]
                  /\ d.insync = s.insync /\ d.state = s.state /\ d.legacy = s.legacy
                  /\ d.writing = s.writing /\ d.nextSnapshot = s.nextSnapshot
                  /\ resetLost' = resetLost
                  /\ r.pc = "replicate" /\ d.currBatch = s.currBatch
                  /\ given' = given /\ twice' = twice
                  /\ orphans' = IF Attached(n, s)
                                THEN orphans \cup {[term |-> s.insync, value |-> r.value]}
                                ELSE orphans
                  /\ r.kind = "reset" /\ ~r.legacy
                  /\ d.currId >= s.currId /\ r.value = d.currId + BatchSize
    <2> DEFINE d == [s EXCEPT !.currId = id]
    <2>1. id + BatchSize \in Nat
      BY <1>0
    <2>2. /\ d \in Stm /\ d.insync = s.insync /\ d.state = s.state
          /\ d.legacy = s.legacy /\ d.writing = s.writing
          /\ d.nextSnapshot = s.nextSnapshot /\ d.currId = id
          /\ d.currBatch = s.currBatch /\ Attached(n, d) = Attached(n, s)
      BY <1>3, Zenon
    <2>3. SetState(n, d, "reset", FALSE, id + BatchSize)
      BY <1>5, Zenon
    <2> HIDE DEF d
    <2>4. PICK r \in Req :
             /\ stm' = [stm EXCEPT ![n] = d] /\ req' = [req EXCEPT ![n] = r]
             /\ r.pc = "replicate" /\ r.kind = "reset" /\ r.legacy = FALSE
             /\ r.value = id + BatchSize
             /\ orphans' = IF Attached(n, d)
                           THEN orphans \cup {[term |-> d.insync, value |-> id + BatchSize]}
                           ELSE orphans
             /\ given' = given /\ twice' = twice /\ resetLost' = resetLost
      BY <1>2, <2>1, <2>2, <2>3, Zenon
    <2> QED
      BY <1>5, <2>2, <2>4, Zenon
  <1>6. CASE \E kind \in {"allocate", "reset"} :
                s.legacy /\ SetState(n, s, kind, TRUE, s.state + 1)
    <2>1. s.state + 1 \in Nat
      BY DEF Stm
    <2>2. PICK kind \in {"allocate", "reset"} :
             s.legacy /\ SetState(n, s, kind, TRUE, s.state + 1)
      BY <1>6, Zenon
    <2>4. PICK r \in Req :
             /\ stm' = [stm EXCEPT ![n] = s] /\ req' = [req EXCEPT ![n] = r]
             /\ r.pc = "replicate" /\ r.kind = kind /\ r.legacy = TRUE
             /\ r.value = s.state + 1
             /\ orphans' = IF Attached(n, s)
                           THEN orphans \cup {[term |-> s.insync, value |-> s.state + 1]}
                           ELSE orphans
             /\ given' = given /\ twice' = twice /\ resetLost' = resetLost
      BY <1>2, <2>1, <2>2, Zenon
    <2> QED
      BY <2>2, <2>4, Zenon
  <1>7. CASE /\ stm' = [stm EXCEPT ![n] = s] /\ req' = [req EXCEPT ![n] = Idle]
             /\ UNCHANGED <<orphans, history>>
    <2>1. given' = given /\ twice' = twice /\ resetLost' = resetLost /\ orphans' = orphans
      BY <1>7, Zenon DEF history
    <2> QED
      BY <1>0, <1>7, <2>1, Zenon
  <1> QED
    BY <1>1, <1>4, <1>5, <1>6, <1>7, Zenon DEF Acts

\* What changes at the nodes.
LEMMA ActAt ==
    ASSUME Types, NEW n \in Node, NEW d \in Stm, NEW r \in Req,
           stm' = [stm EXCEPT ![n] = d], req' = [req EXCEPT ![n] = r]
    PROVE  /\ stm' \in [Node -> Stm] /\ req' \in [Node -> Req]
           /\ stm'[n] = d /\ req'[n] = r
           /\ \A m \in Node \ {n} : stm'[m] = stm[m] /\ req'[m] = req[m]
  BY Zenon DEF Types

\* The terms and the applied entries are as they should be after such a step.
LEMMA ActTerms ==
    ASSUME Types, TermsInv, AppliedInv, NEW n \in Node, NEW s,
           RestsTerm(n, s), RestsApplied(n, s), Acts(n, s), UNCHANGED others
    PROVE  Types' /\ TermsInv' /\ AppliedInv'
  <1>0. /\ committed' = committed /\ term' = term /\ leader' = leader /\ syncTo' = syncTo
        /\ start' = start /\ applied' = applied /\ s \in Stm
    BY Zenon DEF others, RestsTerm
  <1>1. PICK d \in Stm, r \in Req : Shape(n, s, d, r)
    BY <1>0, ActShape, Zenon
  <1>2. /\ stm' = [stm EXCEPT ![n] = d] /\ req' = [req EXCEPT ![n] = r]
        /\ d.insync = s.insync /\ d.state = s.state /\ d.legacy = s.legacy
        /\ d.writing = s.writing /\ d.nextSnapshot = s.nextSnapshot
        /\ resetLost' = resetLost
    BY <1>1, Zenon DEF Shape
  <1>3. /\ stm' \in [Node -> Stm] /\ req' \in [Node -> Req]
        /\ stm'[n] = d /\ req'[n] = r
        /\ \A m \in Node \ {n} : stm'[m] = stm[m] /\ req'[m] = req[m]
    BY <1>2, ActAt, Zenon
  <1>4. /\ d.insync \in Nat /\ s.insync \in Nat /\ s.currId \in Nat /\ r.value \in Nat
        /\ r.pc \in {"idle", "replicate", "wait"}
    BY <1>0, Zenon DEF Stm, Req
  <1>5. /\ r.pc # "wait"
        /\ \/ orphans' = orphans
           \/ /\ r.pc = "replicate" /\ Attached(n, s)
              /\ orphans' = orphans \cup {[term |-> s.insync, value |-> r.value]}
    BY <1>1, Zenon DEF Shape
  <1>6. Types'
    <2>1. given \subseteq Nat /\ twice \subseteq Nat /\ resetLost \in BOOLEAN
      BY Zenon DEF Types
    <2>2. given' \in {given, given \cup {s.currId}} /\ twice' \in {twice, twice \cup {s.currId}}
      BY <1>1, Zenon DEF Shape
    <2>3. given' \subseteq Nat /\ twice' \subseteq Nat /\ resetLost' \in BOOLEAN
      BY <1>2, <1>4, <2>1, <2>2, Zenon
    <2>4. orphans' \subseteq [term : Nat, value : Nat]
      BY <1>4, <1>5, SMTT(30) DEF Types
    <2> QED
      BY <1>0, <1>3, <2>3, <2>4, Zenon DEF Types
  <1>7. TermsInv'
    <2>1. s.insync > 0 /\ s.insync <= term
      BY Zenon DEF RestsTerm
    <2>2. \A m \in Node : /\ leader'[m] <= term' /\ stm'[m].insync <= term'
                          /\ req'[m].pc # "idle" => stm'[m].insync > 0
                          /\ req'[m].pc = "wait" => req'[m].offset > 0
                          /\ leader'[m] = term' => syncTo'[m] = Len(committed')
                          /\ syncTo'[m] <= Len(committed')
      BY <1>0, <1>2, <1>3, <1>5, <2>1, Zenon DEF TermsInv
    <2>3. TermOfOne'
      <3>1. ASSUME NEW m \in Node, NEW k \in Node, m # k
            PROVE  /\ leader'[m] > 0 => leader'[m] # leader'[k] /\ leader'[m] # stm'[k].insync
                   /\ stm'[m].insync > 0 => stm'[m].insync # stm'[k].insync
        BY <1>0, <1>2, <1>3, <3>1, <2>1 DEF TermsInv, TermOfOne, RestsTerm
      <3> QED
        BY <3>1, Zenon DEF TermOfOne
    <2>4. Pending'
      <3> SUFFICES ASSUME NEW o \in orphans'
                   PROVE  /\ o.term > 0 /\ o.term <= term'
                          /\ \A m \in Node :
                                /\ o.term = stm'[m].insync =>
                                      /\ req'[m].pc = "replicate" /\ o = Entry(m)'
                                      /\ syncTo'[m] = Len(committed')
                                /\ o.term = leader'[m] => stm'[m].insync = leader'[m]
        BY Zenon DEF Pending
      <3>1. CASE o \in orphans
        <4>1. /\ o.term > 0 /\ o.term <= term /\ o.term # s.insync /\ o.term # leader[n]
          BY <3>1, Zenon DEF TermsInv, Pending, RestsTerm
        <4>2. ASSUME NEW m \in Node \ {n}
              PROVE  /\ o.term = stm'[m].insync =>
                           /\ req'[m].pc = "replicate" /\ o = Entry(m)'
                           /\ syncTo'[m] = Len(committed')
                     /\ o.term = leader'[m] => stm'[m].insync = leader'[m]
          BY <3>1, <1>0, <1>3 DEF TermsInv, Pending, Entry
        <4> QED
          BY <4>1, <4>2, <1>0, <1>2, <1>3, Zenon
      <3>2. CASE o \notin orphans
        <4>1. /\ o = [term |-> s.insync, value |-> r.value] /\ o.term = s.insync
              /\ r.pc = "replicate" /\ leader[n] = s.insync /\ syncTo[n] = Len(committed)
          BY <3>2, <1>5 DEF Attached
        <4>2. \A m \in Node \ {n} : s.insync # stm[m].insync /\ s.insync # leader[m]
          BY Zenon DEF RestsTerm
        <4>3. o = Entry(n)'
          BY <4>1, <1>2, <1>3, Zenon DEF Entry
        <4> QED
          BY <4>1, <4>2, <4>3, <2>1, <1>0, <1>2, <1>3
      <3> QED
        BY <3>1, <3>2, Zenon
    <2> QED
      BY <1>0, <2>2, <2>3, <2>4, Zenon DEF TermsInv
  <1>8. AppliedInv'
    <2> SUFFICES ASSUME NEW m \in Node
                 PROVE  /\ applied[m] <= Len(committed)
                        /\ start[m] = 0 \/ start[m] < Len(committed)
                        /\ stm'[m].writing = NoSnapshot \/ stm'[m].writing < Len(committed)
                        /\ stm'[m].nextSnapshot = NoSnapshot
                           \/ stm'[m].nextSnapshot <= applied[m]
                        /\ applied[m] = 0 => stm'[m].state = 0 /\ stm'[m].legacy
                        /\ applied[m] > start[m] => /\ stm'[m].state = committed[applied[m]]
                                                    /\ ~stm'[m].legacy
      BY <1>0, Zenon DEF AppliedInv, NoSnapshot
    <2>1. CASE m # n
      BY <2>1, <1>3, Zenon DEF AppliedInv
    <2>2. CASE m = n
      <3>1. applied[m] <= Len(committed) /\ (start[m] = 0 \/ start[m] < Len(committed))
        BY Zenon DEF AppliedInv
      <3> QED
        BY <2>2, <3>1, <1>2, <1>3, Zenon DEF RestsApplied
    <2> QED
      BY <2>1, <2>2, Zenon
  <1> QED
    BY <1>6, <1>7, <1>8, Zenon

\* A node that takes no part in a step keeps its request and its ids.
LEMMA Same ==
    ASSUME NEW m \in Node, stm'[m] = stm[m], req'[m] = req[m], leader'[m] = leader[m]
    PROVE  /\ Owned(m)' = Owned(m) /\ Entry(m)' = Entry(m)
           /\ (Asked(m)' <=> Asked(m)) /\ (Reserves(m)' <=> Reserves(m))
  BY Zenon DEF Owned, Leads, Entry, Asked, Reserves

\* It stays ready when the log stays as it is.
LEMMA SameLog ==
    ASSUME NEW m \in Node, stm'[m] = stm[m], req'[m] = req[m], leader'[m] = leader[m],
           syncTo'[m] = syncTo[m], applied'[m] = applied[m], committed' = committed
    PROVE  /\ Last' = Last /\ (Current(m)' <=> Current(m)) /\ (Ready(m)' <=> Ready(m))
  <1>1. Last' = Last /\ ValueAt(applied[m])' = ValueAt(applied[m])
    BY Zenon DEF Last, ValueAt
  <1>2. Current(m)' <=> Current(m)
    BY Zenon DEF Current, Attached
  <1>3. Known(m, stm[m])' <=> Known(m, stm[m])
    BY <1>1, Zenon DEF Known, ValueAt
  <1>4. LastBatch(stm[m])' <=> LastBatch(stm[m])
    BY <1>1, Zenon DEF LastBatch
  <1>5. Ready(m)' <=> Ready(m)
    BY <1>1, <1>3, <1>4, Zenon DEF Ready
  <1> QED
    BY <1>1, <1>2, <1>5, Zenon

\* What n owns is a natural number.
LEMMA OwnedNat ==
    ASSUME Types, NEW n \in Node
    PROVE  Owned(n) \in Nat
  BY Fields, IdAssumption, Zenon DEF Owned

\* No id is reserved or handed out twice by such a step.
LEMMA ActIds ==
    ASSUME Types, TermsInv, AppliedInv, IdsInv, NEW n \in Node, NEW s,
           RestsTerm(n, s), RestsIds(n, s), Acts(n, s), UNCHANGED others, Types'
    PROVE  IdsInv'
  <1>0. /\ committed' = committed /\ term' = term /\ leader' = leader /\ syncTo' = syncTo
        /\ start' = start /\ applied' = applied /\ s \in Stm /\ s.insync > 0
    BY Zenon DEF others, RestsTerm
  <1>1. PICK d \in Stm, r \in Req : Shape(n, s, d, r)
    BY <1>0, ActShape, Zenon
  <1>2. /\ stm' = [stm EXCEPT ![n] = d] /\ req' = [req EXCEPT ![n] = r]
        /\ d.insync = s.insync /\ d.state = s.state /\ d.legacy = s.legacy
    BY <1>1, Zenon DEF Shape
  <1>3. /\ stm'[n] = d /\ req'[n] = r
        /\ \A m \in Node \ {n} : stm'[m] = stm[m] /\ req'[m] = req[m]
    BY <1>2, ActAt, Zenon
  <1>4. /\ s.insync \in Nat /\ s.currId \in Nat /\ s.currBatch \in Nat /\ s.state \in Nat
        /\ d.currId \in Nat /\ d.currBatch \in Nat /\ r.value \in Nat
        /\ r.pc \in {"idle", "replicate", "wait"} /\ s.legacy \in BOOLEAN
        /\ r.legacy \in BOOLEAN /\ leader[n] \in Nat
    BY <1>0, Zenon DEF Stm, Req, Types
  <1>5. BatchSize \in Nat /\ BatchSize > 0 /\ Last \in Nat /\ Last' = Last
        /\ Len(committed) \in Nat
    BY <1>0, IdAssumption, Values DEF Last, ValueAt
  <1> DEFINE top == leader[n] > 0 /\ Attached(n, s)
  <1>6. /\ s.legacy => s.currBatch = 0
        /\ s.currBatch > 0 => /\ s.currId + s.currBatch <= Last
                              /\ \A g \in given : g < s.currId \/ g >= s.currId + s.currBatch
        /\ top => /\ \A g \in given : g < s.currId
                  /\ Known(n, s) /\ LastBatch(s)
    BY Zenon DEF RestsIds, Unused
  <1>7. top => /\ s.state = ValueAt(applied[n]) /\ (s.legacy <=> applied[n] = 0)
               /\ Last <= s.currId + BatchSize /\ (s.legacy => Last <= 1)
               /\ s.currId + s.currBatch <= s.state
               /\ s.currBatch > 0 => Last = s.currId + s.currBatch
    BY <1>6, Zenon DEF Known, LastBatch
  <1>8. top /\ s.legacy => s.state = 0
    BY <1>7, Zenon DEF ValueAt
  \* n goes up.
  <1>9. top => d.currId >= s.currId
    BY <1>1, <1>4, <1>7 DEF Shape
  <1>10. \A m \in Node \ {n} :
            /\ Owned(m)' = Owned(m) /\ Entry(m)' = Entry(m)
            /\ (Asked(m)' <=> Asked(m)) /\ (Reserves(m)' <=> Reserves(m))
            /\ (Current(m)' <=> Current(m)) /\ (Ready(m)' <=> Ready(m))
    BY <1>0, <1>3, Same, SameLog, Zenon
  <1>11. /\ Owned(n)' \in Nat
         /\ Owned(n)' > 0 => /\ r.pc = "idle" /\ s.currBatch > 0 /\ d.currId >= s.currId
                             /\ d.currId + Owned(n)' = s.currId + s.currBatch
    <2>1. Owned(n)' = IF r.pc = "wait" /\ ~r.legacy THEN BatchSize
                      ELSE IF r.pc = "idle" /\ leader[n] > 0 /\ leader[n] = d.insync
                           THEN d.currBatch ELSE 0
      BY <1>0, <1>3, Zenon DEF Owned, Leads
    <2>2. r.pc # "wait"
      BY <1>1, Zenon DEF Shape
    <2>3. r.pc = "idle" /\ d.currBatch > 0 =>
             /\ s.currBatch > 0 /\ d.currId >= s.currId
             /\ d.currId + d.currBatch = s.currId + s.currBatch
      BY <1>1, <1>4 DEF Shape
    <2> QED
      BY <2>1, <2>2, <2>3, <1>4
  <1>12. Current(n)' <=> top
    BY <1>0, <1>2, <1>3, Zenon DEF Current, Attached
  <1>13. Live(n)' => top /\ r.pc = "replicate"
    <2> SUFFICES ASSUME Live(n)'
                 PROVE  top /\ r.pc = "replicate"
      BY Zenon
    <2>1. r.pc = "replicate" /\ [term |-> s.insync, value |-> r.value] \in orphans'
      BY <1>2, <1>3, Zenon DEF Live, Entry
    <2>2. \A o \in orphans : o.term # s.insync
      BY Zenon DEF RestsTerm
    <2>3. orphans' # orphans
      BY <2>1, <2>2
    <2>4. Attached(n, s)
      BY <1>1, <2>3, Zenon DEF Shape
    <2> QED
      BY <2>1, <2>4, <1>0, Zenon DEF Attached
  <1>14. \A m \in Node \ {n} : Live(m)' <=> Live(m)
    <2> SUFFICES ASSUME NEW m \in Node \ {n}
                 PROVE  Live(m)' <=> Live(m)
      BY Zenon
    <2>1. Entry(m).term # s.insync
      BY Zenon DEF RestsTerm, Entry
    <2>2. orphans' = orphans \/ orphans' = orphans \cup {[term |-> s.insync, value |-> r.value]}
      BY <1>1, Zenon DEF Shape
    <2>3. Entry(m) \in orphans' <=> Entry(m) \in orphans
      BY <2>1, <2>2
    <2>4. req'[m] = req[m] /\ Entry(m)' = Entry(m)
      BY <1>3, <1>10, Zenon
    <2> QED
      BY <2>3, <2>4, Zenon DEF Live
  <1>15. given' = given \/ (s.currBatch > 0 /\ given' = given \cup {s.currId}
                            /\ d.currId = s.currId + 1)
    BY <1>1, Zenon DEF Shape
  <1>16. given \subseteq Nat /\ given' \subseteq Nat
    BY Zenon DEF Types
  <1> HIDE DEF top
  <1>20. twice' = {}
    <2>1. twice = {}
      BY Zenon DEF IdsInv
    <2>2. s.currBatch > 0 => s.currId \notin given
      BY <1>4, <1>6, <1>16
    <2> QED
      BY <2>1, <2>2, <1>1, Zenon DEF Shape
  <1>21. LogInv'
    <2>1. \A i, j \in 1..Len(committed') : i <= j => committed'[i] <= committed'[j]
      BY <1>0, Zenon DEF IdsInv, LogInv
    <2>2. \A g \in given' : g < Last'
      BY <1>4, <1>5, <1>6, <1>15, <1>16 DEF IdsInv, LogInv
    <2>3. ASSUME NEW o \in orphans' PROVE o.value >= Last'
      <3>1. CASE o \in orphans
        BY <3>1, <1>5, Zenon DEF IdsInv, LogInv
      <3>2. CASE o \notin orphans
        <4>1. Attached(n, s) /\ o.value = r.value /\ r.pc = "replicate"
          BY <3>2, <1>1 DEF Shape
        <4>2. top
          BY <4>1, <1>0, Zenon DEF Attached, top
        <4>3. \/ r.value = s.state + BatchSize
              \/ d.currId >= s.currId /\ r.value = d.currId + BatchSize
              \/ s.legacy /\ r.value = s.state + 1
          BY <4>1, <1>1, Zenon DEF Shape
        <4>4. /\ Last' = Last /\ Last <= s.currId + BatchSize /\ (s.legacy => Last <= 1)
              /\ s.currId + s.currBatch <= s.state
          BY <4>2, <1>5, <1>7, Zenon
        <4>5. s.state >= s.currId
          BY <4>4, <1>4
        <4> QED
          BY <4>1, <4>3, <4>4, <4>5, <1>4, <1>5, SMTT(20)
      <3> QED
        BY <3>1, <3>2, Zenon
    <2> QED
      BY <2>1, <2>2, <2>3, Zenon DEF LogInv
  <1>22. NodeInv(n)'
    <2>1. Asked(n)'
      <3>1. /\ d.legacy => d.currBatch = 0
            /\ r.pc # "idle" =>
                  /\ r.kind # "reset" \/ r.legacy => d.currBatch = 0
                  /\ ~r.legacy => ~d.legacy
        BY <1>1, <1>4, <1>6, SMTT(20) DEF Shape
      <3> QED
        BY <3>1, <1>3, Zenon DEF Asked
    <2>2. Unused(stm[n].currId, Owned(n))'
      <3> SUFFICES ASSUME Owned(n)' > 0
                   PROVE  /\ d.currId + Owned(n)' <= Last
                          /\ \A g \in given' : g < d.currId \/ g >= d.currId + Owned(n)'
        BY <1>3, <1>5, Zenon DEF Unused
      <3> QED
        BY <1>4, <1>5, <1>6, <1>11, <1>15, <1>16, SMTT(30)
    <2>3. Ahead(n)' => \A g \in given' : g < stm'[n].currId
      <3>1. Ahead(n)' => top
        BY <1>12, <1>13, Zenon DEF Ahead
      <3> QED
        BY <3>1, <1>3, <1>4, <1>6, <1>9, <1>15, <1>16
    <2>4. Live(n)' => Reserves(n)'
      <3>1. Live(n)' => /\ ~r.legacy => r.value = d.currId + BatchSize
                        /\ r.legacy => r.value = 1
        BY <1>13, <1>1, <1>2, <1>4, <1>8 DEF Shape
      <3> QED
        BY <3>1, <1>3, Zenon DEF Reserves
    <2>5. Current(n)' => Ready(n)'
      <3> SUFFICES ASSUME top
                   PROVE  Ready(n)'
        BY <1>12, Zenon
      <3>1. Known(n, d)'
        BY <1>0, <1>2, <1>4, <1>5, <1>7, <1>9, SMTT(30) DEF Known, ValueAt
      <3>2. r.pc = "idle" => LastBatch(d)'
        BY <1>1, <1>2, <1>4, <1>5, <1>7, SMTT(20) DEF LastBatch, Shape
      <3>3. r.pc # "idle" /\ (r.kind # "reset" \/ r.legacy) => d.currId <= d.state
        BY <1>1, <1>2, <1>4, <1>7, SMTT(20) DEF Shape
      <3>4. r.pc # "wait"
        BY <1>1, Zenon DEF Shape
      <3>5. d' = d /\ Known(n, stm[n])' /\ (r.pc = "idle" => LastBatch(stm[n])')
        BY <3>1, <3>2, <1>3, Zenon DEF Known, LastBatch
      <3> QED
        BY <3>3, <3>4, <3>5, <1>3, Zenon DEF Ready
    <2> QED
      BY <2>1, <2>2, <2>3, <2>4, <2>5, Zenon DEF NodeInv
  <1>23. ASSUME NEW m \in Node \ {n}
         PROVE  NodeInv(m)'
    <2>0. NodeInv(m) /\ stm[m].currId \in Nat /\ Owned(m) \in Nat /\ stm'[m] = stm[m]
      BY Fields, OwnedNat, <1>3, Zenon DEF IdsInv
    <2>1. Asked(m)' /\ (Live(m)' => Reserves(m)') /\ (Current(m)' => Ready(m)')
      BY <2>0, <1>10, <1>14, Zenon DEF NodeInv
    <2>2. /\ Apart(m, s.currId, s.currBatch)
          /\ Ahead(m) /\ s.currBatch > 0 => s.currId + s.currBatch <= stm[m].currId
      BY Zenon DEF RestsIds
    <2>3. Unused(stm[m].currId, Owned(m))'
      <3>1. Owned(m)' = Owned(m)
        BY <1>10, Zenon
      <3> SUFFICES ASSUME Owned(m) > 0
                   PROVE  /\ stm[m].currId + Owned(m) <= Last
                          /\ \A g \in given' :
                                g < stm[m].currId \/ g >= stm[m].currId + Owned(m)
        BY <3>1, <2>0, <1>5, Zenon DEF Unused
      <3>2. /\ stm[m].currId + Owned(m) <= Last
            /\ \A g \in given : g < stm[m].currId \/ g >= stm[m].currId + Owned(m)
        BY <2>0, Zenon DEF NodeInv, Unused
      <3>3. s.currBatch > 0 => \/ stm[m].currId + Owned(m) <= s.currId
                               \/ s.currId + s.currBatch <= stm[m].currId
        BY <2>2, Zenon DEF Apart
      <3> QED
        BY <3>2, <3>3, <2>0, <1>4, <1>15, <1>16
    <2>4. Ahead(m)' => \A g \in given' : g < stm'[m].currId
      <3>1. Ahead(m)' <=> Ahead(m)
        BY <1>10, <1>14, Zenon DEF Ahead
      <3> QED
        BY <3>1, <2>0, <2>2, <1>4, <1>15, <1>16 DEF NodeInv
    <2> QED
      BY <2>1, <2>3, <2>4, Zenon DEF NodeInv
  <1>24. ASSUME NEW m \in Node \ {n}
         PROVE  PairInv(n, m)' /\ PairInv(m, n)'
    <2>0. /\ stm[m].currId \in Nat /\ Owned(m) \in Nat /\ stm'[m] = stm[m]
          /\ Owned(m)' = Owned(m)
      BY Fields, OwnedNat, <1>3, <1>10, Zenon
    <2>1. /\ Apart(m, s.currId, s.currBatch)
          /\ Ahead(m) /\ s.currBatch > 0 => s.currId + s.currBatch <= stm[m].currId
          /\ top => Before(m, s.currId)
      BY Zenon DEF RestsIds, top
    <2>2. /\ Owned(n)' > 0 /\ Owned(m) > 0 =>
                \/ stm[m].currId + Owned(m) <= d.currId
                \/ d.currId + Owned(n)' <= stm[m].currId
      BY <2>0, <2>1, <1>4, <1>11 DEF Apart
    <2>3. Apart(m, stm[n].currId, Owned(n))' /\ Apart(n, stm[m].currId, Owned(m))'
      BY <2>0, <2>2, <1>3, Zenon DEF Apart
    <2>4. Ahead(n)' => Before(m, stm[n].currId)'
      <3>1. Ahead(n)' => top
        BY <1>12, <1>13, Zenon DEF Ahead
      <3> QED
        BY <3>1, <2>0, <2>1, <1>3, <1>4, <1>9 DEF Before
    <2>5. Ahead(m)' => Before(n, stm[m].currId)'
      <3>1. Ahead(m)' <=> Ahead(m)
        BY <1>10, <1>14, Zenon DEF Ahead
      <3> QED
        BY <3>1, <2>0, <2>1, <1>3, <1>4, <1>11, Zenon DEF Before
    <2> QED
      BY <2>3, <2>4, <2>5, Zenon DEF PairInv
  <1>25. ASSUME NEW m \in Node \ {n}, NEW k \in Node \ {n}, m # k
         PROVE  PairInv(m, k)'
    <2>1. PairInv(m, k)
      BY <1>25, Zenon DEF IdsInv
    <2>2. /\ stm'[m] = stm[m] /\ stm'[k] = stm[k] /\ Owned(m)' = Owned(m)
          /\ Owned(k)' = Owned(k) /\ (Ahead(m)' <=> Ahead(m))
      BY <1>3, <1>10, <1>14, Zenon DEF Ahead
    <2> QED
      BY <2>1, <2>2, Zenon DEF PairInv, Apart, Before
  <1>26. \A m \in Node : NodeInv(m)'
    BY <1>22, <1>23, Zenon
  <1>27. \A m \in Node : \A k \in Node \ {m} : PairInv(m, k)'
    BY <1>24, <1>25, Zenon
  <1> QED
    BY <1>20, <1>21, <1>26, <1>27, Zenon DEF IdsInv

\* do_allocate_id and advance_state are such steps.
LEMMA ProceedActs ==
    ASSUME NEW n \in Node, NEW s, NEW kind \in {"allocate", "reset"}, ~s.legacy,
           Proceed(n, s, kind)
    PROVE  Acts(n, s)
  <1>1. ResetTo \subseteq Nat
    BY IdAssumption, Zenon
  <1> QED
    BY <1>1, Zenon DEF Proceed, Acts

\* A request begins with what sync has left: the batch of this term, or the state of
\* all that earlier leaders have committed.
LEMMA RequestActs ==
    ASSUME IdInv, NEW n \in Node, NEW kind \in {"allocate", "reset"}, Request(n, kind)
    PROVE  \E s : Rests(n, s) /\ Acts(n, s) /\ UNCHANGED others
  <1> DEFINE s == Synced(stm[n], leader[n], applied[n])
  <1>1. /\ req[n].pc = "idle" /\ leader[n] > 0
        /\ stm[n].insync # leader[n] => applied[n] >= syncTo[n]
        /\ IF s.legacy
           THEN SetState(n, s, kind, TRUE, s.state + 1)
           ELSE Proceed(n, s, kind)
        /\ UNCHANGED others
    BY Zenon DEF Request, others
  <1>2. Types /\ TermsInv /\ AppliedInv /\ (resetLost \/ IdsInv)
    BY Zenon DEF IdInv
  <1>3. /\ stm[n] \in Stm /\ leader[n] \in Nat /\ applied[n] \in Nat
        /\ stm[n].insync \in Nat /\ stm[n].state \in Nat
    BY <1>2, Fields, Zenon
  <1>4. /\ s \in Stm /\ s.insync = leader[n] /\ s.state = stm[n].state
        /\ s.legacy = stm[n].legacy /\ s.writing = stm[n].writing
        /\ stm[n].insync = leader[n] => s = stm[n]
        /\ stm[n].insync # leader[n] => /\ s.currId = stm[n].state /\ s.currBatch = 0
                                        /\ s.nextSnapshot = applied[n]
    BY <1>3, Zenon DEF Synced, Stm
  <1>5. s.legacy \in BOOLEAN
    BY <1>4, Zenon DEF Stm
  <1> HIDE DEF s
  <1>6. Acts(n, s)
    <2>1. CASE s.legacy
      <3>1. SetState(n, s, kind, TRUE, s.state + 1)
        BY <1>1, <2>1, Zenon
      <3> QED
        BY <2>1, <3>1, Zenon DEF Acts
    <2>2. CASE ~s.legacy
      BY <1>1, <2>2, ProceedActs, Zenon
    <2> QED
      BY <2>1, <2>2, Zenon
  <1>7. RestsTerm(n, s)
    <2>1. leader[n] <= term /\ TermOfOne /\ Pending
      BY <1>2, Zenon DEF TermsInv
    <2>2. \A m \in Node \ {n} : s.insync # stm[m].insync /\ s.insync # leader[m]
      BY <1>1, <1>4, <2>1, Zenon DEF TermOfOne
    <2>3. \A o \in orphans : o.term # leader[n]
      BY <1>1, <2>1, Zenon DEF Pending
    <2> QED
      BY <1>1, <1>4, <2>1, <2>2, <2>3, Zenon DEF RestsTerm
  <1>8. RestsApplied(n, s)
    <2>1. /\ stm[n].writing = NoSnapshot \/ stm[n].writing < Len(committed)
          /\ stm[n].nextSnapshot = NoSnapshot \/ stm[n].nextSnapshot <= applied[n]
          /\ applied[n] = 0 => stm[n].state = 0 /\ stm[n].legacy
          /\ applied[n] > start[n] => stm[n].state = committed[applied[n]] /\ ~stm[n].legacy
      BY <1>2, Zenon DEF AppliedInv
    <2>2. s.nextSnapshot = NoSnapshot \/ s.nextSnapshot <= applied[n]
      BY <1>3, <1>4, <2>1
    <2> QED
      BY <1>4, <2>1, <2>2, Zenon DEF RestsApplied
  <1>9. ASSUME IdsInv PROVE RestsIds(n, s)
    <2>1. CASE stm[n].insync = leader[n]
      <3>1. /\ s = stm[n] /\ Owned(n) = s.currBatch
            /\ (leader[n] > 0 /\ Attached(n, s) => Current(n))
        BY <2>1, <1>1, <1>4, Zenon DEF Owned, Leads, Current
      <3>2. NodeInv(n) /\ \A m \in Node \ {n} : PairInv(n, m) /\ PairInv(m, n)
        BY <1>9, Zenon DEF IdsInv
      <3>3. (s.legacy => s.currBatch = 0) /\ Unused(s.currId, s.currBatch)
        BY <3>1, <3>2, Zenon DEF NodeInv, Asked
      <3>4. \A m \in Node \ {n} :
               /\ Apart(m, s.currId, s.currBatch)
               /\ Ahead(m) /\ s.currBatch > 0 => s.currId + s.currBatch <= stm[m].currId
        BY <3>1, <3>2, Zenon DEF PairInv, Before
      <3>5. Current(n) => /\ \A g \in given : g < s.currId
                          /\ \A m \in Node \ {n} : Before(m, s.currId)
        BY <3>1, <3>2, Zenon DEF NodeInv, PairInv, Ahead
      <3>6. Current(n) => Known(n, s) /\ LastBatch(s)
        BY <3>1, <3>2, <1>1, Zenon DEF NodeInv, Ready
      <3> QED
        BY <3>1, <3>3, <3>4, <3>5, <3>6, Zenon DEF RestsIds
    <2>2. CASE stm[n].insync # leader[n]
      <3>1. /\ s.currId = stm[n].state /\ s.currBatch = 0 /\ applied[n] >= syncTo[n]
            /\ s.state = stm[n].state
        BY <2>2, <1>1, <1>4, Zenon
      <3>2. Len(committed) \in Nat /\ Last \in Nat /\ BatchSize \in Nat /\ start[n] \in Nat
        BY <1>2, Values, Fields, IdAssumption, Zenon
      <3>3. ASSUME Attached(n, s)
            PROVE  applied[n] = Len(committed) /\ s.state = Last /\ (s.legacy <=> applied[n] = 0)
        <4>1. syncTo[n] = Len(committed) /\ applied[n] <= Len(committed)
          BY <3>3, <1>2, Zenon DEF Attached, AppliedInv
        <4>2. applied[n] = Len(committed)
          BY <4>1, <3>1, <3>2, <1>3
        <4>3. /\ start[n] = 0 \/ start[n] < Len(committed)
              /\ applied[n] = 0 => stm[n].state = 0 /\ stm[n].legacy
              /\ applied[n] > start[n] => stm[n].state = committed[applied[n]] /\ ~stm[n].legacy
          BY <1>2, Zenon DEF AppliedInv
        <4> QED
          BY <4>2, <4>3, <3>1, <3>2, <1>4, <1>5 DEF Last, ValueAt
      <3>4. Attached(n, s) =>
               /\ \A g \in given : g < s.currId
               /\ \A m \in Node \ {n} : Before(m, s.currId)
        BY <3>1, <3>3, <1>9, Zenon DEF IdsInv, LogInv, NodeInv, Unused, Before
      <3>5. Attached(n, s) => Known(n, s) /\ LastBatch(s)
        BY <3>1, <3>2, <3>3, <1>3 DEF Known, LastBatch, Last, ValueAt
      <3> QED
        BY <3>1, <3>4, <3>5 DEF RestsIds, Unused, Apart
    <2> QED
      BY <2>1, <2>2, Zenon
  <1>10. Rests(n, s)
    BY <1>2, <1>7, <1>8, <1>9, Zenon DEF Rests
  <1> QED
    BY <1>1, <1>6, <1>10, Zenon

\* A request that has been committed and applied goes on with the batch that it
\* reserved, or with a state machine that is no longer empty.
LEMMA DoneActs ==
    ASSUME IdInv, NEW n \in Node, Done(n)
    PROVE  \E s : Rests(n, s) /\ Acts(n, s) /\ UNCHANGED others
  <1>1. /\ req[n].pc = "wait" /\ applied[n] >= req[n].offset
        /\ \/ req[n].legacy /\ Proceed(n, [stm[n] EXCEPT !.legacy = FALSE], req[n].kind)
           \/ /\ ~req[n].legacy /\ req[n].kind = "allocate"
              /\ HandOut(n, [stm[n] EXCEPT !.currBatch = BatchSize])
           \/ /\ ~req[n].legacy /\ req[n].kind = "reset"
              /\ stm' = [stm EXCEPT ![n].currBatch = BatchSize]
              /\ req' = [req EXCEPT ![n] = Idle] /\ UNCHANGED <<orphans, history>>
        /\ UNCHANGED others
    BY Zenon DEF Done, others
  <1>2. Types /\ TermsInv /\ AppliedInv /\ (resetLost \/ IdsInv)
    BY Zenon DEF IdInv
  <1>3. /\ stm[n] \in Stm /\ req[n] \in Req /\ leader[n] \in Nat /\ applied[n] \in Nat
        /\ stm[n].insync \in Nat /\ stm[n].state \in Nat /\ req[n].offset \in Nat
        /\ req[n].legacy \in BOOLEAN /\ stm[n].currId \in Nat /\ start[n] \in Nat
        /\ stm[n].legacy \in BOOLEAN
    BY <1>2, Fields, Zenon
  <1>4. /\ req[n].offset > 0 /\ applied[n] > 0 /\ stm[n].insync > 0 /\ stm[n].insync <= term
    BY <1>1, <1>2, <1>3, SMTT(30) DEF TermsInv
  <1>5. BatchSize \in Nat /\ BatchSize > 0 /\ Len(committed) \in Nat /\ Last \in Nat
    BY <1>2, Values, IdAssumption
  <1>6. ASSUME NEW s \in Stm, s.insync = stm[n].insync, s.state = stm[n].state,
               s.writing = stm[n].writing, s.nextSnapshot = stm[n].nextSnapshot,
               s.legacy => stm[n].legacy
        PROVE  RestsTerm(n, s) /\ RestsApplied(n, s)
    <2>1. TermOfOne /\ Pending
      BY <1>2, Zenon DEF TermsInv
    <2>2. \A m \in Node \ {n} : s.insync # stm[m].insync /\ s.insync # leader[m]
      BY <1>4, <1>6, <2>1, Zenon DEF TermOfOne
    <2>3. \A o \in orphans : o.term # s.insync /\ o.term # leader[n]
      BY <1>1, <1>6, <2>1, Zenon DEF Pending
    <2>4. /\ stm[n].writing = NoSnapshot \/ stm[n].writing < Len(committed)
          /\ stm[n].nextSnapshot = NoSnapshot \/ stm[n].nextSnapshot <= applied[n]
          /\ applied[n] > start[n] => stm[n].state = committed[applied[n]] /\ ~stm[n].legacy
      BY <1>2, Zenon DEF AppliedInv
    <2>5. RestsApplied(n, s)
      BY <1>4, <1>6, <2>4 DEF RestsApplied
    <2> QED
      BY <1>4, <1>6, <2>2, <2>3, <2>5, Zenon DEF RestsTerm
  <1>7. IdsInv => /\ NodeInv(n) /\ \A m \in Node \ {n} : PairInv(n, m) /\ PairInv(m, n)
    BY Zenon DEF IdsInv
  <1>8. CASE req[n].legacy
    <2> DEFINE s == [stm[n] EXCEPT !.legacy = FALSE]
    <2>1. /\ s \in Stm /\ s.insync = stm[n].insync /\ s.state = stm[n].state
          /\ s.writing = stm[n].writing /\ s.nextSnapshot = stm[n].nextSnapshot
          /\ ~s.legacy /\ s.currId = stm[n].currId /\ s.currBatch = stm[n].currBatch
      BY <1>3, Zenon DEF Stm
    <2>2. Proceed(n, s, req[n].kind)
      BY <1>1, <1>8, Zenon
    <2> HIDE DEF s
    <2>3. req[n].kind \in {"allocate", "reset"}
      BY <2>2, Zenon DEF Proceed
    <2>4. Acts(n, s)
      BY <2>1, <2>2, <2>3, ProceedActs, Zenon
    <2>5. ASSUME IdsInv PROVE RestsIds(n, s)
      <3>1. s.currBatch = 0
        BY <2>1, <2>5, <1>1, <1>7, <1>8, Zenon DEF NodeInv, Asked
      <3>2. leader[n] > 0 /\ Attached(n, s) => Current(n)
        BY <2>1, Zenon DEF Current, Attached
      <3>3. Current(n) => /\ \A g \in given : g < s.currId
                          /\ \A m \in Node \ {n} : Before(m, s.currId)
        BY <2>1, <2>5, <1>7, Zenon DEF NodeInv, PairInv, Ahead
      <3>4. Current(n) => Known(n, stm[n]) /\ stm[n].currId <= stm[n].state
        BY <2>5, <1>1, <1>7, <1>8, Zenon DEF NodeInv, Ready
      <3>5. Current(n) => Known(n, s) /\ LastBatch(s)
        BY <3>1, <3>4, <2>1, <1>3, <1>4, SMTT(20) DEF Known, LastBatch
      <3> QED
        BY <3>1, <3>2, <3>3, <3>5, <2>1, SMTT(20) DEF RestsIds, Unused, Apart
    <2>6. Rests(n, s)
      BY <2>1, <2>5, <1>2, <1>6, Zenon DEF Rests
    <2> QED
      BY <2>4, <2>6, <1>1, Zenon
  <1>9. CASE ~req[n].legacy
    <2> DEFINE s == [stm[n] EXCEPT !.currBatch = BatchSize]
    <2>1. /\ s \in Stm /\ s.insync = stm[n].insync /\ s.state = stm[n].state
          /\ s.writing = stm[n].writing /\ s.nextSnapshot = stm[n].nextSnapshot
          /\ s.legacy = stm[n].legacy /\ s.currId = stm[n].currId /\ s.currBatch = BatchSize
      BY <1>3, <1>5, Zenon DEF Stm
    <2>2. HandOut(n, s) \/ (/\ stm' = [stm EXCEPT ![n] = s] /\ req' = [req EXCEPT ![n] = Idle]
                            /\ UNCHANGED <<orphans, history>>)
      BY <1>1, <1>9, Zenon
    <2> HIDE DEF s
    <2>3. Acts(n, s)
      BY <2>1, <2>2, <1>5, Zenon DEF Acts
    <2>5. ASSUME IdsInv PROVE RestsIds(n, s)
      <3>1. Owned(n) = BatchSize /\ ~s.legacy
        BY <1>1, <1>7, <1>9, <2>1, <2>5, Zenon DEF Owned, NodeInv, Asked
      <3>2. leader[n] > 0 /\ Attached(n, s) => Current(n)
        BY <2>1, Zenon DEF Current, Attached
      <3>3. Current(n) => /\ \A g \in given : g < s.currId
                          /\ \A m \in Node \ {n} : Before(m, s.currId)
        BY <2>1, <2>5, <1>7, Zenon DEF NodeInv, PairInv, Ahead
      <3>4. Current(n) => /\ Known(n, stm[n]) /\ req[n].offset = Len(committed)
                          /\ Last = stm[n].currId + BatchSize
        BY <2>5, <1>1, <1>7, <1>9, Zenon DEF NodeInv, Ready
      <3>5. applied[n] <= Len(committed)
        BY <1>2, Zenon DEF AppliedInv
      <3>6. Current(n) => applied[n] = Len(committed)
        BY <3>4, <3>5, <1>1, <1>3, <1>5, SMTT(30)
      <3>7. Current(n) => Known(n, s) /\ s.state = Last
        BY <3>4, <3>6, <2>1, Zenon DEF Known, Last
      <3>8. Current(n) => LastBatch(s)
        BY <3>4, <3>7, <2>1, <1>3, <1>5 DEF LastBatch
      <3>9. Unused(s.currId, s.currBatch)
        BY <3>1, <2>1, <2>5, <1>7, Zenon DEF NodeInv
      <3>10. \A m \in Node \ {n} :
                /\ Apart(m, s.currId, s.currBatch)
                /\ Ahead(m) => s.currId + s.currBatch <= stm[m].currId
        BY <3>1, <2>1, <2>5, <1>5, <1>7, Zenon DEF PairInv, Before
      <3> QED
        BY <3>1, <3>2, <3>3, <3>7, <3>8, <3>9, <3>10, Zenon DEF RestsIds
    <2>6. Rests(n, s)
      BY <2>1, <2>5, <1>2, <1>6, Zenon DEF Rests
    <2> QED
      BY <2>3, <2>6, <1>1, Zenon
  <1> QED
    BY <1>3, <1>8, <1>9, Zenon
---------------------------------------------------------------------------
\* The other steps.

\* A step that hands out nothing keeps the ids apart when nobody gets ids but one
\* node whose entry is committed.
Grows(m) ==
    /\ Live(m) /\ Owned(m)' = BatchSize /\ stm[m].currId + BatchSize <= Last'
    /\ \A k \in Node \ {m} : Owned(k)' \in {0, Owned(k)} /\ ~Ahead(k)'

\* Every node is as it should be after the step, by itself.
Alone(m) ==
    /\ Asked(m)' /\ (Live(m)' => Reserves(m)') /\ (Current(m)' => Ready(m)')
    /\ Ahead(m)' => Ahead(m)
    /\ Owned(m)' > 0 \/ Ahead(m)' => stm'[m].currId = stm[m].currId
    /\ Owned(m)' \in {0, Owned(m)} \/ Grows(m)

\* When every node is so, ids stay apart.
LEMMA Moves ==
    ASSUME Types, IdsInv, given' = given, twice' = twice, LogInv', Last' \in Nat,
           Last' >= Last, \A m \in Node : Alone(m)
    PROVE  IdsInv'
  <1>0. BatchSize \in Nat /\ BatchSize > 0 /\ Last \in Nat /\ given \subseteq Nat
    BY IdAssumption, Values DEF Types
  <1>1. \A m \in Node : /\ stm[m].currId \in Nat /\ Owned(m) \in Nat /\ Owned(m)' \in Nat
    BY <1>0, Fields, OwnedNat, SMTT(20) DEF Alone, Grows
  <1>2. ASSUME NEW m \in Node
        PROVE  NodeInv(m)'
    <2>0. NodeInv(m) /\ Alone(m) /\ stm[m].currId \in Nat /\ Owned(m) \in Nat /\ Owned(m)' \in Nat
      BY <1>1, Zenon DEF IdsInv
    <2>1. Asked(m)' /\ (Live(m)' => Reserves(m)') /\ (Current(m)' => Ready(m)')
      BY <2>0, Zenon DEF Alone
    <2>2. Ahead(m)' => \A g \in given' : g < stm'[m].currId
      BY <2>0, Zenon DEF Alone, NodeInv
    <2>3. Unused(stm[m].currId, Owned(m))'
      <3>0. Owned(m)' > 0 => stm'[m].currId = stm[m].currId
        BY <2>0, Zenon DEF Alone
      <3> DEFINE k == Owned(m)'
                 id == stm'[m].currId
      <3> SUFFICES ASSUME k > 0
                   PROVE  id + k <= Last' /\ \A g \in given : g < id \/ g >= id + k
        BY Zenon DEF Unused
      <3>a. id = stm[m].currId
        BY <3>0, Zenon
      <3>1. CASE Owned(m)' = Owned(m)
        BY <3>1, <3>a, <2>0, <1>0 DEF NodeInv, Unused
      <3>2. CASE Grows(m)
        BY <3>2, <3>a, <2>0, <1>0, Zenon DEF NodeInv, Grows, Ahead
      <3> QED
        BY <3>1, <3>2, <2>0, SMTT(20) DEF Alone
    <2> QED
      BY <2>1, <2>2, <2>3, Zenon DEF NodeInv
  <1>3. ASSUME NEW m \in Node, NEW k \in Node \ {m}
        PROVE  PairInv(m, k)'
    <2>0. /\ PairInv(m, k) /\ PairInv(k, m) /\ Alone(m) /\ Alone(k)
          /\ stm[m].currId \in Nat /\ Owned(m) \in Nat /\ Owned(m)' \in Nat
          /\ stm[k].currId \in Nat /\ Owned(k) \in Nat /\ Owned(k)' \in Nat
      BY <1>1, Zenon DEF IdsInv
    <2>1. /\ Owned(m) > 0 /\ Owned(k) > 0 => \/ stm[k].currId + Owned(k) <= stm[m].currId
                                             \/ stm[m].currId + Owned(m) <= stm[k].currId
          /\ Ahead(m) /\ Owned(k) > 0 => stm[k].currId + Owned(k) <= stm[m].currId
          /\ Ahead(k) /\ Owned(m) > 0 => stm[m].currId + Owned(m) <= stm[k].currId
      BY <2>0, Zenon DEF PairInv, Apart, Before
    <2>2. /\ Owned(m)' > 0 \/ Ahead(m)' => stm'[m].currId = stm[m].currId
          /\ Owned(k)' > 0 \/ Ahead(k)' => stm'[k].currId = stm[k].currId
          /\ Ahead(m)' => Ahead(m)
      BY <2>0, Zenon DEF Alone
    <2>3. \/ Owned(m)' \in {0, Owned(m)} /\ Owned(k)' \in {0, Owned(k)}
          \/ Ahead(m) /\ Owned(k)' \in {0, Owned(k)}
          \/ Ahead(k) /\ Owned(m)' \in {0, Owned(m)} /\ ~Ahead(m)'
      BY <2>0, Zenon DEF Alone, Grows, Ahead
    <2>4. Owned(k)' > 0 /\ Owned(m)' > 0 => \/ stm[k].currId + Owned(k)' <= stm[m].currId
                                            \/ stm[m].currId + Owned(m)' <= stm[k].currId
      BY <2>0, <2>1, <2>3, SMTT(30)
    <2>5. Ahead(m)' /\ Owned(k)' > 0 => stm[k].currId + Owned(k)' <= stm[m].currId
      BY <2>0, <2>1, <2>2, <2>3, SMTT(20)
    <2>6. Apart(k, stm[m].currId, Owned(m))'
      BY <2>2, <2>4, Zenon DEF Apart
    <2>7. Ahead(m)' => Before(k, stm[m].currId)'
      BY <2>2, <2>5, Zenon DEF Before
    <2> QED
      BY <2>6, <2>7, Zenon DEF PairInv
  <1>4. twice' = {}
    BY Zenon DEF IdsInv
  <1> QED
    BY <1>2, <1>3, <1>4, Zenon DEF IdsInv

\* A node that takes no part in a step, when no entry is committed.
LEMMA StaysAlone ==
    ASSUME Types, IdsInv, NEW m \in Node, stm'[m] = stm[m], req'[m] = req[m],
           leader'[m] = leader[m], syncTo'[m] = syncTo[m], applied'[m] = applied[m],
           committed' = committed, orphans' \subseteq orphans
    PROVE  Alone(m)
  <1>1. /\ Owned(m)' = Owned(m) /\ Entry(m)' = Entry(m)
        /\ (Asked(m)' <=> Asked(m)) /\ (Reserves(m)' <=> Reserves(m))
        /\ (Current(m)' <=> Current(m)) /\ (Ready(m)' <=> Ready(m))
    BY Same, SameLog, Zenon
  <1>2. Live(m)' => Live(m)
    BY <1>1, Zenon DEF Live
  <1>3. NodeInv(m)
    BY Zenon DEF IdsInv
  <1> QED
    BY <1>1, <1>2, <1>3, Zenon DEF Alone, NodeInv, Ahead

\* A node that leads no more, or in another term, keeps at most the ids that it waits
\* for.
LEMMA ResignsAlone ==
    ASSUME Types, IdsInv, NEW m \in Node, req'[m] = req[m],
           stm'[m].insync = stm[m].insync, stm'[m].currId = stm[m].currId,
           stm'[m].currBatch = stm[m].currBatch, stm'[m].legacy = stm[m].legacy,
           leader'[m] = 0 \/ leader'[m] # stm[m].insync, orphans' \subseteq orphans
    PROVE  Alone(m)
  <1>1. Owned(m)' \in {0, Owned(m)}
    BY SMTT(20) DEF Owned, Leads
  <1>2. /\ Entry(m)' = Entry(m) /\ (Asked(m)' <=> Asked(m))
        /\ (Reserves(m)' <=> Reserves(m))
    BY Zenon DEF Entry, Asked, Reserves
  <1>3. Live(m)' => Live(m)
    BY <1>2, Zenon DEF Live
  <1>4. ~Current(m)'
    BY DEF Current, Attached
  <1>5. NodeInv(m)
    BY Zenon DEF IdsInv
  <1> QED
    BY <1>1, <1>2, <1>3, <1>4, <1>5, Zenon DEF Alone, NodeInv, Ahead

\* A node whose request has ended and that has no batch.
LEMMA EmptyAlone ==
    ASSUME Types, NEW m \in Node, req'[m] = Idle,
           stm'[m].legacy => stm'[m].currBatch = 0,
           ~Leads(m)' \/ stm'[m].currBatch = 0,
           Current(m)' => Current(m) /\ Ready(m)' /\ stm'[m].currId = stm[m].currId
    PROVE  Alone(m)
  <1>1. req'[m].pc = "idle"
    BY DEF Idle
  <1>2. Owned(m)' = 0
    BY <1>1, Zenon DEF Owned
  <1>3. Asked(m)' /\ ~Live(m)'
    BY <1>1, Zenon DEF Asked, Live
  <1>4. Ahead(m)' => Current(m)'
    BY <1>3, Zenon DEF Ahead
  <1> QED
    BY <1>2, <1>3, <1>4, SMTT(20) DEF Alone, Ahead

\* The log when nothing is committed.
LEMMA QuietLog ==
    ASSUME Types, IdsInv, committed' = committed, given' = given,
           orphans' \subseteq orphans
    PROVE  LogInv' /\ Last' = Last /\ Last' \in Nat /\ Last' >= Last
  <1>1. Last' = Last /\ Last \in Nat
    BY Values, Zenon DEF Last, ValueAt
  <1> QED
    BY <1>1 DEF IdsInv, LogInv

\* The terms when there is no election and nothing is committed: n may lead no more,
\* and its request may end when its entry is gone.
LEMMA QuietTerms ==
    ASSUME Types, TermsInv, NEW n \in Node, committed' = committed, term' = term,
           syncTo' = syncTo, orphans' \subseteq orphans,
           \A m \in Node \ {n} : /\ stm'[m].insync = stm[m].insync /\ req'[m] = req[m]
                                 /\ leader'[m] = leader[m],
           leader'[n] \in {0, leader[n]},
           \/ stm'[n].insync = stm[n].insync /\ req'[n] = req[n]
           \/ /\ stm'[n].insync = stm[n].insync /\ req'[n] = Idle
              /\ \A o \in orphans' : o.term # stm[n].insync
           \/ stm'[n].insync = 0 /\ leader'[n] = 0 /\ req'[n] = Idle
    PROVE  TermsInv'
  <1>1. Idle.pc = "idle" /\ term \in Nat
    BY Zenon DEF Idle, Types
  <1>2. \A m \in Node : /\ leader[m] \in Nat /\ stm[m].insync \in Nat
                        /\ leader[m] <= term /\ stm[m].insync <= term
                        /\ req[m].pc # "idle" => stm[m].insync > 0
                        /\ req[m].pc = "wait" => req[m].offset > 0
                        /\ leader[m] = term => syncTo[m] = Len(committed)
                        /\ syncTo[m] <= Len(committed)
    BY Fields, Zenon DEF TermsInv
  <1>3. term > 0 /\ TermOfOne /\ Pending
    BY Zenon DEF TermsInv
  <1>4. \A m \in Node : /\ leader'[m] <= term' /\ stm'[m].insync <= term'
                        /\ req'[m].pc # "idle" => stm'[m].insync > 0
                        /\ req'[m].pc = "wait" => req'[m].offset > 0
                        /\ leader'[m] = term' => syncTo'[m] = Len(committed')
                        /\ syncTo'[m] <= Len(committed')
    <2> SUFFICES ASSUME NEW m \in Node
                 PROVE  /\ leader'[m] <= term' /\ stm'[m].insync <= term'
                        /\ req'[m].pc # "idle" => stm'[m].insync > 0
                        /\ req'[m].pc = "wait" => req'[m].offset > 0
                        /\ leader'[m] = term' => syncTo'[m] = Len(committed')
                        /\ syncTo'[m] <= Len(committed')
      BY Zenon
    <2>1. CASE m = n
      BY <2>1, <1>1, <1>2, <1>3, SMTT(30)
    <2>2. CASE m # n
      BY <2>2, <1>1, <1>2, Zenon
    <2> QED
      BY <2>1, <2>2, Zenon
  <1>5. \A m \in Node : leader'[m] \in {0, leader[m]} /\ stm'[m].insync \in {0, stm[m].insync}
    BY Zenon
  <1>6. TermOfOne'
    <2> SUFFICES ASSUME NEW k \in Node, NEW m \in Node, k # m
                 PROVE  /\ leader'[k] > 0 => leader'[k] # leader'[m] /\ leader'[k] # stm'[m].insync
                        /\ stm'[k].insync > 0 => stm'[k].insync # stm'[m].insync
      BY Zenon DEF TermOfOne
    <2>1. /\ leader[k] > 0 => leader[k] # leader[m] /\ leader[k] # stm[m].insync
          /\ stm[k].insync > 0 => stm[k].insync # stm[m].insync
      BY <1>3, Zenon DEF TermOfOne
    <2> QED
      BY <2>1, <1>2, <1>5
  <1>7. Pending'
    <2> SUFFICES ASSUME NEW o \in orphans', NEW m \in Node
                 PROVE  /\ o.term > 0 /\ o.term <= term
                        /\ o.term = stm'[m].insync =>
                              /\ req'[m].pc = "replicate" /\ o = Entry(m)'
                              /\ syncTo[m] = Len(committed)
                        /\ o.term = leader'[m] => stm'[m].insync = leader'[m]
      <3>1. \A o \in orphans' : o.term > 0 /\ o.term <= term
        BY <1>3, Zenon DEF Pending
      <3> QED
        BY <3>1, Zenon DEF Pending
    <2>1. /\ o.term > 0 /\ o.term <= term
          /\ o.term = stm[m].insync => /\ req[m].pc = "replicate" /\ o = Entry(m)
                                       /\ syncTo[m] = Len(committed)
          /\ o.term = leader[m] => stm[m].insync = leader[m]
      BY <1>3, Zenon DEF Pending
    <2>2. CASE m # n
      BY <2>1, <2>2, Zenon DEF Entry
    <2>3. CASE m = n
      <3>1. CASE stm'[n].insync = stm[n].insync /\ req'[n] = req[n]
        BY <2>1, <2>3, <3>1, SMTT(20) DEF Entry
      <3>2. CASE /\ stm'[n].insync = stm[n].insync
                 /\ \A x \in orphans' : x.term # stm[n].insync
        BY <2>1, <2>3, <3>2, SMTT(20)
      <3>3. CASE stm'[n].insync = 0 /\ leader'[n] = 0
        BY <2>1, <2>3, <3>3
      <3> QED
        BY <3>1, <3>2, <3>3, Zenon
    <2> QED
      BY <2>2, <2>3, Zenon
  <1> QED
    BY <1>3, <1>4, <1>6, <1>7, Zenon DEF TermsInv

\* The applied entries when they and the snapshots stay as they are.
LEMMA QuietApplied ==
    ASSUME AppliedInv, UNCHANGED <<committed, start, applied, stm>>
    PROVE  AppliedInv'
  BY Zenon DEF AppliedInv, NoSnapshot

\* A request whose entry is not in the log ends.
LEMMA TruncatedStep ==
    ASSUME IdInv, NEW n \in Node, Truncated(n)
    PROVE  IdInv'
  <1>1. /\ req[n].pc = "replicate" /\ Entry(n) \notin orphans
        /\ leader' = [leader EXCEPT ![n] = IF @ = stm[n].insync THEN 0 ELSE @]
        /\ req' = [req EXCEPT ![n] = Idle]
        /\ UNCHANGED <<committed, orphans, term, syncTo, start, applied, stm, history, faults>>
    BY Zenon DEF Truncated
  <1>2. Types /\ TermsInv /\ AppliedInv /\ (resetLost \/ IdsInv)
    BY Zenon DEF IdInv
  <1>3. /\ leader'[n] \in {0, leader[n]} /\ (leader'[n] = 0 \/ leader'[n] # stm[n].insync)
        /\ req'[n] = Idle
        /\ \A m \in Node \ {n} : req'[m] = req[m] /\ leader'[m] = leader[m]
    BY <1>1, <1>2, Zenon DEF Types
  <1>4. given' = given /\ twice' = twice /\ resetLost' = resetLost
    BY <1>1, Zenon DEF history
  <1>5. leader' \in [Node -> Nat] /\ req' \in [Node -> Req]
    BY <1>1, <1>2, Zenon DEF Types, Idle, Req
  <1>6. Types'
    BY <1>1, <1>2, <1>4, <1>5, Zenon DEF Types
  <1>7. TermsInv'
    <2>1. \A o \in orphans : o.term # stm[n].insync
      BY <1>1, <1>2, Zenon DEF TermsInv, Pending
    <2> QED
      BY <1>1, <1>2, <1>3, <2>1, QuietTerms, Zenon
  <1>8. AppliedInv'
    BY <1>1, <1>2, QuietApplied, Zenon
  <1>9. ASSUME IdsInv PROVE IdsInv'
    <2>1. \A m \in Node \ {n} : Alone(m)
      BY <1>1, <1>2, <1>3, <1>9, StaysAlone, Zenon
    <2>2. Alone(n)
      <3>1. ~Leads(n)' /\ ~Current(n)'
        BY <1>1, <1>3 DEF Leads, Current, Attached
      <3>2. stm'[n].legacy => stm'[n].currBatch = 0
        BY <1>1, <1>9, Zenon DEF IdsInv, NodeInv, Asked
      <3> QED
        BY <1>2, <1>3, <3>1, <3>2, EmptyAlone, Zenon
    <2> QED
      BY <1>1, <1>2, <1>4, <1>9, <2>1, <2>2, QuietLog, Moves, Zenon
  <1> QED
    BY <1>2, <1>4, <1>6, <1>7, <1>8, <1>9, Zenon DEF IdInv

\* A request fails at a node that may stay the leader.  It has no batch left, unless it
\* was a reset.
LEMMA FailStep ==
    ASSUME IdInv, NEW n \in Node, Fail(n)
    PROVE  IdInv'
  <1>1. /\ \/ /\ req[n].pc = "replicate" /\ Entry(n) \in orphans
              /\ orphans' = orphans \ {Entry(n)}
           \/ req[n].pc = "wait" /\ orphans' = orphans
        /\ req' = [req EXCEPT ![n] = Idle]
        /\ resetLost' = \/ resetLost
                        \/ /\ req[n].kind = "reset" /\ ~req[n].legacy
                           /\ leader[n] = stm[n].insync
        /\ UNCHANGED <<committed, term, leader, syncTo, start, applied, stm, given, twice>>
    BY Zenon DEF Fail
  <1>2. Types /\ TermsInv /\ AppliedInv /\ (resetLost \/ IdsInv)
    BY Zenon DEF IdInv
  <1>3. /\ req'[n] = Idle /\ Idle.pc = "idle" /\ Idle \in Req
        /\ \A m \in Node \ {n} : req'[m] = req[m]
    BY <1>1, <1>2, Zenon DEF Types, Idle, Req
  <1>4. orphans' \subseteq orphans /\ req[n].pc # "idle"
    BY <1>1, Zenon
  <1>5. Types'
    <2>1. resetLost' \in BOOLEAN /\ req' \in [Node -> Req]
      BY <1>1, <1>2, <1>3, Zenon DEF Types
    <2> QED
      BY <1>1, <1>2, <1>4, <2>1, Zenon DEF Types
  <1>6. TermsInv'
    <2>1. \A o \in orphans' : o.term # stm[n].insync
      BY <1>1, <1>2, Zenon DEF TermsInv, Pending
    <2> QED
      BY <1>1, <1>2, <1>3, <1>4, <2>1, QuietTerms, Zenon
  <1>7. AppliedInv'
    BY <1>1, <1>2, QuietApplied, Zenon
  <1>8. ASSUME IdsInv, ~resetLost' PROVE IdsInv'
    <2>1. \A m \in Node \ {n} : Alone(m)
      BY <1>1, <1>2, <1>3, <1>4, <1>8, StaysAlone, Zenon
    <2>2. NodeInv(n) /\ stm'[n] = stm[n]
      BY <1>1, <1>8, Zenon DEF IdsInv
    <2>3. leader[n] = stm[n].insync =>
             /\ stm[n].currBatch = 0 /\ (req[n].kind # "reset" \/ req[n].legacy)
      BY <1>1, <1>4, <1>8, <2>2, Zenon DEF NodeInv, Asked
    <2>4. Alone(n)
      <3>1. ~Leads(n)' \/ stm'[n].currBatch = 0
        BY <1>1, <2>3, Zenon DEF Leads
      <3>2. stm'[n].legacy => stm'[n].currBatch = 0
        BY <2>2, Zenon DEF NodeInv, Asked
      <3>3. ASSUME Current(n)' PROVE Current(n) /\ Ready(n)'
        <4>1. Current(n) /\ leader[n] = stm[n].insync
          BY <3>3, <1>1, Zenon DEF Current, Attached
        <4>2. Ready(n) /\ Last' = Last
          BY <4>1, <2>2, <1>1, Zenon DEF NodeInv, Last, ValueAt
        <4>3. Known(n, stm[n])'
          BY <4>2, <1>1, Zenon DEF Ready, Known, ValueAt
        <4>4. LastBatch(stm[n])'
          <5>1. stm[n].currId <= stm[n].state /\ stm[n].currBatch = 0
            BY <4>1, <4>2, <2>3, <1>4, Zenon DEF Ready
          <5>2. stm[n].currId \in Nat /\ stm[n].state \in Nat
            BY <1>2, Fields, Zenon
          <5> QED
            BY <5>1, <5>2, <2>2 DEF LastBatch
        <4>5. req'[n].pc = "idle"
          BY <1>3, Zenon
        <4> QED
          BY <4>1, <4>3, <4>4, <4>5, Zenon DEF Ready
      <3> QED
        BY <1>2, <1>3, <2>2, <3>1, <3>2, <3>3, EmptyAlone, Zenon
    <2> QED
      BY <1>1, <1>2, <1>4, <1>8, <2>1, <2>4, QuietLog, Moves, Zenon
  <1>9. resetLost' \/ IdsInv'
    BY <1>1, <1>2, <1>8, Zenon
  <1> QED
    BY <1>5, <1>6, <1>7, <1>9, Zenon DEF IdInv

\* A leader hears of a later term.
LEMMA StepDownStep ==
    ASSUME IdInv, NEW n \in Node, StepDown(n)
    PROVE  IdInv'
  <1>1. /\ leader' = [leader EXCEPT ![n] = 0]
        /\ UNCHANGED <<committed, orphans, term, syncTo, start, applied, stm, req, history, faults>>
    BY Zenon DEF StepDown
  <1>2. Types /\ TermsInv /\ AppliedInv /\ (resetLost \/ IdsInv)
    BY Zenon DEF IdInv
  <1>3. /\ leader'[n] = 0 /\ leader' \in [Node -> Nat]
        /\ \A m \in Node \ {n} : leader'[m] = leader[m]
    BY <1>1, <1>2, Zenon DEF Types
  <1>4. given' = given /\ twice' = twice /\ resetLost' = resetLost
    BY <1>1, Zenon DEF history
  <1>5. Types'
    BY <1>1, <1>2, <1>3, <1>4, Zenon DEF Types
  <1>6. TermsInv'
    BY <1>1, <1>2, <1>3, QuietTerms, Zenon
  <1>7. AppliedInv'
    BY <1>1, <1>2, QuietApplied, Zenon
  <1>8. ASSUME IdsInv PROVE IdsInv'
    <2>1. \A m \in Node \ {n} : Alone(m)
      BY <1>1, <1>2, <1>3, <1>8, StaysAlone, Zenon
    <2>2. Alone(n)
      BY <1>1, <1>2, <1>3, <1>8, ResignsAlone, Zenon
    <2> QED
      BY <1>1, <1>2, <1>4, <1>8, <2>1, <2>2, QuietLog, Moves, Zenon
  <1> QED
    BY <1>2, <1>4, <1>5, <1>6, <1>7, <1>8, Zenon DEF IdInv

\* A restart forgets the batch.
LEMMA RestartStep ==
    ASSUME IdInv, NEW n \in Node, Restart(n)
    PROVE  IdInv'
  <1>1. /\ leader' = [leader EXCEPT ![n] = 0] /\ applied' = [applied EXCEPT ![n] = start[n]]
        /\ stm' = [stm EXCEPT ![n] = Fresh] /\ req' = [req EXCEPT ![n] = Idle]
        /\ UNCHANGED <<committed, orphans, term, syncTo, start, history>>
    BY Zenon DEF Restart
  <1>2. Types /\ TermsInv /\ AppliedInv /\ (resetLost \/ IdsInv)
    BY Zenon DEF IdInv
  <1>3. /\ Fresh \in Stm /\ Fresh.insync = 0 /\ Fresh.currBatch = 0 /\ Fresh.legacy
        /\ Fresh.state = 0 /\ Fresh.writing = NoSnapshot /\ Fresh.nextSnapshot = NoSnapshot
        /\ Idle \in Req
    BY Zenon DEF Fresh, Stm, NoSnapshot, Idle, Req
  <1>4. /\ leader'[n] = 0 /\ applied'[n] = start[n] /\ stm'[n] = Fresh /\ req'[n] = Idle
        /\ \A m \in Node \ {n} : /\ leader'[m] = leader[m] /\ applied'[m] = applied[m]
                                 /\ stm'[m] = stm[m] /\ req'[m] = req[m]
    BY <1>1, <1>2, Zenon DEF Types
  <1>5. given' = given /\ twice' = twice /\ resetLost' = resetLost
    BY <1>1, Zenon DEF history
  <1>6. Types'
    <2>1. start[n] \in Nat
      BY <1>2, Fields, Zenon
    <2>2. /\ leader' \in [Node -> Nat] /\ applied' \in [Node -> Nat]
          /\ stm' \in [Node -> Stm] /\ req' \in [Node -> Req]
      BY <1>1, <1>2, <1>3, <2>1, Zenon DEF Types
    <2> QED
      BY <1>1, <1>2, <1>5, <2>2, Zenon DEF Types
  <1>7. TermsInv'
    BY <1>1, <1>2, <1>3, <1>4, QuietTerms
  <1>8. AppliedInv'
    <2> SUFFICES ASSUME NEW m \in Node
                 PROVE  /\ applied'[m] <= Len(committed)
                        /\ start[m] = 0 \/ start[m] < Len(committed)
                        /\ stm'[m].writing = NoSnapshot \/ stm'[m].writing < Len(committed)
                        /\ stm'[m].nextSnapshot = NoSnapshot
                           \/ stm'[m].nextSnapshot <= applied'[m]
                        /\ applied'[m] = 0 => stm'[m].state = 0 /\ stm'[m].legacy
                        /\ applied'[m] > start[m] => /\ stm'[m].state = committed[applied'[m]]
                                                     /\ ~stm'[m].legacy
      BY <1>1, Zenon DEF AppliedInv, NoSnapshot
    <2>1. CASE m # n
      BY <2>1, <1>2, <1>4, Zenon DEF AppliedInv
    <2>2. CASE m = n
      <3>1. /\ start[n] = 0 \/ start[n] < Len(committed)
            /\ start[n] \in Nat /\ Len(committed) \in Nat
        BY <1>2, Fields, Values, Zenon DEF AppliedInv
      <3> QED
        BY <3>1, <2>2, <1>3, <1>4, SMTT(20)
    <2> QED
      BY <2>1, <2>2, Zenon
  <1>9. ASSUME IdsInv PROVE IdsInv'
    <2>1. \A m \in Node \ {n} : Alone(m)
      BY <1>1, <1>2, <1>4, <1>9, StaysAlone, Zenon
    <2>2. Alone(n)
      <3>1. ~Leads(n)' /\ ~Current(n)'
        BY <1>4 DEF Leads, Current
      <3> QED
        BY <1>2, <1>3, <1>4, <3>1, EmptyAlone, Zenon
    <2> QED
      BY <1>1, <1>2, <1>5, <1>9, <2>1, <2>2, QuietLog, Moves, Zenon
  <1> QED
    BY <1>2, <1>5, <1>6, <1>7, <1>8, <1>9, Zenon DEF IdInv

\* The next entry is applied: the state follows the log, which never decreases.
LEMMA ApplyStep ==
    ASSUME IdInv, NEW n \in Node, Apply(n)
    PROVE  IdInv'
  <1> DEFINE d == ApplyState(stm[n], n)
  <1>1. /\ applied[n] < Len(committed) /\ applied' = [applied EXCEPT ![n] = @ + 1]
        /\ stm' = [stm EXCEPT ![n] = d]
        /\ UNCHANGED <<raft, start, req, history, faults>>
    BY Zenon DEF Apply
  <1>2. Types /\ TermsInv /\ AppliedInv /\ (resetLost \/ IdsInv)
    BY Zenon DEF IdInv
  <1>3. /\ stm[n] \in Stm /\ applied[n] \in Nat /\ Len(committed) \in Nat
        /\ start[n] \in Nat /\ stm[n].currId \in Nat /\ stm[n].currBatch \in Nat
        /\ stm[n].state \in Nat
    BY <1>2, Fields, Values, Zenon
  <1>4. /\ committed[applied[n] + 1] \in Nat
    BY <1>1, <1>2, <1>3, SMTT(30) DEF Types
  <1>5. /\ stm[n].writing = NoSnapshot \/ stm[n].writing < Len(committed)
        /\ stm[n].nextSnapshot = NoSnapshot \/ stm[n].nextSnapshot <= applied[n]
    BY <1>2, Zenon DEF AppliedInv
  <1> DEFINE s == stm[n]
             next == IF s.nextSnapshot = NoSnapshot THEN applied[n] ELSE s.nextSnapshot
             count == (IF s.nextSnapshot = NoSnapshot THEN 0 ELSE s.processed) + 1
             w == IF count > LogCapacity /\ s.writing = NoSnapshot THEN next ELSE s.writing
             v == committed[applied[n] + 1]
  <1>6a. d = [s EXCEPT !.state = v, !.legacy = FALSE, !.nextSnapshot = next,
                      !.processed = count, !.writing = w]
    BY Zenon DEF ApplyState
  <1>6b. /\ s \in Stm /\ v \in Nat /\ next \in Nat /\ count \in Nat
         /\ w \in Nat \cup {NoSnapshot}
    BY <1>3, <1>4, SMTT(30) DEF Stm
  <1>6c. next <= applied[n] /\ (w = NoSnapshot \/ w < Len(committed))
    BY <1>1, <1>3, <1>5, <1>6b
  <1> HIDE DEF d, s, next, count, w, v
  <1>6d. d \in Stm
    BY <1>6a, <1>6b, Zenon DEF Stm
  <1>6e. /\ d.insync = s.insync /\ d.currId = s.currId /\ d.currBatch = s.currBatch
         /\ d.state = v /\ d.legacy = FALSE /\ d.nextSnapshot = next /\ d.writing = w
    BY <1>6a, <1>6b, Zenon DEF Stm
  <1>6. /\ d \in Stm /\ d.insync = stm[n].insync /\ d.currId = stm[n].currId
        /\ d.currBatch = stm[n].currBatch /\ d.state = committed[applied[n] + 1]
        /\ ~d.legacy
    BY <1>6d, <1>6e, Zenon DEF s, v
  <1>7. /\ d.nextSnapshot <= applied[n]
        /\ d.writing = NoSnapshot \/ d.writing < Len(committed)
    BY <1>6c, <1>6e, Zenon
  <1>8. /\ committed' = committed /\ orphans' = orphans /\ term' = term /\ leader' = leader
        /\ syncTo' = syncTo /\ start' = start /\ req' = req
        /\ given' = given /\ twice' = twice /\ resetLost' = resetLost
    BY <1>1, Zenon DEF raft, history
  <1>9. /\ applied'[n] = applied[n] + 1 /\ stm'[n] = d
        /\ \A m \in Node \ {n} : applied'[m] = applied[m] /\ stm'[m] = stm[m]
    BY <1>1, <1>2, Zenon DEF Types
  <1>10. Types'
    <2>1. applied' \in [Node -> Nat] /\ stm' \in [Node -> Stm]
      BY <1>1, <1>2, <1>6, SMTT(30) DEF Types
    <2> QED
      BY <1>2, <1>8, <2>1, Zenon DEF Types
  <1>11. TermsInv'
    BY <1>2, <1>6, <1>8, <1>9, QuietTerms, Zenon
  <1>12. AppliedInv'
    <2> SUFFICES ASSUME NEW m \in Node
                 PROVE  /\ applied'[m] <= Len(committed)
                        /\ start[m] = 0 \/ start[m] < Len(committed)
                        /\ stm'[m].writing = NoSnapshot \/ stm'[m].writing < Len(committed)
                        /\ stm'[m].nextSnapshot = NoSnapshot
                           \/ stm'[m].nextSnapshot <= applied'[m]
                        /\ applied'[m] = 0 => stm'[m].state = 0 /\ stm'[m].legacy
                        /\ applied'[m] > start[m] => /\ stm'[m].state = committed[applied'[m]]
                                                     /\ ~stm'[m].legacy
      BY <1>8, Zenon DEF AppliedInv, NoSnapshot
    <2>1. CASE m # n
      BY <2>1, <1>2, <1>9, Zenon DEF AppliedInv
    <2>2. CASE m = n
      <3>1. start[n] = 0 \/ start[n] < Len(committed)
        BY <1>2, Zenon DEF AppliedInv
      <3>2. d.nextSnapshot = NoSnapshot \/ d.nextSnapshot <= applied[n] + 1
        BY <1>3, <1>6, <1>7 DEF Stm, NoSnapshot
      <3> QED
        BY <3>1, <3>2, <2>2, <1>1, <1>3, <1>6, <1>7, <1>9
    <2> QED
      BY <2>1, <2>2, Zenon
  <1>13. ASSUME IdsInv PROVE IdsInv'
    <2>1. \A m \in Node \ {n} : Alone(m)
      BY <1>2, <1>8, <1>9, <1>13, StaysAlone, Zenon
    <2>2. NodeInv(n) /\ Last' = Last
      BY <1>8, <1>13, Zenon DEF IdsInv, Last, ValueAt
    <2>3. /\ Owned(n)' = Owned(n) /\ (Current(n)' <=> Current(n)) /\ (Live(n)' <=> Live(n))
          /\ (Reserves(n)' <=> Reserves(n)) /\ stm'[n].currId = stm[n].currId
      BY <1>6, <1>8, <1>9, Zenon DEF Owned, Leads, Current, Attached, Live, Entry, Reserves
    <2>4. Asked(n)'
      BY <2>2, <1>6, <1>8, <1>9, Zenon DEF NodeInv, Asked
    <2>5. ASSUME Current(n) PROVE Ready(n)'
      <3>1. Ready(n)
        BY <2>2, <2>5, Zenon DEF NodeInv
      <3>2. stm[n].state <= d.state
        <4>1. stm[n].state = ValueAt(applied[n])
          BY <3>1, Zenon DEF Ready, Known
        <4>2. applied[n] > 0 => committed[applied[n]] <= committed[applied[n] + 1]
          BY <1>1, <1>3, <1>13, SMTT(30) DEF IdsInv, LogInv
        <4> QED
          BY <4>1, <4>2, <1>3, <1>4, <1>6 DEF ValueAt
      <3>3. Known(n, stm[n])'
        <4>1. d.state = ValueAt(applied[n])'
          BY <1>3, <1>6, <1>8, <1>9, SMTT(20) DEF ValueAt
        <4>2. Last <= stm[n].currId + BatchSize
          BY <3>1, Zenon DEF Ready, Known
        <4> QED
          BY <4>1, <4>2, <2>2, <1>3, <1>6, <1>9, SMTT(20) DEF Known
      <3>4. req[n].pc = "idle" => LastBatch(stm[n])'
        <4>1. req[n].pc = "idle" => LastBatch(stm[n])
          BY <3>1, Zenon DEF Ready
        <4>2. d.state \in Nat
          BY <1>4, <1>6, Zenon
        <4> QED
          BY <4>1, <4>2, <3>2, <2>2, <1>3, <1>6, <1>9, SMTT(30) DEF LastBatch
      <3>5. req[n].pc # "idle" /\ (req[n].kind # "reset" \/ req[n].legacy)
                => d.currId <= d.state
        <4>1. d.state \in Nat
          BY <1>4, <1>6, Zenon
        <4> QED
          BY <4>1, <3>1, <3>2, <1>3, <1>6, SMTT(20) DEF Ready
      <3> QED
        BY <3>1, <3>3, <3>4, <3>5, <2>2, <1>6, <1>8, <1>9, Zenon DEF Ready
    <2>6. Alone(n)
      BY <2>2, <2>3, <2>4, <2>5, Zenon DEF Alone, NodeInv, Ahead
    <2> QED
      BY <1>2, <1>8, <1>13, <2>1, <2>6, QuietLog, Moves, Zenon
  <1> QED
    BY <1>2, <1>8, <1>10, <1>11, <1>12, <1>13, Zenon DEF IdInv

\* A snapshot is written.
LEMMA WriteSnapshotStep ==
    ASSUME IdInv, NEW n \in Node, WriteSnapshot(n)
    PROVE  IdInv'
  <1> DEFINE d == [stm[n] EXCEPT !.writing = NoSnapshot, !.processed = 0,
                                 !.nextSnapshot = applied[n]]
             w == stm[n].writing
  <1>1. /\ w # NoSnapshot
        /\ start' = [start EXCEPT ![n] = IF w > @ THEN w ELSE @]
        /\ stm' = [stm EXCEPT ![n].writing = NoSnapshot, ![n].processed = 0,
                              ![n].nextSnapshot = applied[n]]
        /\ UNCHANGED <<raft, applied, req, history, faults>>
    BY Zenon DEF WriteSnapshot, SnapshotOffset
  <1>2. Types /\ TermsInv /\ AppliedInv /\ (resetLost \/ IdsInv)
    BY Zenon DEF IdInv
  <1>3. /\ stm[n] \in Stm /\ applied[n] \in Nat /\ Len(committed) \in Nat
        /\ start[n] \in Nat /\ w \in Nat
    BY <1>1, <1>2, Fields, Values, Zenon
  <1>4. stm' = [stm EXCEPT ![n] = d]
    BY <1>1, <1>2, Zenon DEF Types
  <1>5. /\ d \in Stm /\ d.insync = stm[n].insync /\ d.currId = stm[n].currId
        /\ d.currBatch = stm[n].currBatch /\ d.state = stm[n].state
        /\ d.legacy = stm[n].legacy /\ d.writing = NoSnapshot /\ d.nextSnapshot = applied[n]
    BY <1>3, Zenon DEF Stm
  <1> HIDE DEF d, w
  <1>6. /\ committed' = committed /\ orphans' = orphans /\ term' = term /\ leader' = leader
        /\ syncTo' = syncTo /\ applied' = applied /\ req' = req
        /\ given' = given /\ twice' = twice /\ resetLost' = resetLost
    BY <1>1, Zenon DEF raft, history
  <1>7. /\ start'[n] = (IF w > start[n] THEN w ELSE start[n]) /\ stm'[n] = d
        /\ \A m \in Node \ {n} : start'[m] = start[m] /\ stm'[m] = stm[m]
    BY <1>1, <1>2, <1>4, Zenon DEF Types
  <1>8. Types'
    <2>1. start' \in [Node -> Nat]
      BY <1>1, <1>2, <1>3, Zenon DEF Types
    <2>2. stm' \in [Node -> Stm]
      BY <1>2, <1>4, <1>5, Zenon DEF Types
    <2> QED
      BY <1>2, <1>6, <2>1, <2>2, Zenon DEF Types
  <1>9. TermsInv'
    BY <1>2, <1>5, <1>6, <1>7, QuietTerms, Zenon
  <1>10. AppliedInv'
    <2> SUFFICES ASSUME NEW m \in Node
                 PROVE  /\ applied[m] <= Len(committed)
                        /\ start'[m] = 0 \/ start'[m] < Len(committed)
                        /\ stm'[m].writing = NoSnapshot \/ stm'[m].writing < Len(committed)
                        /\ stm'[m].nextSnapshot = NoSnapshot
                           \/ stm'[m].nextSnapshot <= applied[m]
                        /\ applied[m] = 0 => stm'[m].state = 0 /\ stm'[m].legacy
                        /\ applied[m] > start'[m] => /\ stm'[m].state = committed[applied[m]]
                                                     /\ ~stm'[m].legacy
      BY <1>6, Zenon DEF AppliedInv, NoSnapshot
    <2>1. CASE m # n
      BY <2>1, <1>2, <1>7, Zenon DEF AppliedInv
    <2>2. CASE m = n
      <3>1. /\ applied[n] <= Len(committed)
            /\ start[n] = 0 \/ start[n] < Len(committed)
            /\ w < Len(committed)
            /\ applied[n] = 0 => stm[n].state = 0 /\ stm[n].legacy
            /\ applied[n] > start[n] => stm[n].state = committed[applied[n]] /\ ~stm[n].legacy
        BY <1>1, <1>2, Zenon DEF AppliedInv, w
      <3> QED
        BY <3>1, <2>2, <1>3, <1>5, <1>7
    <2> QED
      BY <2>1, <2>2, Zenon
  <1>11. ASSUME IdsInv PROVE IdsInv'
    <2>1. \A m \in Node \ {n} : Alone(m)
      BY <1>2, <1>6, <1>7, <1>11, StaysAlone, Zenon
    <2>2. NodeInv(n) /\ Last' = Last /\ ValueAt(applied[n])' = ValueAt(applied[n])
      BY <1>6, <1>11, Zenon DEF IdsInv, Last, ValueAt
    <2>3. /\ Owned(n)' = Owned(n) /\ (Current(n)' <=> Current(n)) /\ (Live(n)' <=> Live(n))
          /\ (Reserves(n)' <=> Reserves(n)) /\ stm'[n].currId = stm[n].currId
      BY <1>5, <1>6, <1>7, Zenon DEF Owned, Leads, Current, Attached, Live, Entry, Reserves
    <2>4. Asked(n)' <=> Asked(n)
      BY <1>5, <1>6, <1>7, Zenon DEF Asked
    <2>5. Ready(n)' <=> Ready(n)
      <3>1. Known(n, stm[n])' <=> Known(n, stm[n])
        BY <2>2, <1>5, <1>6, <1>7, Zenon DEF Known, ValueAt
      <3>2. LastBatch(stm[n])' <=> LastBatch(stm[n])
        BY <2>2, <1>5, <1>6, <1>7, Zenon DEF LastBatch
      <3> QED
        BY <3>1, <3>2, <2>2, <1>5, <1>6, <1>7, Zenon DEF Ready
    <2>6. Alone(n)
      BY <2>2, <2>3, <2>4, <2>5, Zenon DEF Alone, NodeInv, Ahead
    <2> QED
      BY <1>2, <1>6, <1>11, <2>1, <2>6, QuietLog, Moves, Zenon
  <1> QED
    BY <1>2, <1>6, <1>8, <1>9, <1>10, <1>11, Zenon DEF IdInv

\* A node that is behind a snapshot does not lead any more.
LEMMA InstallSnapshotStep ==
    ASSUME IdInv, NEW n \in Node, NEW k \in Node, InstallSnapshot(n, k)
    PROVE  IdInv'
  <1> DEFINE d == [stm[n] EXCEPT !.nextSnapshot = start[k], !.processed = 0]
  <1>1. /\ applied[n] < start[k] /\ leader' = [leader EXCEPT ![n] = 0]
        /\ start' = [start EXCEPT ![n] = start[k]] /\ applied' = [applied EXCEPT ![n] = start[k]]
        /\ stm' = [stm EXCEPT ![n].nextSnapshot = start[k], ![n].processed = 0]
        /\ UNCHANGED <<committed, orphans, term, syncTo, req, history, faults>>
    BY Zenon DEF InstallSnapshot
  <1>2. Types /\ TermsInv /\ AppliedInv /\ (resetLost \/ IdsInv)
    BY Zenon DEF IdInv
  <1>3. /\ stm[n] \in Stm /\ applied[n] \in Nat /\ Len(committed) \in Nat /\ start[k] \in Nat
    BY <1>2, Fields, Values, Zenon
  <1>4. stm' = [stm EXCEPT ![n] = d]
    BY <1>1, <1>2, Zenon DEF Types
  <1>5. /\ d \in Stm /\ d.insync = stm[n].insync /\ d.currId = stm[n].currId
        /\ d.currBatch = stm[n].currBatch /\ d.state = stm[n].state
        /\ d.legacy = stm[n].legacy /\ d.writing = stm[n].writing
        /\ d.nextSnapshot = start[k]
    BY <1>3, Zenon DEF Stm
  <1> HIDE DEF d
  <1>6. given' = given /\ twice' = twice /\ resetLost' = resetLost
    BY <1>1, Zenon DEF history
  <1>7. /\ leader'[n] = 0 /\ start'[n] = start[k] /\ applied'[n] = start[k] /\ stm'[n] = d
        /\ \A m \in Node \ {n} : /\ leader'[m] = leader[m] /\ start'[m] = start[m]
                                 /\ applied'[m] = applied[m] /\ stm'[m] = stm[m]
    BY <1>1, <1>2, <1>4, Zenon DEF Types
  <1>8. Types'
    <2>1. leader' \in [Node -> Nat] /\ start' \in [Node -> Nat] /\ applied' \in [Node -> Nat]
      BY <1>1, <1>2, <1>3, Zenon DEF Types
    <2>2. stm' \in [Node -> Stm]
      BY <1>2, <1>4, <1>5, Zenon DEF Types
    <2> QED
      BY <1>1, <1>2, <1>6, <2>1, <2>2, Zenon DEF Types
  <1>9. TermsInv'
    BY <1>1, <1>2, <1>5, <1>7, QuietTerms, Zenon
  <1>10. AppliedInv'
    <2> SUFFICES ASSUME NEW m \in Node
                 PROVE  /\ applied'[m] <= Len(committed)
                        /\ start'[m] = 0 \/ start'[m] < Len(committed)
                        /\ stm'[m].writing = NoSnapshot \/ stm'[m].writing < Len(committed)
                        /\ stm'[m].nextSnapshot = NoSnapshot
                           \/ stm'[m].nextSnapshot <= applied'[m]
                        /\ applied'[m] = 0 => stm'[m].state = 0 /\ stm'[m].legacy
                        /\ applied'[m] > start'[m] => /\ stm'[m].state = committed[applied'[m]]
                                                      /\ ~stm'[m].legacy
      BY <1>1, Zenon DEF AppliedInv, NoSnapshot
    <2>1. CASE m # n
      BY <2>1, <1>2, <1>7 DEF AppliedInv
    <2>2. CASE m = n
      <3>1. /\ start[k] = 0 \/ start[k] < Len(committed)
            /\ stm[n].writing = NoSnapshot \/ stm[n].writing < Len(committed)
        BY <1>2, Zenon DEF AppliedInv
      <3> QED
        BY <3>1, <2>2, <1>1, <1>3, <1>5, <1>7
    <2> QED
      BY <2>1, <2>2, Zenon
  <1>11. ASSUME IdsInv PROVE IdsInv'
    <2>1. \A m \in Node \ {n} : Alone(m)
      BY <1>1, <1>2, <1>7, <1>11, StaysAlone, Zenon
    <2>2. Alone(n)
      BY <1>1, <1>2, <1>5, <1>7, <1>11, ResignsAlone, Zenon
    <2> QED
      BY <1>1, <1>2, <1>6, <1>11, <2>1, <2>2, QuietLog, Moves, Zenon
  <1> QED
    BY <1>2, <1>6, <1>8, <1>9, <1>10, <1>11, Zenon DEF IdInv

\* A leader of a new term, which has not kept an entry.
LEMMA ElectStep ==
    ASSUME IdInv, NEW n \in Node, term' = term + 1,
           leader' = [leader EXCEPT ![n] = term + 1],
           syncTo' = [syncTo EXCEPT ![n] = Len(committed)],
           UNCHANGED <<committed, orphans, req, start, applied, stm, history>>
    PROVE  IdInv'
  <1>1. /\ committed' = committed /\ orphans' = orphans /\ req' = req /\ start' = start
        /\ applied' = applied /\ stm' = stm
        /\ given' = given /\ twice' = twice /\ resetLost' = resetLost
    BY Zenon DEF history
  <1>2. Types /\ TermsInv /\ AppliedInv /\ (resetLost \/ IdsInv)
    BY Zenon DEF IdInv
  <1>3. /\ term \in Nat /\ Len(committed) \in Nat
        /\ \A m \in Node : leader[m] \in Nat /\ stm[m].insync \in Nat /\ syncTo[m] \in Nat
    BY <1>2, Fields, Values, Zenon DEF Types
  <1>4. /\ leader'[n] = term + 1 /\ syncTo'[n] = Len(committed)
        /\ \A m \in Node \ {n} : leader'[m] = leader[m] /\ syncTo'[m] = syncTo[m]
    BY <1>2, Zenon DEF Types
  <1>5. Types'
    <2>1. leader' \in [Node -> Nat] /\ syncTo' \in [Node -> Nat] /\ term' \in Nat
      BY <1>2, <1>3, SMTT(30) DEF Types
    <2> QED
      BY <1>1, <1>2, <2>1, Zenon DEF Types
  <1>6. TermsInv'
    <2>1. \A m \in Node : /\ leader[m] <= term /\ stm[m].insync <= term
                          /\ req[m].pc # "idle" => stm[m].insync > 0
                          /\ req[m].pc = "wait" => req[m].offset > 0
                          /\ syncTo[m] <= Len(committed)
      BY <1>2, Zenon DEF TermsInv
    <2>2. term > 0 /\ TermOfOne /\ Pending
      BY <1>2, Zenon DEF TermsInv
    <2>3. \A m \in Node : /\ leader'[m] <= term' /\ stm'[m].insync <= term'
                          /\ req'[m].pc # "idle" => stm'[m].insync > 0
                          /\ req'[m].pc = "wait" => req'[m].offset > 0
                          /\ leader'[m] = term' => syncTo'[m] = Len(committed')
                          /\ syncTo'[m] <= Len(committed')
      BY <1>1, <1>3, <1>4, <2>1, SMTT(30)
    <2>4. TermOfOne'
      <3> SUFFICES ASSUME NEW j \in Node, NEW m \in Node, j # m
                   PROVE  /\ leader'[j] > 0 => leader'[j] # leader'[m] /\ leader'[j] # stm'[m].insync
                          /\ stm'[j].insync > 0 => stm'[j].insync # stm'[m].insync
        BY Zenon DEF TermOfOne
      <3>1. /\ leader[j] > 0 => leader[j] # leader[m] /\ leader[j] # stm[m].insync
            /\ stm[j].insync > 0 => stm[j].insync # stm[m].insync
        BY <2>2, Zenon DEF TermOfOne
      <3> QED
        BY <3>1, <2>1, <1>1, <1>3, <1>4
    <2>5. Pending'
      <3> SUFFICES ASSUME NEW o \in orphans, NEW m \in Node
                   PROVE  /\ o.term > 0 /\ o.term <= term'
                          /\ o.term = stm[m].insync =>
                                /\ req[m].pc = "replicate" /\ o = Entry(m)'
                                /\ syncTo'[m] = Len(committed)
                          /\ o.term = leader'[m] => stm[m].insync = leader'[m]
        <4>1. \A o \in orphans : o.term > 0 /\ o.term <= term'
          <5>1. \A o \in orphans : o.term > 0 /\ o.term <= term /\ o.term \in Nat
            BY <1>2, <2>2, Zenon DEF Pending, Types
          <5> QED
            BY <5>1, <1>3, Zenon
        <4> QED
          BY <4>1, <1>1 DEF Pending
      <3>1. /\ o.term > 0 /\ o.term <= term /\ o.term \in Nat
            /\ o.term = stm[m].insync => /\ req[m].pc = "replicate" /\ o = Entry(m)
                                         /\ syncTo[m] = Len(committed)
            /\ o.term = leader[m] => stm[m].insync = leader[m]
        BY <1>2, <2>2, Zenon DEF Pending, Types
      <3>2. Entry(m)' = Entry(m)
        BY <1>1, Zenon DEF Entry
      <3> QED
        BY <3>1, <3>2, <1>3, <1>4, SMTT(30)
    <2> QED
      BY <1>3, <2>2, <2>3, <2>4, <2>5 DEF TermsInv
  <1>7. AppliedInv'
    BY <1>1, <1>2, QuietApplied, Zenon
  <1>8. ASSUME IdsInv PROVE IdsInv'
    <2>1. \A m \in Node \ {n} : Alone(m)
      BY <1>1, <1>2, <1>4, <1>8, StaysAlone, Zenon
    <2>2. leader'[n] # stm[n].insync
      BY <1>2, <1>3, <1>4 DEF TermsInv
    <2>3. Alone(n)
      BY <1>1, <1>2, <1>8, <2>2, ResignsAlone, Zenon
    <2> QED
      BY <1>1, <1>2, <1>8, <2>1, <2>3, QuietLog, Moves, Zenon
  <1> QED
    BY <1>1, <1>2, <1>5, <1>6, <1>7, <1>8, Zenon DEF IdInv

\* The applied entries when another one is committed.
LEMMA GrowsApplied ==
    ASSUME Types, AppliedInv, NEW v \in Nat, committed' = Append(committed, v),
           UNCHANGED <<start, applied, stm>>
    PROVE  AppliedInv'
  <1>1. /\ Len(committed') = Len(committed) + 1 /\ Len(committed) \in Nat
        /\ \A i \in 1..Len(committed) : committed'[i] = committed[i]
    BY AppendValues, Values, Zenon
  <1> SUFFICES ASSUME NEW m \in Node
               PROVE  /\ applied[m] <= Len(committed')
                      /\ start[m] = 0 \/ start[m] < Len(committed')
                      /\ stm[m].writing = NoSnapshot \/ stm[m].writing < Len(committed')
                      /\ stm[m].nextSnapshot = NoSnapshot \/ stm[m].nextSnapshot <= applied[m]
                      /\ applied[m] = 0 => stm[m].state = 0 /\ stm[m].legacy
                      /\ applied[m] > start[m] => /\ stm[m].state = committed'[applied[m]]
                                                  /\ ~stm[m].legacy
    BY Zenon DEF AppliedInv, NoSnapshot
  <1>2. /\ applied[m] <= Len(committed)
        /\ start[m] = 0 \/ start[m] < Len(committed)
        /\ stm[m].writing = NoSnapshot \/ stm[m].writing < Len(committed)
        /\ stm[m].nextSnapshot = NoSnapshot \/ stm[m].nextSnapshot <= applied[m]
        /\ applied[m] = 0 => stm[m].state = 0 /\ stm[m].legacy
        /\ applied[m] > start[m] => stm[m].state = committed[applied[m]] /\ ~stm[m].legacy
    BY Zenon DEF AppliedInv
  <1>3. applied[m] \in Nat /\ start[m] \in Nat /\ stm[m].writing \in Nat \cup {NoSnapshot}
    BY Fields, Zenon
  <1> QED
    BY <1>1, <1>2, <1>3, SMTT(30) DEF NoSnapshot

\* The log when another entry is committed.
LEMMA GrowsLog ==
    ASSUME Types, IdsInv, NEW v \in Nat, v >= Last, committed' = Append(committed, v),
           given' = given, orphans' = {}
    PROVE  LogInv' /\ Last' = v /\ Last' \in Nat /\ Last' >= Last
  <1>1. /\ Len(committed') = Len(committed) + 1 /\ Len(committed) \in Nat
        /\ committed'[Len(committed) + 1] = v /\ Last' = v
        /\ \A i \in 1..Len(committed) : committed'[i] = committed[i]
    BY AppendValues, Values, Zenon
  <1>2. Last \in Nat /\ given \subseteq Nat
    BY Values, Zenon DEF Types
  <1>3. \A i \in 1..Len(committed) : committed[i] <= v /\ committed[i] \in Nat
    <2>1. \A i \in 1..Len(committed) : committed[i] <= Last
      BY <1>1 DEF IdsInv, LogInv, Last, ValueAt
    <2>2. \A i \in 1..Len(committed) : committed[i] \in Nat
      BY DEF Types
    <2> QED
      BY <2>1, <2>2, <1>2, SMTT(30)
  <1>4. ASSUME NEW i \in 1..Len(committed'), NEW j \in 1..Len(committed'), i <= j
        PROVE  committed'[i] <= committed'[j]
    <2>1. CASE j \in 1..Len(committed)
      <3>1. i \in 1..Len(committed)
        BY <1>1, <1>4, <2>1
      <3> QED
        BY <1>1, <1>4, <2>1, <3>1, Zenon DEF IdsInv, LogInv
    <2>2. CASE j = Len(committed) + 1
      <3>1. CASE i \in 1..Len(committed)
        BY <1>1, <1>3, <2>2, <3>1, Zenon
      <3>2. CASE i = Len(committed) + 1
        BY <1>1, <2>2, <3>2, SMTT(30)
      <3> QED
        BY <1>1, <3>1, <3>2
    <2> QED
      BY <1>1, <2>1, <2>2, SMTT(30)
  <1>5. \A g \in given' : g < Last'
    BY <1>1, <1>2 DEF IdsInv, LogInv
  <1> QED
    BY <1>1, <1>2, <1>4, <1>5, Zenon DEF LogInv

\* A node that takes no part in the step in which another entry is committed does not
\* know it.
LEMMA BehindAlone ==
    ASSUME Types, TermsInv, IdsInv, NEW v \in Nat, committed' = Append(committed, v),
           orphans' = {}, NEW m \in Node, stm'[m] = stm[m], req'[m] = req[m],
           leader'[m] = leader[m], syncTo'[m] = syncTo[m]
    PROVE  Alone(m) /\ ~Ahead(m)' /\ Owned(m)' = Owned(m)
  <1>1. /\ Owned(m)' = Owned(m) /\ (Asked(m)' <=> Asked(m))
    BY Same, Zenon
  <1>2. ~Live(m)'
    BY Zenon DEF Live
  <1>3. ~Current(m)'
    <2>1. Len(committed') = Len(committed) + 1 /\ Len(committed) \in Nat
      BY AppendValues, Values, Zenon
    <2>2. syncTo[m] <= Len(committed) /\ syncTo[m] \in Nat
      BY Fields, Zenon DEF TermsInv
    <2> QED
      BY <2>1, <2>2 DEF Current, Attached
  <1>4. NodeInv(m)
    BY Zenon DEF IdsInv
  <1> QED
    BY <1>1, <1>2, <1>3, <1>4, Zenon DEF Alone, NodeInv, Ahead

\* A request that waits to be applied.
LEMMA WaitFields ==
    ASSUME NEW q \in Req, NEW o \in Nat
    PROVE  /\ Wait(q, o) \in Req /\ Wait(q, o).pc = "wait" /\ Wait(q, o).offset = o
           /\ Wait(q, o).kind = q.kind /\ Wait(q, o).legacy = q.legacy
           /\ Wait(q, o).value = q.value
  <1>1. Wait(q, o) \in Req
    BY Zenon DEF Wait, Req
  <1> QED
    BY <1>1, Zenon DEF Wait, Req

\* The leader commits what it has reserved.
LEMMA CommitStep ==
    ASSUME IdInv, NEW n \in Node, Commit(n)
    PROVE  IdInv'
  <1> DEFINE v == req[n].value
             r == Wait(req[n], Len(committed) + 1)
  <1>1. /\ req[n].pc = "replicate" /\ Entry(n) \in orphans
        /\ leader[n] = term /\ stm[n].insync = term
        /\ committed' = Append(committed, v) /\ orphans' = {}
        /\ syncTo' = [syncTo EXCEPT ![n] = Len(committed) + 1]
        /\ req' = [req EXCEPT ![n] = r]
        /\ UNCHANGED <<term, leader, start, applied, stm, history, faults>>
    BY Zenon DEF Commit
  <1>2. Types /\ TermsInv /\ AppliedInv /\ (resetLost \/ IdsInv)
    BY Zenon DEF IdInv
  <1>3. /\ req[n] \in Req /\ stm[n] \in Stm /\ v \in Nat /\ Len(committed) \in Nat /\ term \in Nat
        /\ applied[n] \in Nat /\ req[n].legacy \in BOOLEAN
    BY <1>2, Fields, Values, Zenon DEF Types
  <1>4. /\ r \in Req /\ r.pc = "wait" /\ r.offset = Len(committed) + 1
        /\ r.kind = req[n].kind /\ r.legacy = req[n].legacy /\ r.value = v
    <2>1. Len(committed) + 1 \in Nat
      BY <1>3
    <2> QED
      BY <1>3, <2>1, WaitFields, Zenon
  <1>5. /\ committed' \in Seq(Nat) /\ Len(committed') = Len(committed) + 1 /\ Last' = v
        /\ \A i \in 0..Len(committed) : ValueAt(i)' = ValueAt(i)
    BY <1>1, <1>2, <1>3, AppendValues, Zenon
  <1> HIDE DEF v, r
  <1>6. /\ term' = term /\ leader' = leader /\ start' = start /\ applied' = applied
        /\ stm' = stm /\ given' = given /\ twice' = twice /\ resetLost' = resetLost
    BY <1>1, Zenon DEF history
  <1>7. /\ syncTo'[n] = Len(committed) + 1 /\ req'[n] = r
        /\ \A m \in Node \ {n} : syncTo'[m] = syncTo[m] /\ req'[m] = req[m]
    BY <1>1, <1>2, Zenon DEF Types
  <1>8. Types'
    <2>1. syncTo' \in [Node -> Nat] /\ req' \in [Node -> Req]
      BY <1>1, <1>2, <1>3, <1>4 DEF Types
    <2> QED
      BY <1>1, <1>2, <1>5, <1>6, <2>1, Zenon DEF Types
  <1>9. TermsInv'
    <2>1. \A m \in Node : /\ leader[m] <= term /\ stm[m].insync <= term
                          /\ req[m].pc # "idle" => stm[m].insync > 0
                          /\ req[m].pc = "wait" => req[m].offset > 0
                          /\ syncTo[m] <= Len(committed) /\ syncTo[m] \in Nat
      BY <1>2, Fields, Zenon DEF TermsInv
    <2>2. term > 0 /\ TermOfOne
      BY <1>2, Zenon DEF TermsInv
    <2>3. \A m \in Node \ {n} : leader[m] # term
      BY <1>1, <2>2, Zenon DEF TermOfOne
    <2>4. \A m \in Node : /\ leader'[m] <= term' /\ stm'[m].insync <= term'
                          /\ req'[m].pc # "idle" => stm'[m].insync > 0
                          /\ req'[m].pc = "wait" => req'[m].offset > 0
                          /\ leader'[m] = term' => syncTo'[m] = Len(committed')
                          /\ syncTo'[m] <= Len(committed')
      BY <1>1, <1>3, <1>4, <1>5, <1>6, <1>7, <2>1, <2>2, <2>3, SMTT(20)
    <2>5. TermOfOne' /\ Pending'
      BY <1>1, <1>6, <2>2, Zenon DEF TermOfOne, Pending
    <2> QED
      BY <1>6, <2>2, <2>4, <2>5, Zenon DEF TermsInv
  <1>10. AppliedInv'
    BY <1>1, <1>2, <1>3, <1>6, GrowsApplied, Zenon
  <1>11. ASSUME IdsInv PROVE IdsInv'
    <2>1. /\ \A m \in Node \ {n} : Alone(m) /\ ~Ahead(m)' /\ Owned(m)' = Owned(m)
      BY <1>1, <1>2, <1>3, <1>6, <1>7, <1>11, BehindAlone, Zenon
    <2>2. Live(n) /\ Current(n) /\ NodeInv(n)
      <3>1. syncTo[n] = Len(committed)
        BY <1>1, <1>2, Zenon DEF TermsInv
      <3>2. term > 0
        BY <1>2, Zenon DEF TermsInv
      <3> QED
        BY <1>1, <1>11, <3>1, <3>2, Zenon DEF Live, Current, Attached, IdsInv
    <2>3. /\ v >= Last /\ Reserves(n) /\ Ready(n)
      <3>1. Entry(n).value = v
        BY Zenon DEF Entry, v
      <3> QED
        BY <1>1, <1>11, <2>2, <3>1, Zenon DEF IdsInv, LogInv, NodeInv
    <2>4. /\ ~req[n].legacy => v = stm[n].currId + BatchSize /\ ~stm[n].legacy
          /\ req[n].legacy => v = 1
      BY <1>1, <2>2, <2>3, Zenon DEF Reserves, NodeInv, Asked, v
    <2>5. BatchSize \in Nat /\ BatchSize > 0 /\ stm[n].currId \in Nat
      BY <1>2, IdAssumption, Fields, SMTT(20)
    <2>6. Alone(n)
      <3>1. Owned(n)' = IF req[n].legacy THEN 0 ELSE BatchSize
        BY <1>4, <1>7, ZenonT(40) DEF Owned
      <3>2. Owned(n)' = 0 \/ Grows(n)
        BY <3>1, <2>1, <2>2, <2>4, <2>5, <1>3, <1>5, SMTT(20) DEF Grows
      <3>3. Asked(n)' /\ ~Live(n)'
        BY <1>1, <1>4, <1>6, <1>7, <2>2, Zenon DEF NodeInv, Asked, Live
      <3>4. Ready(n)'
        <4>1. applied[n] <= Len(committed)
          BY <1>2, Zenon DEF AppliedInv
        <4>2. ValueAt(applied[n])' = ValueAt(applied[n])
          BY <4>1, <1>3, <1>5, <1>6 DEF ValueAt
        <4>3. Known(n, stm[n])'
          <5>1. stm[n].state = ValueAt(applied[n]) /\ (stm[n].legacy <=> applied[n] = 0)
            BY <2>3, Zenon DEF Ready, Known
          <5>2. v <= stm[n].currId + BatchSize /\ (stm[n].legacy => v <= 1)
            BY <2>4, <2>5, <1>3
          <5> QED
            BY <5>1, <5>2, <4>2, <1>5, <1>6, Zenon DEF Known
        <4>4. (req[n].kind # "reset" \/ req[n].legacy) => stm[n].currId <= stm[n].state
          BY <1>1, <2>3, Zenon DEF Ready
        <4> QED
          BY <4>3, <4>4, <2>4, <1>3, <1>4, <1>5, <1>6, <1>7, ZenonT(40) DEF Ready
      <3> QED
        BY <3>2, <3>3, <3>4, <2>2, <1>6, Zenon DEF Alone, Ahead
    <2> QED
      BY <1>1, <1>2, <1>3, <1>6, <1>11, <2>1, <2>3, <2>6, GrowsLog, Moves, Zenon
  <1> QED
    BY <1>2, <1>6, <1>8, <1>9, <1>10, <1>11, Zenon DEF IdInv

\* A leader of a new term that has kept an entry: whoever waits for it owns what it
\* has reserved.
LEMMA KeepStep ==
    ASSUME IdInv, NEW n \in Node, NEW kept \in orphans, term' = term + 1,
           leader' = [leader EXCEPT ![n] = term + 1],
           committed' = Append(committed, kept.value), orphans' = {},
           syncTo' = [syncTo EXCEPT ![n] = Len(committed) + 1],
           req' = [m \in Node |-> IF req[m].pc = "replicate" /\ Entry(m) = kept
                                  THEN Wait(req[m], Len(committed) + 1) ELSE req[m]],
           UNCHANGED <<start, applied, stm, history>>
    PROVE  IdInv'
  <1> DEFINE v == kept.value
             L == Len(committed)
             Owner(m) == req[m].pc = "replicate" /\ Entry(m) = kept
  <1>1. /\ start' = start /\ applied' = applied /\ stm' = stm
        /\ given' = given /\ twice' = twice /\ resetLost' = resetLost
    BY Zenon DEF history
  <1>2. Types /\ TermsInv /\ AppliedInv /\ (resetLost \/ IdsInv)
    BY Zenon DEF IdInv
  <1>3. /\ term \in Nat /\ L \in Nat /\ L + 1 \in Nat /\ v \in Nat
        /\ \A m \in Node : /\ leader[m] \in Nat /\ stm[m].insync \in Nat /\ syncTo[m] \in Nat
                           /\ req[m] \in Req /\ req[m].legacy \in BOOLEAN
    <2>1. \A m \in Node : /\ leader[m] \in Nat /\ stm[m].insync \in Nat /\ syncTo[m] \in Nat
                          /\ req[m] \in Req /\ req[m].legacy \in BOOLEAN
      BY <1>2, Fields, Zenon
    <2>2. L \in Nat /\ L + 1 \in Nat
      BY <1>2, Values, SMTT(20)
    <2>3. term \in Nat /\ v \in Nat
      BY <1>2, Zenon DEF Types
    <2> QED
      BY <2>1, <2>2, <2>3, Zenon
  <1>4. committed' \in Seq(Nat) /\ Len(committed') = L + 1 /\ Last' = v
    BY <1>2, <1>3, AppendValues, Zenon
  <1>5. /\ leader'[n] = term + 1 /\ syncTo'[n] = L + 1
        /\ \A m \in Node \ {n} : leader'[m] = leader[m] /\ syncTo'[m] = syncTo[m]
    BY <1>2, Zenon DEF Types
  <1>6. \A m \in Node : /\ ~Owner(m) => req'[m] = req[m]
                        /\ Owner(m) =>
                              /\ req'[m] \in Req /\ req'[m].pc = "wait" /\ req'[m].offset = L + 1
                              /\ req'[m].kind = req[m].kind /\ req'[m].legacy = req[m].legacy
    <2> SUFFICES ASSUME NEW m \in Node
                 PROVE  /\ ~Owner(m) => req'[m] = req[m]
                        /\ Owner(m) =>
                              /\ req'[m] \in Req /\ req'[m].pc = "wait" /\ req'[m].offset = L + 1
                              /\ req'[m].kind = req[m].kind /\ req'[m].legacy = req[m].legacy
      BY Zenon
    <2>1. req'[m] = IF Owner(m) THEN Wait(req[m], L + 1) ELSE req[m]
      BY Zenon
    <2> HIDE DEF Owner, L
    <2>2. req[m] \in Req /\ L + 1 \in Nat
      BY <1>3, Zenon
    <2> DEFINE q == Wait(req[m], L + 1)
    <2>3. /\ q \in Req /\ q.pc = "wait" /\ q.offset = L + 1
          /\ q.kind = req[m].kind /\ q.legacy = req[m].legacy
      BY <2>2, WaitFields, Zenon
    <2> HIDE DEF q
    <2>4. req'[m] = IF Owner(m) THEN q ELSE req[m]
      BY <2>1, Zenon DEF q
    <2> QED
      BY <2>3, <2>4, Zenon
  <1>7. \A m, k \in Node : Owner(m) /\ Owner(k) => m = k
    <2> SUFFICES ASSUME NEW m \in Node, NEW k \in Node, Owner(m), Owner(k), m # k
                 PROVE  FALSE
      BY Zenon
    <2>1. stm[m].insync > 0 /\ stm[m].insync # stm[k].insync
      BY <1>2, Zenon DEF TermsInv, TermOfOne
    <2>2. Entry(m).term = stm[m].insync /\ Entry(k).term = stm[k].insync
      BY Zenon DEF Entry
    <2> QED
      BY <2>1, <2>2, Zenon
  <1>8. \A m \in Node : /\ leader[m] <= term /\ stm[m].insync <= term
                        /\ req[m].pc # "idle" => stm[m].insync > 0
                        /\ req[m].pc = "wait" => req[m].offset > 0
                        /\ syncTo[m] <= L
    BY <1>2, Zenon DEF TermsInv
  <1>9. Types'
    <2>1. leader' \in [Node -> Nat] /\ syncTo' \in [Node -> Nat] /\ term' \in Nat
      BY <1>2, <1>3, SMTT(30) DEF Types
    <2>2. req' \in [Node -> Req]
      <3>1. \A m \in Node : req'[m] \in Req
        BY <1>3, <1>6, Zenon
      <3> QED
        BY <3>1, Zenon
    <2> QED
      BY <1>1, <1>2, <1>4, <2>1, <2>2, Zenon DEF Types
  <1> HIDE DEF v, L, Owner
  <1>10. TermsInv'
    <2>1. \A m \in Node : /\ leader'[m] <= term' /\ stm'[m].insync <= term'
                          /\ req'[m].pc # "idle" => stm'[m].insync > 0
                          /\ req'[m].pc = "wait" => req'[m].offset > 0
                          /\ leader'[m] = term' => syncTo'[m] = Len(committed')
                          /\ syncTo'[m] <= Len(committed')
      <3> SUFFICES ASSUME NEW m \in Node
                   PROVE  /\ leader'[m] <= term' /\ stm'[m].insync <= term'
                          /\ req'[m].pc # "idle" => stm'[m].insync > 0
                          /\ req'[m].pc = "wait" => req'[m].offset > 0
                          /\ leader'[m] = term' => syncTo'[m] = Len(committed')
                          /\ syncTo'[m] <= Len(committed')
        BY Zenon
      <3>1. /\ leader'[m] <= term' /\ stm'[m].insync <= term'
            /\ leader'[m] = term' => syncTo'[m] = Len(committed')
            /\ syncTo'[m] <= Len(committed')
        BY <1>1, <1>3, <1>4, <1>5, <1>8, SMTT(20)
      <3>2. /\ req'[m].pc # "idle" => stm'[m].insync > 0
            /\ req'[m].pc = "wait" => req'[m].offset > 0
        BY <1>1, <1>3, <1>6, <1>8, SMTT(20) DEF Owner
      <3> QED
        BY <3>1, <3>2, Zenon
    <2>2. TermOfOne'
      <3> SUFFICES ASSUME NEW j \in Node, NEW m \in Node, j # m
                   PROVE  /\ leader'[j] > 0 => leader'[j] # leader'[m] /\ leader'[j] # stm'[m].insync
                          /\ stm'[j].insync > 0 => stm'[j].insync # stm'[m].insync
        BY Zenon DEF TermOfOne
      <3>1. /\ leader[j] > 0 => leader[j] # leader[m] /\ leader[j] # stm[m].insync
            /\ stm[j].insync > 0 => stm[j].insync # stm[m].insync
        BY <1>2, ZenonT(40) DEF TermsInv, TermOfOne
      <3> QED
        BY <3>1, <1>1, <1>3, <1>5, <1>8, SMTT(20)
    <2>3. Pending' /\ term' > 0
      BY <1>3, SMTT(20) DEF Pending
    <2> QED
      BY <2>1, <2>2, <2>3, Zenon DEF TermsInv
  <1>11. AppliedInv'
    BY <1>1, <1>2, <1>3, GrowsApplied, Zenon DEF v
  <1>12. ASSUME IdsInv PROVE IdsInv'
    <2>1. v >= Last
      BY <1>12, Zenon DEF IdsInv, LogInv, v
    <2>2. \A m \in Node : ~Ahead(m)'
      <3> SUFFICES ASSUME NEW m \in Node
                   PROVE  ~Live(m)' /\ ~Current(m)'
        BY Zenon DEF Ahead
      <3>1. leader'[m] # stm'[m].insync \/ syncTo'[m] # Len(committed')
        BY <1>1, <1>3, <1>4, <1>5, <1>8, SMTT(20)
      <3> QED
        BY <3>1, Zenon DEF Live, Current, Attached
    <2>3. BatchSize \in Nat /\ BatchSize > 0
      BY IdAssumption
    <2>4. \A m \in Node : ~Owner(m) => Owned(m)' \in {0, Owned(m)}
      <3> SUFFICES ASSUME NEW m \in Node, ~Owner(m)
                   PROVE  Owned(m)' \in {0, Owned(m)}
        BY Zenon
      <3>1. req'[m] = req[m] /\ stm'[m] = stm[m]
        BY <1>1, <1>6, Zenon
      <3>2. leader'[m] = leader[m] \/ leader'[m] # stm[m].insync
        BY <1>3, <1>5, <1>8, SMTT(20)
      <3> QED
        BY <3>1, <3>2, Zenon DEF Owned, Leads
    <2>5. ASSUME NEW m \in Node
          PROVE  Alone(m)
      <3>1. NodeInv(m)
        BY <1>12, Zenon DEF IdsInv
      <3>2. Asked(m)'
        BY <1>1, <1>6, <3>1, Zenon DEF NodeInv, Asked, Owner
      <3>3. Owned(m)' \in {0, Owned(m)} \/ Grows(m)
        <4>1. CASE Owner(m)
          <5>1. Owned(m)' = IF req[m].legacy THEN 0 ELSE BatchSize
            BY <4>1, <1>6, Zenon DEF Owned
          <5>2. Live(m) /\ Reserves(m)
            BY <4>1, <3>1, Zenon DEF Live, Owner, NodeInv
          <5>3. req[m].value = v
            BY <4>1, Zenon DEF Owner, Entry, v
          <5>4. ~req[m].legacy => stm[m].currId + BatchSize = v
            BY <5>2, <5>3, Zenon DEF Reserves
          <5>5. \A k \in Node \ {m} : ~Owner(k)
            BY <4>1, <1>7, Zenon
          <5>6. ~req[m].legacy => Grows(m)
            BY <5>1, <5>2, <5>4, <5>5, <2>2, <2>4, <1>3, <1>4, SMTT(20) DEF Grows
          <5> QED
            BY <5>1, <5>6, Zenon
        <4>2. CASE ~Owner(m)
          BY <4>2, <2>4, Zenon
        <4> QED
          BY <4>1, <4>2, Zenon
      <3>4. ~Live(m)' /\ ~Current(m)'
        BY <2>2, Zenon DEF Ahead
      <3> QED
        BY <3>2, <3>3, <3>4, <2>2, <1>1, Zenon DEF Alone
    <2> QED
      BY <1>1, <1>2, <1>3, <1>12, <2>1, <2>5, GrowsLog, Moves, Zenon DEF v
  <1> QED
    BY <1>1, <1>2, <1>9, <1>10, <1>11, <1>12, Zenon DEF IdInv

\* No step breaks the invariant.
LEMMA IdStep == IdInv /\ [Next]_vars => IdInv'
  <1> SUFFICES ASSUME IdInv, [Next]_vars
               PROVE  IdInv'
    BY Zenon
  <1>1. ASSUME NEW n \in Node, NEW s, Rests(n, s), Acts(n, s), UNCHANGED others
        PROVE  IdInv'
    <2>1. Types /\ TermsInv /\ AppliedInv /\ (resetLost \/ IdsInv) /\ s \in Stm
      BY <1>1, Zenon DEF IdInv, Rests, RestsTerm
    <2>2. Types' /\ TermsInv' /\ AppliedInv'
      BY <1>1, <2>1, ActTerms, Zenon DEF Rests
    <2>3. resetLost' = resetLost
      BY <1>1, <2>1, ActShape, Zenon DEF Shape
    <2>4. CASE resetLost
      BY <2>2, <2>3, <2>4, Zenon DEF IdInv
    <2>5. CASE ~resetLost
      <3>1. IdsInv'
        BY <1>1, <2>1, <2>2, <2>5, ActIds, Zenon DEF Rests
      <3> QED
        BY <2>2, <3>1, Zenon DEF IdInv
    <2> QED
      BY <2>4, <2>5, Zenon
  <1>2. ASSUME NEW n \in Node, NEW kind \in {"allocate", "reset"}, Request(n, kind)
        PROVE  IdInv'
    BY <1>1, <1>2, RequestActs, Zenon
  <1>3. ASSUME NEW n \in Node, Done(n)
        PROVE  IdInv'
    BY <1>1, <1>3, DoneActs, Zenon
  <1>4. ASSUME NEW n \in Node, Elect(n)
        PROVE  IdInv'
    <2>1. /\ term' = term + 1 /\ leader' = [leader EXCEPT ![n] = term + 1]
          /\ start' = start /\ applied' = applied /\ stm' = stm /\ history' = history
      BY <1>4, Zenon DEF Elect
    <2>2. CASE /\ UNCHANGED <<committed, orphans, req>>
               /\ syncTo' = [syncTo EXCEPT ![n] = Len(committed)]
      BY <2>1, <2>2, ElectStep, Zenon
    <2>3. ASSUME NEW kept \in orphans,
                 committed' = Append(committed, kept.value), orphans' = {},
                 syncTo' = [syncTo EXCEPT ![n] = Len(committed) + 1],
                 req' = [m \in Node |-> IF req[m].pc = "replicate" /\ Entry(m) = kept
                                        THEN Wait(req[m], Len(committed) + 1) ELSE req[m]]
          PROVE  IdInv'
      BY <2>1, <2>3, KeepStep, Zenon
    <2> QED
      BY <1>4, <2>2, <2>3, Zenon DEF Elect
  <1>5. CASE UNCHANGED vars
    <2>1. /\ committed' = committed /\ orphans' = orphans /\ term' = term /\ leader' = leader
          /\ syncTo' = syncTo /\ start' = start /\ applied' = applied /\ stm' = stm
          /\ req' = req /\ given' = given /\ twice' = twice /\ resetLost' = resetLost
      BY <1>5, Zenon DEF vars, raft, history
    <2>2. Types /\ TermsInv /\ AppliedInv /\ (resetLost \/ IdsInv)
      BY Zenon DEF IdInv
    <2>3. Types'
      BY <2>1, <2>2, ZenonT(40) DEF Types
    <2>4. TermsInv'
      BY <2>1, <2>2, ZenonT(40) DEF TermsInv, TermOfOne, Pending, Entry
    <2>5. AppliedInv'
      BY <2>1, <2>2, QuietApplied, Zenon
    <2>6. ASSUME IdsInv PROVE IdsInv'
      <3>1. \A m \in Node : Alone(m)
        BY <2>1, <2>2, <2>6, StaysAlone, Zenon
      <3> QED
        BY <2>1, <2>2, <2>6, <3>1, QuietLog, Moves, Zenon
    <2> QED
      BY <2>1, <2>2, <2>3, <2>4, <2>5, <2>6, Zenon DEF IdInv
  <1> QED
    BY <1>2, <1>3, <1>4, <1>5, CommitStep, TruncatedStep, FailStep, ApplyStep,
       WriteSnapshotStep, InstallSnapshotStep, StepDownStep, RestartStep, Zenon DEF Next

\* It holds at the start: one leader, and nothing written.
LEMMA InitIds == Init => IdInv
  <1> SUFFICES ASSUME Init
               PROVE  IdInv
    BY Zenon
  <1>1. /\ Fresh \in Stm /\ Fresh.insync = 0 /\ Fresh.currBatch = 0 /\ Fresh.legacy
        /\ Fresh.state = 0 /\ Fresh.writing = NoSnapshot /\ Fresh.nextSnapshot = NoSnapshot
        /\ Fresh.currId = 0 /\ Idle \in Req /\ Idle.pc = "idle"
    BY Zenon DEF Fresh, Stm, NoSnapshot, Idle, Req
  <1>2. /\ committed = <<>> /\ Len(committed) = 0 /\ orphans = {} /\ term = 1
        /\ given = {} /\ twice = {} /\ resetLost = FALSE
        /\ \A n \in Node : /\ leader[n] = (IF n = FirstLeader THEN 1 ELSE 0) /\ syncTo[n] = 0
                           /\ start[n] = 0 /\ applied[n] = 0 /\ stm[n] = Fresh
                           /\ req[n] = Idle
    BY Zenon DEF Init
  <1>3. Types
    <2>1. given \subseteq Nat /\ twice \subseteq Nat /\ resetLost \in BOOLEAN
      BY <1>2, Zenon
    <2>2. /\ committed \in Seq(Nat) /\ orphans \subseteq [term : Nat, value : Nat] /\ term \in Nat
      BY <1>2
    <2>3. /\ leader \in [Node -> Nat] /\ syncTo \in [Node -> Nat]
          /\ start \in [Node -> Nat] /\ applied \in [Node -> Nat]
      BY Zenon DEF Init
    <2>4. stm \in [Node -> Stm] /\ req \in [Node -> Req]
      BY <1>1, Zenon DEF Init
    <2> QED
      BY <2>1, <2>2, <2>3, <2>4, Zenon DEF Types
  <1>4. TermsInv
    <2>1. TermOfOne
      BY <1>1, <1>2 DEF TermOfOne
    <2>2. Pending
      BY <1>2, Zenon DEF Pending
    <2> QED
      BY <1>1, <1>2, <2>1, <2>2, SMTT(30) DEF TermsInv
  <1>5. AppliedInv
    BY <1>1, <1>2 DEF AppliedInv
  <1>6. IdsInv
    <2>1. LogInv /\ Last = 0
      BY <1>2, SMTT(30) DEF LogInv, Last, ValueAt
    <2>2. ASSUME NEW n \in Node
          PROVE  NodeInv(n) /\ Owned(n) = 0 /\ ~Ahead(n)
      <3>1. Owned(n) = 0
        BY <1>1, <1>2, Zenon DEF Owned
      <3>2. ~Live(n) /\ ~Current(n)
        BY <1>1, <1>2 DEF Live, Current, Attached
      <3>3. Asked(n)
        BY <1>1, <1>2, Zenon DEF Asked
      <3> QED
        BY <3>1, <3>2, <3>3 DEF NodeInv, Unused, Ahead
    <2>3. \A n \in Node : \A m \in Node \ {n} : PairInv(n, m)
      BY <2>2 DEF PairInv, Apart
    <2> QED
      BY <1>2, <2>1, <2>2, <2>3, Zenon DEF IdsInv
  <1> QED
    BY <1>3, <1>4, <1>5, <1>6, Zenon DEF IdInv

\* In every reachable state, what a node owns is reserved in the log, not handed out
\* and not owned by another node, and the entry that may be committed next reserves
\* ids behind all of it.
THEOREM IdInvariant == Spec => []IdInv
  <1>1. Init => IdInv
    BY InitIds, Zenon
  <1>2. IdInv /\ [Next]_vars => IdInv'
    BY IdStep, Zenon
  <1> QED
    BY <1>1, <1>2, PTL DEF Spec

\* allocate_id returns no id twice, whoever leads, unless a reset_next_id failed at a
\* node that stayed the leader: for any number of nodes, batch size, log capacity,
\* terms, entries and failures.
THEOREM IdsHandedOutOnce == Spec => []IdsUniqueUnlessResetLost
  <1>1. IdInv => IdsUniqueUnlessResetLost
    BY Zenon DEF IdInv, IdsInv, IdsUniqueUnlessResetLost
  <1> QED
    BY <1>1, IdInvariant, PTL
=============================================================================
