----------------------------- MODULE Transactions -----------------------------
(***************************************************************************)
(* Kafka transactions: the coordinator of one transactional id               *)
(* (tx_gateway_frontend, tm_stm, tm_stm_cache), the data partitions that     *)
(* take part (rm_stm), and a producer that follows the protocol.             *)
(*                                                                          *)
(* The coordinator's log holds the last tm_transaction written.  What an     *)
(* ongoing transaction has added to it is in the memory of the leader; the   *)
(* next leader fetches it from there, or gives the transaction up.  A leader *)
(* may have been replaced without knowing it.  A partition's operations are  *)
(* atomic, as they hold the lock of the producer id.                         *)
(***************************************************************************)
EXTENDS Naturals, FiniteSets

CONSTANTS
    Node,       \* replicas of the coordinator's partition
    Partition,  \* data partitions
    MaxTerm,    \* bound: terms of the coordinator
    MaxTx,      \* bound: transactions of the producer
    MaxFaults   \* bound: failed requests, expirations, and restarts

VARIABLES
    term, leader,  \* the last term; the term each node takes itself to lead, or 0
    log, applied,  \* the last record, and what each node has applied
    cache,         \* tm_stm_cache of each node
    op,            \* the request that holds the lock of the id, on each node
    rm,            \* rm_stm of each partition
    asking,        \* the try_abort request of each partition
    client,        \* the producer, and the next producer id
    ended,         \* history: the markers written over each transaction's data
    ackedCommit, ackedAbort,  \* history: what the producer was told
    excused,       \* history: what the whole transactions are not promised for
    faults

raft == <<term, leader, log, applied>>
history == <<ackedCommit, ackedAbort>>
vars == <<raft, cache, op, rm, asking, client, ended, history, excused, faults>>

NoTx == [status |-> "none"]
Idle == [kind |-> "idle"]
NotAsking == [at |-> "nobody"]
NoCache == [terms |-> {}, tx |-> [t \in 1..MaxTerm |-> NoTx], memTerm |-> 0, sealed |-> 0]

---------------------------------------------------------------------------
\* tm_stm_cache.

FindMem(c) == IF c.memTerm = 0 THEN NoTx ELSE c.tx[c.memTerm]

SetMem(c, t, tx) ==
    [c EXCEPT !.terms = @ \cup {t}, !.tx[t] = tx,
              !.memTerm = IF @ < t /\ (@ # 0 \/ c.sealed < t) THEN t ELSE @]

ClearMem(c) == [c EXCEPT !.sealed = IF c.memTerm = 0 THEN @ ELSE c.memTerm, !.memTerm = 0]

EraseMem(c) == IF c.memTerm = 0 THEN c ELSE [c EXCEPT !.tx[c.memTerm] = NoTx]

\* Mutant: the leader that is asked goes on.
FindUnsealed(c, t, logTx) ==
    [cache |-> c,
     tx |-> IF t \notin c.terms THEN NoTx
            ELSE IF c.tx[t] # NoTx THEN c.tx[t]
            ELSE IF logTx # NoTx /\ logTx.etag = t THEN logTx ELSE NoTx]

\* find: what the leader of term t knows; it seals its memory.
Find(c, t, logTx) ==
    [cache |-> IF c.memTerm = t THEN ClearMem(c) ELSE c,
     tx |-> IF t \notin c.terms THEN NoTx
            ELSE IF c.tx[t] # NoTx THEN c.tx[t]
            ELSE IF logTx # NoTx /\ logTx.etag = t THEN logTx ELSE NoTx]

\* apply_tm_update.
ApplyUpdate(c, tx) ==
    LET mem == FindMem(c)
        newer == mem # NoTx /\ (mem.etag < tx.etag \/ (mem.etag = tx.etag /\ mem.seq <= tx.seq))
        erased == IF newer THEN EraseMem(c) ELSE c
    IN  IF tx = NoTx THEN EraseMem(c)
        ELSE [erased EXCEPT !.tx = [t \in 1..MaxTerm |-> IF t < tx.etag THEN NoTx ELSE @[t]]]

\* get_tx and find_tx of tm_stm.
Known(n) == IF FindMem(cache[n]) # NoTx THEN FindMem(cache[n]) ELSE applied[n]

---------------------------------------------------------------------------
\* rm_stm: each operation gives the partition's state, the markers, and an answer.

Current(r, pid) == {x \in r.current : x.pid = pid}
HasData(r, pid) == \E d \in r.open : d.pid = pid
IsKnown(r, pid) == Current(r, pid) # {} \/ HasData(r, pid)

\* apply_control.
EndTx(r, pid, marker, answer) ==
    [rm |-> [r EXCEPT !.current = @ \ Current(r, pid), !.open = {d \in @ : d.pid # pid}],
     marks |-> {<<d.tx, marker>> : d \in {e \in r.open : e.pid = pid}},
     answer |-> answer]

Unchanged(r, answer) == [rm |-> r, marks |-> {}, answer |-> answer]

\* do_commit_tx.
DoCommitTx(r, pid, seq) ==
    IF r.fence[pid[1]] = 0 THEN Unchanged(r, "rejected")
    ELSE IF r.fence[pid[1]] # pid[2] THEN Unchanged(r, "fenced")
    ELSE IF Current(r, pid) = {} \/ \E x \in Current(r, pid) : x.seq > seq THEN Unchanged(r, "ok")
    ELSE IF \E x \in Current(r, pid) : x.seq < seq THEN Unchanged(r, "rejected")
    ELSE EndTx(r, pid, "commit", "ok")

\* do_abort_tx.
DoAbortTx(r, pid, seq) ==
    IF ~IsKnown(r, pid) THEN Unchanged(r, "ok")
    ELSE IF \E x \in Current(r, pid) : x.seq # seq THEN Unchanged(r, "rejected")
    ELSE EndTx(r, pid, "abort", "ok")

\* do_begin_tx.
DoBeginTx(r, pid, seq) ==
    LET old == <<pid[1], r.fence[pid[1]]>>
        fenced == IF r.fence[pid[1]] # 0 /\ pid[2] > r.fence[pid[1]] /\ IsKnown(r, old)
                  THEN EndTx(r, old, "abort", "ok") ELSE Unchanged(r, "ok")
    IN  IF pid[2] < r.fence[pid[1]] THEN Unchanged(r, "failed")
        ELSE IF Current(r, pid) # {}
        THEN Unchanged(r, IF HasData(r, pid) \/ \E x \in Current(r, pid) : x.seq # seq
                          THEN "failed" ELSE "ok")
        ELSE [fenced EXCEPT !.rm.fence[pid[1]] = pid[2],
                            !.rm.current = @ \cup {[pid |-> pid, seq |-> seq]}]

Took(p, result) ==
    /\ rm' = [rm EXCEPT ![p] = result.rm]
    /\ ended' = [ended EXCEPT ![p] = @ \cup result.marks]

---------------------------------------------------------------------------
\* Requests to the coordinator.

Fault == faults < MaxFaults /\ faults' = faults + 1

\* The stages of a request; next is what follows the stage.
Goto(n, stage, tx, next) ==
    op' = [op EXCEPT ![n].stage = stage, ![n].tx = tx, ![n].next = next,
                     ![n].todo = IF stage = "roll" THEN tx.parts ELSE {},
                     ![n].rejected = FALSE]

\* The request ends, and the producer hears of it if it still waits.
Told(n, ok) ==
    LET mine == client.waits = n
    IN  /\ client' =
              IF ~mine THEN client
              ELSE IF ~ok THEN [client EXCEPT !.waits = "nobody", !.failed = TRUE]
              ELSE IF op[n].kind = "add"
              THEN [client EXCEPT !.waits = "nobody", !.failed = FALSE, !.added = @ \cup {op[n].part}]
              ELSE IF op[n].kind = "init"
              THEN [client EXCEPT !.waits = "nobody", !.failed = FALSE, !.asked = "nothing",
                                  !.pid = op[n].tx.pid, !.tx = @ + 1, !.added = {}, !.wrote = {}]
              ELSE [client EXCEPT !.waits = "nobody", !.failed = FALSE, !.asked = "nothing",
                                  !.tx = @ + 1, !.added = {}, !.wrote = {}]
        /\ ackedCommit' = IF mine /\ ok /\ op[n].kind = "commit"
                          THEN ackedCommit \cup {client.tx} ELSE ackedCommit
        /\ ackedAbort' = IF mine /\ ok /\ op[n].kind = "abort"
                         THEN ackedAbort \cup {client.tx} ELSE ackedAbort

\* The leader of the request's term has given its memory to the next one.
Sealed(n) == cache[n].sealed >= op[n].term
Excuse(why) == excused' = (excused \/ why)

NotTold == UNCHANGED <<client, history>>
Done(n, ok) == op' = [op EXCEPT ![n] = Idle] /\ Told(n, ok)

\* A request arrives at a node that takes itself for the leader.
Start(n, kind, part) ==
    /\ leader[n] > 0 /\ op[n] = Idle
    /\ op' = [op EXCEPT ![n] = [kind |-> kind, stage |-> "get", term |-> leader[n], tx |-> NoTx,
                                next |-> "got", todo |-> {}, part |-> part, rejected |-> FALSE,
                                pid |-> client.pid]]

\* What follows once a transaction is rolled forward, or needs no rolling: bump_etag or
\* forget_tx, which writes a tombstone; or the end of the request.
GoOn(n, tx, next) ==
    IF next = "forget" THEN Goto(n, "write", NoTx, "forgotten")
    ELSE IF next = "end" THEN Goto(n, "end", tx, "end")
    ELSE IF tx.etag # op[n].term THEN Goto(n, "write", [tx EXCEPT !.etag = op[n].term], "got")
    ELSE Goto(n, "got", tx, "got")

\* recommit_tm_tx and reabort_tm_tx, if the transaction is decided.
RollForward(n, tx, next) ==
    IF tx.status \in {"prepared", "aborting"} \/ (tx.status = "killed" /\ next = "bump")
    THEN Goto(n, "roll", tx, next)
    ELSE GoOn(n, tx, next)

\* get_tx of tx_gateway_frontend, up to fetch_tx.
GetTx(n) ==
    LET tx == Known(n)
        t == op[n].term
    IN  /\ op[n] # Idle /\ op[n].stage = "get"
        /\ \/ (leader[n] # t \/ (tx # NoTx /\ tx.etag > t)) /\ Done(n, FALSE)
           \/ /\ leader[n] = t /\ tx = NoTx /\ op[n].kind # "init" /\ Done(n, FALSE)
           \/ /\ leader[n] = t /\ tx = NoTx /\ op[n].kind = "init"
              /\ Goto(n, "got", NoTx, "got") /\ NotTold
           \/ /\ leader[n] = t /\ tx # NoTx /\ tx.etag <= t /\ tx.moving
              /\ Goto(n, "write", [tx EXCEPT !.etag = t, !.moving = FALSE], "reset") /\ NotTold
           \/ /\ leader[n] = t /\ tx # NoTx /\ ~tx.moving
              /\ tx.etag = t \/ (tx.etag < t /\ tx.status = "killed")
              /\ RollForward(n, tx, "bump") /\ NotTold
           \/ /\ leader[n] = t /\ tx # NoTx /\ ~tx.moving
              /\ tx.etag < t /\ tx.status # "killed"
              /\ Goto(n, "fetch", tx, "fetch") /\ NotTold
        /\ UNCHANGED <<raft, cache, rm, asking, ended, excused, faults>>

\* get_tx after fetch_tx: the state to go on with, or none if it is unknown.
Resolve(tx, old) ==
    IF tx.status = "ready"
    THEN IF old.seq < tx.seq THEN tx
         ELSE IF old.pid = tx.pid
                 /\ old.status = (IF old.seq > tx.seq THEN "ongoing" ELSE tx.status)
         THEN old ELSE NoTx
    ELSE IF old.pid # tx.pid THEN NoTx
    ELSE IF tx.status = "ongoing"
    THEN IF old.seq = tx.seq /\ old.status = tx.status THEN old ELSE NoTx
    ELSE IF old.seq < tx.seq THEN tx
    ELSE IF old.seq > tx.seq THEN (IF old.status = "ongoing" THEN old ELSE NoTx)
    ELSE IF old.status \in {"ongoing", tx.status} THEN tx ELSE NoTx

\* fetch_tx: the node that led in the term of the record answers, or nobody does.
FetchTx(n) ==
    /\ op[n] # Idle /\ op[n].stage = "fetch"
    /\ \/ \E m \in Node :
             LET found == Find(cache[m], op[n].tx.etag, applied[m])
                 tx == IF found.tx = NoTx THEN NoTx
                       ELSE Resolve(op[n].tx, [found.tx EXCEPT !.etag = op[n].tx.etag,
                                                               !.moving = FALSE])
             IN  /\ op[n].tx.etag \in cache[m].terms
                 /\ cache' = [cache EXCEPT ![m] = found.cache]
                 /\ IF tx = NoTx THEN RollForward(n, op[n].tx, "forget")
                    ELSE RollForward(n, tx, "bump")
                 /\ UNCHANGED faults
       \/ /\ RollForward(n, op[n].tx, "forget")
          /\ IF \E m \in Node : op[n].tx.etag \in cache[m].terms THEN Fault ELSE UNCHANGED faults
          /\ UNCHANGED cache
    /\ UNCHANGED <<raft, rm, asking, ended, client, history, excused>>

\* The partitions that have not answered yet.
Unanswered(n, p) == op[n].todo \ {p}

\* recommit_tm_tx and reabort_tm_tx: one partition takes the request.
Roll(n, p) ==
    LET tx == op[n].tx
        result == IF tx.status = "prepared" THEN DoCommitTx(rm[p], tx.pid, tx.seq)
                  ELSE DoAbortTx(rm[p], tx.pid, tx.seq)
    IN  /\ op[n] # Idle /\ op[n].stage = "roll" /\ p \in op[n].todo
        /\ asking[p] = NotAsking /\ result.answer # "fenced"
        /\ Took(p, result)
        /\ op' = [op EXCEPT ![n].todo = Unanswered(n, p),
                            ![n].rejected = @ \/ result.answer = "rejected"]
        /\ UNCHANGED <<raft, cache, asking, client, history, excused, faults>>

\* All have answered, or the retries are used up.
Rolled(n) ==
    /\ op[n] # Idle /\ op[n].stage = "roll"
    /\ \/ /\ op[n].todo = {} /\ (op[n].rejected => op[n].next = "forget")
          /\ GoOn(n, op[n].tx, op[n].next) /\ NotTold /\ UNCHANGED faults
       \/ /\ op[n].todo = {} /\ op[n].rejected /\ op[n].next # "forget"
          /\ Done(n, FALSE) /\ UNCHANGED faults
       \/ op[n].todo # {} /\ Fault /\ Done(n, FALSE)
    /\ UNCHANGED <<raft, cache, rm, asking, ended, excused>>

\* mark_tx_prepared, mark_tx_aborting and mark_tx_killed.
MarkTx(n, status) ==
    IF leader[n] = op[n].term /\ Known(n) # NoTx /\ Known(n).status = "ongoing"
    THEN Goto(n, "write", [Known(n) EXCEPT !.status = status], status) /\ NotTold
    ELSE Done(n, FALSE)

\* mark_tx_ongoing.
CanMarkOngoing(n) == leader[n] = op[n].term /\ Known(n) # NoTx /\ Known(n).etag = op[n].term
Ongoing(tx) == [tx EXCEPT !.status = "ongoing", !.seq = @ + 1, !.parts = {}]
WithOngoing(n) == [cache EXCEPT ![n] = SetMem(@, op[n].term, Ongoing(Known(n)))]

\* do_add_partition_to_tx, with get_ongoing_tx.
Add(n) ==
    LET tx == op[n].tx
    IN  \/ (tx.pid # op[n].pid \/ tx.status = "killed") /\ Done(n, FALSE) /\ UNCHANGED cache
        \/ /\ tx.pid = op[n].pid /\ tx.status = "ongoing"
           /\ Goto(n, IF op[n].part \in tx.parts THEN "add" ELSE "begin", tx, "added")
           /\ NotTold /\ UNCHANGED cache
        \/ /\ tx.pid = op[n].pid /\ tx.status \in {"prepared", "aborting", "ready"}
           /\ IF CanMarkOngoing(n)
              THEN /\ cache' = WithOngoing(n)
                   /\ Goto(n, "begin", Ongoing(Known(n)), "added") /\ NotTold
              ELSE Done(n, FALSE) /\ UNCHANGED cache

\* do_end_txn, with do_commit_tm_tx and do_abort_tm_tx.  The producer hears of the
\* commit as soon as it is decided.
End(n) ==
    LET tx == op[n].tx
        rolled == IF op[n].kind = "commit" THEN "prepared" ELSE "aborting"
    IN  \/ /\ tx.pid # op[n].pid \/ tx.status \notin {"ongoing", rolled} \/ leader[n] # op[n].term
           /\ Done(n, FALSE)
        \/ /\ tx.pid = op[n].pid /\ tx.status = rolled /\ leader[n] = op[n].term
           /\ Goto(n, "roll", tx, "end")
           /\ IF op[n].kind = "commit" THEN Told(n, TRUE) ELSE NotTold
        \/ /\ tx.pid = op[n].pid /\ tx.status = "ongoing" /\ leader[n] = op[n].term
           /\ MarkTx(n, rolled)

\* register_new_producer and re_register_producer; epochs begin with 1.
NewProducer(n) == [pid |-> <<client.nextId, 1>>, seq |-> 0, etag |-> op[n].term,
                   status |-> "ready", parts |-> {}, moving |-> FALSE]
Registered(n) ==
    [Known(n) EXCEPT !.pid = <<op[n].tx.pid[1], op[n].tx.pid[2] + 1>>, !.seq = @ + 1,
                     !.etag = op[n].term, !.status = "ready", !.parts = {}]

\* do_init_tm_tx, which aborts an ongoing transaction first.
InitTx(n) ==
    \/ /\ op[n].tx = NoTx /\ client.nextId <= MaxTx
       /\ Goto(n, "write", NewProducer(n), "created")
       /\ client' = [client EXCEPT !.nextId = @ + 1] /\ UNCHANGED history
    \/ op[n].tx # NoTx /\ op[n].tx.status = "ongoing" /\ MarkTx(n, "aborting")
    \/ /\ op[n].tx # NoTx /\ op[n].tx.status # "ongoing"
       /\ IF leader[n] = op[n].term /\ Known(n) # NoTx
          THEN Goto(n, "write", Registered(n), "registered") /\ NotTold
          ELSE Done(n, FALSE)

\* do_expire_old_tx.
Expire(n) ==
    \/ op[n].tx.status = "ongoing" /\ MarkTx(n, "aborting")
    \/ /\ op[n].tx.status # "ongoing"
       /\ Goto(n, "write", NoTx, "expired") /\ NotTold

\* get_tx has returned.
Got(n) ==
    /\ op[n] # Idle /\ op[n].stage = "got"
    /\ \/ op[n].kind = "add" /\ Add(n)
       \/ op[n].kind \in {"commit", "abort"} /\ End(n) /\ UNCHANGED cache
       \/ op[n].kind = "init" /\ InitTx(n) /\ UNCHANGED cache
       \/ op[n].kind = "expire" /\ Expire(n) /\ UNCHANGED cache
       \/ op[n].kind = "background" /\ Done(n, TRUE) /\ UNCHANGED cache
    /\ Excuse(\/ op[n].kind = "expire" /\ op[n].tx.status = "ongoing"
              \/ Sealed(n) /\ ackedCommit' # ackedCommit)
    /\ UNCHANGED <<raft, rm, asking, ended, faults>>

\* The transaction was aborted or committed in all its partitions.
Ended(n) ==
    /\ op[n] # Idle /\ op[n].stage = "end"
    /\ \/ /\ op[n].kind \in {"commit", "abort"} /\ Done(n, TRUE)
          /\ cache' = IF CanMarkOngoing(n) THEN WithOngoing(n) ELSE cache
       \/ /\ op[n].kind \in {"init", "expire"} /\ Goto(n, "got", op[n].tx, "got")
          /\ NotTold /\ UNCHANGED cache
    /\ Excuse(Sealed(n) /\ ackedAbort' # ackedAbort)
    /\ UNCHANGED <<raft, rm, asking, ended, faults>>

\* begin_tx at the partition; the answer may be lost.
Begin(n) ==
    LET p == op[n].part
        result == DoBeginTx(rm[p], op[n].tx.pid, op[n].tx.seq)
    IN  /\ op[n] # Idle /\ op[n].stage = "begin" /\ asking[p] = NotAsking
        /\ Took(p, result)
        /\ \/ Goto(n, "add", op[n].tx, IF result.answer = "ok" THEN "added" ELSE "failed")
              /\ UNCHANGED faults
           \/ result.answer = "ok" /\ Fault /\ Goto(n, "add", op[n].tx, "failed")
        /\ UNCHANGED <<raft, cache, asking, client, history, excused>>

\* add_partitions, in memory.
AddPartitions(n) ==
    LET tx == Known(n)
        added == IF op[n].next = "added" THEN {op[n].part} ELSE {}
        ok == tx # NoTx /\ tx.status = "ongoing" /\ tx.etag = op[n].term
    IN  /\ op[n] # Idle /\ op[n].stage = "add"
        /\ cache' = IF ok THEN [cache EXCEPT ![n] =
                                  SetMem(@, tx.etag, [tx EXCEPT !.parts = @ \cup added])]
                    ELSE cache
        /\ Done(n, op[n].next = "added" /\ (ok \/ op[n].part \in op[n].tx.parts))
        /\ Excuse(Sealed(n) /\ client'.added # client.added)
        /\ UNCHANGED <<raft, rm, asking, ended, faults>>

\* update_tx succeeds.
Update(n) ==
    LET tx == op[n].tx
        c == ApplyUpdate(cache[n], tx)
    IN  /\ op[n] # Idle /\ op[n].stage = "write"
        /\ leader[n] = op[n].term /\ leader[n] = term
        /\ log' = tx /\ applied' = [applied EXCEPT ![n] = tx]
        /\ cache' = [cache EXCEPT ![n] = IF op[n].next \in {"reset", "created"}
                                         THEN SetMem(c, tx.etag, tx) ELSE c]
        /\ \/ op[n].next \in {"got", "reset"} /\ Goto(n, "got", tx, "got") /\ NotTold
           \/ op[n].next = "prepared" /\ Goto(n, "roll", tx, "end") /\ Told(n, TRUE)
           \/ op[n].next = "aborting" /\ Goto(n, "roll", tx, "end") /\ NotTold
           \/ op[n].next \in {"created", "registered", "expired"} /\ Done(n, TRUE)
           \/ op[n].next = "forgotten" /\ op[n].kind # "init" /\ Done(n, FALSE)
           \/ op[n].next = "forgotten" /\ op[n].kind = "init" /\ Goto(n, "got", NoTx, "got") /\ NotTold
        /\ UNCHANGED <<term, leader, rm, asking, ended, excused, faults>>

\* update_tx fails, and the node is not the leader any longer; what it has written
\* may be kept.
UpdateFails(n) ==
    /\ op[n] # Idle /\ op[n].stage = "write"
    /\ IF leader[n] = op[n].term /\ leader[n] = term
       THEN Fault /\ log' \in {log, op[n].tx}
       ELSE UNCHANGED <<faults, log>>
    /\ leader' = [leader EXCEPT ![n] = IF @ = op[n].term THEN 0 ELSE @]
    /\ Done(n, FALSE)
    /\ UNCHANGED <<term, applied, cache, rm, asking, ended, excused>>

---------------------------------------------------------------------------
\* The producer.

Ask(n, asked) == client' = [client EXCEPT !.waits = n, !.asked = asked]

ClientStep(n) ==
    /\ client.waits = "nobody"
    /\ \/ /\ client.failed /\ client.tx < MaxTx /\ Start(n, "init", "none") /\ Ask(n, client.asked)
       \/ /\ client.tx \in 1..MaxTx /\ client.asked = "nothing"
          /\ \E p \in Partition \ client.added : Start(n, "add", p) /\ Ask(n, "nothing")
       \/ /\ client.tx \in 1..MaxTx
          /\ \E kind \in {"commit", "abort"} :
                /\ \/ client.asked = kind
                   \/ /\ client.asked = "nothing" /\ client.added # {}
                      /\ kind = "commit" => ~client.failed
                /\ Start(n, kind, "none") /\ Ask(n, kind)
    /\ UNCHANGED <<raft, cache, rm, asking, ended, history, excused, faults>>

\* The producer hears nothing.
GiveUp ==
    /\ client.waits # "nobody"
    /\ IF op[client.waits] = Idle THEN UNCHANGED faults ELSE Fault
    /\ client' = [client EXCEPT !.waits = "nobody", !.failed = TRUE]
    /\ UNCHANGED <<raft, cache, op, rm, asking, ended, history, excused>>

\* do_transactional_replicate.
Produce(p) ==
    /\ p \in client.added \ client.wrote /\ client.asked = "nothing" /\ client.waits = "nobody"
    /\ rm[p].fence[client.pid[1]] = client.pid[2] /\ Current(rm[p], client.pid) # {}
    /\ rm' = [rm EXCEPT ![p].open = @ \cup {[pid |-> client.pid, tx |-> client.tx]}]
    /\ client' = [client EXCEPT !.wrote = @ \cup {p}]
    /\ UNCHANGED <<raft, cache, op, asking, ended, history, excused, faults>>

---------------------------------------------------------------------------
\* Expiration, at the coordinator and at a partition.

ExpireOldTx(n) ==
    /\ Known(n) # NoTx /\ Fault /\ Start(n, "expire", "none")
    /\ UNCHANGED <<raft, cache, rm, asking, client, ended, history, excused>>

\* do_try_abort_old_tx asks the coordinator, which first writes a barrier.
TryAbort(p, n) ==
    \E x \in rm[p].current :
        /\ asking[p] = NotAsking /\ leader[n] = term /\ Fault
        /\ asking' = [asking EXCEPT ![p] = [at |-> n, term |-> term, pid |-> x.pid,
                                            seq |-> x.seq, answer |-> "none"]]
        /\ UNCHANGED <<raft, cache, op, rm, client, ended, history, excused>>

\* do_try_abort: the answer.
TryAbortAnswer(tx, a, t) ==
    IF tx = NoTx THEN "abort"
    ELSE IF tx.etag > t THEN "unknown"
    ELSE IF tx.etag < t THEN "fetch"
    ELSE IF tx.pid # a.pid \/ tx.seq # a.seq THEN "abort"
    ELSE IF tx.status = "prepared" THEN "commit"
    ELSE IF tx.status = "ongoing" THEN "kill" ELSE "abort"

\* mark_tx_killed and reset_transferring of do_try_abort.
WriteNow(n, tx) ==
    /\ leader[n] = term
    /\ log' = tx /\ applied' = [applied EXCEPT ![n] = tx] /\ UNCHANGED <<term, leader>>

Answer(p) ==
    LET a == asking[p]
        n == a.at
        tx == Known(n)
        answer == TryAbortAnswer(tx, a, a.term)
        killed == [tx EXCEPT !.status = "killed"]
        reset == [tx EXCEPT !.etag = a.term, !.moving = FALSE]
    IN  /\ a # NotAsking /\ a.answer = "none" /\ leader[n] = a.term /\ op[n] = Idle
        /\ \/ /\ tx # NoTx /\ tx.moving /\ WriteNow(n, reset)
              /\ cache' = [cache EXCEPT ![n] = SetMem(ApplyUpdate(@, reset), a.term, reset)]
              /\ UNCHANGED <<op, asking, excused>>
           \/ /\ tx = NoTx \/ ~tx.moving
              /\ answer \in {"commit", "abort"}
              /\ asking' = [asking EXCEPT ![p].answer = answer] /\ UNCHANGED <<raft, cache, op>>
              /\ Excuse(cache[n].sealed >= a.term)
           \/ /\ tx # NoTx /\ ~tx.moving
              /\ answer = "kill" /\ WriteNow(n, killed)
              /\ cache' = [cache EXCEPT ![n] = ApplyUpdate(@, killed)]
              /\ asking' = [asking EXCEPT ![p].answer = "abort"] /\ UNCHANGED <<op, excused>>
           \/ /\ tx # NoTx /\ ~tx.moving
              /\ answer = "fetch" /\ Start(n, "background", "none")
              /\ asking' = [asking EXCEPT ![p] = NotAsking] /\ UNCHANGED <<raft, cache, excused>>
        /\ UNCHANGED <<rm, client, ended, history, faults>>

\* The coordinator is busy, was replaced, or does not know; or the partition has a
\* new leader.
NoAnswer(p) ==
    /\ asking[p] # NotAsking
    /\ asking' = [asking EXCEPT ![p] = NotAsking]
    /\ UNCHANGED <<raft, cache, op, rm, client, ended, history, excused, faults>>

\* The partition writes the marker.
Answered(p) ==
    /\ asking[p] # NotAsking /\ asking[p].answer \in {"commit", "abort"}
    /\ Took(p, EndTx(rm[p], asking[p].pid, asking[p].answer, "ok"))
    /\ asking' = [asking EXCEPT ![p] = NotAsking]
    /\ UNCHANGED <<raft, cache, op, client, history, excused, faults>>

---------------------------------------------------------------------------
\* The coordinator's partition.

\* A new leader has applied the log before its first request.
Elect(n) ==
    /\ term < MaxTerm /\ term' = term + 1
    /\ leader' = [leader EXCEPT ![n] = term + 1]
    /\ applied' = [applied EXCEPT ![n] = log]
    /\ cache' = [cache EXCEPT ![n] = ClearMem(IF applied[n] = log THEN @ ELSE ApplyUpdate(@, log))]
    /\ UNCHANGED <<log, op, rm, asking, client, ended, history, excused, faults>>

Apply(n) ==
    /\ applied[n] # log
    /\ applied' = [applied EXCEPT ![n] = log]
    /\ cache' = [cache EXCEPT ![n] = ApplyUpdate(@, log)]
    /\ UNCHANGED <<term, leader, log, op, rm, asking, client, ended, history, excused, faults>>

\* prepare_transfer_leadership: the transaction in memory is written to the log.
PrepareTransfer(n) ==
    LET tx == FindMem(cache[n])
    IN  /\ leader[n] = term /\ op[n] = Idle
        /\ tx # NoTx /\ ~tx.moving /\ tx.status \in {"ready", "ongoing"} /\ tx.etag = term
        /\ WriteNow(n, [tx EXCEPT !.moving = TRUE])
        /\ cache' = [cache EXCEPT ![n] = ApplyUpdate(@, [tx EXCEPT !.moving = TRUE])]
        /\ UNCHANGED <<op, rm, asking, client, ended, history, excused, faults>>

StepDown(n) ==
    /\ leader[n] > 0 /\ leader[n] < term
    /\ leader' = [leader EXCEPT ![n] = 0]
    /\ UNCHANGED <<term, log, applied, cache, op, rm, asking, client, ended, history, excused, faults>>

Restart(n) ==
    /\ Fault
    /\ leader' = [leader EXCEPT ![n] = 0]
    /\ cache' = [cache EXCEPT ![n] = NoCache]
    /\ op' = [op EXCEPT ![n] = Idle]
    /\ UNCHANGED <<term, log, applied, rm, asking, client, ended, history, excused>>

FirstLeader == CHOOSE n \in Node : TRUE

Init ==
    /\ term = 1 /\ leader = [n \in Node |-> IF n = FirstLeader THEN 1 ELSE 0]
    /\ log = NoTx /\ applied = [n \in Node |-> NoTx]
    /\ cache = [n \in Node |-> NoCache] /\ op = [n \in Node |-> Idle]
    /\ rm = [p \in Partition |-> [fence |-> [i \in 1..MaxTx |-> 0], current |-> {}, open |-> {}]]
    /\ asking = [p \in Partition |-> NotAsking]
    /\ client = [pid |-> <<1, 0>>, tx |-> 0, added |-> {}, wrote |-> {}, asked |-> "nothing",
                 waits |-> "nobody", failed |-> TRUE, nextId |-> 1]
    /\ ended = [p \in Partition |-> {}]
    /\ ackedCommit = {} /\ ackedAbort = {} /\ excused = FALSE /\ faults = 0

Next ==
    \/ \E n \in Node : ClientStep(n) \/ GetTx(n) \/ FetchTx(n) \/ Rolled(n)
    \/ \E n \in Node : Got(n) \/ Ended(n) \/ Begin(n) \/ AddPartitions(n) \/ Update(n) \/ UpdateFails(n)
    \/ \E n \in Node, p \in Partition : Roll(n, p) \/ TryAbort(p, n)
    \/ \E p \in Partition : Produce(p) \/ Answer(p) \/ NoAnswer(p) \/ Answered(p)
    \/ \E n \in Node : ExpireOldTx(n) \/ Elect(n) \/ Apply(n) \/ PrepareTransfer(n) \/ StepDown(n) \/ Restart(n)
    \/ GiveUp

Spec == Init /\ [][Next]_vars

---------------------------------------------------------------------------
\* Properties.

\* The code says that a transaction that was timed out must not be taken for an
\* aborted one, or "the second part of the tx will start a new" one: what the producer
\* was told to be committed was aborted nowhere, nor the reverse.
AcksAreKept ==
    \A p \in DOMAIN ended :
        /\ \A t \in ackedCommit : <<t, "abort">> \notin ended[p]
        /\ \A t \in ackedAbort : <<t, "commit">> \notin ended[p]

\* The same, and no transaction is committed in one partition and aborted in another,
\* whether the coordinator fails over with or without its memory, a partition asks on
\* its own, or requests of replaced leaders arrive late; unless the coordinator has
\* expired a transaction, or a replaced leader has answered for a term whose memory
\* the next one had fetched from it.
WholeUnlessExcused ==
    \/ excused
    \/ /\ AcksAreKept
       /\ \A p, q \in DOMAIN ended : \A mark \in ended[p] :
             mark[2] = "commit" => <<mark[1], "abort">> \notin ended[q]
=============================================================================
