----------------------------- MODULE IdAllocator -----------------------------
(***************************************************************************)
(* cluster::id_allocator_stm: the state machine behind producer ids.  The    *)
(* leader reserves a batch of ids by writing the first id after it to the    *)
(* Raft log, and then hands the batch out from memory.                       *)
(*                                                                          *)
(* Raft is what the state machine uses of it: a log of committed entries, a  *)
(* leader that may not know yet that it was replaced, and entries that were  *)
(* written and not committed, of which a new leader keeps one or none.  A     *)
(* leader that keeps one is the one under which it is committed.  The         *)
(* commands of the old log format are left out.                              *)
(***************************************************************************)
EXTENDS Integers, Sequences, FiniteSets

CONSTANTS
    Node,
    BatchSize,    \* id_allocator_batch_size
    LogCapacity,  \* id_allocator_log_capacity
    ResetTo,      \* the ids that reset_next_id is called with
    MaxEntries,   \* bound: entries written
    MaxTerm,      \* bound: terms
    MaxFaults     \* bound: failed writes, late applies and restarts

ASSUME IdAssumption ==
    BatchSize \in Nat \ {0} /\ LogCapacity \in Nat /\ ResetTo \subseteq Nat

VARIABLES
    committed,  \* the values of the committed state_cmd entries
    orphans,    \* entries written behind the last committed one: [term, value]
    term,       \* the latest term
    leader,     \* the term in which each node takes itself for the leader, or 0
    syncTo,     \* the committed entries in the log of each node that has led
    start,      \* the entries that each node's Raft snapshot has replaced
    applied,    \* how many entries each node has applied
    stm,        \* the fields of id_allocator_stm
    req,        \* the request that holds _lock
    given,      \* history: the ids handed out
    twice,      \* history: the ids handed out more than once
    resetLost,  \* history: a reset_next_id failed after it took effect in memory
    faults

raft == <<committed, orphans, term, leader, syncTo>>
history == <<given, twice, resetLost>>
vars == <<raft, start, applied, stm, req, history, faults>>

Idle == [pc |-> "idle", kind |-> "none", legacy |-> FALSE, value |-> 0, offset |-> 0]
NoSnapshot == -1

FirstLeader == CHOOSE n \in Node : TRUE

Fresh == [insync |-> 0, currId |-> 0, currBatch |-> 0, state |-> 0, legacy |-> TRUE,
          processed |-> 0, nextSnapshot |-> NoSnapshot, writing |-> NoSnapshot]

---------------------------------------------------------------------------
\* The requests.

\* The tail of do_allocate_id.
HandOut(n, s) ==
    /\ stm' = [stm EXCEPT ![n] = [s EXCEPT !.currId = @ + 1, !.currBatch = @ - 1]]
    /\ given' = given \cup {s.currId}
    /\ twice' = IF s.currId \in given THEN twice \cup {s.currId} ELSE twice
    /\ req' = [req EXCEPT ![n] = Idle]
    /\ UNCHANGED <<orphans, resetLost>>

\* n leads in the term of the last sync, and no later leader has committed what is
\* not in its log.
Attached(n, s) == leader[n] = s.insync /\ syncTo[n] = Len(committed)

\* set_state: replicate in the term of the last sync.
SetState(n, s, kind, legacy, value) ==
    /\ Len(committed) + Cardinality(orphans) < MaxEntries
    /\ stm' = [stm EXCEPT ![n] = s]
    /\ req' = [req EXCEPT ![n] =
                  [pc |-> "replicate", kind |-> kind, legacy |-> legacy,
                   value |-> value, offset |-> 0]]
    /\ orphans' = IF Attached(n, s) THEN orphans \cup {[term |-> s.insync, value |-> value]}
                  ELSE orphans
    /\ UNCHANGED history

\* What do_allocate_id and advance_state do when sync has returned true.
Proceed(n, s, kind) ==
    \/ kind = "allocate" /\ s.currBatch > 0 /\ HandOut(n, s)
    \/ /\ kind = "allocate" /\ s.currBatch = 0
       /\ SetState(n, [s EXCEPT !.currId = s.state], kind, FALSE, s.state + BatchSize)
    \/ \E id \in ResetTo :
          /\ kind = "reset" /\ id >= s.currId
          /\ SetState(n, [s EXCEPT !.currId = id], kind, FALSE, id + BatchSize)
    \/ /\ kind = "reset" /\ \E id \in ResetTo : id < s.currId
       /\ stm' = [stm EXCEPT ![n] = s] /\ req' = [req EXCEPT ![n] = Idle]
       /\ UNCHANGED <<history, orphans>>

\* Mutant: a new leader goes on with the batch of its last term.
KeepBatch(s, t, last) == [s EXCEPT !.insync = t]

\* id_allocator_stm::sync, when persisted_stm::sync has returned true.
Synced(s, t, last) ==
    IF s.insync = t THEN s
    ELSE [s EXCEPT !.insync = t, !.currId = s.state, !.currBatch = 0,
                   !.processed = 0, !.nextSnapshot = last]

\* allocate_id and reset_next_id up to their first write.  A leader of a new
\* term waits until it has applied what the earlier ones committed.
Request(n, kind) ==
    LET s == Synced(stm[n], leader[n], applied[n])
    IN  /\ req[n].pc = "idle" /\ leader[n] > 0
        /\ stm[n].insync # leader[n] => applied[n] >= syncTo[n]
        /\ IF s.legacy
           THEN SetState(n, s, kind, TRUE, s.state + 1)
           ELSE Proceed(n, s, kind)
        /\ UNCHANGED <<committed, term, leader, syncTo, start, applied, faults>>

\* The entry that the request of n waits for.
Entry(n) == [term |-> stm[n].insync, value |-> req[n].value]

\* The request waits until it is applied.
Wait(r, offset) == [r EXCEPT !.pc = "wait", !.offset = offset]

\* The leader commits what it has written.
Commit(n) ==
    /\ req[n].pc = "replicate" /\ Entry(n) \in orphans
    /\ leader[n] = term /\ stm[n].insync = term
    /\ committed' = Append(committed, req[n].value) /\ orphans' = {}
    /\ syncTo' = [syncTo EXCEPT ![n] = Len(committed) + 1]
    /\ req' = [req EXCEPT ![n] = Wait(@, Len(committed) + 1)]
    /\ UNCHANGED <<term, leader, start, applied, stm, history, faults>>

\* set_state returns true, and the request goes on: after sync, with what it came
\* for.
Done(n) ==
    LET s == stm[n]
    IN  /\ req[n].pc = "wait" /\ applied[n] >= req[n].offset
        /\ \/ req[n].legacy /\ Proceed(n, [s EXCEPT !.legacy = FALSE], req[n].kind)
           \/ /\ ~req[n].legacy /\ req[n].kind = "allocate"
              /\ HandOut(n, [s EXCEPT !.currBatch = BatchSize])
           \/ /\ ~req[n].legacy /\ req[n].kind = "reset"
              /\ stm' = [stm EXCEPT ![n].currBatch = BatchSize]
              /\ req' = [req EXCEPT ![n] = Idle] /\ UNCHANGED <<orphans, history>>
        /\ UNCHANGED <<committed, term, leader, syncTo, start, applied, faults>>

\* set_state returns false because the entry is not in the log: the node was no
\* longer the leader of that term when it came to write it, or it was replaced and
\* the entry cut off.
Truncated(n) ==
    /\ req[n].pc = "replicate" /\ Entry(n) \notin orphans
    /\ leader' = [leader EXCEPT ![n] = IF @ = stm[n].insync THEN 0 ELSE @]
    /\ req' = [req EXCEPT ![n] = Idle]
    /\ UNCHANGED <<committed, orphans, term, syncTo, start, applied, stm, history, faults>>

\* set_state returns false and the node may stay the leader: the append failed, or
\* the entry is committed and not applied in time.
Fail(n) ==
    /\ faults < MaxFaults /\ faults' = faults + 1
    /\ \/ /\ req[n].pc = "replicate" /\ Entry(n) \in orphans /\ leader[n] = stm[n].insync
          /\ orphans' = orphans \ {Entry(n)}
       \/ req[n].pc = "wait" /\ applied[n] < req[n].offset /\ UNCHANGED orphans
    /\ req' = [req EXCEPT ![n] = Idle]
    /\ resetLost' = \/ resetLost
                    \/ /\ req[n].kind = "reset" /\ ~req[n].legacy
                       /\ leader[n] = stm[n].insync
    /\ UNCHANGED <<committed, term, leader, syncTo, start, applied, stm, given, twice>>

---------------------------------------------------------------------------
\* The state machine and Raft.

\* apply of a state_cmd; a snapshot is written in the background when the log has
\* grown beyond its capacity.
ApplyState(s, n) ==
    LET next == IF s.nextSnapshot = NoSnapshot THEN applied[n] ELSE s.nextSnapshot
        processed == (IF s.nextSnapshot = NoSnapshot THEN 0 ELSE s.processed) + 1
    IN  [s EXCEPT !.state = committed[applied[n] + 1], !.legacy = FALSE,
                  !.nextSnapshot = next, !.processed = processed,
                  !.writing = IF processed > LogCapacity /\ @ = NoSnapshot
                              THEN next ELSE @]

Apply(n) ==
    /\ applied[n] < Len(committed)
    /\ applied' = [applied EXCEPT ![n] = @ + 1]
    /\ stm' = [stm EXCEPT ![n] = ApplyState(@, n)]
    /\ UNCHANGED <<raft, start, req, history, faults>>

\* The offset of the snapshot, taken when its writing began.
SnapshotOffset(n) == stm[n].writing

\* write_snapshot ends: the log up to the snapshot is gone.
WriteSnapshot(n) ==
    /\ stm[n].writing # NoSnapshot
    /\ start' = [start EXCEPT ![n] = IF SnapshotOffset(n) > @ THEN SnapshotOffset(n) ELSE @]
    /\ stm' = [stm EXCEPT ![n].writing = NoSnapshot, ![n].processed = 0,
                          ![n].nextSnapshot = applied[n]]
    /\ UNCHANGED <<raft, applied, req, history, faults>>

\* A node whose log is behind the snapshot of another is sent the snapshot, which is
\* empty: apply_raft_snapshot leaves the state as it was.
InstallSnapshot(n, m) ==
    /\ applied[n] < start[m] /\ syncTo[n] < start[m]
    /\ leader' = [leader EXCEPT ![n] = 0]
    /\ start' = [start EXCEPT ![n] = start[m]]
    /\ applied' = [applied EXCEPT ![n] = start[m]]
    /\ stm' = [stm EXCEPT ![n].nextSnapshot = start[m], ![n].processed = 0]
    /\ UNCHANGED <<committed, orphans, term, syncTo, req, history, faults>>

\* Another term: its leader has all that is committed, and may have one of the
\* entries behind it.  The request that wrote this entry succeeds, although the
\* node that it was sent to leads no more.
Elect(n) ==
    /\ term < MaxTerm /\ term' = term + 1
    /\ leader' = [leader EXCEPT ![n] = term + 1]
    /\ \/ /\ UNCHANGED <<committed, orphans, req>>
          /\ syncTo' = [syncTo EXCEPT ![n] = Len(committed)]
       \/ \E kept \in orphans :
             /\ committed' = Append(committed, kept.value) /\ orphans' = {}
             /\ syncTo' = [syncTo EXCEPT ![n] = Len(committed) + 1]
             /\ req' = [m \in Node |->
                          IF req[m].pc = "replicate" /\ Entry(m) = kept
                          THEN Wait(req[m], Len(committed) + 1) ELSE req[m]]
    /\ UNCHANGED <<start, applied, stm, history, faults>>

\* A replaced leader hears of the later term.
StepDown(n) ==
    /\ leader[n] > 0 /\ leader[n] < term
    /\ leader' = [leader EXCEPT ![n] = 0]
    /\ UNCHANGED <<committed, orphans, term, syncTo, start, applied, stm, req, history, faults>>

\* The state is built again from the log behind the snapshot.
Restart(n) ==
    /\ faults < MaxFaults /\ faults' = faults + 1
    /\ leader' = [leader EXCEPT ![n] = 0]
    /\ applied' = [applied EXCEPT ![n] = start[n]]
    /\ stm' = [stm EXCEPT ![n] = Fresh]
    /\ req' = [req EXCEPT ![n] = Idle]
    /\ UNCHANGED <<committed, orphans, term, syncTo, start, history>>

Init ==
    /\ committed = <<>> /\ orphans = {} /\ term = 1
    /\ leader = [n \in Node |-> IF n = FirstLeader THEN 1 ELSE 0] /\ syncTo = [n \in Node |-> 0]
    /\ start = [n \in Node |-> 0] /\ applied = [n \in Node |-> 0]
    /\ stm = [n \in Node |-> Fresh] /\ req = [n \in Node |-> Idle]
    /\ given = {} /\ twice = {} /\ resetLost = FALSE /\ faults = 0

Next ==
    \/ \E n \in Node, kind \in {"allocate", "reset"} : Request(n, kind)
    \/ \E n \in Node : Commit(n) \/ Done(n) \/ Truncated(n) \/ Fail(n)
    \/ \E n \in Node : Apply(n) \/ WriteSnapshot(n)
    \/ \E n, m \in Node : InstallSnapshot(n, m)
    \/ \E n \in Node : Elect(n) \/ StepDown(n) \/ Restart(n)

Spec == Init /\ [][Next]_vars

---------------------------------------------------------------------------
\* Properties.

\* id_allocator_stm.h says: "id_allocator is a service to generate cluster-wide
\* unique id (int64)".  allocate_id returns no id twice, whoever leads.
IdsAreUnique == twice = {}

\* The same as long as no reset_next_id fails at a node that stays the leader:
\* neither elections, leaders that do not know that they were replaced, writes
\* that fail and are kept, restarts, nor the removal of the log make the next
\* batch overlap with one that was handed out.
IdsUniqueUnlessResetLost == resetLost \/ twice = {}
=============================================================================
