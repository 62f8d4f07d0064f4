------------------------ MODULE MCKafka ------------------------
(***************************************************************************)
(* The parts that serve producers and consumers.  They share no state here: a *)
(* behaviour is one of one part, chosen at the start.                       *)
(***************************************************************************)
EXTENDS Integers, Sequences, FiniteSets, TLC, IdAllocator, ConsumerGroup

CONSTANTS tp1, tp2

VARIABLES
    part,
    kvHistory, acked, ops, taken, timer, sem, db, next, segment, pc, files,
    snapshot, stopping, kvFaults, stops,
    txTerm, txLeader, log, txApplied, cache, op, rm, asking, client, ended,
    ackedCommit, ackedAbort, excused, txFaults

\* The configuration gives three members and no failure; here it is two and a store
\* that fails or a coordinator that is replaced.
Failing == INSTANCE ConsumerGroup WITH
    MaxIds <- 2, MaxGeneration <- 3, MaxStores <- 2, MaxStoreFaults <- 1

\* The configuration gives more entries and no failure; here it is the reverse.
IdsFail == INSTANCE IdAllocator WITH MaxEntries <- 2, MaxFaults <- 1

KvKey == {"k"}
Kv == INSTANCE KvStore WITH
    Key <- KvKey, MaxOps <- 3, MaxFaults <- 2, MaxStop <- 1, SegmentOps <- 1,
    history <- kvHistory, faults <- kvFaults

\* Two partitions and two coordinators, two partitions and a failure, one
\* partition with both, and one partition and two transactions.
TxNode == {"a", "b"}
TxPartition == {"p"}
Tx == INSTANCE Transactions WITH
    Node <- TxNode, Partition <- {tp1, tp2}, MaxTerm <- 2,
    MaxTx <- 1, MaxFaults <- 0, term <- txTerm, leader <- txLeader,
    applied <- txApplied, faults <- txFaults
TxFails == INSTANCE Transactions WITH
    Node <- TxNode, Partition <- {tp1, tp2}, MaxTerm <- 1,
    MaxTx <- 1, MaxFaults <- 1, term <- txTerm, leader <- txLeader,
    applied <- txApplied, faults <- txFaults
TxBoth == INSTANCE Transactions WITH
    Node <- TxNode, Partition <- TxPartition, MaxTerm <- 2,
    MaxTx <- 1, MaxFaults <- 1, term <- txTerm, leader <- txLeader,
    applied <- txApplied, faults <- txFaults
TxNext == INSTANCE Transactions WITH
    Node <- TxNode, Partition <- TxPartition, MaxTerm <- 2,
    MaxTx <- 2, MaxFaults <- 0, term <- txTerm, leader <- txLeader,
    applied <- txApplied, faults <- txFaults

KvVars ==
    <<kvHistory, acked, ops, taken, timer, sem, db, next, segment, pc, files,
    snapshot, stopping, kvFaults, stops>>
TxVars ==
    <<txTerm, txLeader, log, txApplied, cache, op, rm, asking, client, ended,
    ackedCommit, ackedAbort, excused, txFaults>>
AllVars == <<part, vars, groupVars, KvVars, TxVars>>

AllInit ==
    /\ part \in {"membership", "members_fail", "producer_ids", "ids_fail", "kvstore",
                "transactions", "transaction_fails", "both", "next_transaction"}
    /\ GroupInit
    /\ Init
    /\ Kv!Init
    /\ part \in {"both", "next_transaction"} => TxNext!Init
    /\ part \notin {"both", "next_transaction"} => Tx!Init

MembersStep ==
    /\ part = "membership" /\ GroupNext
    /\ UNCHANGED part
    /\ UNCHANGED <<vars, KvVars, TxVars>>

FailingStep ==
    /\ part = "members_fail" /\ Failing!GroupNext
    /\ UNCHANGED part
    /\ UNCHANGED <<vars, KvVars, TxVars>>

IdsStep ==
    /\ part = "producer_ids" /\ Next
    /\ UNCHANGED part
    /\ UNCHANGED <<groupVars, KvVars, TxVars>>

IdsFailStep ==
    /\ part = "ids_fail" /\ IdsFail!Next
    /\ UNCHANGED part
    /\ UNCHANGED <<groupVars, KvVars, TxVars>>

KvStep ==
    /\ part = "kvstore" /\ Kv!Next
    /\ UNCHANGED part
    /\ UNCHANGED <<vars, groupVars, TxVars>>

TxStep ==
    /\ part = "transactions" /\ Tx!Next
    /\ UNCHANGED part
    /\ UNCHANGED <<vars, groupVars, KvVars>>

TxFailsStep ==
    /\ part = "transaction_fails" /\ TxFails!Next
    /\ UNCHANGED part
    /\ UNCHANGED <<vars, groupVars, KvVars>>

TxBothStep ==
    /\ part = "both" /\ TxBoth!Next
    /\ UNCHANGED part
    /\ UNCHANGED <<vars, groupVars, KvVars>>

TxNextStep ==
    /\ part = "next_transaction" /\ TxNext!Next
    /\ UNCHANGED part
    /\ UNCHANGED <<vars, groupVars, KvVars>>

AllNext ==
    \/ MembersStep
    \/ FailingStep
    \/ IdsStep
    \/ IdsFailStep
    \/ KvStep
    \/ TxStep
    \/ TxFailsStep
    \/ TxBothStep
    \/ TxNextStep

AllSpec == AllInit /\ [][AllNext]_AllVars

---------------------------------------------------------------------------
\* Properties.

\* The state of every part has the shape that its declarations describe.
TypesOK ==
    /\ part = "membership" => TypeOK
    /\ part = "members_fail" => Failing!TypeOK

\* The store implements a durable map: what get() has returned is not taken
\* back by a crash, and a batch is recovered as a whole or not at all.
ImplementsDurableMap == Kv!ImplementsDurableMap

\* A transaction is committed as a whole or aborted as a whole, as the
\* producer was told, through failures of the coordinator, unless it was expired
\* or a replaced leader has answered.
TransactionsWhole == Tx!WholeUnlessExcused

Symmetry == Permutations({tp1, tp2})
=============================================================================
