------------------------------ MODULE DurableMap ------------------------------
(***************************************************************************)
(* What storage::kvstore promises: a map from keys to values.  Operations    *)
(* are applied in batches; a batch is acknowledged when it is applied, or it  *)
(* was in flight when the process died and is applied without a word.         *)
(* Nothing that was applied is ever lost.                                     *)
(***************************************************************************)
EXTENDS Naturals, Sequences, FiniteSets

CONSTANT Key

VARIABLES
    history,    \* the operations submitted: a sequence of [key, put]
    map,        \* for every key the operation that set it, 0 when absent
    count,      \* the number of operations applied
    acked       \* the operations acknowledged to their callers

vars == <<history, map, count, acked>>

Init == history = <<>> /\ map = [k \in Key |-> 0] /\ count = 0 /\ acked = {}

Submit ==
    \E k \in Key, put \in BOOLEAN :
        /\ history' = Append(history, [key |-> k, put |-> put])
        /\ UNCHANGED <<map, count, acked>>

\* The operations of S in the order in which they were submitted.
Applied(m, S) ==
    [k \in Key |->
        LET on == {i \in S : history[i].key = k}
        IN  IF on = {} THEN m[k]
            ELSE LET i == CHOOSE i \in on : \A j \in on : j <= i
                 IN  IF history[i].put THEN i ELSE 0]

Commit ==
    \E S \in SUBSET (DOMAIN history \ acked) :
        /\ map' = Applied(map, S)
        /\ count' = count + Cardinality(S)
        /\ acked' \in {acked, acked \cup S}
        /\ UNCHANGED history

Next == Submit \/ Commit

Spec == Init /\ [][Next]_vars
=============================================================================
