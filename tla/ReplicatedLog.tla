---------------------------- MODULE ReplicatedLog ----------------------------
(***************************************************************************)
(* What a Raft group promises to the state machines and clients above it:   *)
(* one log that only grows.  Each node exposes a prefix of it               *)
(* (consensus::committed_offset), which moves forward except in a crash,    *)
(* and a quorum_ack write succeeds only after it became part of the log.    *)
(***************************************************************************)
EXTENDS Naturals, SequencesExt

CONSTANT Node

VARIABLES
    committed,  \* the log of the group
    view,       \* the prefix of it that each node knows to be committed
    acked       \* the writes whose success was reported

vars == <<committed, view, acked>>

Init ==
    /\ committed = <<>>
    /\ view = [n \in Node |-> <<>>]
    /\ acked = {}

\* Only the view of n changes, to a prefix of the log after the step.
Shows(n, prefix) ==
    /\ view' = [view EXCEPT ![n] = prefix]
    /\ IsPrefix(prefix, committed')

\* The leader n extends the log and its view of it.
Commit(n) ==
    /\ IsStrictPrefix(committed, committed')
    /\ Shows(n, committed')
    /\ UNCHANGED acked

\* A node learns that more of the log is committed.
Learn(n) ==
    /\ UNCHANGED <<committed, acked>>
    /\ IsStrictPrefix(view[n], view'[n])
    /\ Shows(n, view'[n])

\* A node restarts and has to learn again.
Forget(n) ==
    /\ UNCHANGED <<committed, acked>>
    /\ IsStrictPrefix(view'[n], view[n])
    /\ Shows(n, view'[n])

\* The success of a write is reported.
Acknowledge ==
    /\ UNCHANGED <<committed, view>>
    /\ acked \subseteq acked'
    /\ \A a \in acked' \ acked :
          a.offset \in DOMAIN committed /\ committed[a.offset] = a.term

Next == Acknowledge \/ \E n \in Node : Commit(n) \/ Learn(n) \/ Forget(n)

Spec == Init /\ [][Next]_vars
=============================================================================
