---------------------- MODULE RaftReplicationRefinement ----------------------
(***************************************************************************)
(* RaftReplication implements ReplicatedLog: the mapping from the state of   *)
(* the group to one committed log and what each node shows of it.            *)
(***************************************************************************)
EXTENDS RaftReplication

\* The entries chosen so far, by offset.
CommittedLog ==
    LET end == CHOOSE e \in {0} \cup {c.offset : c \in chosen} :
                   \A c \in chosen : c.offset <= e
    IN  [o \in 1..end |-> (CHOOSE c \in chosen : c.offset = o).term]

\* view is what every node exposes through consensus::committed_offset.
Abstract == INSTANCE ReplicatedLog WITH
    committed <- CommittedLog,
    view <- [n \in Node |-> SubSeq(log[n], 1, commit[n])]

\* The group implements one log that only grows: the log up to _commit_index of
\* every node is a prefix of it, moves forward except in a crash, and
\* replicate_entries_stm::process_result reports success only for a write that
\* is part of it, even when the term changed while the write was waiting.
RefinesReplicatedLog == Abstract!Spec
=============================================================================
