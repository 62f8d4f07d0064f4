------------------------ MODULE MCProgress ------------------------
(***************************************************************************)
(* What must eventually happen, with the fairness that each part justifies, and *)
(* the catching up of followers that are behind.  The parts share no state here: a *)
(* behaviour is one of one part, chosen at the start.                       *)
(***************************************************************************)
EXTENDS Integers, Sequences, FiniteSets, ConfigurationChange

VARIABLES
    part,
    term, votedFor, vstate, leaderId, hbeat, transferee, blocked, kv, log,
    durable, round, lockq, msgs, crashes, votes, elected,
    kvHistory, acked, ops, taken, timer, sem, db, next, segment, pc, files,
    snapshot, stopping, faults, stops,
    dirty, flushed, commit, idx, recovering, recoverySeq, requests, replies,
    open, light, fdirty, fflushed, fcommit, fknows, frs, beatsFaults

RoundsNode == {"n1", "n2", "n3"}
RoundsOrder == <<"n1", "n2", "n3">>
RoundsMaintainable == {"n1"}
RoundsElectable == {"n1"}
RoundsTargets == {}
RoundsAppended == {"n2"}
RoundsWriteFails == {"n1"}
RoundsFlaky == {"n1", "n2", "n3"}
RoundsCrashable == {}
RoundsMaxTerm == [timer |-> 1, transfer |-> 0]
Rounds == INSTANCE RaftElection WITH
    Node <- RoundsNode, Nil <- "nil", Order <- RoundsOrder, MaxPriority <- 3,
    Maintainable <- RoundsMaintainable, Electable <- RoundsElectable, target <- transferee,
    Targets <- RoundsTargets, Appended <- RoundsAppended,
    WriteFails <- RoundsWriteFails, Flaky <- RoundsFlaky,
    Crashable <- RoundsCrashable, MaxTerm <- RoundsMaxTerm, MaxCrash <- 0

KvLiveKey == {"k"}
KvLive == INSTANCE KvStore WITH
    Key <- KvLiveKey, MaxOps <- 3, MaxFaults <- 1, MaxStop <- 0,
    SegmentOps <- 2, history <- kvHistory

\* Two entries and no failure, or one entry and two failures.
Beats == INSTANCE Heartbeats WITH
    MaxOffset <- 2, MaxFaults <- 0, faults <- beatsFaults
Failing == INSTANCE Heartbeats WITH
    MaxOffset <- 1, MaxFaults <- 2, faults <- beatsFaults

RoundsVars ==
    <<term, votedFor, vstate, leaderId, hbeat, transferee, blocked, kv, log,
    durable, round, lockq, msgs, crashes, votes, elected>>
KvVars ==
    <<kvHistory, acked, ops, taken, timer, sem, db, next, segment, pc, files,
    snapshot, stopping, faults, stops>>
BeatsVars ==
    <<dirty, flushed, commit, idx, recovering, recoverySeq, requests, replies,
    open, light, fdirty, fflushed, fcommit, fknows, frs, beatsFaults>>
AllVars == <<part, vars, RoundsVars, KvVars, BeatsVars>>

AllInit ==
    /\ part \in {"election", "kvstore", "configuration", "heartbeats", "failing"}
    /\ Rounds!Init
    /\ KvLive!Init
    /\ Init
    /\ Beats!Init
    /\ part # "configuration" => cfg.version = 3

RoundsStep ==
    /\ part = "election" /\ Rounds!Next
    /\ UNCHANGED part
    /\ UNCHANGED <<KvVars, vars, BeatsVars>>

KvLiveStep ==
    /\ part = "kvstore" /\ KvLive!Next
    /\ UNCHANGED part
    /\ UNCHANGED <<RoundsVars, vars, BeatsVars>>

ChangeStep ==
    /\ part = "configuration" /\ Next
    /\ UNCHANGED part
    /\ UNCHANGED <<RoundsVars, KvVars, BeatsVars>>

BeatsStep ==
    /\ part = "heartbeats" /\ Beats!Next
    /\ UNCHANGED part
    /\ UNCHANGED <<RoundsVars, KvVars, vars>>

FailingStep ==
    /\ part = "failing" /\ Failing!Next
    /\ UNCHANGED part
    /\ UNCHANGED <<RoundsVars, KvVars, vars>>

AllNext ==
    \/ RoundsStep
    \/ KvLiveStep
    \/ ChangeStep
    \/ BeatsStep
    \/ FailingStep

AllSpec ==
    /\ AllInit /\ [][AllNext]_AllVars
    /\ \A n \in {"n1", "n2", "n3"}, k \in Rounds!Kind : WF_RoundsVars(part = "election" /\ Rounds!RoundStep(n, k))
    /\ WF_KvVars(part = "kvstore" /\ KvLive!Timer)
    /\ WF_KvVars(part = "kvstore" /\ KvLive!Fiber)
    /\ WF_KvVars(part = "kvstore" /\ KvLive!Start)
    /\ WF_vars(part = "configuration" /\ PromoteOne)
    /\ WF_vars(part = "configuration" /\ CommitConfiguration)
    /\ WF_BeatsVars(IF part = "failing" THEN Failing!FlushLog ELSE part = "heartbeats" /\ Beats!FlushLog)
    /\ WF_BeatsVars(IF part = "failing" THEN Failing!UpdateCommitIndex ELSE part = "heartbeats" /\ Beats!UpdateCommitIndex)
    /\ WF_BeatsVars(IF part = "failing" THEN Failing!Heartbeat ELSE part = "heartbeats" /\ Beats!Heartbeat)
    /\ WF_BeatsVars(IF part = "failing" THEN Failing!Recover ELSE part = "heartbeats" /\ Beats!Recover)
    /\ WF_BeatsVars(IF part = "failing" THEN Failing!Handle ELSE part = "heartbeats" /\ Beats!Handle)
    /\ WF_BeatsVars(IF part = "failing" THEN Failing!HandleLight ELSE part = "heartbeats" /\ Beats!HandleLight)
    /\ WF_BeatsVars(IF part = "failing" THEN Failing!FollowerFlush ELSE part = "heartbeats" /\ Beats!FollowerFlush)
    /\ WF_BeatsVars(IF part = "failing" THEN Failing!Activate ELSE part = "heartbeats" /\ Beats!Activate)
    /\ WF_BeatsVars(IF part = "failing" THEN Failing!Process ELSE part = "heartbeats" /\ Beats!Process)
    /\ WF_BeatsVars(IF part = "failing" THEN Failing!ProcessLight ELSE part = "heartbeats" /\ Beats!ProcessLight)

---------------------------------------------------------------------------
\* Properties.

\* The state of every part has the shape that its declarations describe.
TypesOK ==
    /\ TypeOK
    /\ part = "kvstore" => KvLive!TypeOK

\* Every election round ends although voters fail to answer or refuse.
RoundsEnd == Rounds!RoundsEnd

\* A queued operation of the key-value store is answered, unless the process
\* ends or a file operation fails: no wake-up between the timer and the fiber
\* is lost.
PutsAreAnswered == KvLive!PutsAreAnswered

\* When nothing more fails, heartbeats and the recovery they start bring a
\* follower the whole log and its commit index.
FollowerCatchesUp ==
    /\ part = "heartbeats" => Beats!FollowerCatchesUp
    /\ part = "failing" => Failing!FollowerCatchesUp
=============================================================================
