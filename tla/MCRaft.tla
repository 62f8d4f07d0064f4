------------------------ MODULE MCRaft ------------------------
(***************************************************************************)
(* The parts of Raft beside elections and replication, and the configuration *)
(* manager that keeps their state.  They share no state here: a              *)
(* behaviour is one of one part, chosen at the start.                       *)
(***************************************************************************)
EXTENDS Integers, Sequences, FiniteSets, InstallSnapshot, ConfigurationManager

VARIABLES
    part,
    moveTerm, voted, leading, moveLog, moveFlushed, moveCommit, moveMatch,
    leaders, decided, moveChanges, moveCancels, moveCrashes,
    barrierTerm, leads, led, barrierLog, barrierFlushed, barrierCommit,
    confirmed, barrierFstats, requests, replies, opLock, barrier, sends,
    barriers,
    schedLeader, active, pending, our, theirs, offsetsPending, maxActive,
    armed, events

\* One of two voters is replaced by a third node.
MoveNode == {"a", "b", "c"}
MoveInitial == {"a", "b"}
MoveRequests == {{"b", "c"}}
Move == INSTANCE RaftReconfiguration WITH
    Node <- MoveNode, Initial <- MoveInitial, Requests <- MoveRequests,
    MaxTerm <- 2, MaxLen <- 6, MaxChanges <- 1, MaxCancels <- 1,
    MaxCrashes <- 1, term <- moveTerm, log <- moveLog, flushed <- moveFlushed,
    commit <- moveCommit, match <- moveMatch, changes <- moveChanges, cancels <- moveCancels,
    crashes <- moveCrashes

\* Three voters become one, whose majority does not meet every old one.
ShrinkNode == {"a", "b", "c"}
ShrinkInitial == {"a", "b", "c"}
ShrinkRequests == {{"a"}}
Shrink == INSTANCE RaftReconfiguration WITH
    Node <- ShrinkNode, Initial <- ShrinkInitial, Requests <- ShrinkRequests,
    MaxTerm <- 2, MaxLen <- 6, MaxChanges <- 1, MaxCancels <- 0,
    MaxCrashes <- 1, term <- moveTerm, log <- moveLog, flushed <- moveFlushed,
    commit <- moveCommit, match <- moveMatch, changes <- moveChanges, cancels <- moveCancels,
    crashes <- moveCrashes

BarrierNode == {"a", "b", "c"}
BarrierSecond == {"b"}
Barrier == INSTANCE LinearizableBarrier WITH
    Node <- BarrierNode, First <- "a", Second <- BarrierSecond, MaxTerm <- 2,
    MaxLog <- 2, MaxSends <- 1, MaxBarriers <- 2, term <- barrierTerm,
    log <- barrierLog, flushed <- barrierFlushed, commit <- barrierCommit,
    fstats <- barrierFstats

SchedPartition == {"i", "u", "v", "l"}
SchedInternal == {"i"}
SchedLearner == {"l"}
SchedLeader == {"m", "n"}
SchedFirstLeader == [p \in {"i", "u", "v", "l"} |-> IF p = "v" THEN "n" ELSE "m"]
SchedLimits == {1, 2}
Sched == INSTANCE RecoveryScheduler WITH
    Partition <- SchedPartition, Internal <- SchedInternal,
    Learner <- SchedLearner, Leader <- SchedLeader,
    FirstLeader <- SchedFirstLeader, Limits <- SchedLimits, MaxOffset <- 1,
    MaxEvents <- 2, leader <- schedLeader

MoveVars ==
    <<moveTerm, voted, leading, moveLog, moveFlushed, moveCommit, moveMatch,
    leaders, decided, moveChanges, moveCancels, moveCrashes>>
BarrierVars ==
    <<barrierTerm, leads, led, barrierLog, barrierFlushed, barrierCommit,
    confirmed, barrierFstats, requests, replies, opLock, barrier, sends,
    barriers>>
SchedVars ==
    <<schedLeader, active, pending, our, theirs, offsetsPending, maxActive,
    armed, events>>
AllVars == <<part, vars, MoveVars, managerVars, BarrierVars, SchedVars>>

AllInit ==
    /\ part \in {"move", "shrink",
                "configuration_manager", "barrier", "install_snapshot",
                "recovery_scheduler"}
    /\ Init
    /\ part \notin {"shrink"} => Move!Init
    /\ part = "shrink" => Shrink!Init
    /\ ManagerInit
    /\ Barrier!Init
    /\ Sched!Init

MoveStep ==
    /\ part = "move" /\ Move!Next
    /\ UNCHANGED part
    /\ UNCHANGED <<managerVars, BarrierVars, vars, SchedVars>>

ShrinkStep ==
    /\ part = "shrink" /\ Shrink!Next
    /\ UNCHANGED part
    /\ UNCHANGED <<managerVars, BarrierVars, vars, SchedVars>>

ManagerStep ==
    /\ part = "configuration_manager" /\ ManagerNext
    /\ UNCHANGED part
    /\ UNCHANGED <<MoveVars, BarrierVars, vars, SchedVars>>

BarrierStep ==
    /\ part = "barrier" /\ Barrier!Next
    /\ UNCHANGED part
    /\ UNCHANGED <<MoveVars, managerVars, vars, SchedVars>>

InstallStep ==
    /\ part = "install_snapshot" /\ Next
    /\ UNCHANGED part
    /\ UNCHANGED <<MoveVars, managerVars, BarrierVars, SchedVars>>

SchedStep ==
    /\ part = "recovery_scheduler" /\ Sched!Next
    /\ UNCHANGED part
    /\ UNCHANGED <<MoveVars, managerVars, BarrierVars, vars>>

AllNext ==
    \/ MoveStep
    \/ ShrinkStep
    \/ ManagerStep
    \/ BarrierStep
    \/ InstallStep
    \/ SchedStep

AllSpec == AllInit /\ [][AllNext]_AllVars

---------------------------------------------------------------------------
\* Properties.

\* The state of every part has the shape that its declarations describe.
TypesOK ==
    /\ part \in {"move", "shrink"} => Move!TypeOK
    /\ ManagerTypes
    /\ part = "barrier" => Barrier!TypeOK
    /\ TypeOK
    /\ part = "recovery_scheduler" => Sched!TypeOK

\* A leader elected in any of the configurations holds everything committed
\* before its term.
LeaderHasDecided == part \in {"move", "shrink"} => Move!LeaderHasDecided

\* Whatever change of the members is under way, cancelled or lost in a crash,
\* no term has two leaders.
OneLeaderPerTerm == part \in {"move", "shrink"} => Shrink!OneLeaderPerTerm

\* A barrier returns no offset below one that was committed anywhere when it
\* began.
BarrierIsLinearizable == part = "barrier" => Barrier!BarrierIsLinearizable

\* While there is room for a pending partition that has a leader, the timer
\* of the scheduler is armed.
RoomMeansTick == part = "recovery_scheduler" => Sched!RoomMeansTick

\* A tick serves the most urgent class first and the leaders evenly, within
\* the limit.
TickIsFair == Sched!TickIsFair
=============================================================================
