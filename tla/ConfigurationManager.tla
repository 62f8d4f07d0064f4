------------------------ MODULE ConfigurationManager ------------------------
(***************************************************************************)
(* raft::configuration_manager: the configurations of a log by offset, kept   *)
(* in memory and in three records of the key-value store, so that a start     *)
(* reads only the end of the log.  The log, the records and the snapshot are  *)
(* written one after the other; a crash falls between any two of the writes.  *)
(*                                                                          *)
(* Offsets count from 1; 0 stands for the offset of the initial configuration, *)
(* before the log.  The log keeps its entries here when its prefix is cut:    *)
(* start is the first one that can be read.                                   *)
(***************************************************************************)
EXTENDS Naturals, Sequences, FiniteSets, FiniteSetsExt

CONSTANTS
    MaxLog,       \* bound: entries of the log
    MaxConfigs,   \* bound: configurations written
    MaxTruncates, MaxCrashes,
    MaxSnapshot   \* bound: no snapshot is taken over one that reaches this index

ASSUME ManagerAssumption == MaxLog \in Nat

VARIABLES
    log,        \* 0 for data, else the configuration of the batch
    start,      \* start offset of the log
    flushed,    \* entries that a crash keeps
    commit,     \* entries that will not be truncated
    snap,       \* the snapshot on disk: last included index and configuration
    cm,         \* _configurations: offset -> [cfg, idx]
    nextIdx,    \* _next_index
    highest,    \* _highest_known_offset
    kv,         \* the records: map, idx, highest
    puts,       \* puts to the key-value store that are not durable
    todo,       \* puts that the holder of _lock has still to make
    raft,       \* where the append or truncation, or the start, is
    read,       \* configurations that the start read from the log
    cut,        \* history: offsets at which the manager was truncated
    lost,       \* history: a start has left out a configuration of the log
    configs, truncates, crashes

store == <<kv, puts, todo>>
manager == <<cm, nextIdx, highest>>
history == <<cut, lost>>
counts == <<configs, truncates, crashes>>
managerVars ==
    <<log, start, flushed, commit, snap, manager, store, raft, read, history, counts>>

None == MaxConfigs + 1
Earlier(a, b) == IF a < b THEN a ELSE b
Later(a, b) == IF a > b THEN a ELSE b

\* The offsets of the configurations in the part of the log that can be read.
ConfigOffsets == {o \in start..Len(log) : log[o] # 0}

\* The configuration that is in force at an offset, by the log alone.
InForce(o) ==
    LET before == {p \in 1..o : log[p] # 0}
    IN  IF before = {} THEN 0 ELSE log[Max(before)]

\* configuration_manager::get.
Get(o) ==
    LET before == {p \in DOMAIN cm : p <= o}
    IN  IF before = {} THEN None ELSE cm[Max(before)].cfg

\* The group has started.
Running == raft \in {"idle", "appended", "added", "truncated", "truncating"}

\* _lock is free.
Free == todo = <<>> /\ \A i \in 1..Len(puts) : ~puts[i].op

---------------------------------------------------------------------------
\* The records in the key-value store.

\* The next put of the operation that holds the lock, with the value of now.
SubmitPut ==
    /\ todo # <<>> /\ \A i \in 1..Len(puts) : ~puts[i].op
    /\ puts' = Append(puts,
          [op |-> TRUE, key |-> Head(todo),
           value |-> CASE Head(todo) = "map" -> [o \in DOMAIN cm |-> cm[o].cfg]
                       [] Head(todo) = "highest" -> highest
                       [] Head(todo) = "idx" -> cm[Min(DOMAIN cm)].idx])
    /\ todo' = Tail(todo)
    /\ UNCHANGED <<log, start, flushed, commit, snap, manager, kv, raft, read, history, counts>>

\* A put is durable.
PutDone ==
    /\ puts # <<>>
    /\ kv' = [kv EXCEPT ![Head(puts).key] = Head(puts).value]
    /\ puts' = Tail(puts)
    /\ UNCHANGED <<log, start, flushed, commit, snap, manager, todo, raft, read, history, counts>>

---------------------------------------------------------------------------
\* The operations of the manager; each starts with _lock free.

\* add: the entries are new, or the call throws.
Fits(offsets) == DOMAIN cm \cap offsets = {}

Add(offsets) ==
    /\ cm' = [o \in DOMAIN cm \cup offsets |->
                 IF o \in offsets
                   THEN [cfg |-> log[o], idx |-> nextIdx + Cardinality({p \in offsets : p < o})]
                   ELSE cm[o]]
    /\ nextIdx' = nextIdx + Cardinality(offsets)
    /\ highest' = Later(highest, Max(offsets))
    /\ todo' = <<"map", "highest">>

\* truncate: the offset itself is the first one to go.
Truncate(o) ==
    /\ cm' = [p \in {q \in DOMAIN cm : q < o} |-> cm[p]]
    /\ nextIdx' = IF \E p \in DOMAIN cm : p >= o
                    THEN cm[Min({p \in DOMAIN cm : p >= o})].idx ELSE nextIdx
    /\ highest' = Earlier(o, highest)
    /\ cut' = cut \cup {o}
    /\ todo' = <<"highest", "map">>

\* Mutant: what comes before the offset is dropped.
PrefixDropped(o) ==
    /\ cm' = LET rest == {p \in DOMAIN cm : p >= o}
             IN  IF rest = {} THEN cm ELSE [p \in rest |-> cm[p]]
    /\ highest' = Later(o, highest)
    /\ todo' = <<"highest", "idx", "map">>
    /\ UNCHANGED nextIdx

\* prefix_truncate: the last configuration at or before the offset moves there.
PrefixTruncate(o) ==
    IF Min(DOMAIN cm) >= o THEN UNCHANGED <<manager, todo>>
    ELSE /\ cm' = [p \in {o} \cup {q \in DOMAIN cm : q > o} |->
                      IF p = o THEN cm[Max({q \in DOMAIN cm : q <= o})] ELSE cm[p]]
         /\ highest' = Later(o, highest)
         /\ todo' = <<"highest", "idx", "map">>
         /\ UNCHANGED nextIdx

---------------------------------------------------------------------------
\* What consensus does with the log and the manager.

\* disk_append: the batch is in the log, not yet in the manager.
AppendBatch(isConfig) ==
    /\ raft = "idle" /\ Len(log) < MaxLog
    /\ isConfig => configs < MaxConfigs
    /\ log' = Append(log, IF isConfig THEN configs + 1 ELSE 0)
    /\ configs' = IF isConfig THEN configs + 1 ELSE configs
    /\ raft' = "appended"
    /\ UNCHANGED <<start, flushed, commit, snap, manager, store, read, history, truncates, crashes>>

\* Mutant: the configuration of a batch is not added.
NothingAdded ==
    /\ raft = "appended" /\ Free
    /\ raft' = "added"
    /\ UNCHANGED <<log, start, flushed, commit, snap, manager, store, read, history, counts>>

AddAppended ==
    /\ raft = "appended" /\ Free
    /\ IF log[Len(log)] = 0 THEN UNCHANGED <<manager, todo>> ELSE Add({Len(log)})
    /\ raft' = "added"
    /\ UNCHANGED <<log, start, flushed, commit, snap, kv, puts, read, history, counts>>

\* maybe_store_highest_known_offset_in_background, with or without a checkpoint.
AppendDone ==
    /\ raft = "added" /\ Free
    /\ highest' = Len(log)
    /\ \/ UNCHANGED puts
       \/ /\ puts = <<>>
          /\ puts' = <<[op |-> FALSE, key |-> "highest", value |-> Len(log)]>>
    /\ raft' = "idle"
    /\ UNCHANGED <<log, start, flushed, commit, snap, cm, nextIdx, kv, todo, read, history, counts>>

\* do_append_entries truncates the log, then the manager.
TruncateLog(o) ==
    /\ raft = "idle" /\ truncates < MaxTruncates /\ o \in Later(commit + 1, start)..Len(log)
    /\ log' = SubSeq(log, 1, o - 1)
    /\ flushed' = Earlier(flushed, o - 1)
    /\ truncates' = truncates + 1 /\ raft' = "truncated"
    /\ UNCHANGED <<start, commit, snap, manager, store, read, history, configs, crashes>>

TruncateManager ==
    /\ raft = "truncated" /\ Free
    /\ Truncate(Len(log) + 1)
    /\ raft' = "truncating"
    /\ UNCHANGED <<log, start, flushed, commit, snap, kv, puts, read, lost, counts>>

TruncateDone ==
    /\ raft = "truncating" /\ Free /\ raft' = "idle"
    /\ UNCHANGED <<log, start, flushed, commit, snap, manager, store, read, history, counts>>

\* The log is flushed and entries commit.
Commit ==
    /\ raft = "idle" /\ commit < Len(log)
    /\ flushed' = Len(log) /\ commit' = Len(log)
    /\ UNCHANGED <<log, start, snap, manager, store, raft, read, history, counts>>

\* write_snapshot: the file, with the configuration in force.
WriteSnapshot(o) ==
    /\ Running
    /\ snap.index < MaxSnapshot /\ o \in snap.index + 1..commit /\ start = snap.index + 1
    /\ snap' = [index |-> o, cfg |-> Get(o)]
    /\ UNCHANGED <<log, start, flushed, commit, manager, store, raft, read, history, counts>>

\* Its log prefix goes, without any lock.
TruncateLogPrefix ==
    /\ Running /\ start <= snap.index
    /\ start' = snap.index + 1
    /\ UNCHANGED <<log, flushed, commit, snap, manager, store, raft, read, history, counts>>

\* Then the manager's.
TruncateManagerPrefix ==
    /\ Running /\ Free
    /\ start = snap.index + 1 /\ Min(DOMAIN cm) < snap.index
    /\ PrefixTruncate(snap.index)
    /\ UNCHANGED <<log, start, flushed, commit, snap, kv, puts, raft, read, history, counts>>

---------------------------------------------------------------------------
\* Crash and start.

Crash ==
    /\ raft # "down" /\ crashes < MaxCrashes
    /\ crashes' = crashes + 1
    /\ \E len \in Later(flushed, commit)..Len(log) :
          log' = SubSeq(log, 1, len) /\ flushed' = len
    /\ raft' = "down" /\ puts' = <<>> /\ todo' = <<>> /\ read' = {}
    /\ cm' = [o \in {0} |-> [cfg |-> 0, idx |-> 0]] /\ nextIdx' = 1 /\ highest' = 0
    /\ UNCHANGED <<start, commit, snap, kv, history, configs, truncates>>

\* configuration_manager::start.
Load ==
    /\ raft = "down"
    /\ LET stored == DOMAIN kv.map
           index(o) == kv.idx + Cardinality({p \in stored : p < o})
       IN  IF stored = {}
             THEN /\ UNCHANGED <<cm, nextIdx>>
                  /\ highest' = Later(highest, kv.highest)
             ELSE /\ cm' = [o \in stored |-> [cfg |-> kv.map[o], idx |-> index(o)]]
                  /\ nextIdx' = kv.idx + Cardinality(stored)
                  /\ highest' = Later(Max(stored), kv.highest)
    /\ raft' = "hydrate"
    /\ UNCHANGED <<log, start, flushed, commit, snap, store, read, history, counts>>

\* do_hydrate_snapshot adds the snapshot's configuration at its offset.
Hydrate ==
    /\ raft = "hydrate" /\ Free
    /\ IF snap.index = 0 \/ (snap.index \in DOMAIN cm /\ cm[snap.index].cfg = snap.cfg)
         THEN UNCHANGED <<manager, todo>> /\ raft' = "prefix"
         ELSE IF snap.index \in DOMAIN cm
           THEN UNCHANGED <<manager, todo>> /\ raft' = "failed"
           ELSE /\ cm' = [o \in DOMAIN cm \cup {snap.index} |->
                             IF o = snap.index THEN [cfg |-> snap.cfg, idx |-> nextIdx]
                             ELSE cm[o]]
                /\ nextIdx' = nextIdx + 1
                /\ highest' = Later(highest, snap.index)
                /\ todo' = <<"map", "highest">> /\ raft' = "prefix"
    /\ UNCHANGED <<log, start, flushed, commit, snap, kv, puts, read, history, counts>>

\* Mutant: the log is read from its start.
ReadFromStart ==
    /\ raft = "prefix" /\ Free
    /\ start' = snap.index + 1
    /\ PrefixTruncate(snap.index)
    /\ read' = {o \in start'..Len(log) : log[o] # 0}
    /\ raft' = "truncate"
    /\ UNCHANGED <<log, flushed, commit, snap, kv, puts, history, counts>>

\* truncate_to_latest_snapshot, then read_bootstrap_state behind what is known.
HydratePrefix ==
    /\ raft = "prefix" /\ Free
    /\ start' = snap.index + 1
    /\ PrefixTruncate(snap.index)
    /\ read' = {o \in start'..Len(log) : log[o] # 0 /\ o > highest'}
    /\ raft' = "truncate"
    /\ UNCHANGED <<log, flushed, commit, snap, kv, puts, history, counts>>

\* "The log and configuration manager has exactly the same offsets range."
StartTruncate ==
    /\ raft = "truncate" /\ Free
    /\ IF Len(log) + 1 <= Min(DOMAIN cm)
         THEN raft' = "failed" /\ UNCHANGED <<manager, todo, cut>>
         ELSE raft' = "read" /\ Truncate(Len(log) + 1)
    /\ UNCHANGED <<log, start, flushed, commit, snap, kv, puts, read, lost, counts>>

\* What was read is added.
StartAdd ==
    /\ raft = "read" /\ Free
    /\ IF read = {} THEN UNCHANGED <<manager, todo>> /\ raft' = "adjust"
       ELSE IF Fits(read) THEN Add(read) /\ raft' = "adjust"
            ELSE UNCHANGED <<manager, todo>> /\ raft' = "failed"
    /\ read' = {}
    /\ UNCHANGED <<log, start, flushed, commit, snap, kv, puts, history, counts>>

\* Configurations of the log that the manager does not have.
Missed == ConfigOffsets \ DOMAIN cm

\* adjust_configuration_idx, whenever a prefix is gone; offsets here are one
\* more than the code's.
StartAdjust ==
    /\ raft = "adjust" /\ Free
    /\ IF start > 1
         THEN LET idx(o) == start - 1 + Cardinality({p \in DOMAIN cm : p < o})
              IN  /\ cm' = [o \in DOMAIN cm |-> [cm[o] EXCEPT !.idx = idx(o)]]
                  /\ nextIdx' = start - 1 + Cardinality(DOMAIN cm)
                  /\ kv' = [kv EXCEPT !.idx = start - 1]
         ELSE UNCHANGED <<cm, nextIdx, kv>>
    /\ raft' = "idle"
    /\ lost' = (lost \/ Missed # {})
    /\ UNCHANGED <<log, start, flushed, commit, snap, highest, puts, todo, read, cut, counts>>

---------------------------------------------------------------------------

ManagerInit ==
    /\ log = <<>> /\ start = 1 /\ flushed = 0 /\ commit = 0
    /\ snap = [index |-> 0, cfg |-> 0]
    /\ cm = [o \in {0} |-> [cfg |-> 0, idx |-> 0]] /\ nextIdx = 1 /\ highest = 0
    /\ kv = [map |-> <<>>, idx |-> 0, highest |-> 0]
    /\ puts = <<>> /\ todo = <<>> /\ raft = "idle" /\ read = {} /\ cut = {} /\ lost = FALSE
    /\ configs = 0 /\ truncates = 0 /\ crashes = 0

AppendSteps == AppendBatch(TRUE) \/ AppendBatch(FALSE) \/ AddAppended \/ AppendDone
Snapshot == (\E o \in 1..MaxLog : WriteSnapshot(o)) \/ TruncateLogPrefix \/ TruncateManagerPrefix
Start == Load \/ Hydrate \/ HydratePrefix \/ StartTruncate \/ StartAdd \/ StartAdjust

ManagerNext ==
    \/ SubmitPut \/ PutDone \/ AppendSteps \/ Commit
    \/ (\E o \in 1..MaxLog : TruncateLog(o)) \/ TruncateManager \/ TruncateDone
    \/ Snapshot \/ Crash \/ Start

ManagerSpec == ManagerInit /\ [][ManagerNext]_managerVars

---------------------------------------------------------------------------
\* Properties.

\* The types of the variables.
ManagerTypes ==
    /\ log \in Seq(0..MaxConfigs) /\ start \in 1..MaxLog + 1
    /\ commit <= flushed /\ flushed <= Len(log)
    /\ \A o \in DOMAIN cm : o \in 0..MaxLog /\ cm[o].cfg \in 0..MaxConfigs
    /\ DOMAIN cm # {} /\ highest \in 0..MaxLog + 1
    /\ kv.highest \in 0..MaxLog + 1 /\ todo \in Seq({"map", "idx", "highest"})

\* Between operations the manager has every configuration of the log and no
\* other, however the log, the records and the snapshot were left by a crash;
\* the exception is a configuration written at the offset of a truncation.
ConfigurationsMatchLog ==
    raft = "idle" =>
        /\ Missed \subseteq cut
        /\ \A o \in DOMAIN cm : o >= start => o <= Len(log) /\ log[o] = cm[o].cfg

\* "Get the configuration that is valid for given offset": get() agrees with
\* the log, also where the log's prefix and the configurations in it are gone.
GetIsRight ==
    raft = "idle" /\ ~lost =>
        \A o \in start - 1..Len(log) : Get(o) = InForce(o)

\* The manager refuses no offset it is given: add() meets none that "already exists",
\* and truncate() none "lower or equal than the first one", while the group runs and
\* on the start after any crash.  A start that meets one throws, and the group is down.
NeverThrows ==
    /\ raft # "failed"
    /\ raft = "appended" => Fits({Len(log)})
    /\ raft = "truncated" => Min(DOMAIN cm) <= Len(log)

=============================================================================
