------------------------ MODULE RaftReconfiguration ------------------------
(***************************************************************************)
(* A Raft group that changes its members.  Every entry of a log is a           *)
(* configuration batch, which takes effect when it is appended; the entries    *)
(* between them change nothing here.  An election, and sending a log to a      *)
(* follower, are single steps: RaftElection and RaftReplication take them      *)
(* apart.  A crash keeps any part of the log behind what was flushed.          *)
(***************************************************************************)
EXTENDS GroupConfiguration, Sequences

CONSTANTS
    Initial,    \* the voters of the group when it is made
    Requests,   \* the sets of nodes that replace_configuration is called with
    MaxTerm,    \* bound: terms
    MaxLen,     \* bound: entries of a log
    MaxChanges, MaxCancels, MaxCrashes

VARIABLES
    term,       \* _term
    voted,      \* _voted_for in that term, or NoNode
    leading,    \* _vstate = leader
    log,        \* sequences of [term, cfg]
    flushed,    \* _flushed_offset
    commit,     \* _commit_index
    match,      \* match_committed_index of the followers, on a leader
    leaders,    \* history: the pairs of term and node that won an election
    decided,    \* history: the pairs of index and entry that a leader committed
    changes, cancels, crashes

vars == <<term, voted, leading, log, flushed, commit, match, leaders, decided,
          changes, cancels, crashes>>

NoNode == "none"
Last(n) == log[n][Len(log[n])]

\* get_latest; a node that is not in the group yet has an empty configuration.
Config(n) == IF log[n] = <<>> THEN Simple({}, 5) ELSE Last(n).cfg

LastTerm(n) == IF log[n] = <<>> THEN 0 ELSE Last(n).term

\* replicate_configuration: the batch is appended and not yet flushed.
Replicated(n, t, cfg) == log' = [log EXCEPT ![n] = Append(@, [term |-> t, cfg |-> cfg])]

\* The vote handler's check of the log.
LogOk(candidate, voter) ==
    \/ LastTerm(candidate) > LastTerm(voter)
    \/ /\ LastTerm(candidate) = LastTerm(voter)
       /\ Len(log[candidate]) >= Len(log[voter])

Grants(candidate, voter, t) ==
    /\ \/ term[voter] < t
       \/ term[voter] = t /\ voted[voter] \in {NoNode, candidate}
    /\ LogOk(candidate, voter)

\* An election that n wins with the votes of S; the new leader replicates the
\* configuration that it was elected in.
Elect(n, S) ==
    LET t == term[n] + 1
    IN  /\ ~leading[n] /\ t <= MaxTerm /\ Len(log[n]) < MaxLen
        /\ MayRequestVotes(Config(n), n)
        /\ n \in S /\ Majority(Config(n), S)
        /\ \A m \in S \ {n} : IsVoter(Config(n), m) /\ Grants(n, m, t)
        /\ term' = [m \in Node |-> IF m \in S THEN t ELSE term[m]]
        /\ voted' = [m \in Node |-> IF m \in S THEN n ELSE voted[m]]
        /\ leading' = [m \in Node |-> m = n \/ (leading[m] /\ m \notin S)]
        /\ Replicated(n, t, Config(n))
        /\ match' = [match EXCEPT ![n] = [m \in Node |-> 0]]
        /\ leaders' = leaders \cup {<<t, n>>}
        /\ UNCHANGED <<flushed, commit, decided, changes, cancels, crashes>>

\* The leader's log reaches a follower, which flushes it and answers.
Replicate(n, m) ==
    /\ leading[n] /\ m # n /\ Contains(Config(n), m) /\ term[m] <= term[n]
    /\ match[n][m] < Len(log[n])
    /\ term' = [term EXCEPT ![m] = term[n]]
    /\ voted' = [voted EXCEPT ![m] = IF term[m] < term[n] THEN NoNode ELSE @]
    /\ leading' = [leading EXCEPT ![m] = FALSE]
    /\ log' = [log EXCEPT ![m] = log[n]]
    /\ flushed' = [flushed EXCEPT ![m] = Len(log[n])]
    /\ commit' = [commit EXCEPT ![m] = IF commit[n] > @ THEN commit[n] ELSE @]
    /\ match' = [match EXCEPT ![n][m] = Len(log[n])]
    /\ UNCHANGED <<leaders, decided, changes, cancels, crashes>>

\* The leader's flush, which runs beside the requests to the followers.
Flush(n) ==
    /\ leading[n] /\ flushed[n] < Len(log[n])
    /\ flushed' = [flushed EXCEPT ![n] = Len(log[n])]
    /\ UNCHANGED <<term, voted, leading, log, commit, match, leaders, decided,
                   changes, cancels, crashes>>

\* What quorum_match sees of index i.
Holders(n, i) == {m \in Node : IF m = n THEN flushed[n] >= i ELSE match[n][m] >= i}

\* The greatest index of a quorum, if it is of this term, is committed; then
\* maybe_commit_configuration takes the next step of a change.
CommitGreatest(n, quorum) ==
    LET i == CHOOSE x \in quorum : \A y \in quorum : y <= x
    IN  /\ leading[n] /\ quorum # {}
        /\ i > commit[n] /\ log[n][i].term = term[n]
        /\ commit' = [commit EXCEPT ![n] = i]
        /\ decided' = decided \cup {<<j, log[n][j]>> : j \in 1..i}
        /\ IF /\ i = Len(log[n]) /\ Config(n).learners = {}
              /\ State(Config(n)) # "simple" /\ Len(log[n]) < MaxLen
             THEN Replicated(n, term[n], Advance(Config(n)))
             ELSE UNCHANGED log
        /\ UNCHANGED <<term, voted, leading, flushed, match, leaders, changes,
                       cancels, crashes>>

\* do_maybe_update_leader_commit_idx.
CommitIndex(n) ==
    CommitGreatest(n, {i \in 1..flushed[n] : Majority(Config(n), Holders(n, i))})

\* replace_configuration: the latest configuration is committed and simple.
Change(n, nodes) ==
    /\ leading[n] /\ changes < MaxChanges /\ Len(log[n]) < MaxLen
    /\ Len(log[n]) <= commit[n]
    /\ State(Config(n)) = "simple" /\ nodes # Config(n).voters
    /\ Replicated(n, term[n], ReplaceV5(Config(n), nodes))
    /\ changes' = changes + 1
    /\ UNCHANGED <<term, voted, leading, flushed, commit, match, leaders, decided,
                   cancels, crashes>>

\* maybe_promote_to_voter after a reply of m; the latest configuration need not
\* be committed.
Promote(n, m) ==
    /\ leading[n] /\ Len(log[n]) < MaxLen
    /\ InCurrent(Config(n), m) /\ ~IsVoter(Config(n), m)
    /\ match[n][m] >= flushed[n]
    /\ Replicated(n, term[n], PromoteToVoter(Config(n), m))
    /\ UNCHANGED <<term, voted, leading, flushed, commit, match, leaders, decided,
                   changes, cancels, crashes>>

\* cancel_configuration_change; the latest configuration need not be committed.
CancelChange(n) ==
    /\ leading[n] /\ cancels < MaxCancels /\ Len(log[n]) < MaxLen
    /\ State(Config(n)) # "simple"
    /\ Config(n).joint => Config(n).oldLearners = {}
    /\ Replicated(n, term[n], Cancel(Config(n)))
    /\ cancels' = cancels + 1
    /\ UNCHANGED <<term, voted, leading, flushed, commit, match, leaders, decided,
                   changes, crashes>>

\* The leader was removed, or a cancelled change left it without a vote: it
\* steps down when that configuration is committed.
StepDown(n) ==
    /\ leading[n] /\ commit[n] = Len(log[n]) /\ ~IsVoter(Config(n), n)
    /\ leading' = [leading EXCEPT ![n] = FALSE]
    /\ UNCHANGED <<term, voted, log, flushed, commit, match, leaders, decided,
                   changes, cancels, crashes>>

\* Mutant: entries that were acknowledged may go too.
CrashLosesFlushed(n) ==
    /\ crashes < MaxCrashes /\ crashes' = crashes + 1
    /\ \E len \in 1..Len(log[n]) :
          /\ log' = [log EXCEPT ![n] = SubSeq(@, 1, len)]
          /\ flushed' = [flushed EXCEPT ![n] = len]
    /\ leading' = [leading EXCEPT ![n] = FALSE]
    /\ commit' = [commit EXCEPT ![n] = 0]
    /\ UNCHANGED <<term, voted, match, leaders, decided, changes, cancels>>

\* A crash and restart; term and vote are on disk.
Crash(n) ==
    /\ crashes < MaxCrashes /\ crashes' = crashes + 1
    /\ \E len \in flushed[n]..Len(log[n]) :
          /\ log' = [log EXCEPT ![n] = SubSeq(@, 1, len)]
          /\ flushed' = [flushed EXCEPT ![n] = len]
    /\ leading' = [leading EXCEPT ![n] = FALSE]
    /\ commit' = [commit EXCEPT ![n] = 0]
    /\ UNCHANGED <<term, voted, match, leaders, decided, changes, cancels>>

Init ==
    /\ term = [n \in Node |-> 0] /\ voted = [n \in Node |-> NoNode]
    /\ leading = [n \in Node |-> FALSE]
    /\ log = [n \in Node |-> IF n \in Initial
                             THEN <<[term |-> 0, cfg |-> Simple(Initial, 5)]>> ELSE <<>>]
    /\ flushed = [n \in Node |-> Len(log[n])]
    /\ commit = [n \in Node |-> 0]
    /\ match = [n \in Node |-> [m \in Node |-> 0]]
    /\ leaders = {} /\ decided = {} /\ changes = 0 /\ cancels = 0 /\ crashes = 0

Next ==
    \E n \in Node :
        \/ \E S \in SUBSET Node : Elect(n, S)
        \/ \E m \in Node : Replicate(n, m) \/ Promote(n, m)
        \/ \E nodes \in Requests : Change(n, nodes)
        \/ Flush(n) \/ CommitIndex(n) \/ CancelChange(n) \/ StepDown(n) \/ Crash(n)

Spec == Init /\ [][Next]_vars

---------------------------------------------------------------------------
\* Properties.

\* The types of the variables, and the bounds on offsets.
TypeOK ==
    /\ term \in [Node -> 0..MaxTerm] /\ voted \in [Node -> Node \cup {NoNode}]
    /\ leading \in [Node -> BOOLEAN]
    /\ \A n \in Node :
          /\ \A i \in 1..Len(log[n]) : log[n][i].cfg \in Configuration
          /\ flushed[n] \in 0..Len(log[n])
          /\ leading[n] => commit[n] <= flushed[n]

\* "assert_at_most_one_leader": whatever changes of the members are under way,
\* no term has two leaders.
OneLeaderPerTerm ==
    \A a, b \in leaders : a[1] = b[1] => a[2] = b[2]

\* A leader elected in any configuration holds everything committed before its
\* term.
LeaderHasDecided ==
    \A n \in Node : leading[n] =>
        \A d \in decided : d[2].term < term[n] =>
            d[1] <= Len(log[n]) /\ log[n][d[1]] = d[2]
=============================================================================
