--------------------- MODULE ConfigurationManagerProofs ---------------------
(***************************************************************************)
(* The configuration manager agrees with the log after any number of crashes,  *)
(* truncations and snapshots, whichever of its records were written.           *)
(***************************************************************************)
EXTENDS ConfigurationManager, TLAPS

---------------------------------------------------------------------------
\* What a table of configurations has to do with a log: lg is the log, s the offset
\* that the table starts from and ct the offsets of truncations.

\* The configurations of the manager as they are stored.
Configs == [o \in DOMAIN cm |-> cm[o].cfg]

\* Up to h, the configurations of the log are in the table.
Known(t, h, lg, s, ct) ==
    \A o \in s + 1..Len(lg) : lg[o] # 0 /\ o <= h => o \in DOMAIN t \/ o \in ct

\* What is in the table, and still in the log, is a configuration of the log.
Real(t, lg, s) ==
    \A o \in DOMAIN t : s < o /\ o <= Len(lg) => lg[o] # 0 /\ t[o] = lg[o]

\* The initial configuration is there as long as there was no snapshot.
First(t, s) == s = 0 /\ DOMAIN t # {} => 0 \in DOMAIN t /\ t[0] = 0

\* No entry of the table was added before the ones that it follows.
Closed(t, lg, s, ct) == \A x \in DOMAIN t : Known(t, x, lg, s, ct)

Sound(t, h, lg, s, ct) ==
    /\ DOMAIN t \subseteq 0..MaxLog /\ h \in Nat
    /\ Real(t, lg, s) /\ First(t, s) /\ Closed(t, lg, s, ct) /\ Known(t, h, lg, s, ct)

\* The table answers v for the offset o.
Answers(t, o, v) ==
    \E p \in DOMAIN t : p <= o /\ v = t[p] /\ \A q \in DOMAIN t : q <= o => q <= p

---------------------------------------------------------------------------
\* The puts that are not durable: at most one in the background, and one of the
\* operation that holds the lock.

Background == {puts[i].value : i \in {j \in DOMAIN puts : ~puts[j].op}}
Submitted == {puts[i].key : i \in {j \in DOMAIN puts : puts[j].op}}

MapPending == "map" \in Submitted \/ \E i \in DOMAIN todo : todo[i] = "map"
HighestPending == "highest" \in Submitted \/ \E i \in DOMAIN todo : todo[i] = "highest"

\* An add has not stored its configurations.
Adding == todo = <<"map", "highest">> \/ ("map" \in Submitted /\ todo = <<"highest">>)

PutsInv ==
    /\ \E S : puts \in Seq(S)
    /\ \A i \in DOMAIN puts :
         /\ ~puts[i].op => i = 1 /\ puts[i].key = "highest" /\ puts[i].value \in Nat
         /\ puts[i].op => /\ i = Len(puts)
                          /\ puts[i].key = "map" => puts[i].value = Configs
                          /\ puts[i].key = "highest" => puts[i].value = highest
    /\ \/ /\ Submitted = {}
          /\ todo \in {<<>>, <<"map", "highest">>, <<"highest">>, <<"highest", "map">>, <<"map">>,
                       <<"highest", "idx", "map">>, <<"idx", "map">>}
       \/ Submitted = {"map"} /\ todo \in {<<>>, <<"highest">>}
       \/ Submitted = {"highest"} /\ todo \in {<<>>, <<"map">>, <<"idx", "map">>}
       \/ Submitted = {"idx"} /\ todo = <<"map">>

---------------------------------------------------------------------------
\* The inductive invariant.

\* The group has not started.
Starting == {"down", "hydrate", "prefix", "truncate", "read", "adjust", "failed"}

\* The end of the log that the manager has been told of.
End == IF raft = "appended" THEN Len(log) - 1 ELSE Len(log)

\* The log reaches behind the snapshot; commit <= flushed <= end.
LogInv ==
    /\ log \in Seq(Nat) /\ Len(log) <= MaxLog /\ start \in Nat /\ start > 0 /\ configs \in Nat
    /\ flushed \in Nat /\ commit \in Nat /\ snap.index \in Nat
    /\ start <= snap.index + 1 /\ snap.index <= commit /\ commit <= flushed /\ flushed <= End
    /\ Running \/ raft \in Starting
    /\ raft \in {"truncate", "read", "adjust"} => start = snap.index + 1

\* The snapshot has the configuration in force at its offset.
SnapInv ==
    /\ snap.index = 0 => snap.cfg = 0
    /\ ~lost => snap.cfg = InForce(snap.index)

\* What a crash leaves is sound, and so is what the next puts make of it.
TablesInv ==
    /\ DOMAIN kv = {"map", "idx", "highest"}
    /\ Sound(kv.map, kv.highest, log, snap.index, cut)
    /\ raft = "down" => /\ puts = <<>> /\ todo = <<>> /\ DOMAIN cm = {0} /\ cm[0].cfg = 0
                        /\ highest = 0
    /\ \A o \in DOMAIN cm : "cfg" \in DOMAIN cm[o]
    /\ raft # "down" =>
         /\ Sound(Configs, highest, log, snap.index, cut) /\ (snap.index = 0 => 0 \in DOMAIN cm)
         /\ Known(Configs, kv.highest, log, snap.index, cut)
         /\ \A h \in Background : /\ Known(Configs, h, log, snap.index, cut)
                                  /\ Known(kv.map, h, log, snap.index, cut)
         /\ ~Adding => Known(kv.map, highest, log, snap.index, cut)

\* No offset behind the log, but that of a truncation.
Within(h) == h <= End \/ (h = End + 1 /\ h \in cut)

\* Outside a truncation nothing reaches behind the log; during one, nothing that is not
\* about to be written again.
EndsInv ==
    /\ raft \in {"idle", "appended", "added", "adjust"} =>
         /\ DOMAIN cm \subseteq 0..End /\ DOMAIN kv.map \subseteq 0..End
         /\ Within(highest) /\ Within(kv.highest) /\ \A h \in Background : Within(h)
    /\ raft \in {"truncating", "read"} =>
         /\ DOMAIN cm \subseteq 0..End /\ Within(highest)
         /\ ~MapPending => DOMAIN kv.map \subseteq 0..End
         /\ ~HighestPending => Within(kv.highest) /\ Background = {}
    /\ Adding => raft \in {"added", "adjust", "prefix"}
    /\ raft \in Starting => Background = {}

\* A start has the snapshot's configuration, and knows or has read every other one; a
\* running group knows all that was appended, in memory and, but for an add, on disk.
StartInv ==
    /\ raft \in {"prefix", "truncate", "read", "adjust"} =>
         snap.index \in DOMAIN cm /\ cm[snap.index].cfg = snap.cfg
    /\ raft \in {"truncate", "read"} =>
         /\ \A o \in snap.index + 1..Len(log) : log[o] # 0 => o <= highest \/ o \in read
         /\ \A o \in read : o \in snap.index + 1..Len(log) /\ log[o] # 0
    /\ raft = "adjust" \/ Running =>
         /\ Known(Configs, End, log, snap.index, cut)
         /\ ~Adding => Known(kv.map, End, log, snap.index, cut)

\* A running group answers as the log says.
RunInv ==
    Running =>
        /\ Real(Configs, log, start - 1) /\ Known(Configs, End, log, start - 1, cut)
        /\ \E p \in DOMAIN cm : p <= start - 1
        /\ ~lost => \A o \in start - 1..End : Answers(Configs, o, InForce(o))

ManagerInv == LogInv /\ SnapInv /\ PutsInv /\ TablesInv /\ EndsInv /\ StartInv /\ RunInv

---------------------------------------------------------------------------
\* Greatest elements.

\* A set of numbers has a least one. It is a hypothesis of the lemmas that need it, and
\* LeastNumber below discharges it: the library's theorems on well-founded relations stay
\* out of the context of everything before.
HasLeast == \A T \in SUBSET Nat : T # {} => \E x \in T : \A y \in T : x <= y

\* A bounded one has a greatest one.
LEMMA GreatestNumber ==
    ASSUME HasLeast, NEW n \in Nat, NEW T \in SUBSET (0..n), T # {}
    PROVE  \E x \in T : \A y \in T : y <= x
  <1> DEFINE U == {n - x : x \in T}
  <1>1. U \in SUBSET Nat /\ U # {}
    <2>1. \A x \in T : n - x \in Nat
      OBVIOUS
    <2> QED
      BY <2>1, Zenon
  <1>2. PICK u \in U : \A v \in U : u <= v
    BY <1>1, Zenon DEF HasLeast
  <1>3. PICK x \in T : u = n - x
    BY <1>2
  <1>4. \A y \in T : n - x <= n - y
    BY <1>2, <1>3, Zenon
  <1> QED
    BY <1>3, <1>4

\* Max finds it.
LEMMA MaxIs ==
    ASSUME NEW S \in SUBSET Nat, NEW p \in S, \A y \in S : y <= p
    PROVE  Max(S) = p
  <1>1. \E x \in S : \A y \in S : x >= y
    OBVIOUS
  <1>2. Max(S) \in S /\ \A y \in S : Max(S) >= y
    BY <1>1, Zenon DEF Max
  <1>3. Max(S) >= p /\ Max(S) <= p
    BY <1>2, Zenon
  <1>4. Max(S) \in Nat /\ p \in Nat
    BY <1>2, Zenon
  <1> QED
    BY <1>3, <1>4

\* There is one in every bounded set.
LEMMA MaxOf ==
    ASSUME HasLeast, NEW n \in Nat, NEW S \in SUBSET (0..n), S # {}
    PROVE  Max(S) \in S /\ \A y \in S : y <= Max(S)
  <1>1. PICK p \in S : \A y \in S : y <= p
    BY GreatestNumber, Zenon
  <1>2. S \in SUBSET Nat
    OBVIOUS
  <1> QED
    BY <1>1, <1>2, MaxIs, Zenon

---------------------------------------------------------------------------
\* The configuration in force.

\* InForce of any log.
LastSet(lg, o) ==
    LET before == {p \in 1..o : lg[p] # 0}
    IN  IF before = {} THEN 0 ELSE lg[Max(before)]

\* InForce is about the log of the state.
LEMMA InForceIsLastSet == \A o : InForce(o) = LastSet(log, o)
  BY Zenon DEF InForce, LastSet

\* It depends on the entries up to the offset only.
LEMMA LastSetSame ==
    ASSUME HasLeast, NEW lg, NEW mg, NEW o \in Nat, \A p \in 1..o : lg[p] = mg[p]
    PROVE  LastSet(lg, o) = LastSet(mg, o)
  <1> DEFINE B == {p \in 1..o : lg[p] # 0}
  <1>1. B = {p \in 1..o : mg[p] # 0}
    OBVIOUS
  <1>2. CASE B = {}
    BY <1>1, <1>2, Zenon DEF LastSet
  <1>3. CASE B # {}
    <2>1. B \in SUBSET (0..o)
      OBVIOUS
    <2>2. Max(B) \in B
      BY <2>1, <1>3, MaxOf, Zenon
    <2>3. lg[Max(B)] = mg[Max(B)]
      BY <2>2, Zenon
    <2> QED
      BY <1>1, <1>3, <2>3, Zenon DEF LastSet
  <1> QED
    BY <1>2, <1>3, Zenon

\* A configuration is in force at its own offset,
LEMMA LastSetAt ==
    ASSUME NEW lg, NEW o \in Nat, o > 0, lg[o] # 0
    PROVE  LastSet(lg, o) = lg[o]
  <1> DEFINE B == {p \in 1..o : lg[p] # 0}
  <1>1. o \in B /\ B \in SUBSET Nat /\ \A y \in B : y <= o
    OBVIOUS
  <1>2. Max(B) = o
    BY <1>1, MaxIs, Zenon
  <1> QED
    BY <1>1, <1>2, Zenon DEF LastSet

\* and until the next one.
LEMMA LastSetSkips ==
    ASSUME NEW lg, NEW o \in Nat, NEW p \in 0..o, \A q \in p + 1..o : lg[q] = 0
    PROVE  LastSet(lg, o) = LastSet(lg, p)
  <1>1. {q \in 1..o : lg[q] # 0} = {q \in 1..p : lg[q] # 0}
    <2>1. \A q \in 1..o : q \in 1..p \/ q \in p + 1..o
      OBVIOUS
    <2>2. \A q \in 1..p : q \in 1..o
      OBVIOUS
    <2> QED
      BY <2>1, <2>2, Zenon
  <1> QED
    BY <1>1, Zenon DEF LastSet

\* A table with everything from s on answers what the log says.
LEMMA AnswersAll ==
    ASSUME HasLeast, NEW t, NEW lg, NEW s \in Nat, NEW n \in Nat, n <= Len(lg), Len(lg) \in Nat,
           DOMAIN t \subseteq Nat, s \in DOMAIN t, t[s] = LastSet(lg, s), Real(t, lg, s),
           \A o \in s + 1..n : lg[o] # 0 => o \in DOMAIN t
    PROVE  \A o \in s..n : Answers(t, o, LastSet(lg, o))
  <1> SUFFICES ASSUME NEW o \in s..n
               PROVE  Answers(t, o, LastSet(lg, o))
    BY Zenon
  <1> DEFINE T == {p \in DOMAIN t : p <= o}
  <1>1. o \in Nat /\ T \in SUBSET (0..o) /\ s \in T
    OBVIOUS
  <1>2. PICK p \in T : \A y \in T : y <= p
    BY <1>1, GreatestNumber, Zenon
  <1>3. p \in DOMAIN t /\ p <= o /\ \A q \in DOMAIN t : q <= o => q <= p
    BY <1>2, Zenon
  <1>4. p \in 0..o /\ s <= p
    BY <1>1, <1>2
  <1>5. \A q \in p + 1..o : lg[q] = 0
    <2> SUFFICES ASSUME NEW q \in p + 1..o, lg[q] # 0
                 PROVE  FALSE
      BY Zenon
    <2>1. q \in s + 1..n /\ q <= o /\ ~(q <= p)
      BY <1>4
    <2> QED
      BY <2>1, <1>3, Zenon
  <1>6. LastSet(lg, o) = LastSet(lg, p)
    BY <1>1, <1>4, <1>5, LastSetSkips, Zenon
  <1>7. LastSet(lg, p) = t[p]
    <2>1. CASE p = s
      BY <2>1, Zenon
    <2>2. CASE p # s
      <3>1. s < p /\ p <= Len(lg) /\ p \in Nat /\ p > 0
        BY <2>2, <1>4
      <3>2. lg[p] # 0 /\ t[p] = lg[p]
        BY <3>1, <1>3, Zenon DEF Real
      <3> QED
        BY <3>1, <3>2, LastSetAt, Zenon
    <2> QED
      BY <2>1, <2>2, Zenon
  <1> QED
    BY <1>3, <1>6, <1>7, Zenon DEF Answers

\* get() returns the answer.
LEMMA AnswerIsGet ==
    ASSUME NEW o, NEW v, DOMAIN cm \subseteq Nat, Answers(Configs, o, v)
    PROVE  Get(o) = v
  <1>1. PICK p \in DOMAIN cm : /\ p <= o /\ v = cm[p].cfg
                               /\ \A q \in DOMAIN cm : q <= o => q <= p
    BY Zenon DEF Answers, Configs
  <1> DEFINE B == {q \in DOMAIN cm : q <= o}
  <1>2. p \in B /\ B \in SUBSET Nat /\ \A y \in B : y <= p
    BY <1>1, Zenon
  <1>3. Max(B) = p
    BY <1>2, MaxIs, Zenon
  <1> QED
    BY <1>1, <1>2, <1>3, Zenon DEF Get

---------------------------------------------------------------------------
\* Tables and logs.

\* mg is what is left of lg.
Cuts(lg, mg) ==
    /\ Len(lg) \in Nat /\ Len(mg) \in Nat /\ Len(mg) <= Len(lg)
    /\ \A o \in 1..Len(mg) : mg[o] = lg[o]

\* What a table knows of a log it knows of what is left of it.
LEMMA KnownKept ==
    ASSUME NEW t, NEW h, NEW lg, NEW mg, NEW s \in Nat, NEW r \in Nat, NEW ct, NEW du,
           Known(t, h, lg, s, ct), Cuts(lg, mg), s <= r, ct \subseteq du
    PROVE  Known(t, h, mg, r, du)
  <1>1. \A o \in r + 1..Len(mg) : o \in s + 1..Len(lg) /\ o \in 1..Len(mg)
    BY DEF Cuts
  <1> QED
    BY <1>1, Zenon DEF Known, Cuts

\* What is in it stays real.
LEMMA RealKept ==
    ASSUME NEW t, NEW lg, NEW mg, NEW s \in Nat, NEW r \in Nat, DOMAIN t \subseteq Nat,
           Real(t, lg, s), Cuts(lg, mg), s <= r
    PROVE  Real(t, mg, r)
  <1>1. \A o \in DOMAIN t : r < o /\ o <= Len(mg) =>
            s < o /\ o <= Len(lg) /\ o \in 1..Len(mg)
    BY DEF Cuts
  <1> QED
    BY <1>1, Zenon DEF Real, Cuts

\* A sound table stays one when the log is cut, snapshots are taken and offsets are
\* truncated.
LEMMA SoundKept ==
    ASSUME NEW t, NEW h, NEW lg, NEW mg, NEW s \in Nat, NEW r \in Nat, NEW ct, NEW du,
           Sound(t, h, lg, s, ct), Cuts(lg, mg), s <= r, ct \subseteq du
    PROVE  Sound(t, h, mg, r, du)
  <1>1. DOMAIN t \subseteq Nat
    BY DEF Sound
  <1>2. Real(t, mg, r)
    BY <1>1, RealKept, Zenon DEF Sound
  <1>3. Known(t, h, mg, r, du) /\ \A x \in DOMAIN t : Known(t, x, mg, r, du)
    BY KnownKept, Zenon DEF Sound, Closed
  <1>4. r = 0 => s = 0
    OBVIOUS
  <1> QED
    BY <1>2, <1>3, <1>4, Zenon DEF Sound, Closed, First

\* A table that knows the log to its end knows it up to any offset.
LEMMA KnownToEnd ==
    ASSUME NEW t, NEW e \in Nat, NEW h \in Nat, NEW lg, NEW s \in Nat, NEW ct,
           Known(t, e, lg, s, ct), Len(lg) \in Nat, Len(lg) <= e + 1,
           h <= e \/ Len(lg) <= e \/ (h = e + 1 /\ h \in ct)
    PROVE  Known(t, h, lg, s, ct)
  <1> SUFFICES ASSUME NEW o \in s + 1..Len(lg), lg[o] # 0, o <= h
               PROVE  o \in DOMAIN t \/ o \in ct
    BY Zenon DEF Known
  <1>1. o <= e \/ (o = h /\ h \in ct)
    OBVIOUS
  <1> QED
    BY <1>1, Zenon DEF Known

\* An entry is appended.
Grows(lg, mg) ==
    /\ Len(lg) \in Nat /\ Len(mg) = Len(lg) + 1
    /\ \A o \in 1..Len(lg) : mg[o] = lg[o]

\* What is known stays known: the new entry is behind it, or at a truncated offset.
LEMMA KnownGrows ==
    ASSUME NEW t, NEW h \in Nat, NEW lg, NEW mg, NEW s \in Nat, NEW ct,
           Known(t, h, lg, s, ct), Grows(lg, mg),
           h <= Len(lg) \/ (h = Len(lg) + 1 /\ h \in ct)
    PROVE  Known(t, h, mg, s, ct)
  <1> SUFFICES ASSUME NEW o \in s + 1..Len(mg), mg[o] # 0, o <= h
               PROVE  o \in DOMAIN t \/ o \in ct
    BY Zenon DEF Known
  <1>1. CASE o <= Len(lg)
    <2>1. o \in s + 1..Len(lg) /\ o \in 1..Len(lg)
      BY <1>1 DEF Grows
    <2> QED
      BY <2>1, Zenon DEF Known, Grows
  <1>2. CASE ~(o <= Len(lg))
    <2>1. o = h /\ h \in ct
      BY <1>2 DEF Grows
    <2> QED
      BY <2>1, Zenon
  <1> QED
    BY <1>1, <1>2, Zenon

\* A table that ends with the log has nothing at the new offset.
LEMMA RealGrows ==
    ASSUME NEW t, NEW lg, NEW mg, NEW s \in Nat, DOMAIN t \subseteq 0..Len(lg),
           Real(t, lg, s), Grows(lg, mg)
    PROVE  Real(t, mg, s)
  <1>1. \A o \in DOMAIN t : s < o => o <= Len(lg) /\ o \in 1..Len(lg)
    BY DEF Grows
  <1> QED
    BY <1>1, Zenon DEF Real, Grows

\* A sound table stays one when the log grows.
LEMMA SoundGrows ==
    ASSUME NEW t, NEW h, NEW lg, NEW mg, NEW s \in Nat, NEW ct,
           Sound(t, h, lg, s, ct), Grows(lg, mg), DOMAIN t \subseteq 0..Len(lg),
           h <= Len(lg) \/ (h = Len(lg) + 1 /\ h \in ct)
    PROVE  Sound(t, h, mg, s, ct)
  <1>1. Real(t, mg, s)
    BY RealGrows, Zenon DEF Sound
  <1>2. Known(t, h, mg, s, ct)
    BY KnownGrows, Zenon DEF Sound
  <1>3. \A x \in DOMAIN t : x \in Nat /\ x <= Len(lg)
    BY DEF Grows
  <1>4. \A x \in DOMAIN t : Known(t, x, mg, s, ct)
    BY <1>3, KnownGrows, Zenon DEF Sound, Closed
  <1> QED
    BY <1>1, <1>2, <1>4, Zenon DEF Sound, Closed

\* What is known is known up to every earlier offset.
LEMMA KnownBelow ==
    ASSUME NEW t, NEW g \in Nat, NEW h \in Nat, NEW lg, NEW s \in Nat, NEW ct,
           Known(t, h, lg, s, ct), g <= h, Len(lg) \in Nat
    PROVE  Known(t, g, lg, s, ct)
  <1>1. \A o \in s + 1..Len(lg) : o <= g => o <= h
    OBVIOUS
  <1> QED
    BY <1>1, Zenon DEF Known

\* Nothing is to be known up to the offset that the table starts from.
LEMMA KnownLater ==
    ASSUME NEW t, NEW h \in Nat, NEW lg, NEW s \in Nat, NEW ct, Known(t, h, lg, s, ct),
           Len(lg) \in Nat
    PROVE  Known(t, s, lg, s, ct) /\ Known(t, Later(h, s), lg, s, ct)
           /\ Known(t, Later(s, h), lg, s, ct)
  <1>1. Known(t, s, lg, s, ct)
    <2>1. \A o \in s + 1..Len(lg) : ~(o <= s)
      OBVIOUS
    <2> QED
      BY <2>1, Zenon DEF Known
  <1> QED
    BY <1>1, Zenon DEF Later

\* A table with the same configurations is as good.
LEMMA SoundLike ==
    ASSUME NEW t, NEW u, NEW h, NEW lg, NEW s, NEW ct, Sound(t, h, lg, s, ct),
           DOMAIN u = DOMAIN t, \A o \in DOMAIN t : u[o] = t[o]
    PROVE  Sound(u, h, lg, s, ct)
  <1>1. \A x : Known(t, x, lg, s, ct) => Known(u, x, lg, s, ct)
    BY Zenon DEF Known
  <1> QED
    BY <1>1, Zenon DEF Sound, Real, First, Closed

\* A table with more in it knows as much.
LEMMA KnownMore ==
    ASSUME NEW t, NEW u, NEW h, NEW lg, NEW s \in Nat, NEW ct, Known(t, h, lg, s, ct),
           \A o \in DOMAIN t : s < o /\ o <= Len(lg) => o \in DOMAIN u, Len(lg) \in Nat
    PROVE  Known(u, h, lg, s, ct)
  <1>1. \A o \in s + 1..Len(lg) : s < o /\ o <= Len(lg)
    OBVIOUS
  <1> QED
    BY <1>1, Zenon DEF Known

---------------------------------------------------------------------------
\* Puts.

\* No operation holds the lock: nothing of one is pending.
LEMMA FreeMeans ==
    ASSUME PutsInv, Free
    PROVE  /\ todo = <<>> /\ Submitted = {} /\ ~Adding /\ ~MapPending /\ ~HighestPending
           /\ \A i \in DOMAIN puts : ~puts[i].op
  <1>1. PICK S : puts \in Seq(S)
    BY Zenon DEF PutsInv
  <1>2. DOMAIN puts = 1..Len(puts)
    BY <1>1
  <1>3. todo = <<>> /\ \A i \in DOMAIN puts : ~puts[i].op
    BY <1>2, Zenon DEF Free
  <1>4. Submitted = {}
    BY <1>3, Zenon DEF Submitted
  <1>5. DOMAIN todo = {} /\ todo # <<"map", "highest">> /\ todo # <<"highest">>
    BY <1>3
  <1> QED
    BY <1>3, <1>4, <1>5, Zenon DEF Adding, MapPending, HighestPending

\* A step that leaves the puts alone.
LEMMA PutsSame ==
    ASSUME PutsInv, puts' = puts, todo' = todo, Configs' = Configs, highest' = highest
    PROVE  /\ PutsInv' /\ Background' = Background /\ Submitted' = Submitted
           /\ (Adding' <=> Adding) /\ (MapPending' <=> MapPending)
           /\ (HighestPending' <=> HighestPending)
  <1>1. Background' = Background /\ Submitted' = Submitted
    BY Zenon DEF Background, Submitted
  <1> QED
    BY <1>1, Zenon DEF PutsInv, Adding, MapPending, HighestPending

\* An operation begins.
LEMMA PutsNew ==
    ASSUME PutsInv, Free, puts' = puts,
           todo' \in {<<"map", "highest">>, <<"highest", "map">>, <<"highest", "idx", "map">>}
    PROVE  /\ PutsInv' /\ Background' = Background /\ MapPending' /\ HighestPending'
           /\ Adding' <=> todo' = <<"map", "highest">>
  <1>1. Submitted' = {} /\ Background' = Background /\ \A i \in DOMAIN puts : ~puts[i].op
    BY FreeMeans, Zenon DEF Submitted, Background
  <1>2. PutsInv'
    BY <1>1, Zenon DEF PutsInv
  <1>3. /\ \E i \in DOMAIN todo' : todo'[i] = "map"
        /\ \E i \in DOMAIN todo' : todo'[i] = "highest"
    <2>1. CASE todo' = <<"map", "highest">>
      <3>1. 1 \in DOMAIN todo' /\ 2 \in DOMAIN todo' /\ todo'[1] = "map" /\ todo'[2] = "highest"
        BY <2>1
      <3> QED
        BY <3>1, Zenon
    <2>2. CASE todo' = <<"highest", "map">>
      <3>1. 1 \in DOMAIN todo' /\ 2 \in DOMAIN todo' /\ todo'[2] = "map" /\ todo'[1] = "highest"
        BY <2>2
      <3> QED
        BY <3>1, Zenon
    <2>3. CASE todo' = <<"highest", "idx", "map">>
      <3>1. 1 \in DOMAIN todo' /\ 3 \in DOMAIN todo' /\ todo'[3] = "map" /\ todo'[1] = "highest"
        BY <2>3
      <3> QED
        BY <3>1, Zenon
    <2> QED
      BY <2>1, <2>2, <2>3, Zenon
  <1> QED
    BY <1>1, <1>2, <1>3, Zenon DEF MapPending, HighestPending, Adding

---------------------------------------------------------------------------
\* The log.

\* The types that most steps need.
LEMMA Facts ==
    ASSUME ManagerInv
    PROVE  /\ log \in Seq(Nat) /\ Len(log) \in Nat /\ Len(log) <= MaxLog /\ start \in Nat
           /\ start > 0 /\ start - 1 \in Nat /\ flushed \in Nat /\ commit \in Nat
           /\ snap.index \in Nat /\ start - 1 <= snap.index /\ snap.index <= commit
           /\ commit <= flushed /\ flushed <= End /\ End \in Nat /\ End <= Len(log)
           /\ highest \in Nat /\ kv.highest \in Nat /\ MaxLog \in Nat
           /\ DOMAIN cm \subseteq 0..MaxLog /\ DOMAIN Configs = DOMAIN cm
           /\ DOMAIN kv.map \subseteq 0..MaxLog
           /\ \A o \in DOMAIN cm : Configs[o] = cm[o].cfg
  <1>1. /\ log \in Seq(Nat) /\ Len(log) <= MaxLog /\ start \in Nat /\ start > 0
        /\ flushed \in Nat /\ commit \in Nat /\ snap.index \in Nat
        /\ start <= snap.index + 1 /\ snap.index <= commit /\ commit <= flushed /\ flushed <= End
    BY Zenon DEF ManagerInv, LogInv
  <1>2. Len(log) \in Nat /\ start - 1 \in Nat /\ start - 1 <= snap.index
    BY <1>1
  <1>3. End \in Nat /\ End <= Len(log)
    <2>1. End = Len(log) - 1 \/ End = Len(log)
      BY Zenon DEF End
    <2> QED
      BY <1>1, <1>2, <2>1, SMTT(30)
  <1>4. DOMAIN Configs = DOMAIN cm /\ \A o \in DOMAIN cm : Configs[o] = cm[o].cfg
    BY Zenon DEF Configs
  <1>5. kv.highest \in Nat /\ DOMAIN kv.map \subseteq 0..MaxLog
    BY Zenon DEF ManagerInv, TablesInv, Sound
  <1>6. MaxLog \in Nat
    BY ManagerAssumption, Zenon
  <1>7. highest \in Nat /\ DOMAIN cm \subseteq 0..MaxLog
    <2>1. CASE raft = "down"
      <3>1. highest = 0 /\ DOMAIN cm = {0}
        BY <2>1, Zenon DEF ManagerInv, TablesInv
      <3> QED
        BY <3>1, <1>6
    <2>2. CASE raft # "down"
      BY <2>2, <1>4, Zenon DEF ManagerInv, TablesInv, Sound
    <2> QED
      BY <2>1, <2>2, Zenon
  <1> QED
    BY <1>1, <1>2, <1>3, <1>4, <1>5, <1>6, <1>7, Zenon

\* What is in force at an offset is that in every log with the same entries up to it.
LEMMA InForceSame ==
    ASSUME HasLeast, NEW o \in Nat, \A p \in 1..o : log'[p] = log[p]
    PROVE  InForce(o)' = InForce(o)
  <1>1. LastSet(log', o) = LastSet(log, o)
    BY LastSetSame, Zenon
  <1>2. InForce(o)' = LastSet(log', o) /\ InForce(o) = LastSet(log, o)
    BY Zenon DEF InForce, LastSet
  <1> QED
    BY <1>1, <1>2, Zenon

\* A batch is appended.
LEMMA AppendBatchKeeps ==
    ASSUME HasLeast, ManagerInv, NEW isConfig \in BOOLEAN, AppendBatch(isConfig)
    PROVE  ManagerInv'
  <1>1. /\ raft = "idle" /\ raft' = "appended" /\ Len(log) < MaxLog
        /\ start' = start /\ flushed' = flushed /\ commit' = commit /\ snap' = snap
        /\ cm' = cm /\ highest' = highest /\ kv' = kv /\ puts' = puts /\ todo' = todo
        /\ read' = read /\ cut' = cut /\ lost' = lost
    BY Zenon DEF AppendBatch, manager, store, history
  <1>2. PICK c \in Nat : log' = Append(log, c)
    <2>1. configs \in Nat /\ configs + 1 \in Nat /\ 0 \in Nat
      BY DEF ManagerInv, LogInv
    <2> QED
      BY <2>1, Zenon DEF AppendBatch
  <1>3. configs' \in Nat
    BY DEF AppendBatch, ManagerInv, LogInv
  <1>4. log' \in Seq(Nat) /\ Len(log') = Len(log) + 1 /\ \A o \in 1..Len(log) : log'[o] = log[o]
    BY <1>2, Facts
  <1>5. Grows(log, log')
    BY <1>4, Facts, Zenon DEF Grows
  <1>6. End = Len(log) /\ End' = Len(log)
    <2>1. Len(log') - 1 = Len(log)
      BY <1>4, Facts
    <2> QED
      BY <2>1, <1>1, Zenon DEF End
  <1>7. Configs' = Configs
    BY <1>1, Zenon DEF Configs
  <1>8. /\ PutsInv' /\ Background' = Background /\ (Adding' <=> Adding)
    BY <1>1, <1>7, PutsSame, Zenon DEF ManagerInv
  <1>9. LogInv'
    <2>1. Len(log') <= MaxLog
      BY <1>1, <1>4, Facts
    <2>2. Running'
      BY <1>1, Zenon DEF Running
    <2> QED
      BY <1>1, <1>3, <1>4, <1>6, <2>1, <2>2, Zenon DEF ManagerInv, LogInv
  <1>10. SnapInv'
    <2>1. \A p \in 1..snap.index : log'[p] = log[p]
      BY <1>4, <1>6, Facts, SMTT(30)
    <2>2. InForce(snap.index)' = InForce(snap.index)
      BY <1>1, <2>1, Facts, InForceSame, Zenon
    <2> QED
      BY <1>1, <2>2, Zenon DEF ManagerInv, SnapInv
  <1>11. /\ DOMAIN cm \subseteq 0..Len(log) /\ DOMAIN kv.map \subseteq 0..Len(log)
         /\ \A h \in Background \cup {highest, kv.highest} :
               h \in Nat /\ (h <= Len(log) \/ (h = Len(log) + 1 /\ h \in cut))
    <2>1. \A h \in Background : h \in Nat
      BY Zenon DEF ManagerInv, PutsInv, Background
    <2> QED
      BY <1>1, <1>6, <2>1, Facts, Zenon DEF ManagerInv, EndsInv, Within
  <1>12. TablesInv'
    <2>1. Sound(kv.map, kv.highest, log', snap.index, cut)
      BY <1>5, <1>11, Facts, SoundGrows, Zenon DEF ManagerInv, TablesInv
    <2>2. Sound(Configs, highest, log', snap.index, cut)
      BY <1>1, <1>5, <1>11, Facts, SoundGrows, Zenon DEF ManagerInv, TablesInv
    <2>3. /\ Known(Configs, kv.highest, log', snap.index, cut)
          /\ \A h \in Background : /\ Known(Configs, h, log', snap.index, cut)
                                   /\ Known(kv.map, h, log', snap.index, cut)
          /\ ~Adding => Known(kv.map, highest, log', snap.index, cut)
      BY <1>1, <1>5, <1>11, Facts, KnownGrows, Zenon DEF ManagerInv, TablesInv
    <2> QED
      BY <1>1, <1>7, <1>8, <2>1, <2>2, <2>3, Zenon DEF ManagerInv, TablesInv
  <1>13. EndsInv'
    <2>1. ~Adding
      BY <1>1, Zenon DEF ManagerInv, EndsInv
    <2> QED
      BY <1>1, <1>6, <1>8, <1>11, <2>1, Zenon DEF EndsInv, Within, Starting
  <1>14. Len(log) <= Len(log)
    BY Facts
  <1>15. StartInv'
    <2>1. Running
      BY <1>1, Zenon DEF Running
    <2>2. /\ Known(Configs, Len(log), log', snap.index, cut)
          /\ ~Adding => Known(kv.map, Len(log), log', snap.index, cut)
      BY <1>5, <1>6, <1>14, <2>1, Facts, KnownGrows, Zenon DEF ManagerInv, StartInv
    <2> QED
      BY <1>1, <1>6, <1>7, <1>8, <2>2, Zenon DEF StartInv
  <1>16. RunInv'
    <2>1. Running
      BY <1>1, Zenon DEF Running
    <2>2. Real(Configs, log', start - 1)
      BY <1>5, <1>11, <2>1, Facts, RealGrows, Zenon DEF ManagerInv, RunInv
    <2>3. Known(Configs, Len(log), log', start - 1, cut)
      BY <1>5, <1>6, <1>14, <2>1, Facts, KnownGrows, Zenon DEF ManagerInv, RunInv
    <2>4. ASSUME ~lost, NEW o \in start - 1..End
          PROVE  Answers(Configs, o, InForce(o)')
      <3>1. o \in Nat /\ \A p \in 1..o : p \in 1..Len(log)
        BY <1>6, Facts, SMTT(30)
      <3>2. InForce(o)' = InForce(o)
        BY <1>4, <3>1, InForceSame, Zenon
      <3> QED
        BY <2>1, <2>4, <3>2, Zenon DEF ManagerInv, RunInv
    <2>5. \E p \in DOMAIN cm' : p <= start' - 1
      BY <1>1, Zenon DEF Running, ManagerInv, RunInv
    <2> QED
      BY <1>1, <1>6, <1>7, <2>2, <2>3, <2>4, <2>5, Zenon DEF RunInv
  <1> QED
    BY <1>8, <1>9, <1>10, <1>12, <1>13, <1>15, <1>16, Zenon DEF ManagerInv

\* The log loses entries or a prefix, and the manager does not know yet.
LEMMA TablesKept ==
    ASSUME ManagerInv, raft # "down", raft' # "down", cm' = cm, highest' = highest, kv' = kv,
           puts' = puts, todo' = todo, Cuts(log, log'), snap'.index \in Nat,
           snap.index <= snap'.index, cut' = cut
    PROVE  /\ TablesInv' /\ PutsInv' /\ Configs' = Configs /\ Background' = Background
           /\ (Adding' <=> Adding) /\ (MapPending' <=> MapPending)
           /\ (HighestPending' <=> HighestPending)
  <1>1. Configs' = Configs
    BY Zenon DEF Configs
  <1>2. /\ PutsInv' /\ Background' = Background
        /\ (Adding' <=> Adding) /\ (MapPending' <=> MapPending)
        /\ (HighestPending' <=> HighestPending)
    BY <1>1, PutsSame, Zenon DEF ManagerInv
  <1>3. cut \subseteq cut'
    BY Zenon
  <1>4. snap'.index = 0 => snap.index = 0
    BY Facts, SMTT(30)
  <1>5. Sound(kv.map, kv.highest, log', snap'.index, cut')
    BY <1>3, Facts, SoundKept, Zenon DEF ManagerInv, TablesInv
  <1>6. Sound(Configs, highest, log', snap'.index, cut')
    BY <1>3, Facts, SoundKept, Zenon DEF ManagerInv, TablesInv
  <1>7. /\ Known(Configs, kv.highest, log', snap'.index, cut')
        /\ \A h \in Background : /\ Known(Configs, h, log', snap'.index, cut')
                                 /\ Known(kv.map, h, log', snap'.index, cut')
        /\ ~Adding => Known(kv.map, highest, log', snap'.index, cut')
    BY <1>3, Facts, KnownKept, Zenon DEF ManagerInv, TablesInv
  <1>8. TablesInv'
    BY <1>1, <1>2, <1>4, <1>5, <1>6, <1>7, Zenon DEF ManagerInv, TablesInv
  <1> QED
    BY <1>1, <1>2, <1>8, Zenon

\* The log as a whole is left of itself.
LEMMA CutsItself ==
    ASSUME ManagerInv, log' = log
    PROVE  Cuts(log, log') /\ \A o : InForce(o)' = InForce(o)
  <1>1. Len(log) \in Nat /\ Len(log) <= Len(log)
    BY Facts
  <1> QED
    BY <1>1, Zenon DEF Cuts, InForce

\* The end of the log is truncated.
LEMMA TruncateLogKeeps ==
    ASSUME HasLeast, ManagerInv, NEW o \in 1..MaxLog, TruncateLog(o)
    PROVE  ManagerInv'
  <1>1. /\ raft = "idle" /\ raft' = "truncated" /\ o \in Later(commit + 1, start)..Len(log)
        /\ log' = SubSeq(log, 1, o - 1) /\ flushed' = Earlier(flushed, o - 1)
        /\ start' = start /\ commit' = commit /\ snap' = snap
        /\ cm' = cm /\ highest' = highest /\ kv' = kv /\ puts' = puts /\ todo' = todo
        /\ read' = read /\ cut' = cut /\ lost' = lost /\ configs' = configs
    BY Zenon DEF TruncateLog, manager, store, history
  <1>2. /\ o - 1 \in Nat /\ commit <= o - 1 /\ o - 1 <= Len(log) /\ start <= o
        /\ flushed' \in Nat /\ commit <= flushed' /\ flushed' <= o - 1
    <2>1. /\ commit \in Nat /\ start \in Nat /\ flushed \in Nat /\ Len(log) \in Nat /\ o \in Int
          /\ commit <= flushed
      BY <1>1, Facts, SMTT(30)
    <2>2. /\ o - 1 \in Nat /\ commit <= o - 1 /\ o - 1 <= Len(log) /\ start <= o
      BY <1>1, <2>1 DEF Later
    <2>3. flushed' = flushed \/ (flushed' = o - 1 /\ flushed >= o - 1)
      BY <1>1, <2>1, <2>2 DEF Earlier
    <2>4. flushed' <= o - 1
      BY <1>1, <2>1, <2>2 DEF Earlier
    <2> QED
      BY <2>1, <2>2, <2>3, <2>4, SMTT(30)
  <1>3. log' \in Seq(Nat) /\ Len(log') = o - 1 /\ \A p \in 1..o - 1 : log'[p] = log[p]
    <2>1. log \in Seq(Nat) /\ Len(log) \in Nat
      BY Facts, Zenon
    <2> QED
      BY <1>1, <1>2, <2>1, SMTT(30)
  <1>4. Cuts(log, log') /\ snap.index <= snap'.index /\ snap'.index \in Nat
    <2>1. Len(log) \in Nat /\ snap.index \in Nat
      BY Facts, Zenon
    <2> QED
      BY <1>1, <1>2, <1>3, <2>1, SMTT(30) DEF Cuts
  <1>5. End = Len(log) /\ End' = o - 1
    BY <1>1, <1>3, Zenon DEF End
  <1>6. /\ TablesInv' /\ PutsInv' /\ Configs' = Configs /\ Background' = Background
        /\ (Adding' <=> Adding)
    BY <1>1, <1>4, TablesKept, Zenon
  <1>7. LogInv'
    <2>1. Len(log') <= MaxLog
      BY <1>2, <1>3, Facts, SMTT(30)
    <2>2. Running'
      BY <1>1, Zenon DEF Running
    <2> QED
      BY <1>1, <1>2, <1>3, <1>5, <2>1, <2>2, Zenon DEF ManagerInv, LogInv
  <1>8. \A p \in 0..o - 1 : InForce(p)' = InForce(p)
    <2> SUFFICES ASSUME NEW p \in 0..o - 1
                 PROVE  InForce(p)' = InForce(p)
      BY Zenon
    <2>1. p \in Nat /\ \A q \in 1..p : log'[q] = log[q]
      BY <1>2, <1>3
    <2> QED
      BY <2>1, InForceSame, Zenon
  <1>9. SnapInv'
    <2>1. snap.index \in 0..o - 1
      BY <1>2, Facts, SMTT(30)
    <2> QED
      BY <1>1, <1>8, <2>1, Zenon DEF ManagerInv, SnapInv
  <1>10. EndsInv'
    BY <1>1, <1>6, Zenon DEF ManagerInv, EndsInv, Starting
  <1>11. Running /\ ~Adding
    BY <1>1, Zenon DEF Running, ManagerInv, EndsInv
  <1>12. ASSUME NEW t, NEW s \in Nat, Known(t, Len(log), log, s, cut)
         PROVE  Known(t, o - 1, log', s, cut)
    <2>1. s <= s /\ cut \subseteq cut
      OBVIOUS
    <2>2. Known(t, Len(log), log', s, cut)
      BY <1>4, <1>12, <2>1, KnownKept, Zenon
    <2>3. Len(log') \in Nat
      BY <1>2, <1>3, Zenon
    <2> QED
      BY <1>2, <2>2, <2>3, Facts, KnownBelow, Zenon
  <1>13. StartInv'
    BY <1>1, <1>5, <1>6, <1>11, <1>12, Facts, Zenon DEF ManagerInv, StartInv
  <1>14. RunInv'
    <2>1. Known(Configs, o - 1, log', start - 1, cut)
      BY <1>5, <1>11, <1>12, Facts, Zenon DEF ManagerInv, RunInv
    <2>2. Real(Configs, log', start - 1)
      <3>1. start - 1 <= start - 1 /\ DOMAIN Configs \subseteq Nat
        BY Facts, SMTT(30)
      <3> QED
        BY <1>4, <1>11, <3>1, Facts, RealKept, Zenon DEF ManagerInv, RunInv
    <2>3. ASSUME ~lost, NEW p \in start - 1..o - 1
          PROVE  Answers(Configs, p, InForce(p)')
      <3>1. p \in 0..o - 1 /\ p \in start - 1..End
        BY <1>2, <1>5, Facts, SMTT(30)
      <3> QED
        BY <1>8, <1>11, <2>3, <3>1, Zenon DEF ManagerInv, RunInv
    <2>4. \E p \in DOMAIN cm' : p <= start' - 1
      BY <1>1, Zenon DEF Running, ManagerInv, RunInv
    <2> QED
      BY <1>1, <1>5, <1>6, <2>1, <2>2, <2>3, <2>4, Zenon DEF RunInv
  <1> QED
    BY <1>6, <1>7, <1>9, <1>10, <1>13, <1>14, Zenon DEF ManagerInv

\* A step that leaves the log, the manager and the puts alone.
LEMMA ManagerRests ==
    ASSUME ManagerInv, raft # "down", raft' = raft, log' = log, cm' = cm, highest' = highest,
           kv' = kv, puts' = puts, todo' = todo, snap'.index \in Nat,
           snap.index <= snap'.index, cut' = cut
    PROVE  /\ TablesInv' /\ PutsInv' /\ EndsInv' /\ Configs' = Configs /\ End' = End
           /\ (Adding' <=> Adding) /\ (Running' <=> Running)
           /\ \A o : InForce(o)' = InForce(o)
  <1>1. /\ TablesInv' /\ PutsInv' /\ Configs' = Configs /\ Background' = Background
        /\ (Adding' <=> Adding) /\ (MapPending' <=> MapPending)
        /\ (HighestPending' <=> HighestPending)
    BY CutsItself, TablesKept, Zenon
  <1>2. End' = End /\ (Running' <=> Running) /\ \A o : InForce(o)' = InForce(o)
    BY CutsItself, Zenon DEF End, Running
  <1>3. \A h : Within(h)' <=> Within(h)
    BY <1>2, Zenon DEF Within
  <1>4. EndsInv'
    BY <1>1, <1>2, <1>3, Zenon DEF ManagerInv, EndsInv
  <1> QED
    BY <1>1, <1>2, <1>4, Zenon

\* The log is flushed and committed.
LEMMA CommitKeeps ==
    ASSUME ManagerInv, Commit
    PROVE  ManagerInv'
  <1>1. /\ raft = "idle" /\ raft' = raft /\ flushed' = Len(log) /\ commit' = Len(log)
        /\ log' = log /\ start' = start /\ snap' = snap
        /\ cm' = cm /\ highest' = highest /\ kv' = kv /\ puts' = puts /\ todo' = todo
        /\ read' = read /\ cut' = cut /\ lost' = lost /\ configs' = configs
    BY Zenon DEF Commit, manager, store, history, counts
  <1>2. snap'.index \in Nat /\ snap.index <= snap'.index
    BY <1>1, Facts, SMTT(30)
  <1>3. /\ TablesInv' /\ PutsInv' /\ EndsInv' /\ Configs' = Configs /\ End' = End
        /\ (Adding' <=> Adding) /\ (Running' <=> Running) /\ \A o : InForce(o)' = InForce(o)
    BY <1>1, <1>2, ManagerRests, Zenon
  <1>4. LogInv'
    <2>1. End = Len(log)
      BY <1>1, Zenon DEF End
    <2>2. Len(log) \in Nat /\ snap.index <= Len(log) /\ Len(log) <= Len(log)
      BY Facts, SMTT(30)
    <2> QED
      BY <1>1, <1>3, <2>1, <2>2, Zenon DEF ManagerInv, LogInv
  <1> QED
    BY <1>1, <1>3, <1>4, Zenon DEF ManagerInv, SnapInv, StartInv, RunInv

\* A snapshot is written.
LEMMA WriteSnapshotKeeps ==
    ASSUME ManagerInv, NEW o \in 1..MaxLog, WriteSnapshot(o)
    PROVE  ManagerInv'
  <1>1. /\ Running /\ o \in snap.index + 1..commit /\ start = snap.index + 1
        /\ snap' = [index |-> o, cfg |-> Get(o)]
        /\ log' = log /\ start' = start /\ flushed' = flushed /\ commit' = commit
        /\ cm' = cm /\ highest' = highest /\ kv' = kv /\ puts' = puts /\ todo' = todo
        /\ read' = read /\ cut' = cut /\ lost' = lost /\ configs' = configs /\ raft' = raft
    BY Zenon DEF WriteSnapshot, manager, store, history, counts
  <1>2. raft # "down" /\ raft \notin {"truncate", "read", "adjust", "prefix"}
    BY <1>1, Zenon DEF Running
  <1>3. snap'.index = o /\ snap'.cfg = Get(o)
    BY <1>1, Zenon
  <1>4. /\ snap'.index \in Nat /\ snap.index <= snap'.index /\ snap'.index # 0
        /\ start <= snap'.index + 1 /\ snap'.index <= commit /\ o \in start - 1..End
    <2>1. /\ snap.index \in Nat /\ commit \in Nat /\ End \in Nat /\ commit <= flushed
          /\ flushed <= End /\ flushed \in Nat
      BY Facts, Zenon
    <2> QED
      BY <1>1, <1>3, <2>1
  <1>5. /\ TablesInv' /\ PutsInv' /\ EndsInv' /\ Configs' = Configs /\ End' = End
        /\ (Adding' <=> Adding) /\ (Running' <=> Running) /\ \A p : InForce(p)' = InForce(p)
    BY <1>1, <1>2, <1>4, ManagerRests, Zenon
  <1>6. LogInv'
    BY <1>1, <1>2, <1>4, <1>5, Zenon DEF ManagerInv, LogInv
  <1>7. SnapInv'
    <2>1. ASSUME ~lost PROVE Get(o) = InForce(o)
      <3>1. Answers(Configs, o, InForce(o))
        BY <1>1, <1>4, <2>1, Zenon DEF ManagerInv, RunInv
      <3>2. DOMAIN cm \subseteq Nat
        BY Facts
      <3> QED
        BY <3>1, <3>2, AnswerIsGet, Zenon
    <2> QED
      BY <1>1, <1>3, <1>4, <1>5, <2>1, Zenon DEF SnapInv
  <1>8. StartInv'
    <2>1. Cuts(log, log) /\ cut \subseteq cut
      BY <1>1, CutsItself, Zenon
    <2>2. /\ Known(Configs, End, log, snap'.index, cut)
          /\ ~Adding => Known(kv.map, End, log, snap'.index, cut)
      BY <1>1, <1>4, <2>1, Facts, KnownKept, Zenon DEF ManagerInv, StartInv
    <2> QED
      BY <1>1, <1>2, <1>5, <2>2, Zenon DEF StartInv
  <1> QED
    BY <1>1, <1>5, <1>6, <1>7, <1>8, Zenon DEF ManagerInv, RunInv

\* The log's prefix goes.
LEMMA TruncateLogPrefixKeeps ==
    ASSUME ManagerInv, TruncateLogPrefix
    PROVE  ManagerInv'
  <1>1. /\ Running /\ start <= snap.index /\ start' = snap.index + 1
        /\ log' = log /\ snap' = snap /\ flushed' = flushed /\ commit' = commit
        /\ cm' = cm /\ highest' = highest /\ kv' = kv /\ puts' = puts /\ todo' = todo
        /\ read' = read /\ cut' = cut /\ lost' = lost /\ configs' = configs /\ raft' = raft
    BY Zenon DEF TruncateLogPrefix, manager, store, history, counts
  <1>2. raft # "down"
    BY <1>1, Zenon DEF Running
  <1>3. /\ snap'.index \in Nat /\ snap.index <= snap'.index /\ start' \in Nat /\ start' > 0
        /\ start' <= snap'.index + 1 /\ start' - 1 = snap.index /\ start - 1 <= snap.index
        /\ \A o \in start' - 1..End : o \in start - 1..End
    <2>1. snap.index \in Nat /\ start \in Nat /\ End \in Nat
      BY Facts, Zenon
    <2> QED
      BY <1>1, <2>1
  <1>4. /\ TablesInv' /\ PutsInv' /\ EndsInv' /\ Configs' = Configs /\ End' = End
        /\ (Adding' <=> Adding) /\ (Running' <=> Running) /\ \A p : InForce(p)' = InForce(p)
    BY <1>1, <1>2, <1>3, ManagerRests, Zenon
  <1>5. LogInv'
    BY <1>1, <1>3, <1>4, Zenon DEF ManagerInv, LogInv
  <1>6. RunInv'
    <2>1. Cuts(log, log) /\ cut \subseteq cut /\ DOMAIN Configs \subseteq Nat
      <3>1. DOMAIN Configs \subseteq Nat
        BY Facts
      <3> QED
        BY <1>1, <3>1, CutsItself, Zenon
    <2>2. Known(Configs, End, log, snap.index, cut)
      BY <1>1, <1>3, <2>1, Facts, KnownKept, Zenon DEF ManagerInv, RunInv
    <2>3. Real(Configs, log, snap.index)
      BY <1>1, <1>3, <2>1, Facts, RealKept, Zenon DEF ManagerInv, RunInv
    <2>4. ~lost => \A o \in start' - 1..End : Answers(Configs, o, InForce(o))
      BY <1>1, <1>3, Zenon DEF ManagerInv, RunInv
    <2>5. \E p \in DOMAIN cm' : p <= start' - 1
      <3>1. PICK p \in DOMAIN cm : p <= start - 1
        BY <1>1, Zenon DEF ManagerInv, RunInv
      <3>2. p \in 0..MaxLog /\ start - 1 \in Nat /\ start - 1 <= snap.index /\ snap.index \in Nat
        BY <3>1, Facts, Zenon
      <3>3. p <= start' - 1
        BY <1>1, <3>1, <3>2
      <3> QED
        BY <1>1, <3>1, <3>3, Zenon
    <2> QED
      BY <1>1, <1>3, <1>4, <2>2, <2>3, <2>4, <2>5, Zenon DEF RunInv
  <1> QED
    BY <1>1, <1>4, <1>5, <1>6, Zenon DEF ManagerInv, SnapInv, StartInv

---------------------------------------------------------------------------
\* The operations of the manager.

\* The manager has been truncated.
LEMMA TruncateDoneKeeps ==
    ASSUME ManagerInv, TruncateDone
    PROVE  ManagerInv'
  <1>1. /\ raft = "truncating" /\ Free /\ raft' = "idle"
        /\ log' = log /\ start' = start /\ flushed' = flushed /\ commit' = commit
        /\ snap' = snap
        /\ cm' = cm /\ highest' = highest /\ kv' = kv /\ puts' = puts /\ todo' = todo
        /\ read' = read /\ cut' = cut /\ lost' = lost /\ configs' = configs
    BY Zenon DEF TruncateDone, manager, store, history, counts
  <1>2. snap'.index \in Nat /\ snap.index <= snap'.index
    BY <1>1, Facts, SMTT(30)
  <1>3. Cuts(log, log') /\ \A o : InForce(o)' = InForce(o)
    BY <1>1, CutsItself, Zenon
  <1>4. /\ TablesInv' /\ PutsInv' /\ Configs' = Configs /\ Background' = Background
        /\ (Adding' <=> Adding)
    BY <1>1, <1>2, <1>3, TablesKept, Zenon
  <1>5. End' = End /\ Running /\ Running'
    BY <1>1, Zenon DEF End, Running
  <1>6. ~Adding /\ ~MapPending /\ ~HighestPending
    BY <1>1, FreeMeans, Zenon DEF ManagerInv
  <1>7. LogInv'
    BY <1>1, <1>5, Zenon DEF ManagerInv, LogInv
  <1>8. EndsInv'
    BY <1>1, <1>4, <1>5, <1>6, Zenon DEF ManagerInv, EndsInv, Within, Starting
  <1> QED
    BY <1>1, <1>3, <1>4, <1>5, <1>7, <1>8, Zenon DEF ManagerInv, SnapInv, StartInv, RunInv

\* The table u has the configurations at the offsets A of the log in addition to t.
Adds(t, u, A, lg, s) ==
    /\ DOMAIN u = DOMAIN t \cup A /\ \A o \in DOMAIN t \ A : u[o] = t[o]
    /\ \A o \in A : o \in s + 1..Len(lg) /\ lg[o] # 0 /\ u[o] = lg[o]

\* Such a table is sound when it knows the log.
LEMMA TableAdds ==
    ASSUME NEW t, NEW u, NEW A, NEW lg, NEW s \in Nat, NEW ct, NEW g, NEW h \in Nat,
           Adds(t, u, A, lg, s), Sound(t, g, lg, s, ct), s = 0 => 0 \in DOMAIN t,
           Len(lg) \in Nat, Len(lg) <= MaxLog, Known(u, Len(lg), lg, s, ct)
    PROVE  Sound(u, h, lg, s, ct) /\ \A x \in Nat : Known(u, x, lg, s, ct)
  <1>1. \A x \in Nat : Known(u, x, lg, s, ct)
    <2>1. Len(lg) <= Len(lg) + 1 /\ Len(lg) <= Len(lg)
      OBVIOUS
    <2> QED
      BY <2>1, KnownToEnd, Zenon
  <1>2. DOMAIN t \subseteq 0..MaxLog
    BY Zenon DEF Sound
  <1>3. DOMAIN u \subseteq 0..MaxLog /\ 0 \notin A /\ DOMAIN u \subseteq Nat
    BY <1>2, ManagerAssumption DEF Adds
  <1>4. Real(u, lg, s)
    BY Zenon DEF Sound, Real, Adds
  <1>5. First(u, s)
    BY <1>3, Zenon DEF Sound, First, Adds
  <1>6. Closed(u, lg, s, ct)
    BY <1>1, <1>3, Zenon DEF Closed
  <1> QED
    BY <1>1, <1>3, <1>4, <1>5, <1>6, Zenon DEF Sound

\* What add() makes of the table.
LEMMA AddMeans ==
    ASSUME NEW A, Add(A), ManagerInv, \A o \in A : o \in snap.index + 1..Len(log) /\ log[o] # 0
    PROVE  /\ Adds(Configs, Configs', A, log, snap.index) /\ DOMAIN cm' = DOMAIN cm \cup A
           /\ \A o \in DOMAIN cm' : "cfg" \in DOMAIN cm'[o]
           /\ \A o \in A : Configs'[o] = log[o]
           /\ \A o \in DOMAIN cm \ A : Configs'[o] = Configs[o]
           /\ todo' = <<"map", "highest">> /\ highest' = Later(highest, Max(A))
  <1>1. /\ DOMAIN cm' = DOMAIN cm \cup A
        /\ \A o \in A : cm'[o].cfg = log[o] /\ "cfg" \in DOMAIN cm'[o]
        /\ \A o \in DOMAIN cm \ A : cm'[o] = cm[o]
        /\ todo' = <<"map", "highest">> /\ highest' = Later(highest, Max(A))
    BY DEF Add
  <1>2. /\ DOMAIN Configs' = DOMAIN cm' /\ \A o \in DOMAIN cm' : Configs'[o] = cm'[o].cfg
        /\ DOMAIN Configs = DOMAIN cm /\ \A o \in DOMAIN cm : Configs[o] = cm[o].cfg
    BY Zenon DEF Configs
  <1>3. /\ \A o \in A : Configs'[o] = log[o]
        /\ \A o \in DOMAIN cm \ A : Configs'[o] = Configs[o]
    BY <1>1, <1>2, Zenon
  <1>4. \A o \in DOMAIN cm' : "cfg" \in DOMAIN cm'[o]
    BY <1>1, Zenon DEF ManagerInv, TablesInv
  <1> QED
    BY <1>1, <1>2, <1>3, <1>4, Zenon DEF Adds

\* A data batch adds nothing.
LEMMA AddDataKeeps ==
    ASSUME ManagerInv, AddAppended, log[Len(log)] = 0
    PROVE  ManagerInv'
  <1>1. /\ raft = "appended" /\ Free /\ raft' = "added"
        /\ log' = log /\ start' = start /\ flushed' = flushed /\ commit' = commit
        /\ snap' = snap
        /\ cm' = cm /\ highest' = highest /\ kv' = kv /\ puts' = puts /\ todo' = todo
        /\ read' = read /\ cut' = cut /\ lost' = lost /\ configs' = configs
    BY Zenon DEF AddAppended, manager, history, counts
  <1>2. snap'.index \in Nat /\ snap.index <= snap'.index
    BY <1>1, Facts, SMTT(30)
  <1>3. Cuts(log, log') /\ \A o : InForce(o)' = InForce(o)
    BY <1>1, CutsItself, Zenon
  <1>4. /\ TablesInv' /\ PutsInv' /\ Configs' = Configs /\ Background' = Background
        /\ (Adding' <=> Adding)
    BY <1>1, <1>2, <1>3, TablesKept, Zenon
  <1>5. End' = Len(log) /\ End = Len(log) - 1 /\ Running /\ Running'
    BY <1>1, Zenon DEF End, Running
  <1>6. /\ End \in Nat /\ Len(log) \in Nat /\ Len(log) = End + 1 /\ flushed <= Len(log)
        /\ start - 1 \in Nat /\ End \in start - 1..End
    <2>1. /\ End \in Nat /\ Len(log) \in Nat /\ flushed <= End /\ flushed \in Nat /\ start \in Nat
          /\ start - 1 <= snap.index /\ snap.index <= commit /\ commit <= flushed
          /\ commit \in Nat /\ snap.index \in Nat /\ start - 1 \in Nat
      BY Facts, Zenon
    <2> QED
      BY <1>5, <2>1
  <1>7. LogInv'
    BY <1>1, <1>5, <1>6, Zenon DEF ManagerInv, LogInv
  <1>8. EndsInv'
    <2>1. \A h \in Background : h \in Nat
      BY Zenon DEF ManagerInv, PutsInv, Background
    <2>2. \A h \in Nat : h <= End \/ h = End + 1 => h <= Len(log)
      BY <1>6
    <2>3. \A h \in Nat : Within(h) => Within(h)'
      BY <2>2, <1>5, Zenon DEF Within
    <2>4. \A o \in 0..End : o \in 0..Len(log)
      BY <1>6
    <2>5. /\ DOMAIN cm' \subseteq 0..End' /\ DOMAIN kv'.map \subseteq 0..End'
          /\ Within(highest)' /\ Within(kv.highest)' /\ \A h \in Background' : Within(h)'
      BY <1>1, <1>4, <1>5, <2>1, <2>3, <2>4, Facts, Zenon DEF ManagerInv, EndsInv
    <2> QED
      BY <1>1, <1>4, <2>5, Zenon DEF EndsInv, Starting
  <1>9. ASSUME NEW t, NEW s \in Nat, Known(t, End, log, s, cut)
        PROVE  Known(t, Len(log), log, s, cut)
    <2> SUFFICES ASSUME NEW o \in s + 1..Len(log), log[o] # 0
                 PROVE  o \in DOMAIN t \/ o \in cut
      BY Zenon DEF Known
    <2>1. o <= End \/ o = Len(log)
      BY <1>6
    <2> QED
      BY <1>9, <2>1, Zenon DEF Known
  <1>10. StartInv'
    BY <1>1, <1>4, <1>5, <1>9, Facts, Zenon DEF ManagerInv, StartInv
  <1>11. RunInv'
    <2>1. Known(Configs, Len(log), log, start - 1, cut) /\ Real(Configs, log, start - 1)
      BY <1>5, <1>9, Facts, Zenon DEF ManagerInv, RunInv
    <2>2. ASSUME ~lost, NEW o \in start - 1..Len(log)
          PROVE  Answers(Configs, o, InForce(o))
      <3>1. CASE o \in start - 1..End
        BY <1>5, <2>2, <3>1, Zenon DEF ManagerInv, RunInv
      <3>2. CASE o \notin start - 1..End
        <4>1. o = Len(log) /\ End \in 0..o /\ o \in Nat /\ \A q \in End + 1..o : q = o
          BY <1>6, <3>2
        <4>2. \A q \in End + 1..o : log[q] = 0
          BY <4>1, Zenon
        <4>3. InForce(o) = InForce(End)
          BY <4>1, <4>2, InForceIsLastSet, LastSetSkips, Zenon
        <4>4. Answers(Configs, End, InForce(End))
          BY <1>5, <1>6, <2>2, Zenon DEF ManagerInv, RunInv
        <4>5. \A q \in DOMAIN Configs : q <= End /\ q <= o
          <5>1. DOMAIN Configs \subseteq 0..End
            BY <1>1, Facts, Zenon DEF ManagerInv, EndsInv
          <5> QED
            BY <1>6, <4>1, <5>1
        <4> QED
          BY <4>3, <4>4, <4>5, Zenon DEF Answers
      <3> QED
        BY <3>1, <3>2, Zenon
    <2>3. \E p \in DOMAIN cm' : p <= start' - 1
      BY <1>1, Zenon DEF Running, ManagerInv, RunInv
    <2> QED
      BY <1>1, <1>3, <1>4, <1>5, <2>1, <2>2, <2>3, Zenon DEF RunInv
  <1> QED
    BY <1>1, <1>3, <1>4, <1>7, <1>8, <1>10, <1>11, Zenon DEF ManagerInv, SnapInv

\* A configuration is added.
LEMMA AddConfigKeeps ==
    ASSUME ManagerInv, AddAppended, log[Len(log)] # 0
    PROVE  ManagerInv'
  <1> DEFINE L == Len(log)
  <1>1. /\ raft = "appended" /\ Free /\ raft' = "added" /\ Add({L})
        /\ log' = log /\ start' = start /\ flushed' = flushed /\ commit' = commit
        /\ snap' = snap /\ kv' = kv /\ puts' = puts
        /\ read' = read /\ cut' = cut /\ lost' = lost /\ configs' = configs
    BY Zenon DEF AddAppended, history, counts
  <1>2. End' = L /\ End = L - 1 /\ Running /\ Running'
    BY <1>1, Zenon DEF End, Running
  <1>3. /\ L \in Nat /\ End \in Nat /\ L = End + 1 /\ L > 0 /\ flushed <= L /\ L <= L
        /\ snap.index \in Nat /\ snap.index < L /\ start - 1 \in Nat /\ start - 1 < L
    <2>1. /\ End \in Nat /\ Len(log) \in Nat /\ flushed <= End /\ flushed \in Nat /\ start \in Nat
          /\ start - 1 <= snap.index /\ snap.index <= commit /\ commit <= flushed
          /\ commit \in Nat /\ snap.index \in Nat /\ start - 1 \in Nat
      BY Facts, Zenon
    <2> QED
      BY <1>2, <2>1
  <1>4. \A o \in {L} : o \in snap.index + 1..Len(log) /\ log[o] # 0
    BY <1>3
  <1>5. /\ Adds(Configs, Configs', {L}, log, snap.index) /\ DOMAIN cm' = DOMAIN cm \cup {L}
        /\ \A o \in DOMAIN cm' : "cfg" \in DOMAIN cm'[o]
        /\ Configs'[L] = log[L] /\ todo' = <<"map", "highest">>
        /\ highest' = Later(highest, Max({L}))
        /\ \A o \in DOMAIN cm \ {L} : Configs'[o] = Configs[o]
    BY <1>1, <1>4, AddMeans, Zenon
  <1>6. /\ DOMAIN Configs = DOMAIN cm /\ DOMAIN cm \subseteq 0..End
        /\ DOMAIN Configs' = DOMAIN cm'
    BY <1>1, Facts, Zenon DEF ManagerInv, EndsInv, Configs
  <1>7. /\ \A o \in DOMAIN cm : o # L /\ o < L /\ o \in Nat
        /\ \A o \in DOMAIN cm' : o <= L
    BY <1>3, <1>5, <1>6
  <1>8. highest' = L
    <2>1. {L} \in SUBSET Nat /\ L \in {L} /\ \A y \in {L} : y <= L
      BY <1>3
    <2>2. Max({L}) = L
      BY <2>1, MaxIs, Zenon
    <2>3. highest <= End \/ highest = End + 1
      BY <1>1, Zenon DEF ManagerInv, EndsInv, Within
    <2>4. highest \in Nat /\ End \in Nat
      BY Facts, Zenon
    <2>5. ~(highest > L) \/ highest = L
      BY <1>3, <2>3, <2>4
    <2> QED
      BY <1>5, <2>2, <2>5, Zenon DEF Later
  <1>9. ASSUME NEW s \in Nat, Known(Configs, End, log, s, cut)
        PROVE  Known(Configs', L, log, s, cut)
    <2> SUFFICES ASSUME NEW o \in s + 1..Len(log), log[o] # 0
                 PROVE  o \in DOMAIN Configs' \/ o \in cut
      BY Zenon DEF Known
    <2>1. o <= End \/ o = L
      BY <1>3
    <2> QED
      BY <1>5, <1>6, <1>9, <2>1, Zenon DEF Known
  <1>10. /\ Known(Configs', L, log, snap.index, cut) /\ Known(Configs', L, log, start - 1, cut)
    BY <1>2, <1>3, <1>9, Zenon DEF ManagerInv, StartInv, RunInv
  <1>11. /\ Sound(Configs', highest', log, snap.index, cut)
         /\ \A x \in Nat : Known(Configs', x, log, snap.index, cut)
    <2>1. /\ Sound(Configs, highest, log, snap.index, cut)
          /\ snap.index = 0 => 0 \in DOMAIN Configs
      BY <1>1, <1>6, Zenon DEF ManagerInv, TablesInv
    <2>2. Len(log) <= MaxLog
      BY Facts, Zenon
    <2> QED
      BY <1>3, <1>5, <1>8, <1>10, <2>1, <2>2, TableAdds, ZenonT(40)
  <1>12. PutsInv' /\ Background' = Background /\ Adding'
    BY <1>1, <1>5, PutsNew, Zenon DEF ManagerInv
  <1>13. \A h \in Background : h \in Nat
    BY Zenon DEF ManagerInv, PutsInv, Background
  <1>14. TablesInv'
    <2>1. Known(Configs', kv.highest, log, snap.index, cut)
      BY <1>11, Facts, Zenon
    <2> QED
      BY <1>1, <1>5, <1>11, <1>12, <1>13, <2>1, Zenon DEF ManagerInv, TablesInv
  <1>15. LogInv'
    BY <1>1, <1>2, <1>3, Zenon DEF ManagerInv, LogInv
  <1>16. EndsInv'
    <2>1. \A h \in Nat : h <= End \/ h = End + 1 => h <= L
      BY <1>3
    <2>2. \A h \in Nat : Within(h) => Within(h)'
      BY <2>1, <1>2, Zenon DEF Within
    <2>3. \A o \in 0..End : o \in 0..L
      BY <1>3
    <2>4. L \in 0..L
      BY <1>3
    <2>5. Within(highest)'
      BY <1>2, <1>3, <1>8, Zenon DEF Within
    <2>6. /\ DOMAIN cm' \subseteq 0..End' /\ DOMAIN kv'.map \subseteq 0..End'
          /\ Within(kv.highest)' /\ \A h \in Background' : Within(h)'
      BY <1>1, <1>2, <1>5, <1>6, <1>12, <1>13, <2>2, <2>3, <2>4, Facts,
         Zenon DEF ManagerInv, EndsInv
    <2> QED
      BY <1>1, <2>5, <2>6, Zenon DEF EndsInv, Starting
  <1>17. StartInv'
    BY <1>1, <1>2, <1>10, <1>12, Zenon DEF StartInv
  <1>18. RunInv'
    <2>1. Real(Configs', log, start - 1)
      BY <1>2, <1>5, <1>6, Zenon DEF ManagerInv, RunInv, Real
    <2>2. ASSUME ~lost, NEW o \in start - 1..L
          PROVE  Answers(Configs', o, InForce(o))
      <3>1. CASE o = L
        <4>1. InForce(L) = log[L]
          BY <1>3, InForceIsLastSet, LastSetAt, Zenon
        <4> QED
          BY <1>3, <1>5, <1>6, <1>7, <3>1, <4>1, Zenon DEF Answers
      <3>2. CASE o # L
        <4>1. o \in start - 1..End /\ ~(L <= o)
          BY <1>3, <3>2, SMTT(30)
        <4>2. Answers(Configs, o, InForce(o))
          BY <1>2, <2>2, <4>1, Zenon DEF ManagerInv, RunInv
        <4> QED
          BY <1>5, <1>6, <1>7, <4>1, <4>2, Zenon DEF Answers
      <3> QED
        BY <3>1, <3>2, Zenon
    <2>3. \E p \in DOMAIN cm' : p <= start' - 1
      BY <1>1, <1>2, <1>5, Zenon DEF ManagerInv, RunInv
    <2>4. \A o : InForce(o)' = InForce(o)
      BY <1>1, CutsItself, Zenon
    <2> QED
      BY <1>1, <1>2, <1>10, <2>1, <2>2, <2>3, <2>4, Zenon DEF RunInv
  <1>19. SnapInv'
    BY <1>1, CutsItself, Zenon DEF ManagerInv, SnapInv
  <1> QED
    BY <1>12, <1>14, <1>15, <1>16, <1>17, <1>18, <1>19, Zenon DEF ManagerInv

\* The manager is told that an append is done.
LEMMA AppendDoneKeeps ==
    ASSUME ManagerInv, AppendDone
    PROVE  ManagerInv'
  <1> DEFINE L == Len(log)
  <1>1. /\ raft = "added" /\ Free /\ raft' = "idle" /\ highest' = L
        /\ log' = log /\ start' = start /\ flushed' = flushed /\ commit' = commit
        /\ snap' = snap /\ cm' = cm /\ kv' = kv /\ todo' = todo
        /\ read' = read /\ cut' = cut /\ lost' = lost /\ configs' = configs
        /\ puts' = puts \/ puts' = <<[op |-> FALSE, key |-> "highest", value |-> L]>>
    BY Zenon DEF AppendDone, history, counts
  <1>2. /\ End' = L /\ End = L /\ Running /\ Running' /\ Configs' = Configs /\ raft # "down"
        /\ ~Adding /\ todo = <<>> /\ Submitted = {} /\ \A i \in DOMAIN puts : ~puts[i].op
    BY <1>1, FreeMeans, Zenon DEF End, Running, Configs, ManagerInv
  <1>3. L \in Nat /\ L <= L
    BY Facts
  <1>4. /\ PutsInv' /\ \A h \in Background' : h \in Background \/ h = L
        /\ Submitted' = {}
    <2>1. CASE puts' = puts
      <3>1. Background' = Background /\ Submitted' = Submitted
        BY <2>1, Zenon DEF Background, Submitted
      <3> QED
        BY <1>1, <1>2, <2>1, <3>1, Zenon DEF ManagerInv, PutsInv
    <2>2. CASE puts' = <<[op |-> FALSE, key |-> "highest", value |-> L]>>
      <3>1. /\ DOMAIN puts' = {1} /\ puts' \in Seq({[op |-> FALSE, key |-> "highest", value |-> L]})
            /\ puts'[1] = [op |-> FALSE, key |-> "highest", value |-> L]
        BY <2>2
      <3>2. ~puts'[1].op /\ puts'[1].key = "highest" /\ puts'[1].value = L
        BY <3>1
      <3>3. Background' = {L} /\ Submitted' = {}
        BY <3>1, <3>2, Zenon DEF Background, Submitted
      <3> QED
        BY <1>1, <1>2, <1>3, <3>1, <3>2, <3>3, Zenon DEF PutsInv
    <2> QED
      BY <1>1, <2>1, <2>2, Zenon
  <1>5. ~Adding'
    <2>1. todo' # <<"map", "highest">>
      BY <1>1, <1>2
    <2> QED
      BY <1>4, <2>1, Zenon DEF Adding
  <1>6. /\ Known(Configs, L, log, snap.index, cut) /\ Known(kv.map, L, log, snap.index, cut)
    BY <1>2, Zenon DEF ManagerInv, StartInv
  <1>7. TablesInv'
    <2>1. Sound(Configs, L, log, snap.index, cut)
      BY <1>2, <1>3, <1>6, Zenon DEF ManagerInv, TablesInv, Sound
    <2> QED
      BY <1>1, <1>2, <1>4, <1>6, <2>1, Zenon DEF ManagerInv, TablesInv
  <1>8. EndsInv'
    <2>1. Within(L)'
      BY <1>1, <1>2, <1>3, Zenon DEF Within
    <2>2. \A h : Within(h) => Within(h)'
      BY <1>1, <1>2, Zenon DEF Within
    <2> QED
      BY <1>1, <1>2, <1>4, <1>5, <2>1, <2>2, Zenon DEF ManagerInv, EndsInv, Starting
  <1>9. \A o : InForce(o)' = InForce(o)
    BY <1>1, CutsItself, Zenon
  <1>10. LogInv' /\ SnapInv'
    BY <1>1, <1>2, <1>9, Zenon DEF ManagerInv, LogInv, SnapInv
  <1>11. StartInv' /\ RunInv'
    BY <1>1, <1>2, <1>6, <1>9, Zenon DEF ManagerInv, StartInv, RunInv
  <1> QED
    BY <1>4, <1>7, <1>8, <1>10, <1>11, Zenon DEF ManagerInv

\* What truncate() at the end of the log makes of the manager.
LEMMA TruncateMeans ==
    ASSUME ManagerInv, Truncate(Len(log) + 1), Free, raft # "down", raft # "appended",
           raft' \in {"truncating", "read"}, raft' = "read" => raft = "truncate",
           log' = log, snap' = snap, kv' = kv, puts' = puts
    PROVE  /\ TablesInv' /\ PutsInv' /\ EndsInv' /\ End = Len(log) /\ End' = Len(log)
           /\ ~Adding /\ ~Adding' /\ cut \subseteq cut'
           /\ DOMAIN cm' = {q \in DOMAIN cm : q < Len(log) + 1}
           /\ \A o \in DOMAIN cm' : o \in DOMAIN cm /\ cm'[o] = cm[o]
           /\ \A o \in DOMAIN cm : o <= Len(log) => o \in DOMAIN cm'
           /\ \A o \in 1..Len(log) : o <= highest => o <= highest'
           /\ \A s \in Nat : Real(Configs, log, s) => Real(Configs', log, s)
           /\ \A s \in Nat : \A x :
                 Known(Configs, x, log, s, cut) => Known(Configs', x, log, s, cut')
           /\ \A s \in Nat : \A x :
                 Known(kv.map, x, log, s, cut) => Known(kv.map, x, log, s, cut')
           /\ \A o \in 0..Len(log) : \A v : Answers(Configs, o, v) => Answers(Configs', o, v)
  <1> DEFINE L == Len(log)
  <1>1. /\ DOMAIN cm' = {q \in DOMAIN cm : q < L + 1} /\ \A o \in DOMAIN cm' : cm'[o] = cm[o]
        /\ highest' = Earlier(L + 1, highest) /\ cut' = cut \cup {L + 1}
        /\ todo' = <<"highest", "map">>
    BY Zenon DEF Truncate
  <1>2. End = L /\ End' = L /\ raft' # "appended" /\ raft' # "down"
    BY Zenon DEF End
  <1>3. ~Adding
    BY FreeMeans, Zenon DEF ManagerInv
  <1>4. /\ PutsInv' /\ Background' = Background /\ MapPending' /\ HighestPending' /\ ~Adding'
    <2>1. todo' # <<"map", "highest">>
      BY <1>1
    <2> QED
      BY <1>1, <2>1, PutsNew, Zenon DEF ManagerInv
  <1>5. /\ L \in Nat /\ L <= MaxLog /\ highest \in Nat /\ DOMAIN cm \subseteq 0..MaxLog
        /\ snap.index \in Nat /\ kv.highest \in Nat /\ DOMAIN Configs = DOMAIN cm
        /\ MaxLog \in Nat /\ \A o \in DOMAIN cm : Configs[o] = cm[o].cfg
    BY Facts, Zenon
  <1>6. /\ \A o \in DOMAIN cm' : o \in DOMAIN cm /\ o \in 0..L
        /\ \A o \in DOMAIN cm : o <= L => o \in DOMAIN cm'
        /\ highest' \in Nat /\ highest' <= highest
        /\ highest' <= L \/ highest' = L + 1
        /\ \A o \in 1..L : o <= highest => o <= highest'
    <2>1. (highest' = L + 1 /\ L + 1 <= highest) \/ (highest' = highest /\ highest <= L + 1)
      BY <1>1, <1>5 DEF Earlier
    <2>2. /\ highest' \in Nat /\ highest' <= highest
          /\ highest' <= L \/ highest' = L + 1
          /\ \A o \in 1..L : o <= highest => o <= highest'
      BY <1>5, <2>1
    <2>3. /\ \A o \in DOMAIN cm' : o \in DOMAIN cm /\ o \in 0..L
          /\ \A o \in DOMAIN cm : o <= L => o \in DOMAIN cm'
      BY <1>1, <1>5
    <2> QED
      BY <2>1, <2>2, <2>3, <1>5, SMTT(30)
  <1>7. /\ DOMAIN Configs' = DOMAIN cm' /\ \A o \in DOMAIN cm' : Configs'[o] = Configs[o]
    BY <1>1, <1>5, <1>6, Zenon DEF Configs
  <1>8. cut \subseteq cut' /\ Cuts(log, log)
    BY <1>1, CutsItself, Zenon
  <1>9. \A s \in Nat : s <= s
    OBVIOUS
  <1>10. \A s \in Nat : \A t, x : Known(t, x, log, s, cut) => Known(t, x, log, s, cut')
    BY <1>8, <1>9, KnownKept, Zenon
  <1>11. \A s \in Nat : \A x : Known(Configs, x, log, s, cut) => Known(Configs', x, log, s, cut')
    <2>1. \A s : \A o \in DOMAIN Configs : s < o /\ o <= Len(log) => o \in DOMAIN Configs'
      BY <1>5, <1>6, <1>7, Zenon
    <2> QED
      BY <1>5, <1>10, <2>1, KnownMore, Zenon
  <1>12. \A s : Real(Configs, log, s) => Real(Configs', log, s)
    BY <1>5, <1>6, <1>7, Zenon DEF Real
  <1>13. Sound(Configs', highest', log, snap.index, cut')
    <2>1. Sound(Configs, highest, log, snap.index, cut) /\ (snap.index = 0 => 0 \in DOMAIN cm)
      BY Zenon DEF ManagerInv, TablesInv
    <2>2. DOMAIN Configs' \subseteq 0..MaxLog
      BY <1>5, <1>6, <1>7, Zenon
    <2>3. Known(Configs', highest', log, snap.index, cut')
      BY <1>5, <1>6, <1>11, <2>1, KnownBelow, Zenon DEF Sound
    <2>4. Closed(Configs', log, snap.index, cut')
      BY <1>5, <1>6, <1>7, <1>11, <2>1, Zenon DEF Sound, Closed
    <2>5. First(Configs', snap.index)
      <3>1. 0 <= L
        BY <1>5
      <3> QED
        BY <1>5, <1>6, <1>7, <2>1, <3>1, Zenon DEF Sound, First
    <2> QED
      BY <1>5, <1>6, <1>12, <2>1, <2>2, <2>3, <2>4, <2>5, Zenon DEF Sound
  <1>14. TablesInv'
    <2>1. Sound(kv.map, kv.highest, log, snap.index, cut')
      BY <1>5, <1>8, <1>9, SoundKept, Zenon DEF ManagerInv, TablesInv
    <2>2. Known(kv.map, highest', log, snap.index, cut')
      BY <1>3, <1>5, <1>6, <1>10, KnownBelow, Zenon DEF ManagerInv, TablesInv
    <2>3. snap.index = 0 => 0 \in DOMAIN cm'
      <3>1. 0 <= L
        BY <1>5
      <3> QED
        BY <1>6, <3>1, Zenon DEF ManagerInv, TablesInv
    <2>4. \A o \in DOMAIN cm' : "cfg" \in DOMAIN cm'[o]
      BY <1>1, <1>6, Zenon DEF ManagerInv, TablesInv
    <2>5. /\ Known(Configs', kv.highest, log, snap.index, cut')
          /\ \A h \in Background : /\ Known(Configs', h, log, snap.index, cut')
                                   /\ Known(kv.map, h, log, snap.index, cut')
      BY <1>5, <1>10, <1>11, Zenon DEF ManagerInv, TablesInv
    <2> QED
      BY <1>2, <1>4, <1>13, <2>1, <2>2, <2>3, <2>4, <2>5, Zenon DEF ManagerInv, TablesInv
  <1>15. EndsInv'
    <2>1. Within(highest)'
      BY <1>1, <1>2, <1>6, Zenon DEF Within
    <2>2. DOMAIN cm' \subseteq 0..End'
      BY <1>2, <1>6, Zenon
    <2>3. raft' \in Starting => Background' = {}
      BY <1>4, Zenon DEF ManagerInv, EndsInv, Starting
    <2> QED
      BY <1>4, <2>1, <2>2, <2>3, Zenon DEF EndsInv
  <1>16. \A o \in 0..L : \A v : Answers(Configs, o, v) => Answers(Configs', o, v)
    <2> SUFFICES ASSUME NEW o \in 0..L, NEW v, Answers(Configs, o, v)
                 PROVE  Answers(Configs', o, v)
      BY Zenon
    <2>1. PICK p \in DOMAIN cm : /\ p <= o /\ v = Configs[p]
                                 /\ \A q \in DOMAIN cm : q <= o => q <= p
      BY <1>5, Zenon DEF Answers
    <2>2. p <= L
      BY <2>1, <1>5
    <2> QED
      BY <1>6, <1>7, <2>1, <2>2, Zenon DEF Answers
  <1> QED
    BY <1>1, <1>2, <1>3, <1>4, <1>6, <1>8, <1>10, <1>11, <1>12, <1>14, <1>15, <1>16, ZenonT(40)

\* The manager is truncated after the log.
LEMMA TruncateManagerKeeps ==
    ASSUME ManagerInv, TruncateManager
    PROVE  ManagerInv'
  <1>1. /\ raft = "truncated" /\ Free /\ raft' = "truncating" /\ Truncate(Len(log) + 1)
        /\ log' = log /\ start' = start /\ flushed' = flushed /\ commit' = commit
        /\ snap' = snap /\ kv' = kv /\ puts' = puts
        /\ read' = read /\ lost' = lost /\ configs' = configs
    BY Zenon DEF TruncateManager, counts
  <1>2. /\ TablesInv' /\ PutsInv' /\ EndsInv' /\ End = Len(log) /\ End' = Len(log)
        /\ ~Adding /\ ~Adding'
        /\ \A o \in DOMAIN cm : o <= Len(log) => o \in DOMAIN cm'
        /\ \A s \in Nat : Real(Configs, log, s) => Real(Configs', log, s)
        /\ \A s \in Nat : \A x :
              Known(Configs, x, log, s, cut) => Known(Configs', x, log, s, cut')
        /\ \A s \in Nat : \A x :
              Known(kv.map, x, log, s, cut) => Known(kv.map, x, log, s, cut')
        /\ \A o \in 0..Len(log) : \A v : Answers(Configs, o, v) => Answers(Configs', o, v)
    BY <1>1, TruncateMeans, Zenon
  <1>3. Running /\ Running' /\ \A o : InForce(o)' = InForce(o)
    BY <1>1, CutsItself, Zenon DEF Running
  <1>4. LogInv' /\ SnapInv'
    BY <1>1, <1>2, <1>3, Zenon DEF ManagerInv, LogInv, SnapInv
  <1>5. StartInv'
    BY <1>1, <1>2, <1>3, Facts, Zenon DEF ManagerInv, StartInv
  <1>6. RunInv'
    <2>1. Real(Configs', log, start - 1) /\ Known(Configs', Len(log), log, start - 1, cut')
      BY <1>2, <1>3, Facts, Zenon DEF ManagerInv, RunInv
    <2>2. \E p \in DOMAIN cm' : p <= start - 1
      <3>1. PICK p \in DOMAIN cm : p <= start - 1
        BY <1>3, Zenon DEF ManagerInv, RunInv
      <3>2. p <= Len(log)
        <4>1. /\ p \in 0..MaxLog /\ start - 1 \in Nat /\ start - 1 <= snap.index
              /\ snap.index <= commit /\ commit <= flushed /\ flushed <= End
          BY <3>1, Facts, Zenon
        <4>2. snap.index \in Nat /\ commit \in Nat /\ flushed \in Nat /\ Len(log) \in Nat
          BY Facts, Zenon
        <4> QED
          BY <1>2, <3>1, <4>1, <4>2, SMTT(30)
      <3> QED
        BY <1>2, <3>1, <3>2, Zenon
    <2>3. \A o \in start - 1..Len(log) : o \in 0..Len(log)
      BY Facts, SMTT(30)
    <2>4. ~lost => \A o \in start - 1..Len(log) : Answers(Configs', o, InForce(o))
      BY <1>2, <1>3, <2>3, Zenon DEF ManagerInv, RunInv
    <2> QED
      BY <1>1, <1>2, <1>3, <2>1, <2>2, <2>4, Zenon DEF RunInv
  <1> QED
    BY <1>2, <1>4, <1>5, <1>6, Zenon DEF ManagerInv

\* What prefix_truncate() at the snapshot makes of the manager.
LEMMA PrefixMeans ==
    ASSUME HasLeast, ManagerInv, PrefixTruncate(snap.index), ~(Min(DOMAIN cm) >= snap.index), Free,
           raft # "down", raft' # "down", log' = log, snap' = snap, cut' = cut, kv' = kv,
           puts' = puts, \E p \in DOMAIN cm : p <= snap.index
    PROVE  /\ TablesInv' /\ PutsInv' /\ Background' = Background /\ ~Adding /\ ~Adding'
           /\ MapPending' /\ HighestPending'
           /\ DOMAIN cm' = {snap.index} \cup {q \in DOMAIN cm : q > snap.index}
           /\ snap.index \in DOMAIN cm => cm'[snap.index] = cm[snap.index]
           /\ highest' = Later(snap.index, highest) /\ highest' \in Nat
           /\ Real(Configs', log, snap.index)
           /\ \A x : Known(Configs, x, log, snap.index, cut) =>
                        Known(Configs', x, log, snap.index, cut)
           /\ \A o \in snap.index..Len(log) :
                 \A v : Answers(Configs, o, v) => Answers(Configs', o, v)
  <1> DEFINE s == snap.index
             T == {q \in DOMAIN cm : q <= s}
             m == Max(T)
  <1>1. /\ DOMAIN cm' = {s} \cup {q \in DOMAIN cm : q > s}
        /\ cm'[s] = cm[m]
        /\ \A o \in DOMAIN cm' : o # s => cm'[o] = cm[o]
        /\ highest' = Later(s, highest) /\ todo' = <<"highest", "idx", "map">>
    BY Zenon DEF PrefixTruncate
  <1>2. /\ Len(log) \in Nat /\ Len(log) <= MaxLog /\ s \in Nat /\ s <= Len(log) /\ MaxLog \in Nat
        /\ highest \in Nat /\ DOMAIN cm \subseteq 0..MaxLog /\ DOMAIN Configs = DOMAIN cm
        /\ kv.highest \in Nat /\ \A o \in DOMAIN cm : Configs[o] = cm[o].cfg
    <2>1. /\ Len(log) \in Nat /\ s \in Nat /\ commit \in Nat /\ flushed \in Nat /\ End \in Nat
          /\ s <= commit /\ commit <= flushed /\ flushed <= End /\ End <= Len(log)
      BY Facts, Zenon
    <2>2. s <= Len(log)
      BY <2>1
    <2> QED
      BY <2>2, Facts, Zenon
  <1>3. T \in SUBSET (0..MaxLog) /\ T # {}
    BY <1>2, Zenon
  <1>4. m \in T /\ \A y \in T : y <= m
    BY <1>2, <1>3, MaxOf, Zenon
  <1>5. m \in DOMAIN cm /\ m <= s /\ \A q \in DOMAIN cm : q <= s => q <= m
    BY <1>4, Zenon
  <1>6. s \in DOMAIN cm => m = s
    <2>1. s \in Nat /\ m \in Nat /\ s <= s
      BY <1>2, <1>5
    <2>2. s \in DOMAIN cm => s <= m
      BY <1>5, <2>1, Zenon
    <2>3. m <= s
      BY <1>5, Zenon
    <2> QED
      BY <2>1, <2>2, <2>3, SMTT(30)
  <1>7. /\ \A o \in DOMAIN cm' : o # s => o \in DOMAIN cm /\ s < o /\ ~(o <= s)
        /\ \A o \in DOMAIN cm : s < o => o \in DOMAIN cm'
        /\ DOMAIN cm' \subseteq 0..MaxLog /\ s \in DOMAIN cm'
    BY <1>1, <1>2, SMTT(30)
  <1>8. /\ DOMAIN Configs' = DOMAIN cm' /\ Configs'[s] = Configs[m]
        /\ \A o \in DOMAIN cm' : o # s => Configs'[o] = Configs[o]
    BY <1>1, <1>2, <1>5, <1>7, Zenon DEF Configs
  <1>9. ~Adding
    BY FreeMeans, Zenon DEF ManagerInv
  <1>10. PutsInv' /\ Background' = Background /\ MapPending' /\ HighestPending' /\ ~Adding'
    <2>1. todo' # <<"map", "highest">>
      BY <1>1
    <2> QED
      BY <1>1, <2>1, PutsNew, Zenon DEF ManagerInv
  <1>11. highest' \in Nat
    BY <1>1, <1>2 DEF Later
  <1>12. \A x : Known(Configs, x, log, s, cut) => Known(Configs', x, log, s, cut)
    BY <1>2, <1>7, <1>8, KnownMore, Zenon
  <1>13. ~(s < s)
    BY <1>2
  <1>14. Sound(Configs, highest, log, s, cut)
    BY Zenon DEF ManagerInv, TablesInv
  <1>15. Real(Configs', log, s)
    BY <1>7, <1>8, <1>2, <1>13, <1>14, Zenon DEF Sound, Real
  <1>16. Sound(Configs', highest', log, s, cut)
    <2>1. Known(Configs', highest', log, s, cut)
      <3>1. Known(Configs', highest, log, s, cut)
        BY <1>12, <1>14, Zenon DEF Sound
      <3> QED
        BY <1>1, <1>2, <3>1, KnownLater, Zenon
    <2>2. Known(Configs', s, log, s, cut)
      <3>1. Known(Configs', highest, log, s, cut)
        BY <1>12, <1>14, Zenon DEF Sound
      <3> QED
        BY <1>2, <3>1, KnownLater, Zenon
    <2>3. Closed(Configs', log, s, cut)
      BY <1>2, <1>7, <1>8, <1>12, <1>14, <2>2, Zenon DEF Sound, Closed
    <2>4. First(Configs', s)
      <3>1. ASSUME s = 0 PROVE 0 \in DOMAIN cm /\ m = 0
        BY <1>6, <3>1, Zenon DEF ManagerInv, TablesInv
      <3>2. s = 0 => Configs'[0] = 0
        BY <1>2, <1>8, <1>14, <3>1, Zenon DEF Sound, First
      <3> QED
        BY <1>7, <1>8, <3>2, Zenon DEF First
    <2> QED
      BY <1>7, <1>8, <1>11, <1>15, <2>1, <2>3, <2>4, Zenon DEF Sound
  <1>17. TablesInv'
    <2>1. Known(kv.map, highest', log, s, cut)
      <3>1. Known(kv.map, highest, log, s, cut)
        BY <1>9, Zenon DEF ManagerInv, TablesInv
      <3> QED
        BY <1>1, <1>2, <3>1, KnownLater, Zenon
    <2>2. \A o \in DOMAIN cm' : "cfg" \in DOMAIN cm'[o]
      BY <1>1, <1>5, <1>7, Zenon DEF ManagerInv, TablesInv
    <2>3. /\ Known(Configs', kv.highest, log, s, cut)
          /\ \A h \in Background : Known(Configs', h, log, s, cut)
      BY <1>12, Zenon DEF ManagerInv, TablesInv
    <2> QED
      BY <1>7, <1>10, <1>16, <2>1, <2>2, <2>3, Zenon DEF ManagerInv, TablesInv
  <1>18. ASSUME NEW o \in s..Len(log), NEW v, Answers(Configs, o, v)
         PROVE  Answers(Configs', o, v)
    <2>1. PICK p \in DOMAIN cm : /\ p <= o /\ v = Configs[p]
                                 /\ \A q \in DOMAIN cm : q <= o => q <= p
      BY <1>2, <1>18, Zenon DEF Answers
    <2>2. p \in Nat /\ o \in Nat /\ s <= o /\ m \in Nat /\ m <= o
      BY <1>2, <1>5
    <2>3. CASE s < p
      <3>1. p # s /\ s <= p
        BY <1>2, <2>2, <2>3, SMTT(30)
      <3> QED
        BY <1>7, <1>8, <2>1, <2>3, <3>1, Zenon DEF Answers
    <2>4. CASE ~(s < p)
      <3>1. p <= s
        BY <1>2, <2>2, <2>4, SMTT(30)
      <3>2. m <= p /\ p <= m
        BY <1>5, <2>1, <2>2, <3>1, Zenon
      <3>3. m = p
        BY <2>2, <3>2, SMTT(30)
      <3>4. \A q \in DOMAIN cm' : q <= o => q <= s
        <4> SUFFICES ASSUME NEW q \in DOMAIN cm', q <= o, q # s
                     PROVE  FALSE
          BY <1>2
        <4>1. q \in DOMAIN cm /\ ~(q <= s) /\ q <= p
          BY <1>7, <2>1, Zenon
        <4> QED
          BY <1>2, <2>2, <3>1, <4>1, SMTT(30)
      <3> QED
        BY <1>7, <1>8, <2>1, <2>2, <3>3, <3>4, ZenonT(40) DEF Answers
    <2> QED
      BY <2>3, <2>4, Zenon
  <1> QED
    BY <1>1, <1>6, <1>9, <1>10, <1>11, <1>12, <1>15, <1>17, <1>18, Zenon

\* A running group drops the prefix of the manager.
LEMMA TruncateManagerPrefixKeeps ==
    ASSUME HasLeast, ManagerInv, TruncateManagerPrefix
    PROVE  ManagerInv'
  <1> DEFINE s == snap.index
  <1>1. /\ Running /\ Free /\ start = s + 1 /\ Min(DOMAIN cm) < s /\ PrefixTruncate(s)
        /\ log' = log /\ start' = start /\ flushed' = flushed /\ commit' = commit
        /\ snap' = snap /\ kv' = kv /\ puts' = puts /\ raft' = raft
        /\ read' = read /\ cut' = cut /\ lost' = lost /\ configs' = configs
    BY Zenon DEF TruncateManagerPrefix, history, counts
  <1>2. /\ s \in Nat /\ start - 1 = s /\ s <= End /\ End \in Nat /\ Len(log) \in Nat
        /\ highest \in Nat /\ DOMAIN cm \subseteq 0..MaxLog /\ MaxLog \in Nat
        /\ End <= Len(log)
    <2>1. /\ s \in Nat /\ commit \in Nat /\ flushed \in Nat /\ End \in Nat
          /\ s <= commit /\ commit <= flushed /\ flushed <= End
      BY Facts, Zenon
    <2>2. start - 1 = s /\ s <= End
      BY <1>1, <2>1
    <2> QED
      BY <2>2, Facts, Zenon
  <1>3. PICK p \in DOMAIN cm : p <= s
    BY <1>1, <1>2, Zenon DEF ManagerInv, RunInv
  <1>4. ~(Min(DOMAIN cm) >= s)
    <2>1. Min(DOMAIN cm) \in DOMAIN cm
      <3>1. DOMAIN cm \in SUBSET Nat /\ DOMAIN cm # {}
        BY <1>2, <1>3
      <3>2. \E x \in DOMAIN cm : \A y \in DOMAIN cm : x <= y
        BY <3>1, Zenon DEF HasLeast
      <3> QED
        BY <3>2, Zenon DEF Min
    <2> QED
      BY <1>1, <1>2, <2>1, SMTT(30)
  <1>5. raft # "down" /\ raft \notin Starting /\ Running'
    BY <1>1, Zenon DEF Running, Starting
  <1>6. /\ TablesInv' /\ PutsInv' /\ Background' = Background /\ ~Adding /\ ~Adding'
        /\ MapPending' /\ HighestPending'
        /\ DOMAIN cm' = {s} \cup {q \in DOMAIN cm : q > s}
        /\ highest' = Later(s, highest) /\ Real(Configs', log, s)
        /\ \A x : Known(Configs, x, log, s, cut) => Known(Configs', x, log, s, cut)
        /\ \A o \in s..Len(log) : \A v : Answers(Configs, o, v) => Answers(Configs', o, v)
    BY <1>1, <1>3, <1>4, <1>5, PrefixMeans, Zenon
  <1>7. End' = End /\ \A o : InForce(o)' = InForce(o)
    BY <1>1, CutsItself, Zenon DEF End
  <1>8. LogInv' /\ SnapInv'
    BY <1>1, <1>5, <1>7, Zenon DEF ManagerInv, LogInv, SnapInv
  <1>9. EndsInv'
    <2>1. \A h : Within(h)' <=> Within(h)
      BY <1>1, <1>7, Zenon DEF Within
    <2>2. Within(s) /\ (highest' = s \/ highest' = highest) /\ s \in 0..End
      <3>1. s \in 0..End
        BY <1>2
      <3> QED
        BY <1>2, <1>6, <3>1, Zenon DEF Within, Later
    <2>3. Within(highest) => Within(highest)'
      BY <1>1, <1>7, <2>2, Zenon DEF Within
    <2>4. DOMAIN cm \subseteq 0..End => DOMAIN cm' \subseteq 0..End
      BY <1>6, <2>2, Zenon
    <2>5. Within(kv.highest)' <=> Within(kv.highest)
      BY <1>1, <1>7, Zenon DEF Within
    <2> QED
      BY <1>1, <1>5, <1>6, <1>7, <2>1, <2>3, <2>4, <2>5, ZenonT(40) DEF ManagerInv, EndsInv
  <1>10. StartInv'
    <2>1. Known(Configs', End, log, s, cut) /\ Known(kv.map, End, log, s, cut)
      BY <1>1, <1>6, Zenon DEF ManagerInv, StartInv
    <2> QED
      BY <1>1, <1>5, <1>7, <2>1, Zenon DEF StartInv, Starting
  <1>11. RunInv'
    <2>1. Known(Configs', End, log, s, cut)
      BY <1>1, <1>6, Zenon DEF ManagerInv, StartInv
    <2>2. s \in DOMAIN cm' /\ s <= s
      BY <1>2, <1>6, SMTT(30)
    <2>3. \A o \in s..End : o \in s..Len(log)
      BY <1>2
    <2>4. ~lost => \A o \in s..End : Answers(Configs', o, InForce(o))
      BY <1>1, <1>2, <1>6, <2>3, Zenon DEF ManagerInv, RunInv
    <2> QED
      BY <1>1, <1>2, <1>5, <1>6, <1>7, <2>1, <2>2, <2>4, Zenon DEF RunInv
  <1> QED
    BY <1>6, <1>8, <1>9, <1>10, <1>11, Zenon DEF ManagerInv

---------------------------------------------------------------------------
\* Crash and start.

\* There are no puts.
LEMMA PutsNone ==
    ASSUME puts' = <<>>, todo' = <<>>
    PROVE  PutsInv' /\ Background' = {} /\ ~Adding'
  <1>1. DOMAIN puts' = {} /\ puts' \in Seq({}) /\ todo' # <<"map", "highest">>
        /\ todo' # <<"highest">>
    OBVIOUS
  <1>2. Background' = {} /\ Submitted' = {}
    BY <1>1, Zenon DEF Background, Submitted
  <1> QED
    BY <1>1, <1>2, Zenon DEF PutsInv, Adding

\* A crash loses the manager, the puts and the end of the log.
LEMMA CrashKeeps ==
    ASSUME HasLeast, ManagerInv, Crash
    PROVE  ManagerInv'
  <1>1. /\ raft' = "down" /\ puts' = <<>> /\ todo' = <<>> /\ highest' = 0
        /\ cm' = [o \in {0} |-> [cfg |-> 0, idx |-> 0]]
        /\ start' = start /\ commit' = commit /\ snap' = snap /\ kv' = kv
        /\ cut' = cut /\ lost' = lost /\ configs' = configs
    BY Zenon DEF Crash, history
  <1>2. PICK len \in Later(flushed, commit)..Len(log) :
                log' = SubSeq(log, 1, len) /\ flushed' = len
    BY Zenon DEF Crash
  <1>3. /\ log \in Seq(Nat) /\ Len(log) \in Nat /\ Len(log) <= MaxLog /\ MaxLog \in Nat
        /\ flushed \in Nat /\ commit \in Nat /\ snap.index \in Nat /\ snap.index <= commit
        /\ commit <= flushed
    BY Facts, Zenon
  <1>4. /\ len \in Nat /\ commit <= len /\ len <= Len(log) /\ snap.index <= len
        /\ len <= MaxLog /\ snap.index <= snap.index /\ len <= len
    <2>1. Later(flushed, commit) \in Nat /\ commit <= Later(flushed, commit)
      BY <1>3 DEF Later
    <2> QED
      BY <1>3, <2>1
  <1>5. log' \in Seq(Nat) /\ Len(log') = len /\ \A p \in 1..len : log'[p] = log[p]
    BY <1>2, <1>3, <1>4, SMTT(30)
  <1>6. Cuts(log, log') /\ cut \subseteq cut
    BY <1>3, <1>4, <1>5, Zenon DEF Cuts
  <1>7. End' = len /\ ~Running' /\ raft' \in Starting
    BY <1>1, <1>5, Zenon DEF End, Running, Starting
  <1>8. PutsInv' /\ Background' = {} /\ ~Adding'
    BY <1>1, PutsNone, Zenon
  <1>9. LogInv'
    BY <1>1, <1>2, <1>4, <1>5, <1>7, Zenon DEF ManagerInv, LogInv
  <1>10. SnapInv'
    <2>1. \A p \in 1..snap.index : log'[p] = log[p]
      BY <1>3, <1>4, <1>5, SMTT(30)
    <2>2. InForce(snap.index)' = InForce(snap.index)
      BY <1>1, <1>3, <2>1, InForceSame, Zenon
    <2> QED
      BY <1>1, <2>2, Zenon DEF ManagerInv, SnapInv
  <1>11. TablesInv'
    <2>1. Sound(kv.map, kv.highest, log', snap.index, cut)
      BY <1>3, <1>4, <1>6, SoundKept, Zenon DEF ManagerInv, TablesInv
    <2>2. DOMAIN cm' = {0} /\ cm'[0] = [cfg |-> 0, idx |-> 0]
      BY <1>1, Zenon
    <2>3. cm'[0].cfg = 0 /\ "cfg" \in DOMAIN cm'[0]
      BY <2>2
    <2> QED
      BY <1>1, <2>1, <2>2, <2>3, Zenon DEF ManagerInv, TablesInv
  <1>12. EndsInv'
    BY <1>1, <1>8, Zenon DEF EndsInv
  <1>13. StartInv' /\ RunInv'
    BY <1>1, <1>7, Zenon DEF StartInv, RunInv
  <1> QED
    BY <1>8, <1>9, <1>10, <1>11, <1>12, <1>13, Zenon DEF ManagerInv

\* The manager reads its records.
LEMMA LoadKeeps ==
    ASSUME HasLeast, ManagerInv, Load
    PROVE  ManagerInv'
  <1> DEFINE s == snap.index
  <1>1. /\ raft = "down" /\ raft' = "hydrate"
        /\ log' = log /\ start' = start /\ flushed' = flushed /\ commit' = commit
        /\ snap' = snap /\ kv' = kv /\ puts' = puts /\ todo' = todo
        /\ read' = read /\ cut' = cut /\ lost' = lost /\ configs' = configs
    BY Zenon DEF Load, store, history, counts
  <1>2. /\ puts = <<>> /\ todo = <<>> /\ DOMAIN cm = {0} /\ cm[0].cfg = 0 /\ highest = 0
        /\ Sound(kv.map, kv.highest, log, s, cut)
    BY <1>1, Zenon DEF ManagerInv, TablesInv
  <1>3. PutsInv' /\ Background' = {} /\ ~Adding'
    BY <1>1, <1>2, PutsNone, Zenon
  <1>4. /\ Len(log) \in Nat /\ s \in Nat /\ MaxLog \in Nat /\ kv.highest \in Nat
        /\ DOMAIN kv.map \subseteq 0..MaxLog
    BY Facts, Zenon
  <1>5. /\ \A o \in DOMAIN cm' : "cfg" \in DOMAIN cm'[o]
        /\ Sound(Configs', highest', log, s, cut) /\ (s = 0 => 0 \in DOMAIN cm')
        /\ Known(Configs', kv.highest, log, s, cut) /\ Known(kv.map, highest', log, s, cut)
    <2>1. CASE DOMAIN kv.map = {}
      <3>1. cm' = cm /\ highest' = Later(highest, kv.highest)
        BY <2>1, Zenon DEF Load
      <3>2. highest' = kv.highest /\ 0 <= kv.highest /\ 0 \in 0..MaxLog /\ ~(s < 0) /\ 0 \in Nat
        BY <1>2, <1>4, <3>1 DEF Later
      <3>3. DOMAIN Configs' = {0} /\ Configs'[0] = 0
        BY <1>2, <3>1, Zenon DEF Configs
      <3>4. Known(Configs', kv.highest, log, s, cut)
        BY <1>2, <1>4, <2>1, KnownMore, Zenon DEF Sound
      <3>5. Known(Configs', 0, log, s, cut)
        BY <1>4, <3>2, <3>4, KnownBelow, Zenon
      <3>6. Sound(Configs', kv.highest, log, s, cut)
        BY <1>4, <3>2, <3>3, <3>4, <3>5, Zenon DEF Sound, Real, First, Closed
      <3> QED
        BY <1>2, <3>1, <3>2, <3>4, <3>6, Zenon DEF Sound, ManagerInv, TablesInv
    <2>2. CASE DOMAIN kv.map # {}
      <3> DEFINE t == kv.map
      <3>1. /\ DOMAIN cm' = DOMAIN t /\ highest' = Later(Max(DOMAIN t), kv.highest)
            /\ \A o \in DOMAIN t : cm'[o].cfg = t[o] /\ "cfg" \in DOMAIN cm'[o]
        <4> DEFINE index(o) == kv.idx + Cardinality({p \in DOMAIN t : p < o})
        <4>1. /\ cm' = [o \in DOMAIN t |-> [cfg |-> t[o], idx |-> index(o)]]
              /\ highest' = Later(Max(DOMAIN t), kv.highest)
          BY <2>2, Zenon DEF Load
        <4> HIDE DEF index
        <4>2. DOMAIN cm' = DOMAIN t /\ \A o \in DOMAIN t : cm'[o] = [cfg |-> t[o], idx |-> index(o)]
          BY <4>1, Zenon
        <4>3. ASSUME NEW o \in DOMAIN t
              PROVE  cm'[o].cfg = t[o] /\ "cfg" \in DOMAIN cm'[o]
          <5>1. cm'[o] = [cfg |-> t[o], idx |-> index(o)]
            BY <4>2, Zenon
          <5> HIDE DEF t
          <5> QED
            BY <5>1, SMTT(30)
        <4> QED
          BY <4>1, <4>2, <4>3, Zenon
      <3>2. DOMAIN Configs' = DOMAIN t /\ \A o \in DOMAIN t : Configs'[o] = t[o]
        BY <3>1, Zenon DEF Configs
      <3>3. Max(DOMAIN t) \in DOMAIN t
        BY <1>4, <2>2, MaxOf, Zenon
      <3>4. Max(DOMAIN t) \in Nat
        BY <1>4, <3>3
      <3>5. highest' \in Nat /\ Known(t, highest', log, s, cut)
        BY <1>2, <1>4, <3>1, <3>3, <3>4, Zenon DEF Later, Sound, Closed
      <3>6. Sound(t, highest', log, s, cut)
        BY <1>2, <3>5, Zenon DEF Sound
      <3>7. Sound(Configs', highest', log, s, cut) /\ Sound(Configs', kv.highest, log, s, cut)
        BY <1>2, <3>2, <3>6, SoundLike, Zenon
      <3>8. s = 0 => 0 \in DOMAIN t
        BY <1>2, <2>2, Zenon DEF Sound, First
      <3> QED
        BY <3>1, <3>5, <3>7, <3>8, Zenon DEF Sound
    <2> QED
      BY <2>1, <2>2, Zenon
  <1>6. TablesInv'
    BY <1>1, <1>3, <1>5, Zenon DEF ManagerInv, TablesInv
  <1>7. End' = End /\ ~Running' /\ raft' \in Starting /\ \A o : InForce(o)' = InForce(o)
    BY <1>1, CutsItself, Zenon DEF End, Running, Starting
  <1>8. LogInv' /\ SnapInv'
    BY <1>1, <1>7, Zenon DEF ManagerInv, LogInv, SnapInv
  <1>9. EndsInv'
    BY <1>1, <1>3, Zenon DEF EndsInv
  <1>10. StartInv' /\ RunInv'
    BY <1>1, <1>7, Zenon DEF StartInv, RunInv
  <1> QED
    BY <1>3, <1>6, <1>8, <1>9, <1>10, Zenon DEF ManagerInv

\* The start of a group goes on without a change of the manager.
LEMMA StartRests ==
    ASSUME ManagerInv, raft \in Starting, raft # "down", raft' \in Starting, raft' # "down",
           raft' \notin {"read", "adjust"}, Free, log' = log, cm' = cm, highest' = highest,
           kv' = kv, puts' = puts, todo' = todo, snap' = snap, cut' = cut
    PROVE  /\ TablesInv' /\ PutsInv' /\ EndsInv' /\ Configs' = Configs /\ End' = End
           /\ ~Running' /\ ~Adding /\ \A o : InForce(o)' = InForce(o)
  <1>1. snap'.index \in Nat /\ snap.index <= snap'.index
    BY Facts, SMTT(30)
  <1>2. /\ TablesInv' /\ PutsInv' /\ Configs' = Configs /\ Background' = Background
        /\ (Adding' <=> Adding)
    BY <1>1, CutsItself, TablesKept, Zenon
  <1>3. ~Adding
    BY FreeMeans, Zenon DEF ManagerInv
  <1>4. /\ End' = End /\ ~Running' /\ \A o : InForce(o)' = InForce(o)
        /\ raft' \notin {"idle", "appended", "added", "adjust", "truncating", "read"}
    BY CutsItself, Zenon DEF End, Running, Starting
  <1>5. EndsInv'
    BY <1>2, <1>3, <1>4, Zenon DEF ManagerInv, EndsInv
  <1> QED
    BY <1>2, <1>3, <1>4, <1>5, Zenon

\* The configuration of the snapshot is added.
LEMMA HydrateKeeps ==
    ASSUME ManagerInv, Hydrate
    PROVE  ManagerInv'
  <1> DEFINE s == snap.index
  <1>1. /\ raft = "hydrate" /\ Free /\ raft' \in {"prefix", "failed"}
        /\ log' = log /\ start' = start /\ flushed' = flushed /\ commit' = commit
        /\ snap' = snap /\ kv' = kv /\ puts' = puts
        /\ read' = read /\ cut' = cut /\ lost' = lost /\ configs' = configs
    BY Zenon DEF Hydrate, history, counts
  <1>2. /\ raft \in Starting /\ raft' \in Starting /\ raft # "down" /\ raft' # "down"
        /\ raft' \notin {"truncate", "read", "adjust"} /\ ~Running' /\ End' = End
        /\ \A o : InForce(o)' = InForce(o)
    BY <1>1, CutsItself, Zenon DEF Starting, Running, End
  <1>3. LogInv' /\ SnapInv' /\ RunInv'
    BY <1>1, <1>2, Zenon DEF ManagerInv, LogInv, SnapInv, RunInv
  <1>4. CASE s = 0 \/ (s \in DOMAIN cm /\ cm[s].cfg = snap.cfg)
    <2>1. cm' = cm /\ highest' = highest /\ todo' = todo
      BY <1>4, Zenon DEF Hydrate, manager
    <2>2. TablesInv' /\ PutsInv' /\ EndsInv'
      BY <1>1, <1>2, <2>1, StartRests, Zenon
    <2>3. s \in DOMAIN cm /\ cm[s].cfg = snap.cfg
      <3>1. CASE s = 0
        <4>1. 0 \in DOMAIN cm /\ First(Configs, 0) /\ snap.cfg = 0
          BY <1>2, <3>1, Zenon DEF ManagerInv, SnapInv, TablesInv, Sound
        <4> QED
          BY <3>1, <4>1, Zenon DEF First, Configs
      <3> QED
        BY <1>4, <3>1, Zenon
    <2>4. StartInv'
      BY <1>1, <1>2, <2>1, <2>3, ZenonT(40) DEF StartInv
    <2> QED
      BY <1>3, <2>2, <2>4, Zenon DEF ManagerInv
  <1>5. CASE ~(s = 0 \/ (s \in DOMAIN cm /\ cm[s].cfg = snap.cfg)) /\ s \in DOMAIN cm
    <2>1. cm' = cm /\ highest' = highest /\ todo' = todo /\ raft' = "failed"
      BY <1>5, Zenon DEF Hydrate, manager
    <2>2. TablesInv' /\ PutsInv' /\ EndsInv'
      BY <1>1, <1>2, <2>1, StartRests, Zenon
    <2>3. StartInv'
      BY <1>2, <2>1, Zenon DEF StartInv
    <2> QED
      BY <1>3, <2>2, <2>3, Zenon DEF ManagerInv
  <1>6. CASE s # 0 /\ s \notin DOMAIN cm
    <2>1. /\ cm' = [o \in DOMAIN cm \cup {s} |->
                      IF o = s THEN [cfg |-> snap.cfg, idx |-> nextIdx] ELSE cm[o]]
          /\ highest' = Later(highest, s) /\ todo' = <<"map", "highest">> /\ raft' = "prefix"
      BY <1>6, Zenon DEF Hydrate
    <2>2. [cfg |-> snap.cfg, idx |-> nextIdx].cfg = snap.cfg
          /\ "cfg" \in DOMAIN [cfg |-> snap.cfg, idx |-> nextIdx]
      OBVIOUS
    <2>3. /\ DOMAIN cm' = DOMAIN cm \cup {s} /\ cm'[s].cfg = snap.cfg
          /\ "cfg" \in DOMAIN cm'[s] /\ \A o \in DOMAIN cm : cm'[o] = cm[o]
      BY <1>6, <2>1, <2>2, Zenon
    <2>4. /\ DOMAIN Configs' = DOMAIN cm' /\ \A o \in DOMAIN cm : Configs'[o] = Configs[o]
          /\ DOMAIN Configs = DOMAIN cm
      BY <2>3, Zenon DEF Configs
    <2>5. PutsInv' /\ Background' = Background /\ Adding'
      BY <1>1, <2>1, PutsNew, Zenon DEF ManagerInv
    <2>6. /\ Len(log) \in Nat /\ s \in Nat /\ highest \in Nat /\ kv.highest \in Nat
          /\ s \in 0..MaxLog /\ ~(s < s)
      <3>1. /\ Len(log) \in Nat /\ s \in Nat /\ commit \in Nat /\ flushed \in Nat /\ End \in Nat
            /\ s <= commit /\ commit <= flushed /\ flushed <= End /\ End <= Len(log)
            /\ Len(log) <= MaxLog /\ MaxLog \in Nat
        BY Facts, Zenon
      <3>2. s \in 0..MaxLog /\ ~(s < s)
        BY <3>1
      <3> QED
        BY <3>2, Facts, Zenon
    <2>7. Sound(Configs, highest, log, s, cut)
      BY <1>2, Zenon DEF ManagerInv, TablesInv
    <2>8. \A x : Known(Configs, x, log, s, cut) => Known(Configs', x, log, s, cut)
      BY <2>3, <2>4, <2>6, KnownMore, Zenon
    <2>9. Known(Configs', s, log, s, cut) /\ Known(Configs', highest', log, s, cut)
      <3>1. Known(Configs', highest, log, s, cut)
        BY <2>7, <2>8, Zenon DEF Sound
      <3> QED
        BY <2>1, <2>6, <3>1, KnownLater, Zenon
    <2>10. highest' \in Nat
      BY <2>1, <2>6, SMTT(30) DEF Later
    <2>11. Sound(Configs', highest', log, s, cut)
      <3>1. Real(Configs', log, s)
        BY <2>3, <2>4, <2>6, <2>7, Zenon DEF Sound, Real
      <3>2. Closed(Configs', log, s, cut)
        BY <2>3, <2>4, <2>7, <2>8, <2>9, Zenon DEF Sound, Closed
      <3>3. DOMAIN Configs' \subseteq 0..MaxLog
        BY <2>3, <2>4, <2>6, <2>7, Zenon DEF Sound
      <3> QED
        BY <1>6, <2>9, <2>10, <3>1, <3>2, <3>3, Zenon DEF Sound, First
    <2>12. Known(Configs', kv.highest, log, s, cut)
      BY <1>2, <2>8, Zenon DEF ManagerInv, TablesInv
    <2>13. Background = {}
      BY <1>2, Zenon DEF ManagerInv, EndsInv
    <2>14. \A o \in DOMAIN cm' : "cfg" \in DOMAIN cm'[o]
      BY <2>3, Zenon DEF ManagerInv, TablesInv
    <2>15. TablesInv'
      BY <1>1, <1>2, <1>6, <2>5, <2>11, <2>12, <2>13, <2>14, ZenonT(40) DEF ManagerInv, TablesInv
    <2>16. EndsInv'
      BY <2>1, <2>5, <2>13, Zenon DEF EndsInv
    <2>17. StartInv'
      BY <1>1, <1>2, <2>1, <2>3, Zenon DEF StartInv
    <2> QED
      BY <1>3, <2>5, <2>15, <2>16, <2>17, Zenon DEF ManagerInv
  <1> QED
    BY <1>4, <1>5, <1>6, Zenon

\* The log and the manager lose what the snapshot covers, and the rest of the log is read.
LEMMA HydratePrefixKeeps ==
    ASSUME HasLeast, ManagerInv, HydratePrefix
    PROVE  ManagerInv'
  <1> DEFINE s == snap.index
  <1>1. /\ raft = "prefix" /\ Free /\ raft' = "truncate" /\ start' = s + 1 /\ PrefixTruncate(s)
        /\ read' = {o \in s + 1..Len(log) : log[o] # 0 /\ o > highest'}
        /\ log' = log /\ flushed' = flushed /\ commit' = commit
        /\ snap' = snap /\ kv' = kv /\ puts' = puts
        /\ cut' = cut /\ lost' = lost /\ configs' = configs
    BY Zenon DEF HydratePrefix, history, counts
  <1>2. /\ raft \in Starting /\ raft' \in Starting /\ raft # "down" /\ raft' # "down"
        /\ raft' \notin {"read", "adjust"} /\ ~Running' /\ End' = End
        /\ \A o : InForce(o)' = InForce(o)
    BY <1>1, CutsItself, Zenon DEF Starting, Running, End
  <1>3. s \in Nat /\ Len(log) \in Nat /\ highest \in Nat /\ s <= s
    BY Facts
  <1>4. LogInv' /\ SnapInv' /\ RunInv'
    <2>1. start' \in Nat /\ start' > 0 /\ start' = snap'.index + 1 /\ start' <= snap'.index + 1
      BY <1>1, <1>3
    <2> QED
      BY <1>1, <1>2, <2>1, Zenon DEF ManagerInv, LogInv, SnapInv, RunInv
  <1>5. s \in DOMAIN cm /\ cm[s].cfg = snap.cfg
    BY <1>1, Zenon DEF ManagerInv, StartInv
  <1>6. /\ TablesInv' /\ PutsInv' /\ EndsInv' /\ s \in DOMAIN cm' /\ cm'[s] = cm[s]
        /\ highest' \in Nat
    <2>1. CASE Min(DOMAIN cm) >= s
      <3>1. cm' = cm /\ highest' = highest /\ todo' = todo
        BY <1>1, <2>1, Zenon DEF PrefixTruncate, manager
      <3> QED
        BY <1>1, <1>2, <1>3, <1>5, <3>1, StartRests, Zenon
    <2>2. CASE ~(Min(DOMAIN cm) >= s)
      <3>1. \E p \in DOMAIN cm : p <= s
        BY <1>3, <1>5, Zenon
      <3>2. /\ TablesInv' /\ PutsInv' /\ Background' = Background /\ ~Adding'
            /\ DOMAIN cm' = {s} \cup {q \in DOMAIN cm : q > s}
            /\ (s \in DOMAIN cm => cm'[s] = cm[s]) /\ highest' \in Nat
        BY <1>1, <1>2, <2>2, <3>1, PrefixMeans, Zenon
      <3>3. EndsInv'
        BY <1>1, <1>2, <3>2, Zenon DEF ManagerInv, EndsInv
      <3> QED
        BY <1>5, <3>2, <3>3, Zenon
    <2> QED
      BY <2>1, <2>2, Zenon
  <1>7. StartInv'
    <2>1. \A o \in s + 1..Len(log) : o <= highest' \/ o > highest'
      BY <1>3, <1>6
    <2>2. \A o \in s + 1..Len(log) : log[o] # 0 => o <= highest' \/ o \in read'
      BY <1>1, <2>1, Zenon
    <2>3. \A o \in read' : o \in s + 1..Len(log) /\ log[o] # 0
      BY <1>1, Zenon
    <2> QED
      BY <1>1, <1>2, <1>5, <1>6, <2>2, <2>3, ZenonT(40) DEF StartInv
  <1> QED
    BY <1>4, <1>6, <1>7, Zenon DEF ManagerInv

\* "The log and configuration manager has exactly the same offsets range."
LEMMA StartTruncateKeeps ==
    ASSUME ManagerInv, StartTruncate
    PROVE  ManagerInv'
  <1> DEFINE s == snap.index
  <1>1. /\ raft = "truncate" /\ Free /\ raft' \in {"failed", "read"}
        /\ log' = log /\ start' = start /\ flushed' = flushed /\ commit' = commit
        /\ snap' = snap /\ kv' = kv /\ puts' = puts
        /\ read' = read /\ lost' = lost /\ configs' = configs
    BY Zenon DEF StartTruncate, counts
  <1>2. /\ raft \in Starting /\ raft' \in Starting /\ raft # "down" /\ raft' # "down"
        /\ ~Running' /\ raft # "appended" /\ \A o : InForce(o)' = InForce(o) /\ End' = End
    BY <1>1, CutsItself, Zenon DEF Starting, Running, End
  <1>3. LogInv' /\ SnapInv' /\ RunInv'
    BY <1>1, <1>2, Zenon DEF ManagerInv, LogInv, SnapInv, RunInv
  <1>4. CASE Len(log) + 1 <= Min(DOMAIN cm)
    <2>1. raft' = "failed" /\ cm' = cm /\ highest' = highest /\ todo' = todo /\ cut' = cut
      BY <1>4, Zenon DEF StartTruncate, manager
    <2>2. TablesInv' /\ PutsInv' /\ EndsInv'
      BY <1>1, <1>2, <2>1, StartRests, Zenon
    <2>3. StartInv'
      BY <1>2, <2>1, Zenon DEF StartInv
    <2> QED
      BY <1>3, <2>2, <2>3, Zenon DEF ManagerInv
  <1>5. CASE ~(Len(log) + 1 <= Min(DOMAIN cm))
    <2>1. raft' = "read" /\ Truncate(Len(log) + 1)
      BY <1>5, Zenon DEF StartTruncate
    <2>2. /\ TablesInv' /\ PutsInv' /\ EndsInv'
          /\ \A o \in DOMAIN cm' : o \in DOMAIN cm /\ cm'[o] = cm[o]
          /\ \A o \in DOMAIN cm : o <= Len(log) => o \in DOMAIN cm'
          /\ \A o \in 1..Len(log) : o <= highest => o <= highest'
      BY <1>1, <1>2, <2>1, TruncateMeans, Zenon
    <2>3. s <= Len(log) /\ \A o \in s + 1..Len(log) : o \in 1..Len(log)
      <3>1. /\ Len(log) \in Nat /\ s \in Nat /\ commit \in Nat /\ flushed \in Nat /\ End \in Nat
            /\ s <= commit /\ commit <= flushed /\ flushed <= End /\ End <= Len(log)
        BY Facts, Zenon
      <3> QED
        BY <3>1
    <2>4. s \in DOMAIN cm' /\ cm'[s].cfg = snap.cfg
      BY <1>1, <2>2, <2>3, Zenon DEF ManagerInv, StartInv
    <2>5. \A o \in s + 1..Len(log) : log[o] # 0 => o <= highest' \/ o \in read
      BY <1>1, <2>2, <2>3, Zenon DEF ManagerInv, StartInv
    <2>6. \A o \in read : o \in s + 1..Len(log) /\ log[o] # 0
      BY <1>1, Zenon DEF ManagerInv, StartInv
    <2>7. StartInv'
      BY <1>1, <1>2, <2>1, <2>4, <2>5, <2>6, Zenon DEF StartInv
    <2> QED
      BY <1>3, <2>2, <2>7, Zenon DEF ManagerInv
  <1> QED
    BY <1>4, <1>5, Zenon

\* What was read is added.
LEMMA StartAddKeeps ==
    ASSUME HasLeast, ManagerInv, StartAdd
    PROVE  ManagerInv'
  <1> DEFINE s == snap.index
             L == Len(log)
  <1>1. /\ raft = "read" /\ Free /\ raft' \in {"failed", "adjust"} /\ read' = {}
        /\ log' = log /\ start' = start /\ flushed' = flushed /\ commit' = commit
        /\ snap' = snap /\ kv' = kv /\ puts' = puts /\ cut' = cut
        /\ lost' = lost /\ configs' = configs
    BY Zenon DEF StartAdd, history, counts
  <1>2. /\ raft \in Starting /\ raft' \in Starting /\ raft # "down" /\ raft' # "down"
        /\ ~Running' /\ \A o : InForce(o)' = InForce(o) /\ End' = L /\ End = L
    BY <1>1, CutsItself, Zenon DEF Starting, Running, End
  <1>3. LogInv' /\ SnapInv' /\ RunInv'
    BY <1>1, <1>2, Zenon DEF ManagerInv, LogInv, SnapInv, RunInv
  <1>4. ~Adding /\ ~MapPending /\ ~HighestPending
    BY <1>1, FreeMeans, Zenon DEF ManagerInv
  <1>5. /\ DOMAIN cm \subseteq 0..L /\ DOMAIN kv.map \subseteq 0..L /\ Within(highest)
        /\ Within(kv.highest) /\ Background = {}
    BY <1>1, <1>2, <1>4, Zenon DEF ManagerInv, EndsInv
  <1>6. \A h : Within(h)' <=> Within(h)
    BY <1>1, <1>2, Zenon DEF Within
  <1>7. /\ s \in DOMAIN cm /\ cm[s].cfg = snap.cfg
        /\ \A o \in s + 1..L : log[o] # 0 => o <= highest \/ o \in read
        /\ \A o \in read : o \in s + 1..L /\ log[o] # 0
    BY <1>1, Zenon DEF ManagerInv, StartInv
  <1>8. /\ Sound(Configs, highest, log, s, cut) /\ Known(kv.map, highest, log, s, cut)
        /\ s = 0 => 0 \in DOMAIN cm
    BY <1>2, <1>4, Zenon DEF ManagerInv, TablesInv
  <1>9. /\ L \in Nat /\ s \in Nat /\ highest \in Nat /\ kv.highest \in Nat /\ L <= MaxLog
        /\ DOMAIN Configs = DOMAIN cm /\ MaxLog \in Nat
    BY Facts, Zenon
  <1>10. CASE raft' = "failed" \/ read = {}
    <2>1. cm' = cm /\ highest' = highest /\ todo' = todo
      BY <1>1, <1>10, Zenon DEF StartAdd, manager
    <2>2. snap'.index \in Nat /\ snap.index <= snap'.index
      BY <1>1, <1>9
    <2>3. /\ TablesInv' /\ PutsInv' /\ Configs' = Configs /\ Background' = Background
          /\ (Adding' <=> Adding)
      BY <1>1, <1>2, <2>1, <2>2, CutsItself, TablesKept, Zenon
    <2>4. EndsInv'
      <3>1. Within(highest)' /\ Within(kv.highest)'
        BY <1>1, <1>2, <1>5, <2>1, Zenon DEF Within
      <3> QED
        BY <1>1, <1>2, <1>4, <1>5, <2>1, <2>3, <3>1, Zenon DEF EndsInv
    <2>5. StartInv'
      <3>1. CASE raft' = "failed"
        BY <1>2, <3>1, Zenon DEF StartInv
      <3>2. CASE raft' # "failed"
        <4>1. \A o \in s + 1..L : log[o] # 0 => o <= highest
          BY <1>7, <1>10, <3>2, Zenon
        <4>2. Known(Configs, L, log, s, cut) /\ Known(kv.map, L, log, s, cut)
          BY <1>8, <4>1, Zenon DEF Known, Sound
        <4> QED
          BY <1>1, <1>2, <1>7, <2>1, <2>3, <3>2, <4>2, Zenon DEF StartInv
      <3> QED
        BY <3>1, <3>2, Zenon
    <2> QED
      BY <1>3, <2>3, <2>4, <2>5, Zenon DEF ManagerInv
  <1>11. CASE raft' # "failed" /\ read # {}
    <2>1. Add(read) /\ raft' = "adjust"
      BY <1>1, <1>11, Zenon DEF StartAdd
    <2>2. /\ Adds(Configs, Configs', read, log, s) /\ DOMAIN cm' = DOMAIN cm \cup read
          /\ \A o \in DOMAIN cm' : "cfg" \in DOMAIN cm'[o]
          /\ \A o \in DOMAIN cm \ read : Configs'[o] = Configs[o]
          /\ todo' = <<"map", "highest">> /\ highest' = Later(highest, Max(read))
      BY <1>7, <2>1, AddMeans, Zenon
    <2>3. DOMAIN Configs' = DOMAIN cm' /\ \A o \in DOMAIN cm' : Configs'[o] = cm'[o].cfg
      BY Zenon DEF Configs
    <2>4. /\ read \in SUBSET (0..MaxLog) /\ read \subseteq 0..L /\ s \notin read
      <3>1. \A o \in s + 1..L : o \in 0..MaxLog /\ o \in 0..L /\ o # s
        BY <1>9
      <3> QED
        BY <1>7, <3>1, Zenon
    <2>5. Max(read) \in read
      BY <1>9, <1>11, <2>4, MaxOf, Zenon
    <2>6. Max(read) \in Nat /\ Max(read) <= L
      <3>1. Max(read) \in 0..L
        BY <2>4, <2>5, Zenon
      <3>2. \A o \in 0..L : o \in Nat /\ o <= L
        BY <1>9
      <3> QED
        BY <3>1, <3>2, Zenon
    <2>7. highest' \in Nat /\ (highest' = highest \/ highest' <= L)
      BY <1>9, <2>2, <2>6, Zenon DEF Later
    <2>8. Known(Configs', L, log, s, cut)
      BY <1>7, <1>8, <1>9, <2>2, <2>3, Zenon DEF Known, Sound
    <2>9. /\ Sound(Configs', highest', log, s, cut)
          /\ \A x \in Nat : Known(Configs', x, log, s, cut)
      BY <1>8, <1>9, <2>2, <2>7, <2>8, TableAdds, Zenon
    <2>10. PutsInv' /\ Background' = Background /\ Adding'
      BY <1>1, <2>2, PutsNew, Zenon DEF ManagerInv
    <2>11. TablesInv'
      BY <1>1, <1>2, <1>5, <1>8, <1>9, <2>2, <2>9, <2>10, Zenon DEF ManagerInv, TablesInv
    <2>12. EndsInv'
      <3>1. Within(highest)' /\ Within(kv.highest)'
        BY <1>1, <1>2, <1>5, <2>7, Zenon DEF Within
      <3>2. DOMAIN cm' \subseteq 0..L
        BY <1>5, <2>2, <2>4, Zenon
      <3> QED
        BY <1>1, <1>2, <1>5, <2>1, <2>10, <3>1, <3>2, Zenon DEF EndsInv
    <2>13. StartInv'
      <3>1. s \in DOMAIN cm' /\ cm'[s].cfg = snap.cfg
        BY <1>7, <2>2, <2>3, <2>4, Zenon DEF Configs
      <3> QED
        BY <1>1, <1>2, <2>1, <2>8, <2>10, <3>1, Zenon DEF StartInv
    <2> QED
      BY <1>3, <2>10, <2>11, <2>12, <2>13, Zenon DEF ManagerInv
  <1> QED
    BY <1>10, <1>11, Zenon

\* The indices are adjusted and the group runs.
LEMMA StartAdjustKeeps ==
    ASSUME HasLeast, ManagerInv, StartAdjust
    PROVE  ManagerInv'
  <1> DEFINE s == snap.index
             L == Len(log)
  <1>1. /\ raft = "adjust" /\ Free /\ raft' = "idle" /\ lost' = (lost \/ Missed # {})
        /\ log' = log /\ start' = start /\ flushed' = flushed /\ commit' = commit
        /\ snap' = snap /\ puts' = puts /\ todo' = todo /\ highest' = highest /\ cut' = cut
        /\ read' = read /\ configs' = configs
    BY Zenon DEF StartAdjust, counts
  <1>2. /\ Running' /\ End' = L /\ End = L /\ \A o : InForce(o)' = InForce(o) /\ raft # "down"
        /\ raft' \notin Starting
    BY <1>1, CutsItself, Zenon DEF Running, End, Starting
  <1>3. DOMAIN kv = {"map", "idx", "highest"} /\ \A o \in DOMAIN cm : "cfg" \in DOMAIN cm[o]
    BY Zenon DEF ManagerInv, TablesInv
  <1>4. /\ DOMAIN cm' = DOMAIN cm /\ DOMAIN kv' = DOMAIN kv
        /\ kv'.map = kv.map /\ kv'.highest = kv.highest
        /\ \A o \in DOMAIN cm : "cfg" \in DOMAIN cm'[o] /\ cm'[o].cfg = cm[o].cfg
    <2>1. CASE ~(start > 1)
      BY <1>3, <2>1, Zenon DEF StartAdjust
    <2>2. CASE start > 1
      <3> DEFINE idx(o) == start - 1 + Cardinality({p \in DOMAIN cm : p < o})
      <3>1. /\ cm' = [o \in DOMAIN cm |-> [cm[o] EXCEPT !.idx = idx(o)]]
            /\ kv' = [kv EXCEPT !.idx = start - 1]
        BY <2>2, Zenon DEF StartAdjust
      <3> HIDE DEF idx
      <3>2. DOMAIN cm' = DOMAIN cm /\ \A o \in DOMAIN cm : cm'[o] = [cm[o] EXCEPT !.idx = idx(o)]
        BY <3>1, Zenon
      <3>3. \A r, i : "cfg" \in DOMAIN r => /\ "cfg" \in DOMAIN [r EXCEPT !.idx = i]
                                             /\ [r EXCEPT !.idx = i].cfg = r.cfg
        OBVIOUS
      <3>4. DOMAIN kv' = DOMAIN kv /\ kv'.map = kv.map /\ kv'.highest = kv.highest
        BY <1>3, <3>1
      <3> QED
        BY <1>3, <3>2, <3>3, <3>4, Zenon
    <2> QED
      BY <2>1, <2>2, Zenon
  <1>5. Configs' = Configs
    BY <1>4, Zenon DEF Configs
  <1>6. /\ PutsInv' /\ Background' = Background /\ (Adding' <=> Adding)
    BY <1>1, <1>5, PutsSame, Zenon DEF ManagerInv
  <1>7. ~Adding
    BY <1>1, FreeMeans, Zenon DEF ManagerInv
  <1>8. TablesInv'
    BY <1>1, <1>2, <1>4, <1>5, <1>6, Zenon DEF ManagerInv, TablesInv
  <1>9. EndsInv'
    <2>1. \A h : Within(h)' <=> Within(h)
      BY <1>1, <1>2, Zenon DEF Within
    <2>2. Within(highest)' /\ Within(kv.highest)'
      BY <1>1, <1>2, <1>4, Zenon DEF ManagerInv, EndsInv, Within
    <2> QED
      BY <1>1, <1>2, <1>4, <1>6, <1>7, <2>1, <2>2, Zenon DEF ManagerInv, EndsInv
  <1>10. Known(Configs, L, log, s, cut) /\ Known(kv.map, L, log, s, cut)
    BY <1>1, <1>2, <1>7, Zenon DEF ManagerInv, StartInv
  <1>11. StartInv'
    BY <1>1, <1>2, <1>4, <1>5, <1>10, Zenon DEF StartInv
  <1>12. start = s + 1 /\ start - 1 = s /\ s \in Nat /\ L \in Nat /\ L <= L /\ s <= s
    <2>1. start = s + 1
      BY <1>1, Zenon DEF ManagerInv, LogInv
    <2> QED
      BY <2>1, Facts, SMTT(30)
  <1>13. SnapInv'
    BY <1>1, <1>2, Zenon DEF ManagerInv, SnapInv
  <1>14. s \in DOMAIN cm /\ cm[s].cfg = snap.cfg /\ Real(Configs, log, s)
    BY <1>1, Zenon DEF ManagerInv, StartInv, TablesInv, Sound
  <1>15. ASSUME ~lost'
         PROVE  \A o \in s..L : Answers(Configs, o, InForce(o))
    <2>1. ~lost /\ Missed = {}
      BY <1>1, <1>15, Zenon
    <2>2. \A o \in s + 1..L : log[o] # 0 => o \in DOMAIN Configs
      BY <1>12, <2>1, Zenon DEF Missed, ConfigOffsets, Configs
    <2>3. s \in DOMAIN Configs /\ Configs[s] = LastSet(log, s)
      BY <1>14, <2>1, InForceIsLastSet, Zenon DEF ManagerInv, SnapInv, Configs
    <2>4. DOMAIN Configs \subseteq Nat
      BY Facts
    <2>5. \A o \in s..L : Answers(Configs, o, LastSet(log, o))
      BY <1>12, <1>14, <2>2, <2>3, <2>4, AnswersAll, Zenon
    <2> QED
      BY <2>5, InForceIsLastSet, Zenon
  <1>16. RunInv'
    BY <1>1, <1>2, <1>4, <1>5, <1>10, <1>12, <1>14, <1>15, Zenon DEF RunInv
  <1>17. LogInv'
    BY <1>1, <1>2, Zenon DEF ManagerInv, LogInv
  <1> QED
    BY <1>6, <1>8, <1>9, <1>11, <1>13, <1>16, <1>17, Zenon DEF ManagerInv

---------------------------------------------------------------------------
\* The records.

\* What is in a sequence is its head or in its tail.
LEMMA HeadOrTail ==
    ASSUME NEW S, NEW q \in Seq(S), q # <<>>, NEW x
    PROVE  (\E i \in DOMAIN q : q[i] = x) <=>
              Head(q) = x \/ \E i \in DOMAIN Tail(q) : Tail(q)[i] = x
  <1>1. /\ DOMAIN q = 1..Len(q) /\ Len(q) \in Nat /\ Len(q) > 0 /\ Head(q) = q[1]
        /\ DOMAIN Tail(q) = 1..Len(q) - 1
        /\ \A i \in 1..Len(q) - 1 : Tail(q)[i] = q[i + 1]
    OBVIOUS
  <1>2. ASSUME NEW i \in DOMAIN q, q[i] = x
        PROVE  Head(q) = x \/ \E j \in DOMAIN Tail(q) : Tail(q)[j] = x
    <2>1. CASE i = 1
      BY <1>1, <1>2, <2>1, Zenon
    <2>2. CASE i # 1
      <3>1. i - 1 \in DOMAIN Tail(q) /\ Tail(q)[i - 1] = q[i]
        BY <1>1, <2>2
      <3> QED
        BY <1>2, <3>1, Zenon
    <2> QED
      BY <2>1, <2>2, Zenon
  <1>3. 1 \in DOMAIN q
    BY <1>1
  <1>4. ASSUME NEW i \in DOMAIN Tail(q), Tail(q)[i] = x
        PROVE  \E j \in DOMAIN q : q[j] = x
    <2>1. i + 1 \in DOMAIN q /\ q[i + 1] = Tail(q)[i]
      BY <1>1
    <2> QED
      BY <1>4, <2>1, Zenon
  <1> QED
    BY <1>1, <1>2, <1>3, <1>4, Zenon

\* A put of the operation that holds the lock is submitted.
LEMMA SubmitMeans ==
    ASSUME ManagerInv, SubmitPut
    PROVE  /\ PutsInv' /\ Background' = Background /\ (Adding' <=> Adding)
           /\ (MapPending' <=> MapPending) /\ (HighestPending' <=> HighestPending)
  <1> DEFINE r == [op |-> TRUE, key |-> Head(todo),
                   value |-> CASE Head(todo) = "map" -> [o \in DOMAIN cm |-> cm[o].cfg]
                               [] Head(todo) = "highest" -> highest
                               [] Head(todo) = "idx" -> cm[Min(DOMAIN cm)].idx]
  <1>1. /\ todo # <<>> /\ \A i \in 1..Len(puts) : ~puts[i].op
        /\ puts' = Append(puts, r) /\ todo' = Tail(todo) /\ cm' = cm /\ highest' = highest
    BY Zenon DEF SubmitPut, manager
  <1>2. /\ r.op /\ r.key = Head(todo)
        /\ Head(todo) = "map" => r.value = Configs
        /\ Head(todo) = "highest" => r.value = highest
    <2>1. /\ r.op /\ r.key = Head(todo)
          /\ r.value = CASE Head(todo) = "map" -> [o \in DOMAIN cm |-> cm[o].cfg]
                         [] Head(todo) = "highest" -> highest
                         [] Head(todo) = "idx" -> cm[Min(DOMAIN cm)].idx
      BY Zenon
    <2>2. Head(todo) = "map" => r.value = Configs
      BY <2>1 DEF Configs
    <2>3. Head(todo) = "highest" => r.value = highest
      BY <2>1
    <2> QED
      BY <2>1, <2>2, <2>3, Zenon
  <1> HIDE DEF r
  <1>3. PICK S : puts \in Seq(S)
    BY Zenon DEF ManagerInv, PutsInv
  <1> DEFINE n == Len(puts)
  <1>4. /\ n \in Nat /\ DOMAIN puts = 1..n /\ DOMAIN puts' = 1..n + 1 /\ Len(puts') = n + 1
        /\ puts'[n + 1] = r /\ \A i \in 1..n : puts'[i] = puts[i]
        /\ puts' \in Seq(S \cup {r})
    BY <1>1, <1>3
  <1>5. /\ n + 1 \in DOMAIN puts' /\ n + 1 = Len(puts')
        /\ \A i \in DOMAIN puts' : i = n + 1 \/ (i \in DOMAIN puts /\ puts'[i] = puts[i])
        /\ \A i \in DOMAIN puts : i \in DOMAIN puts' /\ puts'[i] = puts[i] /\ ~puts[i].op
    <2>1. /\ \A i \in 1..n + 1 : i = n + 1 \/ i \in 1..n
          /\ \A i \in 1..n : i \in 1..n + 1 /\ n + 1 \in 1..n + 1
          /\ n + 1 \in 1..n + 1
      BY <1>4
    <2> QED
      BY <1>1, <1>4, <2>1, Zenon
  <1>6. Background' = Background
    BY <1>2, <1>4, <1>5, ZenonT(40) DEF Background
  <1>7. Submitted = {} /\ Submitted' = {Head(todo)}
    BY <1>2, <1>4, <1>5, Zenon DEF Submitted
  <1>8. todo \in {<<"map", "highest">>, <<"highest">>, <<"highest", "map">>, <<"map">>,
                  <<"highest", "idx", "map">>, <<"idx", "map">>}
    BY <1>1, <1>7, Zenon DEF ManagerInv, PutsInv
  <1>9. /\ todo \in Seq({"map", "idx", "highest"})
        /\ \/ Head(todo) = "map" /\ Tail(todo) \in {<<>>, <<"highest">>}
           \/ Head(todo) = "highest" /\ Tail(todo) \in {<<>>, <<"map">>, <<"idx", "map">>}
           \/ Head(todo) = "idx" /\ Tail(todo) = <<"map">>
        /\ todo = <<"map", "highest">> <=> Head(todo) = "map" /\ Tail(todo) = <<"highest">>
        /\ Tail(todo) # <<"map", "highest">>
    <2>1. CASE todo = <<"map", "highest">>
      BY <2>1
    <2>2. CASE todo = <<"highest">>
      BY <2>2
    <2>3. CASE todo = <<"highest", "map">>
      BY <2>3
    <2>4. CASE todo = <<"map">>
      BY <2>4
    <2>5. CASE todo = <<"highest", "idx", "map">>
      BY <2>5
    <2>6. CASE todo = <<"idx", "map">>
      BY <2>6
    <2> QED
      BY <1>8, <2>1, <2>2, <2>3, <2>4, <2>5, <2>6, Zenon
  <1>10. /\ MapPending' <=> MapPending
         /\ HighestPending' <=> HighestPending
    <2>1. \A x : (\E i \in DOMAIN todo : todo[i] = x) <=>
                    Head(todo) = x \/ \E i \in DOMAIN todo' : todo'[i] = x
      <3>1. \A x : (\E i \in DOMAIN todo : todo[i] = x) <=>
                      Head(todo) = x \/ \E i \in DOMAIN Tail(todo) : Tail(todo)[i] = x
        <4>1. todo \in Seq({"map", "idx", "highest"}) /\ todo # <<>>
          BY <1>1, <1>9, Zenon
        <4> QED
          BY <4>1, HeadOrTail, Zenon
      <3> QED
        BY <1>1, <3>1, Zenon
    <2>2. \A x : x \in Submitted' <=> Head(todo) = x
      BY <1>7, Zenon
    <2>3. \A x : x \notin Submitted
      BY <1>7, Zenon
    <2>4. MapPending' <=> MapPending
      BY <2>1, <2>2, <2>3, Zenon DEF MapPending
    <2>5. HighestPending' <=> HighestPending
      BY <2>1, <2>2, <2>3, Zenon DEF HighestPending
    <2> QED
      BY <2>4, <2>5, Zenon
  <1>11. Adding' <=> Adding
    BY <1>1, <1>7, <1>9, Zenon DEF Adding
  <1>12. Configs' = Configs
    BY <1>1, Zenon DEF Configs
  <1>13. PutsInv'
    <2>1. \A i \in DOMAIN puts' :
             /\ ~puts'[i].op => i = 1 /\ puts'[i].key = "highest" /\ puts'[i].value \in Nat
             /\ puts'[i].op => /\ i = Len(puts')
                               /\ puts'[i].key = "map" => puts'[i].value = Configs'
                               /\ puts'[i].key = "highest" => puts'[i].value = highest'
      <3> SUFFICES ASSUME NEW i \in DOMAIN puts'
                   PROVE  /\ ~puts'[i].op => i = 1 /\ puts'[i].key = "highest"
                                              /\ puts'[i].value \in Nat
                          /\ puts'[i].op =>
                                /\ i = Len(puts')
                                /\ puts'[i].key = "map" => puts'[i].value = Configs'
                                /\ puts'[i].key = "highest" => puts'[i].value = highest'
        BY Zenon
      <3>1. CASE i = n + 1
        BY <1>1, <1>2, <1>4, <1>5, <1>12, <3>1, Zenon
      <3>2. CASE i \in DOMAIN puts
        BY <1>5, <3>2, Zenon DEF ManagerInv, PutsInv
      <3> QED
        BY <1>5, <3>1, <3>2, Zenon
    <2>2. \/ Submitted' = {"map"} /\ todo' \in {<<>>, <<"highest">>}
          \/ Submitted' = {"highest"} /\ todo' \in {<<>>, <<"map">>, <<"idx", "map">>}
          \/ Submitted' = {"idx"} /\ todo' = <<"map">>
      BY <1>1, <1>7, <1>9, Zenon
    <2>3. \E R : puts' \in Seq(R)
      BY <1>4, Zenon
    <2> QED
      BY <2>1, <2>2, <2>3, Zenon DEF PutsInv
  <1> QED
    BY <1>6, <1>10, <1>11, <1>13, Zenon

\* A step of the records leaves everything else alone.
LEMMA SubmitPutKeeps ==
    ASSUME ManagerInv, SubmitPut
    PROVE  ManagerInv'
  <1>1. /\ log' = log /\ start' = start /\ flushed' = flushed /\ commit' = commit
        /\ snap' = snap /\ cm' = cm /\ highest' = highest /\ kv' = kv /\ raft' = raft
        /\ read' = read /\ cut' = cut /\ lost' = lost /\ configs' = configs /\ todo # <<>>
    BY Zenon DEF SubmitPut, manager, history, counts
  <1>2. raft # "down"
    BY <1>1, Zenon DEF ManagerInv, TablesInv
  <1>3. /\ PutsInv' /\ Background' = Background /\ (Adding' <=> Adding)
        /\ (MapPending' <=> MapPending) /\ (HighestPending' <=> HighestPending)
    BY SubmitMeans, Zenon
  <1>4. /\ Configs' = Configs /\ End' = End /\ (Running' <=> Running)
        /\ \A o : InForce(o)' = InForce(o)
    BY <1>1, CutsItself, Zenon DEF Configs, End, Running
  <1>5. \A h : Within(h)' <=> Within(h)
    BY <1>1, <1>4, Zenon DEF Within
  <1>6. Within(highest)' <=> Within(highest)
    BY <1>1, <1>4, Zenon DEF Within
  <1>7. Within(kv.highest)' <=> Within(kv.highest)
    BY <1>1, <1>4, Zenon DEF Within
  <1>8. LogInv' /\ SnapInv' /\ StartInv' /\ RunInv'
    BY <1>1, <1>3, <1>4, Zenon DEF ManagerInv, LogInv, SnapInv, StartInv, RunInv
  <1>9. TablesInv'
    BY <1>1, <1>2, <1>3, <1>4, Zenon DEF ManagerInv, TablesInv
  <1>10. EndsInv'
    BY <1>1, <1>3, <1>4, <1>5, <1>6, <1>7, Zenon DEF ManagerInv, EndsInv
  <1> QED
    BY <1>3, <1>8, <1>9, <1>10, Zenon DEF ManagerInv

\* What a put that becomes durable leaves in flight.
LEMMA PutDoneMeans ==
    ASSUME ManagerInv, PutDone
    PROVE  /\ PutsInv' /\ Background' = {} /\ 1 \in DOMAIN puts /\ Head(puts) = puts[1]
           /\ ~puts[1].op =>
                /\ puts[1].key = "highest" /\ puts[1].value \in Background
                /\ puts[1].value \in Nat /\ Submitted' = Submitted
           /\ puts[1].op =>
                /\ puts[1].key = "map" => puts[1].value = Configs
                /\ puts[1].key = "highest" => puts[1].value = highest
                /\ puts[1].key \in {"map", "highest", "idx"}
                /\ Submitted = {puts[1].key} /\ Submitted' = {} /\ Background = {}
  <1>1. puts # <<>> /\ puts' = Tail(puts) /\ todo' = todo /\ cm' = cm /\ highest' = highest
    BY Zenon DEF PutDone, manager
  <1>2. PICK S : puts \in Seq(S)
    BY Zenon DEF ManagerInv, PutsInv
  <1> DEFINE n == Len(puts)
  <1>3. /\ n \in Nat /\ n > 0 /\ DOMAIN puts = 1..n /\ DOMAIN puts' = 1..n - 1
        /\ Len(puts') = n - 1 /\ Head(puts) = puts[1] /\ puts' \in Seq(S)
        /\ \A i \in 1..n - 1 : puts'[i] = puts[i + 1]
    BY <1>1, <1>2, SMTT(30)
  <1>4. /\ 1 \in DOMAIN puts
        /\ \A i \in DOMAIN puts' : /\ i + 1 \in DOMAIN puts /\ puts'[i] = puts[i + 1]
                                   /\ i + 1 # 1 /\ (i + 1 = n => i = Len(puts'))
        /\ \A i \in DOMAIN puts : i = 1 \/ (i - 1 \in DOMAIN puts' /\ puts'[i - 1] = puts[i])
        /\ 1 = n => DOMAIN puts' = {}
    BY <1>3
  <1>5. /\ \A i \in DOMAIN puts :
             /\ ~puts[i].op => i = 1 /\ puts[i].key = "highest" /\ puts[i].value \in Nat
             /\ puts[i].op => /\ i = n
                              /\ puts[i].key = "map" => puts[i].value = Configs
                              /\ puts[i].key = "highest" => puts[i].value = highest
        /\ \/ /\ Submitted = {}
              /\ todo \in {<<>>, <<"map", "highest">>, <<"highest">>, <<"highest", "map">>,
                           <<"map">>, <<"highest", "idx", "map">>, <<"idx", "map">>}
           \/ Submitted = {"map"} /\ todo \in {<<>>, <<"highest">>}
           \/ Submitted = {"highest"} /\ todo \in {<<>>, <<"map">>, <<"idx", "map">>}
           \/ Submitted = {"idx"} /\ todo = <<"map">>
    BY Zenon DEF ManagerInv, PutsInv
  <1>6. Configs' = Configs
    BY <1>1, Zenon DEF Configs
  <1>7. \A i \in DOMAIN puts' :
           /\ puts'[i].op /\ i = Len(puts')
           /\ puts'[i].key = "map" => puts'[i].value = Configs'
           /\ puts'[i].key = "highest" => puts'[i].value = highest'
    <2> SUFFICES ASSUME NEW i \in DOMAIN puts'
                 PROVE  /\ puts'[i].op /\ i = Len(puts')
                        /\ puts'[i].key = "map" => puts'[i].value = Configs'
                        /\ puts'[i].key = "highest" => puts'[i].value = highest'
      BY Zenon
    <2>1. /\ i + 1 \in DOMAIN puts /\ puts'[i] = puts[i + 1]
          /\ i + 1 # 1 /\ (i + 1 = n => i = Len(puts'))
      BY <1>4, Zenon
    <2>2. puts[i + 1].op
      BY <1>5, <2>1, Zenon
    <2> QED
      BY <1>1, <1>5, <1>6, <2>1, <2>2, Zenon
  <1>8. Background' = {}
    BY <1>7, Zenon DEF Background
  <1>9. CASE ~puts[1].op
    <2>1. \A x : x \in Submitted' => x \in Submitted
      <3> SUFFICES ASSUME NEW i \in DOMAIN puts', puts'[i].op
                   PROVE  puts'[i].key \in Submitted
        BY Zenon DEF Submitted
      <3>1. i + 1 \in DOMAIN puts /\ puts'[i] = puts[i + 1]
        BY <1>4, Zenon
      <3> QED
        BY <3>1, Zenon DEF Submitted
    <2>2. \A x : x \in Submitted => x \in Submitted'
      <3> SUFFICES ASSUME NEW i \in DOMAIN puts, puts[i].op
                   PROVE  puts[i].key \in Submitted'
        BY Zenon DEF Submitted
      <3>1. i - 1 \in DOMAIN puts' /\ puts'[i - 1] = puts[i]
        BY <1>4, <1>9, Zenon
      <3> QED
        BY <3>1, Zenon DEF Submitted
    <2>3. Submitted' = Submitted
      BY <2>1, <2>2, Zenon
    <2>4. PutsInv'
      BY <1>1, <1>3, <1>5, <1>7, <2>3, Zenon DEF PutsInv
    <2>5. puts[1].value \in Background
      BY <1>4, <1>9, Zenon DEF Background
    <2> QED
      BY <1>3, <1>4, <1>5, <1>8, <1>9, <2>3, <2>4, <2>5, Zenon
  <1>10. CASE puts[1].op
    <2>1. DOMAIN puts' = {} /\ n = 1
      BY <1>4, <1>5, <1>10, Zenon
    <2>2. \A i \in DOMAIN puts : i = 1
      BY <1>4, <2>1, Zenon
    <2>3. Submitted' = {} /\ Submitted = {puts[1].key} /\ Background = {}
      BY <1>4, <1>10, <2>1, <2>2, Zenon DEF Submitted, Background
    <2>4. \/ puts[1].key = "map" /\ todo \in {<<>>, <<"highest">>}
          \/ puts[1].key = "highest" /\ todo \in {<<>>, <<"map">>, <<"idx", "map">>}
          \/ puts[1].key = "idx" /\ todo = <<"map">>
      BY <1>5, <2>3, Zenon
    <2>5. PutsInv'
      BY <1>1, <1>3, <2>1, <2>3, <2>4, Zenon DEF PutsInv
    <2> QED
      BY <1>3, <1>4, <1>5, <1>8, <1>10, <2>3, <2>4, <2>5, ZenonT(40)
  <1> QED
    BY <1>9, <1>10, Zenon

\* A put is durable.
LEMMA PutDoneKeeps ==
    ASSUME ManagerInv, PutDone
    PROVE  ManagerInv'
  <1> DEFINE s == snap.index
             k == puts[1].key
             v == puts[1].value
  <1>1. /\ log' = log /\ start' = start /\ flushed' = flushed /\ commit' = commit
        /\ snap' = snap /\ cm' = cm /\ highest' = highest /\ raft' = raft /\ todo' = todo
        /\ read' = read /\ cut' = cut /\ lost' = lost /\ configs' = configs
        /\ kv' = [kv EXCEPT ![Head(puts).key] = Head(puts).value]
    BY Zenon DEF PutDone, manager, history, counts
  <1>2. /\ PutsInv' /\ Background' = {} /\ 1 \in DOMAIN puts /\ Head(puts) = puts[1]
        /\ ~puts[1].op => /\ k = "highest" /\ v \in Background /\ v \in Nat
                          /\ Submitted' = Submitted
        /\ puts[1].op => /\ k = "map" => v = Configs
                         /\ k = "highest" => v = highest
                         /\ k \in {"map", "highest", "idx"}
                         /\ Submitted = {k} /\ Submitted' = {} /\ Background = {}
    BY PutDoneMeans, Zenon
  <1>3. raft # "down"
    <2>1. puts # <<>>
      BY Zenon DEF PutDone
    <2> QED
      BY <2>1, Zenon DEF ManagerInv, TablesInv
  <1>4. /\ Configs' = Configs /\ End' = End /\ (Running' <=> Running)
        /\ \A o : InForce(o)' = InForce(o) /\ DOMAIN Configs = DOMAIN cm
    BY <1>1, CutsItself, Zenon DEF Configs, End, Running
  <1>5. LogInv' /\ SnapInv' /\ RunInv'
    BY <1>1, <1>4, Zenon DEF ManagerInv, LogInv, SnapInv, RunInv
  <1>6. /\ DOMAIN kv' = {"map", "idx", "highest"}
        /\ kv'.map = (IF k = "map" THEN v ELSE kv.map)
        /\ kv'.highest = (IF k = "highest" THEN v ELSE kv.highest)
    <2>1. DOMAIN kv = {"map", "idx", "highest"}
      BY Zenon DEF ManagerInv, TablesInv
    <2>2. kv' = [kv EXCEPT ![k] = v]
      BY <1>1, <1>2, Zenon
    <2> HIDE DEF k, v
    <2> QED
      BY <2>1, <2>2
  <1>7. \A o \in DOMAIN cm' : "cfg" \in DOMAIN cm'[o]
    BY <1>1, Zenon DEF ManagerInv, TablesInv
  <1>8. /\ Sound(kv.map, kv.highest, log, s, cut)
        /\ Sound(Configs, highest, log, s, cut) /\ (s = 0 => 0 \in DOMAIN cm)
        /\ Known(Configs, kv.highest, log, s, cut)
        /\ \A h \in Background : /\ Known(Configs, h, log, s, cut)
                                 /\ Known(kv.map, h, log, s, cut)
        /\ ~Adding => Known(kv.map, highest, log, s, cut)
    BY <1>3, Zenon DEF ManagerInv, TablesInv
  <1>9. k # "map" => (Adding' <=> Adding) /\ (MapPending' <=> MapPending)
    <2>1. k # "map" => ("map" \in Submitted' <=> "map" \in Submitted)
      BY <1>2, Zenon
    <2> QED
      BY <1>1, <2>1, Zenon DEF Adding, MapPending
  <1>10. k # "highest" => (HighestPending' <=> HighestPending)
    <2>1. k # "highest" => ("highest" \in Submitted' <=> "highest" \in Submitted)
      BY <1>2, Zenon
    <2> QED
      BY <1>1, <2>1, Zenon DEF HighestPending
  <1>11. CASE k = "map"
    <2>1. /\ puts[1].op /\ v = Configs /\ kv'.map = Configs /\ kv'.highest = kv.highest
          /\ Background = {} /\ Submitted = {"map"} /\ Submitted' = {}
      BY <1>2, <1>6, <1>11, Zenon
    <2>2. Sound(Configs, kv.highest, log, s, cut)
      BY <1>8, Zenon DEF Sound
    <2>3. TablesInv'
      BY <1>1, <1>2, <1>3, <1>4, <1>6, <1>7, <1>8, <2>1, <2>2, Zenon DEF Sound, TablesInv
    <2>4. ~Adding'
      <3>1. todo # <<"map", "highest">>
        <4>1. Submitted # {} /\ Submitted # {"highest"} /\ Submitted # {"idx"}
          BY <2>1
        <4>2. todo \in {<<>>, <<"highest">>}
          BY <4>1, Zenon DEF ManagerInv, PutsInv
        <4> QED
          BY <4>2
      <3> QED
        BY <1>1, <2>1, <3>1, Zenon DEF Adding
    <2>5. EndsInv'
      <3>1. Within(highest)' <=> Within(highest)
        BY <1>1, <1>4, Zenon DEF Within
      <3>2. Within(kv.highest)' <=> Within(kv.highest)
        BY <1>1, <1>4, <2>1, SMTT(30) DEF Within
      <3>3. HighestPending' <=> HighestPending
        BY <1>10, <1>11, Zenon
      <3> QED
        BY <1>1, <1>2, <1>4, <2>1, <2>4, <3>1, <3>2, <3>3, Zenon DEF ManagerInv, EndsInv
    <2>6. StartInv'
      BY <1>1, <1>4, <2>1, ZenonT(40) DEF ManagerInv, StartInv
    <2> QED
      BY <1>2, <1>5, <2>3, <2>5, <2>6, Zenon DEF ManagerInv
  <1>12. CASE k = "highest"
    <2>1. kv'.map = kv.map /\ kv'.highest = v /\ (Adding' <=> Adding)
          /\ (MapPending' <=> MapPending)
      BY <1>6, <1>9, <1>12, Zenon
    <2>2. puts[1].op => v = highest /\ ~Adding
      <3>1. puts[1].op => v = highest /\ Submitted = {"highest"}
        BY <1>2, <1>12, Zenon
      <3>2. ASSUME Submitted = {"highest"} PROVE ~Adding
        <4>1. Submitted # {} /\ Submitted # {"map"} /\ Submitted # {"idx"} /\ "map" \notin Submitted
          BY <3>2
        <4>2. todo \in {<<>>, <<"map">>, <<"idx", "map">>}
          BY <4>1, Zenon DEF ManagerInv, PutsInv
        <4>3. todo # <<"map", "highest">>
          BY <4>2
        <4> QED
          BY <4>1, <4>3, Zenon DEF Adding
      <3> QED
        BY <3>1, <3>2, Zenon
    <2>3. v \in Nat /\ Known(kv.map, v, log, s, cut) /\ Known(Configs, v, log, s, cut)
      BY <1>2, <1>8, <2>2, Facts, Zenon DEF Sound
    <2>4. Sound(kv.map, v, log, s, cut)
      BY <1>8, <2>3, Zenon DEF Sound
    <2>5. TablesInv'
      BY <1>1, <1>2, <1>3, <1>4, <1>6, <1>7, <1>8, <2>1, <2>3, <2>4, ZenonT(40) DEF TablesInv
    <2>6. EndsInv'
      <3>1. Within(highest)' <=> Within(highest)
        BY <1>1, <1>4, Zenon DEF Within
      <3>2. Within(kv.highest)' <=> Within(v)
        BY <1>1, <1>4, <2>1 DEF Within
      <3>3. raft \in {"idle", "appended", "added", "adjust"} => Within(v)
        BY <1>2, <2>2, Zenon DEF ManagerInv, EndsInv
      <3>4. raft \in {"truncating", "read"} /\ ~HighestPending' => Within(v)
        <4>1. CASE puts[1].op
          BY <2>2, <4>1, Zenon DEF ManagerInv, EndsInv
        <4>2. CASE ~puts[1].op
          <5>1. HighestPending' <=> HighestPending
            BY <1>1, <1>2, <4>2, Zenon DEF HighestPending
          <5> QED
            BY <1>2, <4>2, <5>1, Zenon DEF ManagerInv, EndsInv
        <4> QED
          BY <4>1, <4>2, Zenon
      <3> QED
        BY <1>1, <1>2, <1>4, <2>1, <3>1, <3>2, <3>3, <3>4, ZenonT(40) DEF ManagerInv, EndsInv
    <2>7. StartInv'
      BY <1>1, <1>4, <2>1, Zenon DEF ManagerInv, StartInv
    <2> QED
      BY <1>2, <1>5, <2>5, <2>6, <2>7, Zenon DEF ManagerInv
  <1>13. CASE k \notin {"map", "highest"}
    <2>1. /\ kv'.map = kv.map /\ kv'.highest = kv.highest /\ (Adding' <=> Adding)
          /\ (MapPending' <=> MapPending) /\ (HighestPending' <=> HighestPending)
      BY <1>6, <1>9, <1>10, <1>13, Zenon
    <2>2. TablesInv'
      BY <1>1, <1>2, <1>3, <1>4, <1>6, <1>7, <1>8, <2>1, Zenon DEF TablesInv
    <2>3. EndsInv'
      <3>1. Within(highest)' <=> Within(highest)
        BY <1>1, <1>4, Zenon DEF Within
      <3>2. Within(kv.highest)' <=> Within(kv.highest)
        BY <1>1, <1>4, <2>1, SMTT(30) DEF Within
      <3> QED
        BY <1>1, <1>2, <1>4, <2>1, <3>1, <3>2, ZenonT(40) DEF ManagerInv, EndsInv
    <2>4. StartInv'
      BY <1>1, <1>4, <2>1, Zenon DEF ManagerInv, StartInv
    <2> QED
      BY <1>2, <1>5, <2>2, <2>3, <2>4, Zenon DEF ManagerInv
  <1> QED
    BY <1>11, <1>12, <1>13, Zenon

---------------------------------------------------------------------------
\* The theorems.

\* The first start of a group.
LEMMA ManagerStarts ==
    ASSUME ManagerInit
    PROVE  ManagerInv
  <1>1. /\ log = <<>> /\ start = 1 /\ flushed = 0 /\ commit = 0 /\ configs = 0
        /\ snap = [index |-> 0, cfg |-> 0] /\ highest = 0
        /\ cm = [o \in {0} |-> [cfg |-> 0, idx |-> 0]]
        /\ kv = [map |-> <<>>, idx |-> 0, highest |-> 0]
        /\ puts = <<>> /\ todo = <<>> /\ raft = "idle" /\ cut = {}
    BY Zenon DEF ManagerInit
  <1>2. End = 0 /\ Running /\ Len(log) = 0 /\ raft \notin Starting
    <2>1. Len(log) = 0
      BY <1>1, SMTT(30)
    <2> QED
      BY <1>1, <2>1, Zenon DEF End, Running, Starting
  <1>3. snap.index = 0 /\ snap.cfg = 0 /\ start - 1 = 0
    BY <1>1, SMTT(30)
  <1>4. DOMAIN kv = {"map", "idx", "highest"} /\ kv.map = <<>> /\ kv.highest = 0
    BY <1>1
  <1>5. DOMAIN kv.map = {} /\ 0..0 = {0} /\ 0 + 1..0 = {}
    BY <1>4
  <1>6. /\ DOMAIN cm = {0} /\ cm[0] = [cfg |-> 0, idx |-> 0]
    BY <1>1, Zenon
  <1>7. cm[0].cfg = 0 /\ "cfg" \in DOMAIN cm[0]
    BY <1>6
  <1>8. DOMAIN Configs = {0} /\ Configs[0] = 0
    BY <1>6, <1>7, Zenon DEF Configs
  <1>9. \A t, h : Known(t, h, log, 0, cut)
    BY <1>2, <1>5, Zenon DEF Known
  <1>10. Background = {} /\ Submitted = {} /\ ~Adding /\ PutsInv
    <2>1. DOMAIN puts = {} /\ puts \in Seq({}) /\ todo # <<"map", "highest">>
          /\ todo # <<"highest">>
      BY <1>1
    <2>2. Background = {} /\ Submitted = {}
      BY <2>1, Zenon DEF Background, Submitted
    <2> QED
      BY <1>1, <2>1, <2>2, Zenon DEF PutsInv, Adding
  <1>11. 0 \in Nat /\ 0 <= 0 /\ ~(0 < 0) /\ 0 <= MaxLog /\ 0 \in 0..MaxLog /\ 1 \in Nat /\ 1 > 0
         /\ 1 <= 0 + 1 /\ <<>> \in Seq(Nat)
    BY ManagerAssumption
  <1>12. LogInv
    BY <1>1, <1>2, <1>3, <1>11, Zenon DEF LogInv
  <1>13. InForce(0) = 0
    <2>1. {p \in 1..0 : log[p] # 0} = {}
      OBVIOUS
    <2> QED
      BY <2>1, Zenon DEF InForce
  <1>14. SnapInv
    BY <1>3, <1>13, Zenon DEF SnapInv
  <1>15. TablesInv
    <2>1. Sound(kv.map, 0, log, 0, cut)
      BY <1>5, <1>9, <1>11, Zenon DEF Sound, Real, First, Closed
    <2>2. Sound(Configs, 0, log, 0, cut)
      BY <1>8, <1>9, <1>11, Zenon DEF Sound, Real, First, Closed
    <2> QED
      BY <1>1, <1>3, <1>4, <1>6, <1>7, <1>9, <1>10, <2>1, <2>2, Zenon DEF TablesInv
  <1>16. EndsInv
    BY <1>1, <1>2, <1>4, <1>5, <1>6, <1>10, <1>11, Zenon DEF EndsInv, Within
  <1>17. StartInv
    BY <1>1, <1>3, <1>9, Zenon DEF StartInv
  <1>18. RunInv
    <2>1. Real(Configs, log, 0)
      BY <1>8, <1>11, Zenon DEF Real
    <2>2. Answers(Configs, 0, InForce(0))
      BY <1>8, <1>11, <1>13, Zenon DEF Answers
    <2>3. \A o \in start - 1..End : o = 0
      BY <1>2, <1>3, <1>5, Zenon
    <2> QED
      BY <1>3, <1>6, <1>9, <1>11, <2>1, <2>2, <2>3, Zenon DEF RunInv
  <1> QED
    BY <1>10, <1>12, <1>14, <1>15, <1>16, <1>17, <1>18, Zenon DEF ManagerInv

\* Every step keeps the invariant.
LEMMA ManagerSteps ==
    ASSUME HasLeast, ManagerInv, [ManagerNext]_managerVars
    PROVE  ManagerInv'
  <1>1. CASE ManagerNext
    <2>1. AppendSteps => ManagerInv'
      <3>1. TRUE \in BOOLEAN /\ FALSE \in BOOLEAN
        OBVIOUS
      <3>2. AddAppended => ManagerInv'
        BY AddDataKeeps, AddConfigKeeps, Zenon
      <3> QED
        BY <3>1, <3>2, AppendBatchKeeps, AppendDoneKeeps, Zenon DEF AppendSteps
    <2>2. Snapshot => ManagerInv'
      BY WriteSnapshotKeeps, TruncateLogPrefixKeeps, TruncateManagerPrefixKeeps,
         Zenon DEF Snapshot
    <2>3. Start => ManagerInv'
      BY LoadKeeps, HydrateKeeps, HydratePrefixKeeps, StartTruncateKeeps, StartAddKeeps,
         StartAdjustKeeps, Zenon DEF Start
    <2> QED
      BY <1>1, <2>1, <2>2, <2>3, SubmitPutKeeps, PutDoneKeeps, CommitKeeps, TruncateLogKeeps,
         TruncateManagerKeeps, TruncateDoneKeeps, CrashKeeps, Zenon DEF ManagerNext
  <1>2. CASE UNCHANGED managerVars
    <2>1. /\ log' = log /\ start' = start /\ flushed' = flushed /\ commit' = commit
          /\ snap' = snap /\ cm' = cm /\ highest' = highest /\ kv' = kv /\ puts' = puts
          /\ todo' = todo /\ raft' = raft /\ read' = read /\ cut' = cut /\ lost' = lost
          /\ configs' = configs
      BY <1>2, Zenon DEF managerVars, manager, store, history, counts
    <2>2. Configs' = Configs /\ End' = End /\ (Running' <=> Running)
          /\ \A o : InForce(o)' = InForce(o)
      BY <2>1, CutsItself, Zenon DEF Configs, End, Running
    <2>3. /\ PutsInv' /\ Background' = Background /\ (Adding' <=> Adding)
          /\ (MapPending' <=> MapPending) /\ (HighestPending' <=> HighestPending)
      BY <2>1, <2>2, PutsSame, Zenon DEF ManagerInv
    <2>4. TablesInv'
      BY <2>1, <2>2, <2>3, Zenon DEF ManagerInv, TablesInv
    <2>5. /\ \A h : Within(h)' <=> Within(h)
          /\ Within(highest)' <=> Within(highest)
          /\ Within(kv.highest)' <=> Within(kv.highest)
      BY <2>1, <2>2, Zenon DEF Within
    <2>6. EndsInv'
      BY <2>1, <2>2, <2>3, <2>5, Zenon DEF ManagerInv, EndsInv
    <2>7. LogInv' /\ SnapInv' /\ StartInv' /\ RunInv'
      BY <2>1, <2>2, <2>3, Zenon DEF ManagerInv, LogInv, SnapInv, StartInv, RunInv
    <2> QED
      BY <2>3, <2>4, <2>6, <2>7, Zenon DEF ManagerInv
  <1> QED
    BY <1>1, <1>2, Zenon

---------------------------------------------------------------------------
\* The manager accepts every offset: a second invariant, on top of the first.

\* Both tables have the snapshot's configuration at its offset, or none; memory has what
\* the disk has; and a start reads no configuration that the manager has.
AcceptInv ==
    /\ raft # "failed"
    /\ snap.index \in DOMAIN kv.map => kv.map[snap.index] = snap.cfg
    /\ raft # "down" =>
         \A o \in DOMAIN kv.map : snap.index < o /\ o <= End => o \in DOMAIN cm
    /\ raft = "hydrate" /\ snap.index \in DOMAIN cm => Configs[snap.index] = snap.cfg
    /\ Running => Answers(Configs, snap.index, snap.cfg)
    /\ raft \in {"hydrate", "prefix"} => \A o \in DOMAIN cm : o <= highest
    /\ raft \in {"truncate", "read"} => read \cap DOMAIN cm = {}

\* get() is an answer of the table.
LEMMA GetAnswers ==
    ASSUME HasLeast, NEW n \in Nat, NEW o, DOMAIN cm \subseteq 0..n, \E p \in DOMAIN cm : p <= o
    PROVE  Answers(Configs, o, Get(o))
  <1> DEFINE B == {q \in DOMAIN cm : q <= o}
  <1>1. B \in SUBSET (0..n) /\ B # {}
    BY Zenon
  <1>2. Max(B) \in B /\ \A y \in B : y <= Max(B)
    BY <1>1, MaxOf, Zenon
  <1>3. Get(o) = cm[Max(B)].cfg
    BY <1>1, Zenon DEF Get
  <1>4. /\ Max(B) \in DOMAIN cm /\ Max(B) <= o
        /\ \A q \in DOMAIN cm : q <= o => q <= Max(B)
    BY <1>2, Zenon
  <1> HIDE DEF B
  <1> QED
    BY <1>3, <1>4, Zenon DEF Answers, Configs

\* The answer for the offset of an entry is the entry.
LEMMA AnswersHere ==
    ASSUME NEW t, NEW o \in Nat, NEW v, DOMAIN t \subseteq Nat, o \in DOMAIN t
    PROVE  Answers(t, o, v) <=> v = t[o]
  <1>1. o <= o /\ \A p \in Nat : p <= o /\ o <= p => p = o
    OBVIOUS
  <1> QED
    BY <1>1, Zenon DEF Answers

\* The manager has the snapshot's configuration at its offset, or none.
LEMMA AtSnapshot ==
    ASSUME ManagerInv, AcceptInv, raft # "down", snap.index \in DOMAIN cm
    PROVE  Configs[snap.index] = snap.cfg
  <1>1. /\ snap.index \in Nat /\ DOMAIN Configs = DOMAIN cm
        /\ \A o \in DOMAIN cm : Configs[o] = cm[o].cfg
    BY Facts, Zenon
  <1>2. DOMAIN Configs \subseteq Nat
    BY Facts
  <1>3. CASE Running
    <2>1. Answers(Configs, snap.index, snap.cfg)
      BY <1>3, Zenon DEF AcceptInv
    <2> QED
      BY <1>1, <1>2, <2>1, AnswersHere, ZenonT(40)
  <1>4. CASE raft = "hydrate"
    BY <1>4, Zenon DEF AcceptInv
  <1>5. CASE raft \in {"prefix", "truncate", "read", "adjust"}
    BY <1>1, <1>5, Zenon DEF ManagerInv, StartInv
  <1> QED
    BY <1>3, <1>4, <1>5, Zenon DEF ManagerInv, LogInv, AcceptInv, Starting

\* A step that leaves the tables alone.
LEMMA AcceptRests ==
    ASSUME ManagerInv, AcceptInv, raft # "down", raft' \notin {"failed", "down"},
           kv'.map = kv.map, Configs' = Configs, DOMAIN cm' = DOMAIN cm, snap' = snap,
           \A o \in DOMAIN kv.map : o <= End' => o <= End,
           raft' = "hydrate" => raft = "hydrate",
           raft' \in {"hydrate", "prefix"} => raft \in {"hydrate", "prefix"} /\ highest' = highest,
           raft' \in {"truncate", "read"} => raft' = raft /\ read' = read,
           Running' => Running \/ raft = "adjust"
    PROVE  AcceptInv'
  <1>1. Running' => Answers(Configs, snap.index, snap.cfg)
    <2>1. CASE Running
      BY <2>1, Zenon DEF AcceptInv
    <2>2. CASE raft = "adjust"
      <3>1. snap.index \in DOMAIN Configs /\ Configs[snap.index] = snap.cfg
        BY <2>2, Facts, Zenon DEF ManagerInv, StartInv
      <3>2. snap.index \in Nat /\ DOMAIN Configs \subseteq Nat
        BY Facts
      <3> QED
        BY <3>1, <3>2, AnswersHere, Zenon
    <2> QED
      BY <2>1, <2>2, Zenon
  <1> QED
    BY <1>1, Zenon DEF AcceptInv

\* The steps of the log alone, and a put that is submitted.
LEMMA LogAccepts ==
    ASSUME ManagerInv, ManagerInv', AcceptInv,
           \/ \E isConfig \in BOOLEAN : AppendBatch(isConfig)
           \/ \E o \in 1..MaxLog : TruncateLog(o)
           \/ Commit \/ TruncateLogPrefix \/ TruncateDone \/ AppendDone \/ SubmitPut
           \/ UNCHANGED managerVars /\ raft # "down"
    PROVE  AcceptInv'
  <1>1. /\ kv' = kv /\ cm' = cm /\ snap' = snap /\ read' = read
        /\ \/ raft' = raft /\ highest' = highest /\ log' = log
           \/ raft = "idle" /\ raft' = "appended" /\ Len(log') = Len(log) + 1
           \/ raft = "idle" /\ raft' = "truncated" /\ Len(log') <= Len(log)
           \/ raft = "truncating" /\ raft' = "idle" /\ log' = log
           \/ raft = "added" /\ raft' = "idle" /\ log' = log
    <2>1. CASE \E isConfig \in BOOLEAN : AppendBatch(isConfig)
      <3>1. PICK isConfig \in BOOLEAN : AppendBatch(isConfig)
        BY <2>1, Zenon
      <3>2. /\ kv' = kv /\ cm' = cm /\ snap' = snap /\ read' = read
            /\ raft = "idle" /\ raft' = "appended"
            /\ log' = Append(log, IF isConfig THEN configs + 1 ELSE 0)
        BY <3>1, Zenon DEF AppendBatch, manager, store
      <3>3. log \in Seq(Nat)
        BY Facts, Zenon
      <3>4. configs \in Nat
        BY Zenon DEF ManagerInv, LogInv
      <3>5. Len(log') = Len(log) + 1
        BY <3>2, <3>3, <3>4, SMTT(30)
      <3> QED
        BY <3>2, <3>5, Zenon
    <2>2. CASE \E o \in 1..MaxLog : TruncateLog(o)
      <3>1. PICK o \in 1..MaxLog : TruncateLog(o)
        BY <2>2, Zenon
      <3>2. /\ kv' = kv /\ cm' = cm /\ snap' = snap /\ read' = read
            /\ raft = "idle" /\ raft' = "truncated" /\ log' = SubSeq(log, 1, o - 1)
            /\ o \in Later(commit + 1, start)..Len(log)
        BY <3>1, Zenon DEF TruncateLog, manager, store
      <3>3. log \in Seq(Nat) /\ Len(log) \in Nat /\ MaxLog \in Nat
        BY Facts, Zenon
      <3>4. o \in Nat /\ o > 0 /\ o <= Len(log)
        BY <3>2, <3>3, SMTT(30)
      <3>5. Len(log') <= Len(log)
        BY <3>2, <3>3, <3>4, SMTT(30)
      <3> QED
        BY <3>2, <3>5, Zenon
    <2>3. CASE Commit \/ TruncateLogPrefix
      BY <2>3, Zenon DEF Commit, TruncateLogPrefix, manager, store
    <2>4. CASE TruncateDone \/ AppendDone
      BY <2>4, Zenon DEF TruncateDone, AppendDone, manager, store
    <2>5. CASE SubmitPut \/ UNCHANGED managerVars
      BY <2>5, Zenon DEF SubmitPut, managerVars, manager, store
    <2> QED
      BY <2>1, <2>2, <2>3, <2>4, <2>5, Zenon
  <1>2. raft # "down"
    <2>1. CASE SubmitPut
      <3>1. todo # <<>>
        BY <2>1, Zenon DEF SubmitPut
      <3> QED
        BY <3>1, Zenon DEF ManagerInv, TablesInv
    <2>2. CASE TruncateLogPrefix
      BY <2>2, Zenon DEF TruncateLogPrefix, Running
    <2>3. CASE Commit \/ TruncateDone \/ AppendDone
      BY <2>3, Zenon DEF Commit, TruncateDone, AppendDone
    <2>4. CASE \/ \E isConfig \in BOOLEAN : AppendBatch(isConfig)
               \/ \E o \in 1..MaxLog : TruncateLog(o)
      BY <2>4, Zenon DEF AppendBatch, TruncateLog
    <2> QED
      BY <2>1, <2>2, <2>3, <2>4, Zenon
  <1>3. /\ raft' \notin {"failed", "down"} /\ (Running' => Running)
        /\ raft' \in {"hydrate", "prefix"} => raft' = raft /\ highest' = highest
        /\ raft' \in {"truncate", "read"} => raft' = raft
    BY <1>1, <1>2, Zenon DEF AcceptInv, Running
  <1>4. End' <= End /\ End \in Nat /\ End' \in Nat
    <2>1. Len(log) \in Nat /\ Len(log') \in Nat /\ End \in Nat /\ End' \in Nat
      <3>1. log' \in Seq(Nat) /\ flushed' \in Nat /\ flushed' <= End'
        BY Zenon DEF ManagerInv, LogInv
      <3>2. End' = Len(log') - 1 \/ End' = Len(log')
        BY Zenon DEF End
      <3>3. Len(log') \in Nat /\ End' \in Nat
        BY <3>1, <3>2
      <3> QED
        BY <3>3, Facts, Zenon
    <2>2. raft # "appended" => End = Len(log)
      BY Zenon DEF End
    <2>3. raft' # "appended" => End' = Len(log')
      BY Zenon DEF End
    <2>4. /\ raft = "appended" => End = Len(log) - 1
          /\ raft' = "appended" => End' = Len(log') - 1
      BY Zenon DEF End
    <2>5. CASE raft' = raft /\ log' = log
      <3>1. End' = End
        BY <2>5, Zenon DEF End
      <3> QED
        BY <3>1, <2>1, SMTT(30)
    <2>6. CASE raft = "idle" /\ raft' = "appended" /\ Len(log') = Len(log) + 1
      BY <2>1, <2>2, <2>4, <2>6, SMTT(30)
    <2>7. CASE raft = "idle" /\ raft' = "truncated" /\ Len(log') <= Len(log)
      BY <2>1, <2>2, <2>3, <2>7, SMTT(30)
    <2>8. CASE raft \in {"truncating", "added"} /\ raft' = "idle" /\ log' = log
      BY <2>1, <2>2, <2>3, <2>8, SMTT(30)
    <2> QED
      BY <1>1, <2>5, <2>6, <2>7, <2>8, Zenon
  <1>5. \A o \in DOMAIN kv.map : o <= End' => o <= End
    <2>1. DOMAIN kv.map \subseteq Nat
      BY Facts, SMTT(30)
    <2> QED
      BY <1>4, <2>1, SMTT(30)
  <1>6. Configs' = Configs
    BY <1>1, Zenon DEF Configs
  <1> QED
    BY <1>1, <1>2, <1>3, <1>5, <1>6, AcceptRests, ZenonT(40)

\* A put is durable.
LEMMA PutDoneAccepts ==
    ASSUME ManagerInv, AcceptInv, PutDone
    PROVE  AcceptInv'
  <1> DEFINE k == puts[1].key
             v == puts[1].value
  <1>1. /\ log' = log /\ snap' = snap /\ cm' = cm /\ highest' = highest /\ raft' = raft
        /\ read' = read /\ kv' = [kv EXCEPT ![Head(puts).key] = Head(puts).value]
        /\ puts # <<>>
    BY Zenon DEF PutDone, manager
  <1>2. /\ Head(puts) = puts[1] /\ (k = "map" => v = Configs)
    BY PutDoneMeans, Zenon
  <1>3. raft # "down"
    BY <1>1, Zenon DEF ManagerInv, TablesInv
  <1>4. Configs' = Configs /\ End' = End /\ (Running' <=> Running) /\ DOMAIN Configs = DOMAIN cm
    BY <1>1, Zenon DEF Configs, End, Running
  <1>5. kv'.map = (IF k = "map" THEN v ELSE kv.map)
    <2>1. DOMAIN kv = {"map", "idx", "highest"}
      BY Zenon DEF ManagerInv, TablesInv
    <2>2. kv' = [kv EXCEPT ![k] = v]
      BY <1>1, <1>2, Zenon
    <2> HIDE DEF k, v
    <2> QED
      BY <2>1, <2>2, SMTT(30)
  <1> HIDE DEF k, v
  <1>6. CASE k = "map"
    <2>1. kv'.map = Configs
      BY <1>2, <1>5, <1>6, Zenon
    <2>2. snap.index \in DOMAIN kv'.map => kv'.map[snap.index] = snap.cfg
      BY <1>3, <1>4, <2>1, AtSnapshot, Zenon
    <2> QED
      BY <1>1, <1>4, <2>1, <2>2, Zenon DEF AcceptInv
  <1>7. CASE k # "map"
    <2>1. kv'.map = kv.map
      BY <1>5, <1>7, Zenon
    <2> QED
      BY <1>1, <1>4, <2>1, Zenon DEF AcceptInv
  <1> QED
    BY <1>6, <1>7, Zenon

\* What was appended is added.
LEMMA AddAccepts ==
    ASSUME ManagerInv, AcceptInv, AddAppended
    PROVE  AcceptInv'
  <1> DEFINE L == Len(log)
             s == snap.index
  <1>1. /\ raft = "appended" /\ raft' = "added" /\ log' = log /\ snap' = snap /\ kv' = kv
        /\ log[L] = 0 => cm' = cm
        /\ log[L] # 0 => Add({L})
    BY Zenon DEF AddAppended, manager
  <1>2. End' = L /\ End = L - 1 /\ Running /\ Running'
    BY <1>1, Zenon DEF End, Running
  <1>3. L \in Nat /\ s \in Nat /\ s < L /\ End \in Nat /\ s <= s
    <2>1. /\ End \in Nat /\ Len(log) \in Nat /\ flushed <= End /\ flushed \in Nat
          /\ snap.index <= commit /\ commit <= flushed /\ commit \in Nat /\ snap.index \in Nat
      BY Facts, Zenon
    <2> QED
      BY <1>2, <2>1, SMTT(30)
  <1>4. DOMAIN kv.map \subseteq 0..End /\ Answers(Configs, s, snap.cfg)
    BY <1>1, <1>2, Zenon DEF ManagerInv, EndsInv, AcceptInv
  <1>5. \A o \in DOMAIN kv.map : o <= End
    BY <1>3, <1>4, SMTT(30)
  <1>6. CASE log[L] = 0
    <2>1. Configs' = Configs /\ DOMAIN cm' = DOMAIN cm
      BY <1>1, <1>6, Zenon DEF Configs
    <2>2. raft # "down" /\ raft' \notin {"failed", "down", "hydrate", "prefix", "truncate", "read"}
      BY <1>1, Zenon
    <2> QED
      BY <1>1, <1>2, <1>5, <2>1, <2>2, AcceptRests, Zenon
  <1>7. CASE log[L] # 0
    <2>1. \A o \in {L} : o \in snap.index + 1..Len(log) /\ log[o] # 0
      BY <1>3, <1>7, SMTT(30)
    <2>2. /\ DOMAIN cm' = DOMAIN cm \cup {L}
          /\ \A o \in DOMAIN cm \ {L} : Configs'[o] = Configs[o]
      BY <1>1, <1>7, <2>1, AddMeans, Zenon
    <2>3. DOMAIN Configs' = DOMAIN cm' /\ DOMAIN Configs = DOMAIN cm /\ DOMAIN cm \subseteq Nat
      BY Facts DEF Configs
    <2>4. Answers(Configs', s, snap.cfg)
      <3>1. PICK p \in DOMAIN cm : /\ p <= s /\ snap.cfg = Configs[p]
                                   /\ \A q \in DOMAIN cm : q <= s => q <= p
        BY <1>4, <2>3, Zenon DEF Answers
      <3>2. p # L /\ ~(L <= s)
        BY <1>3, <2>3, <3>1, SMTT(30)
      <3>3. p \in DOMAIN Configs' /\ Configs'[p] = snap.cfg
        BY <2>2, <2>3, <3>1, <3>2, Zenon
      <3> QED
        BY <2>2, <2>3, <3>1, <3>2, <3>3, Zenon DEF Answers
    <2>5. \A o \in DOMAIN kv.map : s < o => o \in DOMAIN cm'
      BY <1>1, <1>5, <2>2, Zenon DEF AcceptInv
    <2>6. raft' \notin {"failed", "down", "hydrate", "prefix", "truncate", "read"}
      BY <1>1, Zenon
    <2> QED
      BY <1>1, <1>2, <2>4, <2>5, <2>6, Zenon DEF AcceptInv
  <1> QED
    BY <1>6, <1>7, Zenon

\* The manager is truncated.
LEMMA TruncateAccepts ==
    ASSUME ManagerInv, AcceptInv, TruncateManager
    PROVE  AcceptInv'
  <1>1. /\ raft = "truncated" /\ Free /\ raft' = "truncating" /\ Truncate(Len(log) + 1)
        /\ log' = log /\ snap' = snap /\ kv' = kv /\ puts' = puts
    BY Zenon DEF TruncateManager
  <1>2. /\ End = Len(log) /\ End' = Len(log)
        /\ \A o \in DOMAIN cm : o <= Len(log) => o \in DOMAIN cm'
        /\ \A o \in 0..Len(log) : \A v : Answers(Configs, o, v) => Answers(Configs', o, v)
    BY <1>1, TruncateMeans, Zenon
  <1>3. snap.index \in 0..Len(log)
    <2>1. /\ End \in Nat /\ flushed <= End /\ flushed \in Nat
          /\ snap.index <= commit /\ commit <= flushed /\ commit \in Nat /\ snap.index \in Nat
      BY Facts, Zenon
    <2> QED
      BY <1>2, <2>1, SMTT(30)
  <1>4. Answers(Configs', snap.index, snap.cfg)
    BY <1>1, <1>2, <1>3, Zenon DEF AcceptInv, Running
  <1>5. \A o \in DOMAIN kv.map : snap.index < o /\ o <= Len(log) => o \in DOMAIN cm'
    BY <1>1, <1>2, Zenon DEF AcceptInv
  <1>6. raft' \notin {"failed", "down", "hydrate", "prefix", "truncate", "read"}
    BY <1>1, Zenon
  <1> QED
    BY <1>1, <1>2, <1>4, <1>5, <1>6, Zenon DEF AcceptInv

\* The configurations below the snapshot go.
LEMMA PrefixAccepts ==
    ASSUME HasLeast, ManagerInv, AcceptInv, TruncateManagerPrefix
    PROVE  AcceptInv'
  <1> DEFINE s == snap.index
  <1>1. /\ Running /\ Free /\ start = s + 1 /\ Min(DOMAIN cm) < s /\ PrefixTruncate(s)
        /\ log' = log /\ snap' = snap /\ kv' = kv /\ puts' = puts /\ raft' = raft /\ cut' = cut
    BY Zenon DEF TruncateManagerPrefix, history
  <1>2. s \in Nat /\ Len(log) \in Nat /\ s \in s..Len(log) /\ start - 1 = s
    <2>1. /\ End \in Nat /\ flushed <= End /\ flushed \in Nat /\ End <= Len(log)
          /\ s <= commit /\ commit <= flushed /\ commit \in Nat /\ s \in Nat /\ Len(log) \in Nat
      BY Facts, Zenon
    <2> QED
      BY <1>1, <2>1
  <1>3. \E p \in DOMAIN cm : p <= s
    BY <1>1, <1>2, Zenon DEF ManagerInv, RunInv
  <1>4. ~(Min(DOMAIN cm) >= s)
    <2>1. DOMAIN cm \in SUBSET Nat /\ DOMAIN cm # {}
      BY <1>3, Facts, SMTT(30)
    <2>2. \E x \in DOMAIN cm : \A y \in DOMAIN cm : x <= y
      BY <2>1, Zenon DEF HasLeast
    <2>3. Min(DOMAIN cm) \in DOMAIN cm
      BY <2>2, Zenon DEF Min
    <2>4. Min(DOMAIN cm) \in Nat
      BY <2>1, <2>3, Zenon
    <2> QED
      BY <1>1, <1>2, <2>4, SMTT(30)
  <1>5. raft # "down" /\ raft' # "down" /\ End' = End /\ Running'
    BY <1>1, Zenon DEF Running, End
  <1>6. /\ DOMAIN cm' = {s} \cup {q \in DOMAIN cm : q > s}
        /\ \A o \in s..Len(log) : \A v : Answers(Configs, o, v) => Answers(Configs', o, v)
    BY <1>1, <1>3, <1>4, <1>5, PrefixMeans, Zenon
  <1>7. Answers(Configs', s, snap.cfg)
    BY <1>1, <1>2, <1>6, Zenon DEF AcceptInv
  <1>8. \A o \in DOMAIN kv.map : s < o /\ o <= End => o \in DOMAIN cm'
    <2>1. \A o : s < o <=> o > s
      BY Zenon
    <2> QED
      BY <1>5, <1>6, <2>1, Zenon DEF AcceptInv
  <1>9. raft' \notin {"failed", "down", "hydrate", "prefix", "truncate", "read"}
    BY <1>1, Zenon DEF Running
  <1> QED
    BY <1>1, <1>5, <1>7, <1>8, <1>9, Zenon DEF AcceptInv

\* The snapshot takes the configuration that the manager has: one at its offset, if the
\* disk has one there.
LEMMA SnapshotAccepts ==
    ASSUME HasLeast, ManagerInv, AcceptInv, NEW o \in 1..MaxLog, WriteSnapshot(o)
    PROVE  AcceptInv'
  <1>1. /\ Running /\ o \in snap.index + 1..commit /\ start = snap.index + 1
        /\ snap' = [index |-> o, cfg |-> Get(o)]
        /\ log' = log /\ cm' = cm /\ kv' = kv /\ raft' = raft
    BY Zenon DEF WriteSnapshot, manager, store
  <1>2. snap'.index = o /\ snap'.cfg = Get(o)
    BY <1>1, Zenon
  <1>3. /\ Configs' = Configs /\ End' = End /\ Running' /\ raft # "down"
        /\ raft' \notin {"failed", "down", "hydrate", "prefix", "truncate", "read"}
    BY <1>1, Zenon DEF Configs, End, Running
  <1>4. /\ snap.index \in Nat /\ o \in Nat /\ snap.index < o /\ o <= End /\ o <= Len(log)
        /\ MaxLog \in Nat /\ start - 1 = snap.index
    <2>1. /\ snap.index \in Nat /\ commit \in Nat /\ End \in Nat /\ commit <= flushed
          /\ flushed <= End /\ flushed \in Nat /\ MaxLog \in Nat /\ End <= Len(log)
          /\ Len(log) \in Nat
      BY Facts, Zenon
    <2> QED
      BY <1>1, <2>1
  <1>5. DOMAIN cm \subseteq 0..MaxLog /\ DOMAIN Configs = DOMAIN cm /\ DOMAIN Configs \subseteq Nat
    BY Facts, SMTT(30)
  <1>6. Answers(Configs, o, Get(o))
    <2>1. PICK p \in DOMAIN cm : p <= start - 1
      BY <1>1, Zenon DEF ManagerInv, RunInv
    <2>2. p <= o
      BY <1>4, <1>5, <2>1, SMTT(30)
    <2> QED
      BY <1>4, <1>5, <2>2, GetAnswers, Zenon
  <1>7. o \in DOMAIN kv.map => kv.map[o] = Get(o)
    <2> SUFFICES ASSUME o \in DOMAIN kv.map
                 PROVE  kv.map[o] = Get(o)
      BY Zenon
    <2>1. o \in DOMAIN Configs
      BY <1>3, <1>4, <1>5, Zenon DEF AcceptInv
    <2>2. kv.map[o] = log[o] /\ Configs[o] = log[o]
      BY <1>3, <1>4, <2>1, ZenonT(40) DEF ManagerInv, TablesInv, Sound, Real
    <2> QED
      BY <1>4, <1>5, <1>6, <2>1, <2>2, AnswersHere, Zenon
  <1>8. \A x \in DOMAIN kv.map : o < x /\ x <= End => x \in DOMAIN cm
    <2>1. \A x \in DOMAIN kv.map : o < x => snap.index < x
      <3>1. DOMAIN kv.map \subseteq Nat
        BY Facts, SMTT(30)
      <3> QED
        BY <1>4, <3>1, SMTT(30)
    <2> QED
      BY <1>3, <2>1, Zenon DEF AcceptInv
  <1> QED
    BY <1>1, <1>2, <1>3, <1>6, <1>7, <1>8, Zenon DEF AcceptInv

\* A crash leaves the snapshot and the records.
LEMMA CrashAccepts ==
    ASSUME AcceptInv, Crash
    PROVE  AcceptInv'
  <1>1. raft' = "down" /\ snap' = snap /\ kv' = kv
    BY Zenon DEF Crash
  <1>2. raft' \notin {"failed", "hydrate", "prefix", "truncate", "read"} /\ ~Running'
    BY <1>1, Zenon DEF Running
  <1> QED
    BY <1>1, <1>2, Zenon DEF AcceptInv

\* The records are loaded.
LEMMA LoadAccepts ==
    ASSUME HasLeast, ManagerInv, AcceptInv, Load
    PROVE  AcceptInv'
  <1> DEFINE s == snap.index
             t == kv.map
  <1>1. /\ raft = "down" /\ raft' = "hydrate" /\ log' = log /\ snap' = snap /\ kv' = kv
    BY Zenon DEF Load, store
  <1>2. /\ DOMAIN cm = {0} /\ cm[0].cfg = 0 /\ highest = 0 /\ (s = 0 => snap.cfg = 0)
    BY <1>1, Zenon DEF ManagerInv, TablesInv, SnapInv
  <1>3. MaxLog \in Nat /\ kv.highest \in Nat /\ DOMAIN t \subseteq 0..MaxLog
    BY Facts, Zenon
  <1>4. /\ \A o \in DOMAIN t : o \in DOMAIN cm'
        /\ s \in DOMAIN cm' => Configs'[s] = snap.cfg
        /\ \A o \in DOMAIN cm' : o <= highest'
    <2>1. CASE DOMAIN t = {}
      <3>1. cm' = cm /\ highest' = Later(highest, kv.highest)
        BY <2>1, Zenon DEF Load
      <3>2. 0 <= highest'
        BY <1>2, <1>3, <3>1, SMTT(30) DEF Later
      <3> QED
        BY <1>2, <2>1, <3>1, <3>2, Zenon DEF Configs
    <2>2. CASE DOMAIN t # {}
      <3>1. /\ DOMAIN cm' = DOMAIN t /\ highest' = Later(Max(DOMAIN t), kv.highest)
            /\ \A o \in DOMAIN t : cm'[o].cfg = t[o]
        <4> DEFINE index(o) == kv.idx + Cardinality({p \in DOMAIN t : p < o})
        <4>1. /\ cm' = [o \in DOMAIN t |-> [cfg |-> t[o], idx |-> index(o)]]
              /\ highest' = Later(Max(DOMAIN t), kv.highest)
          BY <2>2, Zenon DEF Load
        <4> HIDE DEF index
        <4>2. /\ DOMAIN cm' = DOMAIN t
              /\ \A o \in DOMAIN t : cm'[o] = [cfg |-> t[o], idx |-> index(o)]
          BY <4>1, Zenon
        <4>3. ASSUME NEW o \in DOMAIN t
              PROVE  cm'[o].cfg = t[o]
          <5>1. cm'[o] = [cfg |-> t[o], idx |-> index(o)]
            BY <4>2, Zenon
          <5> HIDE DEF t
          <5> QED
            BY <5>1, SMTT(30)
        <4> QED
          BY <4>1, <4>2, <4>3, Zenon
      <3>2. Max(DOMAIN t) \in DOMAIN t /\ \A y \in DOMAIN t : y <= Max(DOMAIN t)
        BY <1>3, <2>2, MaxOf, Zenon
      <3>3. \A o \in DOMAIN t : o <= highest'
        <4>1. \A o \in DOMAIN t : o \in Nat
          BY <1>3
        <4>2. \A a, b, c \in Nat : a <= b => a <= Later(b, c)
          BY DEF Later
        <4> QED
          BY <1>3, <3>1, <3>2, <4>1, <4>2, Zenon
      <3>4. s \in DOMAIN t => t[s] = snap.cfg
        BY Zenon DEF AcceptInv
      <3> QED
        BY <3>1, <3>3, <3>4, Zenon DEF Configs
    <2> QED
      BY <2>1, <2>2, Zenon
  <1>5. raft' \notin {"failed", "down", "truncate", "read"} /\ ~Running'
    BY <1>1, Zenon DEF Running
  <1>6. s \in DOMAIN t => t[s] = snap.cfg
    BY Zenon DEF AcceptInv
  <1> QED
    BY <1>1, <1>4, <1>5, <1>6, Zenon DEF AcceptInv

\* The snapshot's configuration is there already, or it is added at a new offset.
LEMMA HydrateAccepts ==
    ASSUME ManagerInv, AcceptInv, Hydrate
    PROVE  AcceptInv'
  <1> DEFINE s == snap.index
  <1>1. /\ raft = "hydrate" /\ log' = log /\ snap' = snap /\ kv' = kv
    BY Zenon DEF Hydrate
  <1>2. s \in DOMAIN cm => cm[s].cfg = snap.cfg
    BY <1>1, Zenon DEF AcceptInv, Configs
  <1>3. raft' = "prefix"
    BY <1>2, Zenon DEF Hydrate
  <1>4. End' = End /\ ~Running' /\ raft # "down" /\ raft' \notin {"truncate", "read", "failed"}
    BY <1>1, <1>3, Zenon DEF End, Running
  <1>5. (\A o \in DOMAIN cm : o \in DOMAIN cm') /\ \A o \in DOMAIN cm' : o <= highest'
    <2>1. CASE s = 0 \/ s \in DOMAIN cm
      <3>1. cm' = cm /\ highest' = highest
        BY <1>2, <2>1, Zenon DEF Hydrate, manager
      <3> QED
        BY <1>1, <3>1, Zenon DEF AcceptInv
    <2>2. CASE ~(s = 0 \/ s \in DOMAIN cm)
      <3>1. DOMAIN cm' = DOMAIN cm \cup {s} /\ highest' = Later(highest, s)
        BY <2>2, Zenon DEF Hydrate
      <3>2. \A o \in DOMAIN cm : o <= highest /\ o \in Nat
        BY <1>1, Facts DEF AcceptInv
      <3>3. s \in Nat /\ highest \in Nat
        BY Facts, Zenon
      <3>4. \A o \in DOMAIN cm' : o <= highest'
        BY <3>1, <3>2, <3>3, SMTT(30) DEF Later
      <3> QED
        BY <3>1, <3>4, Zenon
    <2> QED
      BY <2>1, <2>2, Zenon
  <1>6. /\ s \in DOMAIN kv.map => kv.map[s] = snap.cfg
        /\ \A o \in DOMAIN kv.map : s < o /\ o <= End => o \in DOMAIN cm
    BY <1>4, Zenon DEF AcceptInv
  <1> QED
    BY <1>1, <1>3, <1>4, <1>5, <1>6, Zenon DEF AcceptInv

\* The log is read behind everything that the manager has.
LEMMA HydratePrefixAccepts ==
    ASSUME HasLeast, ManagerInv, AcceptInv, HydratePrefix
    PROVE  AcceptInv'
  <1> DEFINE s == snap.index
  <1>1. /\ raft = "prefix" /\ Free /\ raft' = "truncate" /\ PrefixTruncate(s)
        /\ read' = {o \in start'..Len(log) : log[o] # 0 /\ o > highest'} /\ start' = s + 1
        /\ log' = log /\ snap' = snap /\ kv' = kv /\ puts' = puts /\ cut' = cut
    BY Zenon DEF HydratePrefix, history
  <1>2. /\ End' = End /\ ~Running' /\ raft # "down" /\ raft' # "down"
        /\ raft' \notin {"hydrate", "prefix", "failed"}
    BY <1>1, Zenon DEF End, Running
  <1>3. s \in Nat /\ Len(log) \in Nat /\ highest \in Nat /\ s <= s
    BY Facts
  <1>4. s \in DOMAIN cm /\ \A o \in DOMAIN cm : o <= highest
    BY <1>1, Zenon DEF ManagerInv, StartInv, AcceptInv
  <1>5. \A o \in DOMAIN cm : o \in Nat
    BY Facts
  <1>6. /\ \A o \in DOMAIN cm : s < o => o \in DOMAIN cm'
        /\ \A o \in DOMAIN cm' : o \in Nat /\ o <= highest'
        /\ highest' \in Nat
    <2>1. CASE Min(DOMAIN cm) >= s
      <3>1. cm' = cm /\ highest' = highest
        BY <1>1, <2>1, Zenon DEF PrefixTruncate, manager
      <3> QED
        BY <1>3, <1>4, <1>5, <3>1, Zenon
    <2>2. CASE ~(Min(DOMAIN cm) >= s)
      <3>1. \E p \in DOMAIN cm : p <= s
        BY <1>3, <1>4, Zenon
      <3>2. /\ DOMAIN cm' = {s} \cup {q \in DOMAIN cm : q > s}
            /\ highest' = Later(s, highest) /\ highest' \in Nat
        BY <1>1, <1>2, <2>2, <3>1, PrefixMeans, Zenon
      <3>3. \A o \in DOMAIN cm' : o \in DOMAIN cm
        BY <1>4, <3>2, Zenon
      <3>4. \A o \in Nat : o <= highest => o <= highest'
        BY <1>3, <3>2, SMTT(30) DEF Later
      <3>5. \A o \in DOMAIN cm : s < o => o > s
        BY <1>3, <1>5
      <3> QED
        BY <1>4, <1>5, <3>2, <3>3, <3>4, <3>5, Zenon
    <2> QED
      BY <2>1, <2>2, Zenon
  <1>7. read' \cap DOMAIN cm' = {}
    <2>1. \A o \in DOMAIN cm' : ~(o > highest')
      BY <1>6
    <2> QED
      BY <1>1, <2>1, Zenon
  <1>8. /\ s \in DOMAIN kv.map => kv.map[s] = snap.cfg
        /\ \A o \in DOMAIN kv.map : s < o /\ o <= End => o \in DOMAIN cm
    BY <1>2, Zenon DEF AcceptInv
  <1> QED
    BY <1>1, <1>2, <1>6, <1>7, <1>8, Zenon DEF AcceptInv

\* The manager begins in the log, so it can be truncated at its end.
LEMMA StartTruncateAccepts ==
    ASSUME HasLeast, ManagerInv, AcceptInv, StartTruncate
    PROVE  AcceptInv'
  <1> DEFINE s == snap.index
  <1>1. /\ raft = "truncate" /\ Free /\ log' = log /\ snap' = snap /\ kv' = kv /\ puts' = puts
        /\ read' = read
    BY Zenon DEF StartTruncate
  <1>2. s \in DOMAIN cm /\ read \cap DOMAIN cm = {}
    BY <1>1, Zenon DEF ManagerInv, StartInv, AcceptInv
  <1>3. ~(Len(log) + 1 <= Min(DOMAIN cm))
    <2>1. /\ End \in Nat /\ flushed <= End /\ flushed \in Nat /\ End <= Len(log)
          /\ s <= commit /\ commit <= flushed /\ commit \in Nat /\ s \in Nat /\ Len(log) \in Nat
      BY Facts, Zenon
    <2>2. DOMAIN cm \in SUBSET Nat /\ DOMAIN cm # {}
      BY <1>2, Facts, SMTT(30)
    <2>3. \E x \in DOMAIN cm : \A y \in DOMAIN cm : x <= y
      BY <2>2, Zenon DEF HasLeast
    <2>4. Min(DOMAIN cm) \in DOMAIN cm /\ Min(DOMAIN cm) <= s
      BY <1>2, <2>3, Zenon DEF Min
    <2>5. Min(DOMAIN cm) \in Nat
      BY <2>2, <2>4, Zenon
    <2> QED
      BY <2>1, <2>4, <2>5, SMTT(30)
  <1>4. raft' = "read" /\ Truncate(Len(log) + 1)
    BY <1>3, Zenon DEF StartTruncate
  <1>5. /\ raft # "down" /\ raft # "appended" /\ End' = End /\ End = Len(log) /\ ~Running'
        /\ raft' \notin {"failed", "down", "hydrate", "prefix"}
    BY <1>1, <1>4, Zenon DEF End, Running
  <1>6. /\ \A o \in DOMAIN cm' : o \in DOMAIN cm
        /\ \A o \in DOMAIN cm : o <= Len(log) => o \in DOMAIN cm'
    BY <1>1, <1>4, <1>5, TruncateMeans, Zenon
  <1>7. /\ s \in DOMAIN kv.map => kv.map[s] = snap.cfg
        /\ \A o \in DOMAIN kv.map : s < o /\ o <= End => o \in DOMAIN cm
    BY <1>5, Zenon DEF AcceptInv
  <1> QED
    BY <1>1, <1>2, <1>4, <1>5, <1>6, <1>7, Zenon DEF AcceptInv

\* What was read is new to the manager.
LEMMA StartAddAccepts ==
    ASSUME ManagerInv, AcceptInv, StartAdd
    PROVE  AcceptInv'
  <1>1. raft = "read" /\ log' = log /\ snap' = snap /\ kv' = kv
    BY Zenon DEF StartAdd
  <1>2. Fits(read)
    BY <1>1, Zenon DEF AcceptInv, Fits
  <1>3. raft' = "adjust"
    BY <1>2, Zenon DEF StartAdd
  <1>4. /\ End' = End /\ ~Running' /\ raft # "down"
        /\ raft' \notin {"failed", "down", "hydrate", "prefix", "truncate", "read"}
    BY <1>1, <1>3, Zenon DEF End, Running
  <1>5. \A o \in DOMAIN cm : o \in DOMAIN cm'
    <2>1. CASE read = {}
      BY <2>1, Zenon DEF StartAdd, manager
    <2>2. CASE read # {}
      <3>1. Add(read)
        BY <1>2, <2>2, Zenon DEF StartAdd
      <3> QED
        BY <3>1, Zenon DEF Add
    <2> QED
      BY <2>1, <2>2, Zenon
  <1>6. /\ snap.index \in DOMAIN kv.map => kv.map[snap.index] = snap.cfg
        /\ \A o \in DOMAIN kv.map : snap.index < o /\ o <= End => o \in DOMAIN cm
    BY <1>4, Zenon DEF AcceptInv
  <1> QED
    BY <1>1, <1>4, <1>5, <1>6, Zenon DEF AcceptInv

\* The indices change, the configurations do not.
LEMMA StartAdjustAccepts ==
    ASSUME ManagerInv, AcceptInv, StartAdjust
    PROVE  AcceptInv'
  <1>1. raft = "adjust" /\ raft' = "idle" /\ log' = log /\ snap' = snap
    BY Zenon DEF StartAdjust
  <1>2. DOMAIN cm' = DOMAIN cm /\ Configs' = Configs /\ kv'.map = kv.map
    <2>1. CASE start > 1
      <3> DEFINE idx(o) == start - 1 + Cardinality({p \in DOMAIN cm : p < o})
      <3>1. /\ cm' = [o \in DOMAIN cm |-> [cm[o] EXCEPT !.idx = idx(o)]]
            /\ kv' = [kv EXCEPT !.idx = start - 1]
        BY <2>1, Zenon DEF StartAdjust
      <3> HIDE DEF idx
      <3>2. /\ DOMAIN cm' = DOMAIN cm
            /\ \A o \in DOMAIN cm : cm'[o] = [cm[o] EXCEPT !.idx = idx(o)]
        BY <3>1, Zenon
      <3>3. \A r, i : "cfg" \in DOMAIN r => [r EXCEPT !.idx = i].cfg = r.cfg
        OBVIOUS
      <3>4. \A o \in DOMAIN cm : cm'[o].cfg = cm[o].cfg
        BY <3>2, <3>3, Zenon DEF ManagerInv, TablesInv
      <3>5. DOMAIN kv = {"map", "idx", "highest"}
        BY Zenon DEF ManagerInv, TablesInv
      <3>6. kv'.map = kv.map
        BY <3>1, <3>5
      <3> QED
        BY <3>2, <3>4, <3>6, Zenon DEF Configs
    <2>2. CASE ~(start > 1)
      <3>1. cm' = cm /\ kv' = kv
        BY <2>2, Zenon DEF StartAdjust
      <3> QED
        BY <3>1, Zenon DEF Configs
    <2> QED
      BY <2>1, <2>2, Zenon
  <1>3. /\ End' = End /\ raft # "down"
        /\ raft' \notin {"failed", "down", "hydrate", "prefix", "truncate", "read"}
    BY <1>1, Zenon DEF End
  <1> QED
    BY <1>1, <1>2, <1>3, AcceptRests, Zenon

\* Every step keeps the second invariant.
LEMMA AcceptSteps ==
    ASSUME HasLeast, ManagerInv, ManagerInv', AcceptInv, [ManagerNext]_managerVars
    PROVE  AcceptInv'
  <1>1. CASE ManagerNext
    <2>1. AppendSteps => AcceptInv'
      <3>1. TRUE \in BOOLEAN /\ FALSE \in BOOLEAN
        OBVIOUS
      <3> QED
        BY <3>1, AddAccepts, LogAccepts, Zenon DEF AppendSteps
    <2>2. Snapshot => AcceptInv'
      BY SnapshotAccepts, PrefixAccepts, LogAccepts, Zenon DEF Snapshot
    <2>3. Start => AcceptInv'
      BY LoadAccepts, HydrateAccepts, HydratePrefixAccepts, StartTruncateAccepts,
         StartAddAccepts, StartAdjustAccepts, Zenon DEF Start
    <2>4. SubmitPut \/ Commit \/ TruncateDone \/ (\E o \in 1..MaxLog : TruncateLog(o))
             => AcceptInv'
      BY LogAccepts, Zenon
    <2> QED
      BY <1>1, <2>1, <2>2, <2>3, <2>4, PutDoneAccepts, TruncateAccepts, CrashAccepts,
         ZenonT(40) DEF ManagerNext
  <1>2. CASE UNCHANGED managerVars
    <2>1. CASE raft = "down"
      <3>1. raft' = "down" /\ snap' = snap /\ kv' = kv
        BY <1>2, <2>1, Zenon DEF managerVars, store
      <3>2. raft' \notin {"failed", "hydrate", "prefix", "truncate", "read"} /\ ~Running'
        BY <3>1, Zenon DEF Running
      <3> QED
        BY <3>1, <3>2, Zenon DEF AcceptInv
    <2>2. CASE raft # "down"
      BY <1>2, <2>2, LogAccepts, Zenon
    <2> QED
      BY <2>1, <2>2, Zenon
  <1> QED
    BY <1>1, <1>2, Zenon

\* The second invariant holds at first.
LEMMA AcceptStarts ==
    ASSUME ManagerInit
    PROVE  AcceptInv
  <1>1. /\ raft = "idle" /\ snap = [index |-> 0, cfg |-> 0]
        /\ cm = [o \in {0} |-> [cfg |-> 0, idx |-> 0]]
        /\ kv = [map |-> <<>>, idx |-> 0, highest |-> 0]
    BY Zenon DEF ManagerInit
  <1>2. snap.index = 0 /\ snap.cfg = 0 /\ DOMAIN kv.map = {}
    BY <1>1, SMTT(30)
  <1>3. DOMAIN cm = {0} /\ cm[0].cfg = 0
    BY <1>1
  <1>4. DOMAIN Configs = {0} /\ Configs[0] = 0
    BY <1>3, Zenon DEF Configs
  <1>5. Answers(Configs, 0, 0)
    <2>1. DOMAIN Configs \subseteq Nat /\ 0 \in Nat
      BY <1>4
    <2> QED
      BY <1>4, <2>1, AnswersHere, Zenon
  <1> QED
    BY <1>1, <1>2, <1>5, Zenon DEF AcceptInv

---------------------------------------------------------------------------
\* The theorems.

LOCAL INSTANCE WellFoundedInduction

\* A set of numbers has a least one.
LEMMA LeastNumber == HasLeast
  <1> SUFFICES ASSUME NEW T \in SUBSET Nat, T # {}
               PROVE  \E x \in T : \A y \in T : x <= y
    BY Zenon DEF HasLeast
  <1>1. \E x \in T : \A y \in T : ~(<<y, x>> \in OpToRel(<, Nat))
    BY NatLessThanWellFounded, WFMin, Zenon
  <1>2. PICK x \in T : \A y \in T : ~(<<y, x>> \in OpToRel(<, Nat))
    BY <1>1, Zenon
  <1>3. \A y \in T : ~(y < x)
    BY <1>2, Zenon DEF OpToRel
  <1> QED
    BY <1>3

\* The tables in memory and in the records stay sound, whichever of the records was
\* written last and wherever a crash falls.
THEOREM ManagerInvariant == ManagerSpec => []ManagerInv
  <1>1. ManagerInit => ManagerInv
    BY ManagerStarts, Zenon
  <1>2. ManagerInv /\ [ManagerNext]_managerVars => ManagerInv'
    BY ManagerSteps, LeastNumber, Zenon
  <1> QED
    BY <1>1, <1>2, PTL DEF ManagerSpec

\* configuration_manager has the configurations of the log and no other when the group
\* is idle, for any log, any number of crashes and any order of the writes.
THEOREM ManagerMatchesLog == ManagerSpec => []ConfigurationsMatchLog
  <1>1. ManagerInv => ConfigurationsMatchLog
    <2> SUFFICES ASSUME ManagerInv, raft = "idle"
                 PROVE  /\ Missed \subseteq cut
                        /\ \A o \in DOMAIN cm :
                              o >= start => o <= Len(log) /\ log[o] = cm[o].cfg
      BY Zenon DEF ConfigurationsMatchLog
    <2>1. Running /\ End = Len(log)
      BY Zenon DEF Running, End
    <2>2. /\ Real(Configs, log, start - 1) /\ Known(Configs, Len(log), log, start - 1, cut)
          /\ DOMAIN cm \subseteq 0..Len(log)
      BY <2>1, Zenon DEF ManagerInv, RunInv, EndsInv
    <2>3. /\ Len(log) \in Nat /\ start \in Nat /\ start > 0 /\ DOMAIN Configs = DOMAIN cm
          /\ \A o \in DOMAIN cm : Configs[o] = cm[o].cfg
      BY Facts, Zenon
    <2>4. \A o \in start..Len(log) : o \in start - 1 + 1..Len(log) /\ o <= Len(log)
      BY <2>3
    <2>5. Missed \subseteq cut
      BY <2>2, <2>3, <2>4, Zenon DEF Missed, ConfigOffsets, Known
    <2>6. \A o \in DOMAIN cm : o <= Len(log) /\ (o >= start => start - 1 < o)
      BY <2>2, <2>3, SMTT(30)
    <2>7. \A o \in DOMAIN cm : o >= start => log[o] = cm[o].cfg
      BY <2>2, <2>3, <2>6, Zenon DEF Real
    <2> QED
      BY <2>5, <2>6, <2>7, Zenon
  <1> QED
    BY <1>1, ManagerInvariant, PTL

\* get() returns the configuration that the log puts in force at the offset, unless a
\* start has left a configuration out.
THEOREM ManagerGetsRight == ManagerSpec => []GetIsRight
  <1>1. ManagerInv => GetIsRight
    <2> SUFFICES ASSUME ManagerInv, raft = "idle", ~lost, NEW o \in start - 1..Len(log)
                 PROVE  Get(o) = InForce(o)
      BY Zenon DEF GetIsRight
    <2>1. Running /\ End = Len(log)
      BY Zenon DEF Running, End
    <2>2. Answers(Configs, o, InForce(o))
      BY <2>1, Zenon DEF ManagerInv, RunInv
    <2>3. DOMAIN cm \subseteq Nat
      BY Facts
    <2> QED
      BY <2>2, <2>3, AnswerIsGet, Zenon
  <1> QED
    BY <1>1, ManagerInvariant, PTL

\* add() and truncate() never refuse an offset: no append, no truncation and no start of
\* the group throws, wherever the crash before it fell.
THEOREM ManagerNeverThrows == ManagerSpec => []NeverThrows
  <1>1. ManagerInit => AcceptInv
    BY AcceptStarts, Zenon
  <1>2. ManagerInv /\ ManagerInv' /\ AcceptInv /\ [ManagerNext]_managerVars => AcceptInv'
    BY AcceptSteps, LeastNumber, Zenon
  <1>3. ManagerInv /\ AcceptInv => NeverThrows
    <2> SUFFICES ASSUME ManagerInv, AcceptInv
                 PROVE  NeverThrows
      BY Zenon
    <2>1. raft = "appended" => Fits({Len(log)})
      <3> SUFFICES ASSUME raft = "appended"
                   PROVE  Len(log) \notin DOMAIN cm
        BY Zenon DEF Fits
      <3>1. End = Len(log) - 1 /\ DOMAIN cm \subseteq 0..End
        BY Zenon DEF End, ManagerInv, EndsInv
      <3>2. Len(log) \in Nat
        BY Facts, Zenon
      <3> QED
        BY <3>1, <3>2, SMTT(30)
    <2>2. raft = "truncated" => Min(DOMAIN cm) <= Len(log)
      <3> SUFFICES ASSUME raft = "truncated"
                   PROVE  Min(DOMAIN cm) <= Len(log)
        BY Zenon
      <3>1. PICK p \in DOMAIN cm : p <= start - 1
        BY Zenon DEF ManagerInv, RunInv, Running
      <3>2. DOMAIN cm \in SUBSET Nat /\ DOMAIN cm # {}
        BY <3>1, Facts
      <3>3. \E x \in DOMAIN cm : \A y \in DOMAIN cm : x <= y
        BY <3>2, LeastNumber, Zenon DEF HasLeast
      <3>4. Min(DOMAIN cm) \in DOMAIN cm /\ Min(DOMAIN cm) <= p
        BY <3>3, Zenon DEF Min
      <3>5. Min(DOMAIN cm) \in Nat /\ p \in Nat
        BY <3>2, <3>4, Zenon
      <3>6. /\ start - 1 <= snap.index /\ snap.index <= commit /\ commit <= flushed
            /\ flushed <= End /\ End <= Len(log) /\ End \in Nat /\ Len(log) \in Nat
            /\ start - 1 \in Nat /\ snap.index \in Nat /\ commit \in Nat /\ flushed \in Nat
        BY Facts, Zenon
      <3> QED
        BY <3>1, <3>4, <3>5, <3>6, SMTT(30)
    <2> QED
      BY <2>1, <2>2, Zenon DEF NeverThrows, AcceptInv
  <1> QED
    BY <1>1, <1>2, <1>3, ManagerInvariant, PTL DEF ManagerSpec

=============================================================================
