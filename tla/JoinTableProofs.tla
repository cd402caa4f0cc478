---------------------------- MODULE JoinTableProofs ----------------------------
(***************************************************************************)
(* Theorems about JoinTable: what stream:join emits, for any streams, keys *)
(* and parameters.                                                         *)
(***************************************************************************)
EXTENDS JoinTableProperties, SequenceTheorems, FiniteSetTheorems, TLAPS

\* The parameters were accepted.
Opened == phase \in {"build", "probe", "post"} \/ result \in {"limit", "canceled", "ok"}

\* The join was not stopped, up to now or up to its end.
Exact == ~cancelled /\ (phase \in {"probe", "post"} \/ result = "ok")

\* The types of what the proofs follow, and what the stages exclude.
TypeInv ==
  /\ params \in AllParams /\ input \in Inputs
  /\ phase \in {"parse", "build", "probe", "post", "done"}
  /\ phase = "done" <=> result # "none"
  /\ pos \in [Streams -> Nat] /\ \A s \in Streams : pos[s] <= Len(input[s])
  /\ worker \in [Streams -> {"read", "report", "insert", "ended", "left"}]
  /\ Opened => Accepted
  /\ phase = "parse" => pos = [s \in Streams |-> 0] /\ worker = [s \in Streams |-> "read"] /\ table = {}
  /\ ~Opened \/ phase = "build" => pending = {} /\ out = {} /\ joined = 0 /\ processed = 0 /\ matched = {}
  /\ phase # "post" /\ ~cancelled => todo = {}

\* The table holds records of the build streams, with their keys.
TableInv ==
  Opened => \A e \in table : \E s \in BuildStreams : \E i \in 1..Len(input[s]) : e = <<s, i>> /\ Key(s, i) # NoKey

\* What the build streams' goroutines have done with what they took.
BuildInv ==
  phase = "build" =>
    /\ pos[Probe] = 0 /\ worker[Probe] = "read"
    /\ \A s \in BuildStreams : worker[s] = "insert" => pos[s] \in 1..Len(input[s]) /\ Key(s, pos[s]) # NoKey
    /\ ~Stopped => \A s \in BuildStreams :
         /\ worker[s] # "left" /\ (worker[s] = "ended" => pos[s] = Len(input[s]))
         /\ \A i \in 1..pos[s] : Key(s, i) # NoKey => <<s, i>> \in table \/ (worker[s] = "insert" /\ i = pos[s])

\* The build streams were read to their ends and the table holds every record with a key.
Complete == \A s \in BuildStreams :
  /\ pos[s] = Len(input[s])
  /\ \A i \in 1..Len(input[s]) : Key(s, i) # NoKey => <<s, i>> \in table

\* What the probe records so far have met.
MatchInv ==
  /\ Exact =>
       /\ Complete
       /\ \A i \in 1..pos[Probe] : Key(Probe, i) \in TableKeys => Key(Probe, i) \in matched
       /\ \A k \in matched : \E i \in 1..pos[Probe] : Key(Probe, i) = k
       /\ phase = "post" \/ result = "ok" => pos[Probe] = Len(input[Probe])
  /\ phase = "post" => params.joinType \in {"right", "outer"} /\ todo \subseteq TableKeys
  /\ result = "ok" => pending = {}

\* The rows due by now: those of the probe records taken, and, when the probe
\* stream is over, those without one on the keys looked at.
Late == phase = "post" \/ result = "ok"
Due == {c \in Reference : \/ c[Probe] \in 1..pos[Probe]
                          \/ Late /\ \E k \in AllKeys \ todo : c \in Rows(k) /\ c[Probe] = 0}

\* Nothing but rows of the join is emitted, or about to be.
SoundInv == Opened => pending \subseteq Reference /\ out \subseteq Reference

\* An undisturbed join has emitted what is due, or is about to, each row once.
DueInv ==
  Exact => /\ out \cup pending = Due /\ out \cap pending = {}
           /\ IsFiniteSet(out) /\ joined = Cardinality(out) /\ processed = pos[Probe]

\* The records taken so far from some streams, each as its stream and its place.
Taken(S) == UNION {{s} \X (1..pos[s]) : s \in S}
Keyless == {e \in Taken(Streams) : Key(e[1], e[2]) = NoKey}

\* The summary counts what was taken, until the join is stopped.
CountInv ==
  /\ phase = "parse" => total = 0 /\ skipped = 0
  /\ (phase = "build" /\ ~Stopped) \/ Exact =>
       /\ IsFiniteSet(Taken(BuildStreams)) /\ total = Cardinality(Taken(BuildStreams))
       /\ IsFiniteSet(Keyless) /\ skipped = Cardinality(Keyless)
       /\ params.max > 0 => total <= params.max

IInv == TypeInv /\ TableInv /\ BuildInv /\ MatchInv /\ SoundInv /\ DueInv /\ CountInv
-----------------------------------------------------------------------------
(* Parameters, keys and rows.                                              *)

\* Streams are sequences of raw keys, and accepted entries name each stream once,
\* one of them as the probe.
LEMMA Cover ==
  ASSUME params \in AllParams, Accepted
  PROVE  Probe \in Streams /\ BuildStreams = Streams \ {Probe}
<1> DEFINE n == Len(Entries)
           f == [i \in 1..n |-> Entries[i].stream]
           T == {Entries[i].stream : i \in 1..n}
<1>1. Entries \in Seq(EntryRecords)
  BY JoinAssumption DEF Entries
<1>2. n \in Nat /\ DOMAIN Entries = 1..n /\ \A i \in 1..n : Entries[i] \in EntryRecords
  BY <1>1, LenProperties, ElementOfSeq
<1> HIDE DEF n
<1>3. /\ n = Cardinality(Streams)
      /\ \A i, j \in 1..n : Entries[i].stream = Entries[j].stream => i = j
      /\ \A i \in 1..n : Entries[i].stream \in Streams
      /\ Cardinality({i \in 1..n : Entries[i].role = "probe"}) = 1
  BY <1>2 DEF Accepted, n
<1>4. T = Streams
  <2>1. f \in Bijection(1..n, T)
    BY <1>3 DEF Bijection, Injection, Surjection, IsInjective
  <2>2. ExistsBijection(1..n, T)
    BY <2>1 DEF ExistsBijection
  <2>3. IsFiniteSet(1..n) /\ Cardinality(1..n) = n
    BY <1>2, FS_Interval
  <2> HIDE DEF f, T
  <2>4. IsFiniteSet(T) /\ Cardinality(T) = n
    BY <2>2, <2>3, FS_Bijection
  <2>5. T \in SUBSET Streams
    BY <1>3 DEF T
  <2> QED
    BY <2>4, <2>5, <1>3, JoinAssumption, FS_Subset
<1>5. PICK p \in 1..n : {i \in 1..n : Entries[i].role = "probe"} = {p}
  <2>1. IsFiniteSet({i \in 1..n : Entries[i].role = "probe"})
    <3>1. {i \in 1..n : Entries[i].role = "probe"} \in SUBSET (1..n)
      OBVIOUS
    <3> QED
      BY <3>1, <1>2, FS_Interval, FS_Subset
  <2>2. PICK p : {i \in 1..n : Entries[i].role = "probe"} = {p}
    BY <2>1, <1>3, FS_Singleton
  <2> QED
    BY <2>2
<1>6. Probe = Entries[p].stream
  <2>1. Entries[p].stream \in Streams /\ Entries[p] = [Entries[p] EXCEPT !.stream = Entries[p].stream, !.role = "probe"]
    BY <1>2, <1>3, <1>5 DEF EntryRecords
  <2>2. ASSUME NEW s \in Streams, NEW i \in 1..n, Entries[i] = [Entries[i] EXCEPT !.stream = s, !.role = "probe"]
        PROVE  s = Entries[p].stream
    <3>1. Entries[i].role = "probe" /\ Entries[i].stream = s
      BY <2>2, <1>2 DEF EntryRecords
    <3> QED
      BY <3>1, <1>5
  <2> QED
    BY <2>1, <2>2, <1>2 DEF Probe
<1>7. BuildStreams = Streams \ {Probe}
  <2>1. BuildStreams = {Entries[i].stream : i \in {j \in 1..n : j # p}}
    <3>1. {j \in DOMAIN Entries : Entries[j].role # "probe"} = {j \in 1..n : j # p}
      BY <1>2, <1>5
    <3> QED
      BY <3>1 DEF BuildStreams
  <2> QED
    BY <2>1, <1>3, <1>4, <1>6
<1> QED
  BY <1>3, <1>6, <1>7

LEMMA Carried ==
  ASSUME input \in Inputs, NEW s \in Streams
  PROVE  /\ input[s] \in Seq(RawKeys) /\ Len(input[s]) \in Nat /\ DOMAIN input[s] = 1..Len(input[s])
         /\ \A k : With(s, k) = {i \in 1..Len(input[s]) : Key(s, i) = k}
         /\ \A i \in 0..Len(input[s]) : i \in Indices
         /\ \A i \in 1..Len(input[s]) : Key(s, i) # NoKey => Key(s, i) \in AllKeys
<1>1. input[s] \in Seq(RawKeys)
  BY JoinAssumption
<1>2. Len(input[s]) \in Nat /\ DOMAIN input[s] = 1..Len(input[s])
  BY <1>1, LenProperties
<1>3. ASSUME NEW i \in 0..Len(input[s]) PROVE i \in Indices
  <2>1. 0..Len(input[s]) \in {0..Len(input[t]) : t \in Streams}
    OBVIOUS
  <2> QED
    BY <1>3, <2>1, Zenon DEF Indices
<1>4. \A i \in 1..Len(input[s]) : Key(s, i) # NoKey => Key(s, i) \in AllKeys
  BY <1>2 DEF AllKeys
<1> QED
  BY <1>1, <1>2, <1>3, <1>4 DEF With

\* Which sides a row on a key has, and which sides the join type wants.
Wanted(k) ==
  CASE params.joinType = "inner" -> \A s \in Streams : With(s, k) # {}
    [] params.joinType = "left" -> With(Probe, k) # {}
    [] params.joinType = "right" -> {s \in Streams : With(s, k) # {}} # {Probe}
    [] OTHER -> TRUE

LEMMA Row ==
  ASSUME params \in AllParams, Accepted, NEW k, NEW c
  PROVE  c \in Rows(k) <=> /\ Wanted(k) /\ c \in [Streams -> Indices]
                           /\ \A s \in Streams : c[s] \in IF With(s, k) = {} THEN {0} ELSE With(s, k)
<1> DEFINE sides == {s \in Streams : With(s, k) # {}}
<1>1. Probe \in Streams
  BY Cover
<1>2. (sides = Streams <=> \A s \in Streams : With(s, k) # {}) /\ (Probe \in sides <=> With(Probe, k) # {})
  BY <1>1
<1>3. (CASE params.joinType = "inner" -> sides = Streams
         [] params.joinType = "left" -> Probe \in sides
         [] params.joinType = "right" -> sides # {Probe}
         [] OTHER -> TRUE) <=> Wanted(k)
  BY <1>2 DEF Wanted
<1> QED
  BY <1>3 DEF Rows

\* The table is complete: what it finds under a key is what the streams have.
LEMMA Table ==
  ASSUME TypeInv, TableInv, Opened, Complete
  PROVE  /\ NoKey \notin TableKeys
         /\ \A k : k # NoKey => /\ Found(k) = [s \in BuildStreams |-> With(s, k)]
                                /\ k \in TableKeys <=> \E s \in BuildStreams : With(s, k) # {}
<1>1. BuildStreams \subseteq Streams
  BY Cover DEF TypeInv
<1>2. \A e \in table : \E s \in BuildStreams : \E i \in 1..Len(input[s]) : e = <<s, i>> /\ Key(s, i) # NoKey
  BY DEF TableInv
<1>3. \A e \in table : Key(e[1], e[2]) # NoKey
  BY <1>2
<1>4. ASSUME NEW k, k # NoKey PROVE Found(k) = [s \in BuildStreams |-> With(s, k)]
  <2>1. ASSUME NEW s \in BuildStreams
        PROVE  {i \in DOMAIN input[s] : <<s, i>> \in table /\ Key(s, i) = k} = With(s, k)
    <3>1. DOMAIN input[s] = 1..Len(input[s])
      BY <1>1, Carried DEF TypeInv
    <3> QED
      BY <3>1, <1>4 DEF With, Complete
  <2> QED
    BY <2>1 DEF Found
<1>5. ASSUME NEW k, k # NoKey PROVE k \in TableKeys <=> \E s \in BuildStreams : With(s, k) # {}
  <2>1. ASSUME k \in TableKeys PROVE \E s \in BuildStreams : With(s, k) # {}
    <3>1. PICK e \in table : k = Key(e[1], e[2])
      BY <2>1 DEF TableKeys
    <3>2. PICK s \in BuildStreams : \E i \in 1..Len(input[s]) : e = <<s, i>>
      BY <1>2
    <3>3. PICK i \in 1..Len(input[s]) : e = <<s, i>>
      BY <3>2
    <3>4. i \in With(s, k)
      BY <3>1, <3>3, <1>1, Carried DEF TypeInv
    <3> QED
      BY <3>4
  <2>2. ASSUME NEW s \in BuildStreams, With(s, k) # {} PROVE k \in TableKeys
    <3>1. PICK i \in 1..Len(input[s]) : Key(s, i) = k
      BY <2>2, <1>1, Carried DEF TypeInv
    <3>2. <<s, i>> \in table
      BY <3>1, <1>5 DEF Complete
    <3> QED
      BY <3>1, <3>2 DEF TableKeys
  <2> QED
    BY <2>1, <2>2
<1> QED
  BY <1>3, <1>4, <1>5 DEF TableKeys

\* The rows of a probe record, whether its key is in the table or not.
LEMMA Probed ==
  ASSUME TypeInv, TableInv, Opened, Complete, NEW p \in 1..Len(input[Probe]),
         NEW k, k = Key(Probe, p), k # NoKey
  PROVE  /\ k \in TableKeys => Combinations(p, Found(k)) = {c \in Reference : c[Probe] = p}
         /\ k \notin TableKeys =>
              (IF params.joinType \in {"left", "outer"} THEN Combinations(p, [s \in BuildStreams |-> {}]) ELSE {})
                = {c \in Reference : c[Probe] = p}
<1>1. Probe \in Streams /\ BuildStreams = Streams \ {Probe} /\ params \in AllParams /\ Accepted /\ input \in Inputs
  BY Cover DEF TypeInv
<1>2. /\ k \in AllKeys /\ p \in With(Probe, k) /\ p \in Indices /\ p # 0 /\ Len(input[Probe]) \in Nat
      /\ \A m : p \in With(Probe, m) => m = k
  BY <1>1, Carried
<1>3. {c \in Reference : c[Probe] = p} = {c \in Rows(k) : c[Probe] = p}
  <2>1. ASSUME NEW m \in AllKeys, NEW c \in Rows(m), c[Probe] = p PROVE m = k
    BY <2>1, <1>1, <1>2, Row
  <2> QED
    BY <2>1, <1>2 DEF Reference
<1>4. params.joinType \in {"inner", "left", "right", "outer"}
  BY <1>1 DEF Accepted
<1>5. /\ Found(k) = [s \in BuildStreams |-> With(s, k)]
      /\ k \in TableKeys <=> \E s \in BuildStreams : With(s, k) # {}
  BY Table
<1>6. ASSUME NEW c
      PROVE  c \in Rows(k) /\ c[Probe] = p <=>
               /\ Wanted(k) /\ c \in [Streams -> Indices] /\ c[Probe] = p
               /\ \A s \in BuildStreams : c[s] \in IF With(s, k) = {} THEN {0} ELSE With(s, k)
  BY <1>1, <1>2, Row
<1>7. CASE k \in TableKeys
  <2>1. Wanted(k) <=> ~(params.joinType = "inner" /\ \E s \in BuildStreams : With(s, k) = {})
    BY <1>1, <1>2, <1>4, <1>5, <1>7 DEF Wanted
  <2>2. ASSUME NEW c
        PROVE  c \in Combinations(p, Found(k)) <=>
                 /\ ~(params.joinType = "inner" /\ \E s \in BuildStreams : With(s, k) = {})
                 /\ c \in [Streams -> Indices] /\ c[Probe] = p
                 /\ \A s \in BuildStreams : c[s] \in IF With(s, k) = {} THEN {0} ELSE With(s, k)
    BY <1>5 DEF Combinations
  <2>3. Combinations(p, Found(k)) = {c \in Rows(k) : c[Probe] = p}
    BY <1>6, <2>1, <2>2
  <2> QED
    BY <1>3, <1>7, <2>3
<1>8. CASE k \notin TableKeys
  <2>1. \A s \in BuildStreams : With(s, k) = {}
    BY <1>5, <1>8
  <2>2. {s \in Streams : With(s, k) # {}} = {Probe}
    BY <1>1, <1>2, <2>1
  <2>3. Wanted(k) <=> params.joinType \in {"left", "outer"}
    <3>1. BuildStreams # {}
      <4>1. Len(Entries) >= 2 /\ Len(Entries) = Cardinality(Streams)
        BY <1>1 DEF Accepted
      <4>2. Cardinality({Probe}) = 1
        BY FS_Singleton
      <4>3. Cardinality(Streams) # Cardinality({Probe})
        BY <4>1, <4>2
      <4>4. Streams # {Probe}
        BY <4>3, Zenon
      <4> QED
        BY <1>1, <4>4
    <3> QED
      BY <1>1, <1>2, <1>4, <2>1, <2>2, <3>1 DEF Wanted
  <2>4. ASSUME params.joinType \in {"left", "outer"}
        PROVE  Combinations(p, [s \in BuildStreams |-> {}]) = {c \in Rows(k) : c[Probe] = p}
    <3>1. ASSUME NEW c
          PROVE  c \in Rows(k) /\ c[Probe] = p <=>
                   /\ c \in [Streams -> Indices] /\ c[Probe] = p
                   /\ \A s \in BuildStreams : c[s] \in {0}
      BY <1>6, <2>1, <2>3, <2>4
    <3>2. ASSUME NEW c
          PROVE  c \in Rows(k) /\ c[Probe] = p <=> c \in Combinations(p, [s \in BuildStreams |-> {}])
      <4>1. c \in Combinations(p, [s \in BuildStreams |-> {}]) <=>
              /\ c \in [Streams -> Indices] /\ c[Probe] = p
              /\ \A s \in BuildStreams : c[s] \in {0}
        BY <2>4 DEF Combinations
      <4> QED
        BY <4>1, <3>1
    <3> QED
      BY <3>2
  <2>5. params.joinType \notin {"left", "outer"} => {c \in Rows(k) : c[Probe] = p} = {}
    BY <1>6, <2>3
  <2> QED
    BY <1>3, <1>8, <2>4, <2>5
<1> QED
  BY <1>7, <1>8

\* The rows without a probe record: those of the keys of the table that no probe
\* record has, for the join types that want them.
LEMMA Unmatched ==
  ASSUME TypeInv, TableInv, Opened, Complete, NEW k \in AllKeys
  PROVE  /\ k \in TableKeys /\ params.joinType \in {"right", "outer"} /\ With(Probe, k) = {} =>
              Combinations(0, Found(k)) = {c \in Rows(k) : c[Probe] = 0}
         /\ k \notin TableKeys \/ params.joinType \notin {"right", "outer"} \/ With(Probe, k) # {} =>
              {c \in Rows(k) : c[Probe] = 0} = {}
<1>1. Probe \in Streams /\ BuildStreams = Streams \ {Probe} /\ params \in AllParams /\ Accepted /\ input \in Inputs
  BY Cover DEF TypeInv
<1>2. params.joinType \in {"inner", "left", "right", "outer"}
  BY <1>1 DEF Accepted
<1>3. k # NoKey /\ 0 \in Indices /\ 0 \notin With(Probe, k)
  <2>1. Len(input[Probe]) \in Nat /\ With(Probe, k) = {i \in 1..Len(input[Probe]) : Key(Probe, i) = k}
    BY <1>1, Carried
  <2>2. 0 \in 0..Len(input[Probe])
    BY <2>1
  <2>3. 0 \in Indices
    BY <1>1, <2>2, Carried
  <2>4. k # NoKey
    BY DEF AllKeys
  <2>5. 0 \notin With(Probe, k)
    BY <2>1
  <2> QED
    BY <2>3, <2>4, <2>5
<1>4. /\ Found(k) = [s \in BuildStreams |-> With(s, k)]
      /\ k \in TableKeys <=> \E s \in BuildStreams : With(s, k) # {}
  BY <1>3, Table
<1>5. ASSUME k \in TableKeys, params.joinType \in {"right", "outer"}, With(Probe, k) = {}
      PROVE  Combinations(0, Found(k)) = {c \in Rows(k) : c[Probe] = 0}
  <2>1. Wanted(k)
    BY <1>1, <1>4, <1>5 DEF Wanted
  <2>2. ASSUME NEW c
        PROVE  c \in Combinations(0, Found(k)) <=>
                 /\ c \in [Streams -> Indices] /\ c[Probe] = 0
                 /\ \A s \in BuildStreams : c[s] \in IF With(s, k) = {} THEN {0} ELSE With(s, k)
    BY <1>4, <1>5 DEF Combinations
  <2>3. ASSUME NEW c
        PROVE  c \in Rows(k) /\ c[Probe] = 0 <=>
                 /\ c \in [Streams -> Indices] /\ c[Probe] = 0
                 /\ \A s \in BuildStreams : c[s] \in IF With(s, k) = {} THEN {0} ELSE With(s, k)
    BY <1>1, <1>5, <2>1, Row
  <2> QED
    BY <2>2, <2>3
<1>6. ASSUME NEW c \in Rows(k), c[Probe] = 0
      PROVE  With(Probe, k) = {} /\ params.joinType \in {"right", "outer"} /\ k \in TableKeys
  <2>1. Wanted(k) /\ With(Probe, k) = {}
    BY <1>1, <1>3, <1>6, Row
  <2>2. params.joinType \in {"right", "outer"}
    BY <1>1, <1>2, <2>1 DEF Wanted
  <2>3. \E s \in Streams : With(s, k) # {}
    BY DEF AllKeys, With
  <2> QED
    BY <1>1, <1>4, <2>1, <2>2, <2>3
<1> QED
  BY <1>5, <1>6

\* Two keys have no row in common.
LEMMA Apart ==
  ASSUME TypeInv, Opened, NEW k \in AllKeys, NEW m \in AllKeys, NEW c \in Rows(k), c \in Rows(m)
  PROVE  k = m
<1>1. params \in AllParams /\ Accepted /\ input \in Inputs
  BY DEF TypeInv
<1>2. PICK s \in Streams : With(s, k) # {}
  BY DEF AllKeys, With
<1>3. c[s] \in With(s, k)
  BY <1>1, <1>2, Row
<1>4. With(s, k) = {i \in 1..Len(input[s]) : Key(s, i) = k} /\ With(s, m) = {i \in 1..Len(input[s]) : Key(s, i) = m}
      /\ Len(input[s]) \in Nat
  BY <1>1, Carried
<1>5. c[s] \in With(s, m)
  <2>1. c[s] # 0
    BY <1>3, <1>4
  <2> QED
    BY <2>1, <1>1, Row
<1> QED
  BY <1>3, <1>4, <1>5

-----------------------------------------------------------------------------
(* What a step leaves alone.                                               *)

\* No step changes the parameters or the streams.
LEMMA Same ==
  ASSUME [Next]_vars
  PROVE  /\ params' = params /\ input' = input
         /\ Accepted' = Accepted /\ Probe' = Probe /\ BuildStreams' = BuildStreams
         /\ AllKeys' = AllKeys /\ Reference' = Reference
         /\ \A s, i : Key(s, i)' = Key(s, i)
         /\ \A s, k : With(s, k)' = With(s, k)
         /\ \A k : Rows(k)' = Rows(k)
<1>1. params' = params /\ input' = input
  BY DEF Next, BuildStep, ProbeStep, PostStep, Parse, TakeBuild, ReportBuild, Insert, EndOfBuild, Built,
         TakeProbe, ReportProbe, Emit, EndOfProbe, PostKey, PostOver, Cancel, Ended, vars
<1>2. Accepted' = Accepted
  BY <1>1 DEF Accepted, Entries
<1>3. Probe' = Probe
  BY <1>1 DEF Probe, Entries
<1>4. BuildStreams' = BuildStreams
  BY <1>1 DEF BuildStreams, Entries
<1>5. \A s, i : Key(s, i)' = Key(s, i)
  BY <1>1 DEF Key
<1>6. AllKeys' = AllKeys
  BY <1>1, <1>5 DEF AllKeys
<1>7. \A s, k : With(s, k)' = With(s, k)
  BY <1>1, <1>5 DEF With
<1>8. \A k : Rows(k)' = Rows(k)
  <2>1. Indices' = Indices
    BY <1>1 DEF Indices
  <2> TAKE k
  <2>2. {s \in Streams : With(s, k)' # {}} = {s \in Streams : With(s, k) # {}}
    BY <1>7
  <2>3. \A c : (\A s \in Streams : c[s] \in IF s \in {t \in Streams : With(t, k)' # {}} THEN With(s, k)' ELSE {0}) <=>
               (\A s \in Streams : c[s] \in IF s \in {t \in Streams : With(t, k) # {}} THEN With(s, k) ELSE {0})
    BY <1>7
  <2> QED
    BY <1>1, <1>3, <2>1, <2>2, <2>3 DEF Rows
<1>9. Reference' = Reference
  BY <1>6, <1>8 DEF Reference
<1> QED
  BY <1>1, <1>2, <1>3, <1>4, <1>5, <1>6, <1>7, <1>8, <1>9

\* The steps on what Next is made of.
LEMMA Steps ==
  [Next]_vars =>
    \/ Parse \/ Built \/ TakeProbe \/ ReportProbe \/ Emit \/ EndOfProbe \/ PostOver \/ Cancel \/ UNCHANGED vars
    \/ \E s \in Streams : TakeBuild(s) \/ ReportBuild(s) \/ Insert(s) \/ EndOfBuild(s)
    \/ \E k \in todo : PostKey(k)
  BY DEF Next, BuildStep, ProbeStep, PostStep, Ended

-----------------------------------------------------------------------------
(* The types.                                                              *)

LEMMA TypeStep == TypeInv /\ [Next]_vars => TypeInv'
<1> SUFFICES ASSUME TypeInv, [Next]_vars PROVE TypeInv'
  OBVIOUS
<1> USE DEF emitVars, counters, Done
<1>0. /\ params' = params /\ input' = input /\ Accepted' = Accepted
      /\ params \in AllParams /\ input \in Inputs
  BY Same DEF TypeInv
<1>1. \A s \in Streams : Len(input[s]) \in Nat
  BY <1>0, Carried
<1>2. CASE Parse
  BY <1>0, <1>2 DEF Parse, TypeInv, Opened
<1>3. ASSUME NEW s \in Streams, TakeBuild(s) PROVE TypeInv'
  <2>1. /\ phase = "build" /\ UNCHANGED <<phase, result, table, matched, todo, pending, out, processed, joined, cancelled>>
        /\ pos' = [pos EXCEPT ![s] = @ + 1] /\ pos[s] < Len(input[s])
    BY <1>3 DEF TakeBuild, At, More
  <2>2. pos' \in [Streams -> Nat] /\ \A t \in Streams : pos'[t] <= Len(input[t])
    BY <2>1, <1>1 DEF TypeInv
  <2>3. worker' \in [Streams -> {"read", "report", "insert", "ended", "left"}]
    BY <1>3 DEF TakeBuild, TypeInv
  <2> QED
    BY <1>0, <2>1, <2>2, <2>3 DEF TypeInv, Opened
<1>4. ASSUME NEW s \in Streams, ReportBuild(s) PROVE TypeInv'
  BY <1>0, <1>4 DEF ReportBuild, At, TypeInv, Opened
<1>5. ASSUME NEW s \in Streams, Insert(s) PROVE TypeInv'
  BY <1>0, <1>5 DEF Insert, At, TypeInv, Opened
<1>6. ASSUME NEW s \in Streams, EndOfBuild(s) PROVE TypeInv'
  BY <1>0, <1>6 DEF EndOfBuild, At, TypeInv, Opened
<1>7. CASE Built
  BY <1>0, <1>7 DEF Built, TypeInv, Opened
<1>8. CASE TakeProbe
  <2>1. /\ phase = "probe" /\ UNCHANGED <<table, todo, out, joined, cancelled>>
        /\ pos' = [pos EXCEPT ![Probe] = @ + 1] /\ pos[Probe] < Len(input[Probe])
        /\ UNCHANGED <<phase, result>> \/ (phase' = "done" /\ result' = "canceled")
    BY <1>8 DEF TakeProbe, Probing, More, ProbeNext
  <2>2. Accepted /\ Probe \in Streams
    BY <2>1, Cover DEF TypeInv, Opened
  <2>3. pos' \in [Streams -> Nat] /\ \A t \in Streams : pos'[t] <= Len(input[t])
    BY <2>1, <2>2, <1>1 DEF TypeInv
  <2>4. worker' \in [Streams -> {"read", "report", "insert", "ended", "left"}]
    BY <1>8 DEF TakeProbe, ProbeNext, TypeInv
  <2> QED
    BY <1>0, <2>1, <2>2, <2>3, <2>4 DEF TypeInv, Opened
<1>9. CASE ReportProbe
  BY <1>0, <1>9 DEF ReportProbe, TypeInv, Opened
<1>10. CASE Emit
  <2>1. /\ UNCHANGED <<worker, pos, table, matched, todo, processed, cancelled>> /\ pending # {}
        /\ UNCHANGED <<phase, result>> \/ (cancelled /\ phase' = "done" /\ result' = "canceled")
    BY <1>10 DEF Emit
  <2>2. Opened /\ phase # "build" /\ phase # "parse"
    BY <2>1 DEF TypeInv, Opened
  <2>3. Opened' /\ phase' # "build" /\ phase' # "parse"
    BY <2>1, <2>2 DEF Opened
  <2> QED
    BY <1>0, <2>1, <2>2, <2>3 DEF TypeInv
<1>11. CASE EndOfProbe
  BY <1>0, <1>11 DEF EndOfProbe, Probing, TypeInv, Opened
<1>12. ASSUME NEW k \in todo, PostKey(k) PROVE TypeInv'
  BY <1>0, <1>12 DEF PostKey, TypeInv, Opened
<1>13. CASE PostOver
  BY <1>0, <1>13 DEF PostOver, TypeInv, Opened
<1>14. CASE Cancel
  BY <1>0, <1>14 DEF Cancel, TypeInv, Opened
<1>15. CASE UNCHANGED vars
  BY <1>0, <1>15 DEF vars, TypeInv, Opened
<1> QED
  BY Steps, <1>2, <1>3, <1>4, <1>5, <1>6, <1>7, <1>8, <1>9, <1>10, <1>11, <1>12, <1>13, <1>14, <1>15

-----------------------------------------------------------------------------
(* The build phase.                                                        *)

\* A join whose parameters were accepted is one of those that Parse accepted.
LEMMA OpenedBefore == TypeInv /\ [Next]_vars /\ Opened' => Opened \/ (Parse /\ phase' = "build")
  BY Steps DEF TypeInv, Opened, Parse, Built, TakeProbe, Probing, ReportProbe, Emit, EndOfProbe, PostOver, Cancel,
     TakeBuild, ReportBuild, Insert, EndOfBuild, At, PostKey, Done, ProbeNext, vars

\* Only Insert changes the table.
LEMMA TableKept == [Next]_vars => table' = table \/ \E s \in Streams : Insert(s)
  BY Steps DEF Parse, Built, TakeProbe, ReportProbe, Emit, EndOfProbe, PostOver, Cancel,
     TakeBuild, ReportBuild, EndOfBuild, PostKey, vars

LEMMA TableStep == TypeInv /\ TableInv /\ BuildInv /\ [Next]_vars => TableInv'
<1> SUFFICES ASSUME TypeInv, TableInv, BuildInv, [Next]_vars, Opened' PROVE TableInv'
  BY DEF TableInv
<1>1. /\ input' = input /\ BuildStreams' = BuildStreams
      /\ \A s, i : Key(s, i)' = Key(s, i)
  BY Same
<1>2. SUFFICES \A e \in table' : \E s \in BuildStreams : \E i \in 1..Len(input[s]) : e = <<s, i>> /\ Key(s, i) # NoKey
  BY <1>1 DEF TableInv
<1>3. CASE ~Opened
  <2>1. table = {} /\ table' = table
    BY <1>3, OpenedBefore DEF TypeInv, Parse
  <2> QED
    BY <2>1
<1>4. CASE Opened /\ table' = table
  BY <1>4 DEF TableInv
<1>5. ASSUME Opened, NEW s \in Streams, Insert(s)
      PROVE  \A e \in table' : \E t \in BuildStreams : \E i \in 1..Len(input[t]) : e = <<t, i>> /\ Key(t, i) # NoKey
  <2>1. phase = "build" /\ s \in BuildStreams /\ worker[s] = "insert" /\ table' \subseteq table \cup {<<s, pos[s]>>}
    BY <1>5 DEF Insert, At
  <2>2. pos[s] \in 1..Len(input[s]) /\ Key(s, pos[s]) # NoKey
    BY <2>1 DEF BuildInv
  <2> QED
    BY <1>5, <2>1, <2>2 DEF TableInv
<1> QED
  BY TableKept, <1>3, <1>4, <1>5

LEMMA BuildStepInv == TypeInv /\ BuildInv /\ [Next]_vars => BuildInv'
<1> SUFFICES ASSUME TypeInv, BuildInv, [Next]_vars, phase' = "build" PROVE BuildInv'
  BY DEF BuildInv
<1>1. /\ input' = input /\ Probe' = Probe /\ BuildStreams' = BuildStreams /\ input \in Inputs
      /\ \A s, i : Key(s, i)' = Key(s, i)
  BY Same DEF TypeInv
<1>2. Accepted /\ Probe \in Streams /\ BuildStreams = Streams \ {Probe}
  <2>1. Accepted
    BY OpenedBefore DEF TypeInv, Opened, Parse, Done
  <2> QED
    BY <2>1, Cover DEF TypeInv
<1>3. \A s \in Streams : Len(input[s]) \in Nat /\ pos[s] \in Nat /\ pos[s] <= Len(input[s])
  BY <1>1, Carried DEF TypeInv
<1> HIDE DEF TypeInv
<1>4. CASE Parse
  <2>1. pos = [s \in Streams |-> 0] /\ worker = [s \in Streams |-> "read"] /\ pos' = pos /\ worker' = worker
    BY <1>4 DEF Parse, TypeInv
  <2>2. \A s \in Streams : pos'[s] = 0 /\ worker'[s] = "read"
    BY <2>1
  <2> QED
    BY <1>1, <1>2, <2>2 DEF BuildInv
<1>5. ASSUME NEW s \in Streams, TakeBuild(s) PROVE BuildInv'
  <2>1. /\ phase = "build" /\ s \in BuildStreams /\ worker[s] = "read" /\ pos[s] < Len(input[s])
        /\ pos' = [pos EXCEPT ![s] = @ + 1] /\ table' = table /\ cancelled' = cancelled
    BY <1>5 DEF TakeBuild, At, More
  <2>2. pos'[s] = pos[s] + 1 /\ \A t \in Streams : t # s => pos'[t] = pos[t]
    BY <2>1 DEF TypeInv
  <2>3. /\ \A t \in Streams : t # s => worker'[t] = worker[t]
        /\ worker'[s] \in {"read", "insert", "report"}
        /\ worker'[s] = "insert" => Key(s, pos'[s]) # NoKey
        /\ ~Stopped' => ~Stopped /\ (worker'[s] # "insert" => Key(s, pos'[s]) = NoKey)
    <3>1. CASE Stopped
      BY <1>5, <3>1, <2>1 DEF TakeBuild, Stopped
    <3>2. CASE ~Stopped
      BY <1>5, <3>2, <2>1 DEF TakeBuild, Stopped, TypeInv
    <3> QED
      BY <3>1, <3>2
  <2>4. pos'[Probe] = 0 /\ worker'[Probe] = "read"
    BY <1>2, <2>1, <2>2, <2>3 DEF BuildInv
  <2>5. ASSUME NEW t \in BuildStreams, worker'[t] = "insert"
        PROVE  pos'[t] \in 1..Len(input[t]) /\ Key(t, pos'[t]) # NoKey
    <3>1. CASE t = s
      BY <1>3, <2>1, <2>2, <2>3, <2>5, <3>1
    <3>2. CASE t # s
      BY <1>2, <2>1, <2>2, <2>3, <2>5, <3>2 DEF BuildInv
    <3> QED
      BY <3>1, <3>2
  <2>6. ASSUME ~Stopped', NEW t \in BuildStreams
        PROVE  /\ worker'[t] # "left" /\ (worker'[t] = "ended" => pos'[t] = Len(input[t]))
               /\ \A i \in 1..pos'[t] : Key(t, i) # NoKey => <<t, i>> \in table' \/ (worker'[t] = "insert" /\ i = pos'[t])
    <3>1. CASE t = s
      <4>1. \A i \in 1..pos[s] : Key(s, i) # NoKey => <<s, i>> \in table
        BY <2>1, <2>3, <2>6 DEF BuildInv
      <4>2. \A i \in 1..pos'[s] : i \in 1..pos[s] \/ i = pos'[s]
        BY <1>3, <2>2
      <4> QED
        BY <2>1, <2>3, <2>6, <3>1, <4>1, <4>2
    <3>2. CASE t # s
      BY <1>2, <2>1, <2>2, <2>3, <2>6, <3>2 DEF BuildInv
    <3> QED
      BY <3>1, <3>2
  <2> QED
    BY <1>1, <2>4, <2>5, <2>6 DEF BuildInv
<1>6. ASSUME NEW s \in Streams, ReportBuild(s) PROVE BuildInv'
  <2>1. /\ phase = "build" /\ s \in BuildStreams /\ worker[s] = "report"
        /\ pos' = pos /\ table' = table /\ cancelled' = cancelled /\ limit' = limit
        /\ worker' = [worker EXCEPT ![s] = "read"] \/ (Stopped /\ worker' = [worker EXCEPT ![s] = "left"])
    BY <1>6 DEF ReportBuild, At
  <2>2. /\ \A t \in Streams : t # s => worker'[t] = worker[t]
        /\ worker'[s] \in {"read", "left"} /\ (worker'[s] = "left" => Stopped)
    BY <2>1 DEF TypeInv
  <2> QED
    BY <1>1, <1>2, <2>1, <2>2 DEF BuildInv, Stopped
<1>7. ASSUME NEW s \in Streams, Insert(s) PROVE BuildInv'
  <2>1. /\ phase = "build" /\ s \in BuildStreams /\ worker[s] = "insert"
        /\ pos' = pos /\ cancelled' = cancelled /\ limit' = limit
        /\ \/ table' = table \cup {<<s, pos[s]>>} /\ worker' = [worker EXCEPT ![s] = "read"]
           \/ Stopped /\ table' = table /\ worker' = [worker EXCEPT ![s] = "left"]
    BY <1>7 DEF Insert, At
  <2>2. /\ \A t \in Streams : t # s => worker'[t] = worker[t]
        /\ table \subseteq table'
        /\ worker'[s] \in {"read", "left"}
        /\ worker'[s] = "left" => Stopped
        /\ worker'[s] = "read" => <<s, pos[s]>> \in table'
    BY <2>1 DEF TypeInv
  <2>3. \A t \in BuildStreams : worker'[t] = "insert" => pos'[t] \in 1..Len(input[t]) /\ Key(t, pos'[t]) # NoKey
    BY <1>2, <2>1, <2>2 DEF BuildInv
  <2>4. ASSUME ~Stopped', NEW t \in BuildStreams
        PROVE  /\ worker'[t] # "left" /\ (worker'[t] = "ended" => pos'[t] = Len(input[t]))
               /\ \A i \in 1..pos'[t] : Key(t, i) # NoKey => <<t, i>> \in table' \/ (worker'[t] = "insert" /\ i = pos'[t])
    <3>1. ~Stopped
      BY <2>1, <2>4 DEF Stopped
    <3>2. CASE t = s
      BY <2>1, <2>2, <3>1, <3>2 DEF BuildInv
    <3>3. CASE t # s
      BY <1>2, <2>1, <2>2, <3>1, <3>3 DEF BuildInv
    <3> QED
      BY <3>2, <3>3
  <2>5. pos'[Probe] = 0 /\ worker'[Probe] = "read"
    BY <1>2, <2>1, <2>2 DEF BuildInv
  <2> QED
    BY <1>1, <2>3, <2>4, <2>5 DEF BuildInv
<1>8. ASSUME NEW s \in Streams, EndOfBuild(s) PROVE BuildInv'
  <2>1. /\ phase = "build" /\ s \in BuildStreams /\ worker[s] = "read" /\ (cancelled \/ ~(pos[s] < Len(input[s])))
        /\ pos' = pos /\ table' = table /\ cancelled' = cancelled /\ limit' = limit
        /\ worker' = [worker EXCEPT ![s] = "ended"]
    BY <1>8 DEF EndOfBuild, At, More
  <2>2. /\ \A t \in Streams : t # s => worker'[t] = worker[t]
        /\ worker'[s] = "ended" /\ (cancelled \/ pos[s] = Len(input[s]))
    BY <1>3, <2>1 DEF TypeInv
  <2> QED
    BY <1>1, <1>2, <2>1, <2>2 DEF BuildInv, Stopped
<1>9. CASE Cancel \/ UNCHANGED vars
  <2>1. UNCHANGED <<phase, pos, worker, table, limit>> /\ (cancelled => cancelled')
    BY <1>9 DEF Cancel, vars
  <2> QED
    BY <1>1, <2>1 DEF BuildInv, Stopped
<1>10. ~(Built \/ TakeProbe \/ ReportProbe \/ Emit \/ EndOfProbe \/ PostOver \/ \E k \in todo : PostKey(k))
  <2>1. ~Emit
    BY DEF Emit, Done, TypeInv
  <2>2. ~TakeProbe
    BY DEF TakeProbe, Probing, Done, ProbeNext
  <2> QED
    BY <2>1, <2>2 DEF Built, ReportProbe, EndOfProbe, Probing, PostOver, PostKey, Done
<1> QED
  BY Steps, <1>4, <1>5, <1>6, <1>7, <1>8, <1>9, <1>10

-----------------------------------------------------------------------------
(* The probe phase.                                                        *)

\* An undisturbed join becomes one when its table is built, and then takes these steps.
LEMMA ExactSteps ==
  TypeInv /\ [Next]_vars /\ Exact' =>
    \/ Built /\ ~Stopped /\ phase' = "probe" /\ result' # "ok"
    \/ /\ Exact /\ table' = table
       /\ \/ TakeProbe \/ ReportProbe \/ Emit \/ EndOfProbe \/ PostOver \/ UNCHANGED vars
          \/ \E k \in todo : PostKey(k)
<1> SUFFICES ASSUME TypeInv, [Next]_vars, Exact'
             PROVE  \/ Built /\ ~Stopped /\ phase' = "probe" /\ result' # "ok"
                    \/ /\ Exact /\ table' = table
                       /\ \/ TakeProbe \/ ReportProbe \/ Emit \/ EndOfProbe \/ PostOver \/ UNCHANGED vars
                          \/ \E k \in todo : PostKey(k)
  OBVIOUS
<1> USE DEF Exact, Done
<1>1. ~(Parse \/ Cancel \/ \E s \in Streams : TakeBuild(s) \/ ReportBuild(s) \/ Insert(s) \/ EndOfBuild(s))
  BY DEF TypeInv, Parse, Cancel, TakeBuild, ReportBuild, Insert, EndOfBuild, At
<1>2. CASE Built
  BY <1>2 DEF Built, Stopped, TypeInv
<1>3. CASE TakeProbe
  BY <1>3 DEF TakeProbe, Probing, ProbeNext, TypeInv
<1>4. CASE ReportProbe
  BY <1>4 DEF ReportProbe, TypeInv
<1>5. CASE Emit
  BY <1>5 DEF Emit, TypeInv
<1>6. CASE EndOfProbe
  BY <1>6 DEF EndOfProbe, Probing, TypeInv
<1>7. CASE PostOver
  BY <1>7 DEF PostOver, TypeInv
<1>8. CASE UNCHANGED vars
  BY <1>8 DEF vars
<1>9. ASSUME NEW k \in todo, PostKey(k) PROVE Exact /\ table' = table
  BY <1>9 DEF PostKey, TypeInv
<1> QED
  BY Steps, <1>1, <1>2, <1>3, <1>4, <1>5, <1>6, <1>7, <1>8, <1>9

\* What one probe record does.
LEMMA OneProbed ==
  ASSUME TypeInv, TakeProbe, ~cancelled
  PROVE  /\ phase = "probe" /\ phase' = phase /\ result' = result /\ pending = {} /\ out' = out
         /\ Probe \in Streams /\ pos[Probe] \in Nat /\ Len(input[Probe]) \in Nat /\ pos[Probe] + 1 \in 1..Len(input[Probe])
         /\ pos'[Probe] = pos[Probe] + 1 /\ \A s \in Streams \ {Probe} : pos'[s] = pos[s]
         /\ processed' = processed + 1 /\ UNCHANGED <<joined, total, todo, table, cancelled>>
         /\ IF Key(Probe, pos[Probe] + 1) = NoKey THEN skipped' = skipped + 1 /\ UNCHANGED <<matched, pending>>
            ELSE Match(Key(Probe, pos[Probe] + 1), pos[Probe] + 1) /\ UNCHANGED skipped
<1>1. phase = "probe" /\ pending = {} /\ pos' = [pos EXCEPT ![Probe] = @ + 1] /\ pos[Probe] < Len(input[Probe])
  BY DEF TakeProbe, Probing, More
<1>2. Probe \in Streams /\ Len(input[Probe]) \in Nat /\ pos[Probe] \in Nat
  <2>1. Accepted
    BY <1>1 DEF TypeInv, Opened
  <2> QED
    BY <2>1, Cover, Carried DEF TypeInv
<1>3. pos'[Probe] = pos[Probe] + 1 /\ \A s \in Streams \ {Probe} : pos'[s] = pos[s]
  BY <1>1, <1>2 DEF TypeInv
<1>4. pos[Probe] + 1 \in 1..Len(input[Probe])
  BY <1>1, <1>2
<1>5. ProbeNext(pos[Probe] + 1)
  BY <1>3 DEF TakeProbe
<1>6. UNCHANGED <<joined, total, todo, table, out, cancelled>>
  BY DEF TakeProbe
<1> QED
  BY <1>1, <1>2, <1>3, <1>4, <1>5, <1>6 DEF ProbeNext

LEMMA MatchStep == TypeInv /\ TableInv /\ BuildInv /\ MatchInv /\ [Next]_vars => MatchInv'
<1> SUFFICES ASSUME TypeInv, TableInv, BuildInv, MatchInv, [Next]_vars PROVE MatchInv'
  OBVIOUS
<1> DEFINE Met(i) == Key(Probe, i) \in TableKeys => Key(Probe, i) \in matched
           Seen == \A k \in matched : \E i \in 1..pos[Probe] : Key(Probe, i) = k
           AtEnd == phase = "post" \/ result = "ok" => pos[Probe] = Len(input[Probe])
<1>1. /\ params' = params /\ input' = input /\ Probe' = Probe /\ BuildStreams' = BuildStreams
      /\ \A s, i : Key(s, i)' = Key(s, i)
  BY Same
<1>2. table' = table => TableKeys' = TableKeys
  BY <1>1 DEF TableKeys
<1>3. ASSUME Exact' PROVE Complete' /\ (\A i \in 1..pos[Probe] : Met(i))' /\ Seen' /\ AtEnd'
  <2>0. Accepted /\ Probe \in Streams /\ BuildStreams = Streams \ {Probe}
    <3>1. Opened
      BY <1>3, ExactSteps DEF Built, Exact, Opened
    <3> QED
      BY <3>1, Cover DEF TypeInv
  <2>1. CASE Built /\ ~Stopped /\ phase' = "probe" /\ result' # "ok"
    <3>1. /\ phase = "build" /\ \A s \in BuildStreams : worker[s] \in {"ended", "left"}
          /\ UNCHANGED <<pos, table, matched>>
      BY <2>1 DEF Built
    <3>2. \A s \in BuildStreams : worker[s] = "ended" /\ pos[s] = Len(input[s])
      BY <2>1, <3>1 DEF BuildInv
    <3>3. Complete'
      BY <1>1, <2>1, <3>1, <3>2 DEF BuildInv, Complete
    <3>4. pos'[Probe] = 0 /\ matched' = {}
      BY <3>1 DEF BuildInv, TypeInv
    <3> QED
      BY <1>1, <2>1, <3>3, <3>4
  <2>2. CASE Exact /\ TakeProbe
    <3>1. Complete /\ (\A i \in 1..pos[Probe] : Met(i)) /\ Seen /\ ~cancelled
      BY <2>2 DEF MatchInv, Exact
    <3>2. phase' = "probe" /\ result' # "ok" /\ table' = table
      BY <2>2, <3>1, OneProbed DEF TypeInv
    <3>3. Complete'
      BY <1>1, <2>0, <2>2, <3>1, <3>2, OneProbed DEF Complete
    <3> DEFINE p == pos[Probe] + 1
    <3>4. pos[Probe] \in Nat /\ pos'[Probe] = p
      BY <2>2, <3>1, OneProbed
    <3>5. NoKey \notin TableKeys
      <4>1. Opened
        BY <2>2, <3>1, OneProbed DEF Opened
      <4> QED
        BY <4>1, <3>1, Table
    <3>6. /\ matched \subseteq matched' /\ matched' \subseteq matched \cup {Key(Probe, p)}
          /\ Key(Probe, p) \in TableKeys => Key(Probe, p) \in matched'
      <4>1. CASE Key(Probe, p) = NoKey
        BY <4>1, <2>2, <3>1, <3>5, OneProbed
      <4>2. CASE Key(Probe, p) # NoKey
        <5>1. Match(Key(Probe, p), p)
          BY <4>2, <2>2, <3>1, OneProbed
        <5> QED
          BY <5>1 DEF Match
      <4> QED
        BY <4>1, <4>2
    <3> HIDE DEF p
    <3>7. \A i \in 1..p : i \in 1..pos[Probe] \/ i = p
      BY <3>4 DEF p
    <3>8. (\A i \in 1..pos[Probe] : Met(i))'
      BY <1>1, <1>2, <3>1, <3>2, <3>4, <3>6, <3>7
    <3>9. Seen'
      <4>1. p \in 1..p /\ \A i \in 1..pos[Probe] : i \in 1..p
        BY <3>4 DEF p
      <4> QED
        BY <1>1, <3>1, <3>4, <3>6, <4>1
    <3> QED
      BY <3>2, <3>3, <3>8, <3>9
  <2>3. ASSUME Exact, UNCHANGED <<pos, table, matched>>, AtEnd'
        PROVE  Complete' /\ (\A i \in 1..pos[Probe] : Met(i))' /\ Seen'
    <3>1. Complete /\ (\A i \in 1..pos[Probe] : Met(i)) /\ Seen
      BY <2>3 DEF MatchInv
    <3>2. Complete'
      BY <1>1, <2>3, <3>1 DEF Complete
    <3> QED
      BY <1>1, <1>2, <2>3, <3>1, <3>2
  <2>4. CASE Exact /\ (ReportProbe \/ Emit \/ PostOver \/ UNCHANGED vars \/ \E k \in todo : PostKey(k))
    <3>1. UNCHANGED <<pos, table, matched>> /\ (phase' = "post" \/ result' = "ok" => phase = "post" \/ result = "ok")
      BY <2>4, <1>3 DEF ReportProbe, Emit, PostOver, PostKey, Done, vars
    <3>2. AtEnd'
      BY <1>1, <2>4, <3>1 DEF MatchInv
    <3> QED
      BY <2>3, <2>4, <3>1, <3>2
  <2>5. CASE Exact /\ EndOfProbe
    <3>1. UNCHANGED <<pos, table, matched>> /\ ~(pos[Probe] < Len(input[Probe]))
      BY <2>5 DEF EndOfProbe, More, Exact
    <3>2. Len(input[Probe]) \in Nat /\ pos[Probe] \in Nat /\ pos[Probe] <= Len(input[Probe])
      BY <2>0, Carried DEF TypeInv
    <3>3. AtEnd'
      BY <1>1, <3>1, <3>2
    <3> QED
      BY <2>3, <2>5, <3>1, <3>3
  <2> QED
    BY <1>3, <2>1, <2>2, <2>4, <2>5, ExactSteps
<1>4. ASSUME phase' = "post" PROVE params'.joinType \in {"right", "outer"} /\ todo' \subseteq TableKeys'
  <2>1. CASE EndOfProbe
    <3>1. todo' = TableKeys /\ table' = table /\ params.joinType \in {"right", "outer"}
      BY <1>4, <2>1 DEF EndOfProbe, Probing, Done
    <3> QED
      BY <1>1, <1>2, <3>1
  <2>2. CASE phase = "post" /\ table' = table /\ todo' \subseteq todo
    BY <1>1, <1>2, <2>2 DEF MatchInv
  <2>3. EndOfProbe \/ (phase = "post" /\ table' = table /\ todo' \subseteq todo)
    BY <1>4, Steps DEF Parse, Built, TakeProbe, Probing, ReportProbe, Emit, PostOver, Cancel, TakeBuild, ReportBuild,
       Insert, EndOfBuild, At, PostKey, Done, ProbeNext, vars
  <2> QED
    BY <2>1, <2>2, <2>3
<1>5. ASSUME result' = "ok" PROVE pending' = {}
  <2>1. phase \in {"probe", "post"} => result = "none"
    BY DEF TypeInv
  <2>2. ~(TakeProbe \/ ReportProbe \/ \E k \in todo : PostKey(k))
    BY <1>5, <2>1 DEF TakeProbe, Probing, ReportProbe, PostKey, Done, ProbeNext
  <2>3. ~(Parse \/ Built \/ \E s \in Streams : TakeBuild(s) \/ ReportBuild(s) \/ Insert(s) \/ EndOfBuild(s))
    BY <1>5 DEF TypeInv, Parse, Built, TakeBuild, ReportBuild, Insert, EndOfBuild, At, Done
  <2>4. CASE EndOfProbe \/ PostOver
    BY <2>4 DEF EndOfProbe, Probing, PostOver, emitVars
  <2>5. CASE Emit
    BY <1>5, <2>5 DEF Emit, Done, MatchInv
  <2>6. CASE Cancel \/ UNCHANGED vars
    BY <1>5, <2>6 DEF Cancel, emitVars, vars, MatchInv
  <2> QED
    BY Steps, <2>2, <2>3, <2>4, <2>5, <2>6
<1> QED
  BY <1>3, <1>4, <1>5 DEF MatchInv

-----------------------------------------------------------------------------
(* What is emitted.                                                        *)

\* The keys of the table are keys of the streams.
LEMMA KeysOfTable ==
  ASSUME TypeInv, TableInv, Opened
  PROVE  TableKeys \subseteq AllKeys
<1>1. BuildStreams \subseteq Streams /\ input \in Inputs
  BY Cover DEF TypeInv
<1>2. ASSUME NEW e \in table PROVE Key(e[1], e[2]) \in AllKeys
  <2>1. PICK s \in BuildStreams : \E i \in 1..Len(input[s]) : e = <<s, i>> /\ Key(s, i) # NoKey
    BY DEF TableInv
  <2>2. PICK i \in 1..Len(input[s]) : e = <<s, i>> /\ Key(s, i) # NoKey
    BY <2>1
  <2>3. Key(s, i) \in AllKeys
    BY <1>1, <2>2, Carried
  <2> QED
    BY <2>2, <2>3
<1> QED
  BY <1>2 DEF TableKeys

\* A probe record about to be emitted is joined with all its partners.
LEMMA ProbedPending ==
  ASSUME TypeInv, TableInv, MatchInv, TakeProbe, ~cancelled
  PROVE  pending' = {c \in Reference : c[Probe] = pos[Probe] + 1}
<1> DEFINE p == pos[Probe] + 1
<1>1. Opened /\ Complete /\ params \in AllParams /\ Accepted /\ input \in Inputs
  BY OneProbed DEF Exact, MatchInv, Opened, TypeInv
<1>2. Probe \in Streams /\ p \in 1..Len(input[Probe])
  BY OneProbed
<1>3. CASE Key(Probe, p) = NoKey
  <2>1. pending' = {}
    BY <1>3, OneProbed
  <2>2. ASSUME NEW m \in AllKeys, NEW c \in Rows(m), c[Probe] = p PROVE FALSE
    <3>1. c[Probe] \in With(Probe, m)
      <4>1. c[Probe] \in IF With(Probe, m) = {} THEN {0} ELSE With(Probe, m)
        BY <1>1, <1>2, Row
      <4>2. p # 0
        BY <1>1, <1>2, Carried
      <4> QED
        BY <2>2, <4>1, <4>2
    <3>2. Key(Probe, p) = m
      BY <3>1, <2>2 DEF With
    <3> QED
      BY <3>2, <1>3 DEF AllKeys
  <2> QED
    BY <2>1, <2>2 DEF Reference
<1>4. CASE Key(Probe, p) # NoKey
  <2>1. Match(Key(Probe, p), p)
    BY <1>4, OneProbed
  <2> HIDE DEF p
  <2> QED
    BY <2>1, <1>1, <1>2, <1>4, Probed DEF Match, p
<1> QED
  BY <1>3, <1>4

\* A key looked at after the probe phase gives its rows without a probe record.
LEMMA PostPending ==
  ASSUME TypeInv, TableInv, MatchInv, NEW k \in todo, PostKey(k), ~cancelled
  PROVE  k \in AllKeys /\ pending' = {c \in Rows(k) : c[Probe] = 0}
<1>1. /\ phase = "post" /\ Opened /\ Complete /\ k \in TableKeys /\ params.joinType \in {"right", "outer"}
      /\ pos[Probe] = Len(input[Probe]) /\ params \in AllParams /\ Accepted /\ input \in Inputs
      /\ pending' = IF k \in matched THEN {} ELSE Combinations(0, Found(k))
  BY DEF PostKey, Exact, MatchInv, Opened, TypeInv
<1>2. k \in AllKeys
  BY <1>1, KeysOfTable
<1>3. With(Probe, k) = {i \in 1..Len(input[Probe]) : Key(Probe, i) = k}
  BY <1>1, Cover, Carried
<1>4. k \in matched <=> With(Probe, k) # {}
  BY <1>1, <1>3 DEF MatchInv, Exact
<1>5. CASE k \in matched
  BY <1>1, <1>2, <1>4, <1>5, Unmatched
<1>6. CASE k \notin matched
  BY <1>1, <1>2, <1>4, <1>6, Unmatched
<1> QED
  BY <1>2, <1>5, <1>6

LEMMA SoundStep == TypeInv /\ TableInv /\ MatchInv /\ SoundInv /\ [Next]_vars => SoundInv'
<1> SUFFICES ASSUME TypeInv, TableInv, MatchInv, SoundInv, [Next]_vars, Opened'
             PROVE  pending' \subseteq Reference /\ out' \subseteq Reference
  BY Same DEF SoundInv
<1>1. pending \subseteq Reference /\ out \subseteq Reference
  BY OpenedBefore DEF SoundInv, TypeInv
<1>2. CASE TakeProbe
  <2>1. out' = out /\ (cancelled => pending' = pending)
    BY <1>2 DEF TakeProbe
  <2> QED
    BY <1>1, <1>2, <2>1, ProbedPending
<1>3. ASSUME NEW k \in todo, PostKey(k) PROVE pending' \subseteq Reference /\ out' \subseteq Reference
  <2>1. out' = out /\ (cancelled => pending' = pending)
    BY <1>3 DEF PostKey
  <2>2. k \in AllKeys => Rows(k) \subseteq Reference
    BY DEF Reference
  <2> QED
    BY <1>1, <1>3, <2>1, <2>2, PostPending
<1>4. CASE Emit
  BY <1>1, <1>4 DEF Emit
<1>5. CASE pending' = pending /\ out' = out
  BY <1>1, <1>5
<1>6. TakeProbe \/ Emit \/ (pending' = pending /\ out' = out) \/ \E k \in todo : PostKey(k)
  BY Steps DEF Parse, Built, ReportProbe, EndOfProbe, PostOver, Cancel, TakeBuild, ReportBuild, Insert, EndOfBuild,
     emitVars, vars
<1> QED
  BY <1>2, <1>3, <1>4, <1>5, <1>6

-----------------------------------------------------------------------------
(* What is due.                                                            *)

\* What a step emits is no longer pending, and what becomes due is pending.
LEMMA DueStep == TypeInv /\ TableInv /\ BuildInv /\ MatchInv /\ DueInv /\ [Next]_vars => DueInv'
<1> SUFFICES ASSUME TypeInv, TableInv, BuildInv, MatchInv, DueInv, [Next]_vars, Exact'
             PROVE  DueInv'
  BY DEF DueInv
<1> DEFINE early(c) == c[Probe] \in 1..pos[Probe]
           late(k, c) == c \in Rows(k) /\ c[Probe] = 0
<1>1. /\ Probe' = Probe /\ AllKeys' = AllKeys /\ Reference' = Reference
      /\ \A k : Rows(k)' = Rows(k)
  BY Same
<1>2. CASE Built /\ ~Stopped /\ phase' = "probe" /\ result' # "ok"
  <2>1. phase = "build" /\ UNCHANGED <<pos, out, pending, joined, processed>>
    BY <1>2 DEF Built, emitVars, counters
  <2>2. pos'[Probe] = 0 /\ out' = {} /\ pending' = {} /\ joined' = 0 /\ processed' = 0
    BY <2>1 DEF TypeInv, BuildInv
  <2>3. Due' = {}
    BY <1>1, <1>2, <2>2 DEF Due, Late
  <2> QED
    BY <1>1, <2>2, <2>3, FS_EmptySet DEF DueInv
<1>3. CASE Exact /\ TakeProbe
  <2>0. ~cancelled
    BY <1>3 DEF Exact
  <2>1. /\ phase = "probe" /\ phase' = "probe" /\ result' = result /\ result # "ok" /\ pending = {} /\ out' = out
        /\ pos[Probe] \in Nat /\ pos'[Probe] = pos[Probe] + 1
        /\ processed' = processed + 1 /\ joined' = joined
    BY <1>3, <2>0, OneProbed DEF TypeInv
  <2>2. pending' = {c \in Reference : c[Probe] = pos[Probe] + 1}
    BY <1>3, <2>0, ProbedPending
  <2>3. out = {c \in Reference : early(c)} /\ IsFiniteSet(out) /\ joined = Cardinality(out) /\ processed = pos[Probe]
    BY <1>3, <2>1 DEF DueInv, Due, Late
  <2>4. \A i : i \in 1..(pos[Probe] + 1) <=> i \in 1..pos[Probe] \/ i = pos[Probe] + 1
    BY <2>1
  <2>5. pos[Probe] + 1 \notin 1..pos[Probe]
    BY <2>1
  <2>6. Due' = {c \in Reference : c[Probe] \in 1..(pos[Probe] + 1)}
    BY <1>1, <2>1 DEF Due, Late
  <2>7. out' \cup pending' = Due' /\ out' \cap pending' = {}
    BY <2>1, <2>2, <2>3, <2>4, <2>5, <2>6
  <2> QED
    BY <1>1, <2>1, <2>3, <2>7 DEF DueInv
<1>4. CASE Exact /\ Emit
  <2>1. PICK c \in pending : joined' = joined + 1 /\ out' = out \cup {c} /\ pending' = pending \ {c}
                             /\ UNCHANGED <<phase, result>>
    BY <1>4 DEF Emit, Exact
  <2>2. UNCHANGED <<pos, todo, processed>>
    BY <1>4 DEF Emit
  <2>3. out \cup pending = Due /\ out \cap pending = {} /\ IsFiniteSet(out) /\ joined = Cardinality(out) /\ processed = pos[Probe]
    BY <1>4 DEF DueInv
  <2>4. Due' = Due
    BY <1>1, <2>1, <2>2 DEF Due, Late
  <2>5. IsFiniteSet(out') /\ Cardinality(out') = Cardinality(out) + 1
    BY <2>1, <2>3, FS_AddElement
  <2>6. out' \cup pending' = Due' /\ out' \cap pending' = {}
    BY <2>1, <2>3, <2>4
  <2> QED
    BY <1>1, <2>1, <2>2, <2>3, <2>5, <2>6 DEF DueInv
<1>5. ASSUME Exact, UNCHANGED <<out, pending, joined, processed, pos>>, Due' = Due PROVE DueInv'
  BY <1>1, <1>5 DEF DueInv
<1>6. CASE Exact /\ (ReportProbe \/ PostOver \/ UNCHANGED vars)
  <2>1. UNCHANGED <<out, pending, joined, processed, pos, todo>> /\ (Late' <=> Late)
    BY <1>6 DEF ReportProbe, PostOver, Done, emitVars, counters, vars, Late, TypeInv, Exact
  <2>2. Due' = Due
    BY <1>1, <2>1 DEF Due
  <2> QED
    BY <1>5, <1>6, <2>1, <2>2
<1>7. CASE Exact /\ EndOfProbe
  <2>1. /\ phase = "probe" /\ result # "ok" /\ ~Late /\ Late' /\ UNCHANGED <<out, pending, joined, processed, pos>>
        /\ params.joinType \notin {"right", "outer"} \/ todo' = TableKeys
    BY <1>7 DEF EndOfProbe, Probing, Done, emitVars, counters, Late, TypeInv, Exact
  <2>2. Opened /\ Complete
    BY <1>7, <2>1 DEF Opened, MatchInv
  <2>3. ASSUME NEW k \in AllKeys \ todo', NEW c \in Rows(k), c[Probe] = 0 PROVE FALSE
    BY <2>1, <2>2, <2>3, Unmatched
  <2>4. Due' = {c \in Reference : early(c)}
    BY <1>1, <2>1, <2>3 DEF Due
  <2>5. Due = {c \in Reference : early(c)}
    BY <2>1 DEF Due
  <2> QED
    BY <1>5, <1>7, <2>1, <2>4, <2>5
<1>8. ASSUME Exact, NEW k \in todo, PostKey(k) PROVE DueInv'
  <2>1. /\ phase = "post" /\ pending = {} /\ ~cancelled /\ todo' = todo \ {k}
        /\ UNCHANGED <<phase, result, out, joined, processed, pos>>
    BY <1>8 DEF PostKey, counters, Exact
  <2>2. k \in AllKeys /\ pending' = {c \in Rows(k) : c[Probe] = 0}
    BY <1>8, <2>1, PostPending
  <2>3. out = Due /\ IsFiniteSet(out) /\ joined = Cardinality(out) /\ processed = pos[Probe]
    BY <1>8, <2>1 DEF DueInv
  <2>4. \A c : c \in Due <=> c \in Reference /\ (early(c) \/ \E m \in AllKeys \ todo : late(m, c))
    BY <2>1 DEF Due, Late
  <2>5. \A c : c \in Due' <=> c \in Reference /\ (early(c) \/ \E m \in AllKeys \ todo' : late(m, c))
    BY <1>1, <2>1 DEF Due, Late
  <2>6. \A c : c \in pending' <=> late(k, c)
    BY <2>2
  <2>7. \A c : late(k, c) => c \in Reference
    BY <2>2 DEF Reference
  <2>8. ASSUME NEW c, c \in Due, late(k, c) PROVE FALSE
    <3>1. ~early(c)
      BY <2>8
    <3>2. PICK m \in AllKeys \ todo : late(m, c)
      BY <2>4, <2>8, <3>1
    <3>3. Opened
      BY <2>1 DEF Opened
    <3>4. m = k
      BY <2>2, <2>8, <3>2, <3>3, Apart
    <3> QED
      BY <3>2, <3>4, <1>8
  <2> HIDE DEF early, late
  <2>9. \A m \in AllKeys : m \notin todo' <=> m \notin todo \/ m = k
    BY <2>1, <1>8
  <2>10. Due \cup pending' = Due' /\ Due \cap pending' = {}
    BY <2>2, <2>4, <2>5, <2>6, <2>7, <2>8, <2>9
  <2> QED
    BY <1>1, <2>1, <2>3, <2>10 DEF DueInv
<1> QED
  BY ExactSteps, <1>2, <1>3, <1>4, <1>6, <1>7, <1>8

-----------------------------------------------------------------------------
(* The summary.                                                            *)

\* A record taken is one more of those taken from its stream, and of those
\* without a key if it has none.
LEMMA TakenMove ==
  ASSUME TypeInv, [Next]_vars, NEW s \in Streams, pos'[s] = pos[s] + 1,
         \A t \in Streams \ {s} : pos'[t] = pos[t]
  PROVE  /\ \A S \in SUBSET Streams :
              /\ <<s, pos[s] + 1>> \notin Taken(S)
              /\ Taken(S)' = IF s \in S THEN Taken(S) \cup {<<s, pos[s] + 1>>} ELSE Taken(S)
         /\ <<s, pos[s] + 1>> \notin Keyless
         /\ Keyless' = IF Key(s, pos[s] + 1) = NoKey THEN Keyless \cup {<<s, pos[s] + 1>>} ELSE Keyless
<1> DEFINE p == pos[s] + 1
<1>1. pos[s] \in Nat
  BY DEF TypeInv
<1>2. 1..p = (1..pos[s]) \cup {p} /\ p \notin 1..pos[s]
  BY <1>1
<1> HIDE DEF p
<1>3. \A S \in SUBSET Streams : \A e : e \in Taken(S) <=> \E t \in S : \E i \in 1..pos[t] : e = <<t, i>>
  BY DEF Taken
<1>4. \A S \in SUBSET Streams : \A e : e \in Taken(S)' <=> \E t \in S : \E i \in 1..pos'[t] : e = <<t, i>>
  BY DEF Taken
<1>5. ASSUME NEW S \in SUBSET Streams
      PROVE  /\ <<s, p>> \notin Taken(S)
             /\ Taken(S)' = IF s \in S THEN Taken(S) \cup {<<s, p>>} ELSE Taken(S)
  <2>1. <<s, p>> \notin Taken(S)
    BY <1>2, <1>3
  <2>2. ASSUME NEW e PROVE e \in Taken(S)' <=> e \in Taken(S) \/ (s \in S /\ e = <<s, p>>)
    BY <1>2, <1>3, <1>4 DEF p
  <2> QED
    BY <2>1, <2>2
<1>6. Taken(Streams)' = Taken(Streams) \cup {<<s, p>>} /\ <<s, p>> \notin Taken(Streams)
  BY <1>5
<1>7. \A e : Key(e[1], e[2])' = Key(e[1], e[2])
  BY Same
<1>8. Keyless' = {e \in Taken(Streams) \cup {<<s, p>>} : Key(e[1], e[2]) = NoKey}
  BY <1>6, <1>7 DEF Keyless
<1>9. <<s, p>> \notin Keyless /\ Keyless' = IF Key(s, p) = NoKey THEN Keyless \cup {<<s, p>>} ELSE Keyless
  BY <1>6, <1>8 DEF Keyless
<1> QED
  BY <1>5, <1>9 DEF p

LEMMA CountStep == TypeInv /\ TableInv /\ BuildInv /\ CountInv /\ [Next]_vars => CountInv'
<1> SUFFICES ASSUME TypeInv, TableInv, BuildInv, CountInv, [Next]_vars PROVE CountInv'
  OBVIOUS
<1> DEFINE Counted == /\ IsFiniteSet(Taken(BuildStreams)) /\ total = Cardinality(Taken(BuildStreams))
                      /\ IsFiniteSet(Keyless) /\ skipped = Cardinality(Keyless)
                      /\ params.max > 0 => total <= params.max
<1>1. /\ params' = params /\ Probe' = Probe /\ BuildStreams' = BuildStreams
      /\ \A s, i : Key(s, i)' = Key(s, i)
  BY Same
<1>2. ASSUME pos' = pos PROVE Taken(BuildStreams)' = Taken(BuildStreams) /\ Keyless' = Keyless
  BY <1>1, <1>2 DEF Taken, Keyless
<1>3. ASSUME phase' = "parse" PROVE total' = 0 /\ skipped' = 0
  <2>1. phase = "parse" /\ total' = total /\ skipped' = skipped
    BY <1>3, Steps DEF Parse, Built, TakeProbe, Probing, ReportProbe, Emit, EndOfProbe, PostOver, Cancel, TakeBuild,
       ReportBuild, Insert, EndOfBuild, At, PostKey, Done, ProbeNext, counters, vars, TypeInv
  <2> QED
    BY <2>1 DEF CountInv
<1>4. ASSUME Counted, UNCHANGED <<pos, total, skipped>> PROVE Counted'
  BY <1>1, <1>2, <1>4
<1>5. ASSUME phase' = "build", ~Stopped' PROVE Counted'
  <2>1. CASE Parse
    <3>1. Accepted /\ pos' = pos /\ total' = total /\ skipped' = skipped /\ total = 0 /\ skipped = 0
      BY <1>5, <2>1 DEF Parse, Done, counters, CountInv
    <3>2. BuildStreams \subseteq Streams /\ \A s \in Streams : pos[s] = 0
      BY <2>1, <3>1, Cover DEF TypeInv, Parse
    <3>3. Taken(BuildStreams) = {} /\ Keyless = {}
      BY <3>2 DEF Taken, Keyless
    <3>4. Taken(BuildStreams)' = {} /\ Keyless' = {}
      BY <1>2, <3>1, <3>3
    <3>5. params.max \in Int
      BY JoinAssumption DEF TypeInv
    <3> QED
      BY <1>1, <3>1, <3>4, <3>5, FS_EmptySet
  <2>2. ASSUME NEW s \in Streams, TakeBuild(s) PROVE Counted'
    <3>1. /\ phase = "build" /\ s \in BuildStreams /\ pos' = [pos EXCEPT ![s] = @ + 1] /\ ~Stopped
          /\ total' = total + 1 /\ ~(params.max > 0 /\ total' > params.max)
          /\ skipped' = IF Key(s, pos'[s]) = NoKey THEN skipped + 1 ELSE skipped
      <4>1. phase = "build" /\ s \in BuildStreams /\ pos' = [pos EXCEPT ![s] = @ + 1] /\ ~Stopped
        BY <1>5, <2>2 DEF TakeBuild, At, Stopped
      <4>2. ~limit' /\ total' = total + 1 /\ limit' = (params.max > 0 /\ total' > params.max)
        BY <1>5, <2>2, <4>1 DEF TakeBuild, Stopped
      <4>3. ~(params.max > 0 /\ total' > params.max)
        BY <4>2, Zenon
      <4>4. skipped' = IF Key(s, pos'[s]) = NoKey THEN skipped + 1 ELSE skipped
        BY <2>2, <4>1, <4>2 DEF TakeBuild
      <4> QED
        BY <4>1, <4>2, <4>3, <4>4
    <3>2. pos'[s] = pos[s] + 1 /\ \A t \in Streams \ {s} : pos'[t] = pos[t]
      BY <3>1 DEF TypeInv
    <3>3. Counted
      BY <3>1 DEF CountInv
    <3>4. BuildStreams \in SUBSET Streams
      BY <3>1, Cover DEF TypeInv, Opened
    <3>5. /\ Taken(BuildStreams)' = Taken(BuildStreams) \cup {<<s, pos[s] + 1>>} /\ <<s, pos[s] + 1>> \notin Taken(BuildStreams)
          /\ <<s, pos[s] + 1>> \notin Keyless
          /\ Keyless' = IF Key(s, pos[s] + 1) = NoKey THEN Keyless \cup {<<s, pos[s] + 1>>} ELSE Keyless
      <4>1. Taken(BuildStreams)' = IF s \in BuildStreams THEN Taken(BuildStreams) \cup {<<s, pos[s] + 1>>} ELSE Taken(BuildStreams)
        BY <1>1, <3>2, <3>4, TakenMove
      <4> QED
        BY <3>1, <3>2, <3>4, <4>1, TakenMove
    <3>6. IsFiniteSet(Taken(BuildStreams)') /\ total' = Cardinality(Taken(BuildStreams)')
      BY <3>1, <3>3, <3>5, FS_AddElement
    <3>7. IsFiniteSet(Keyless') /\ skipped' = Cardinality(Keyless')
      BY <3>1, <3>2, <3>3, <3>5, FS_AddElement
    <3>8. params'.max > 0 => total' <= params'.max
      <4>1. params.max \in Int /\ total' \in Int
        BY <3>6, FS_CardinalityType, JoinAssumption DEF TypeInv
      <4> QED
        BY <1>1, <3>1, <4>1
    <3> QED
      BY <1>1, <3>6, <3>7, <3>8
  <2>3. CASE \/ Cancel \/ UNCHANGED vars
             \/ \E s \in Streams : ReportBuild(s) \/ Insert(s) \/ EndOfBuild(s)
    <3>1. UNCHANGED <<phase, limit, pos, total, skipped>> /\ (cancelled => cancelled')
      BY <2>3 DEF Cancel, ReportBuild, Insert, EndOfBuild, counters, vars
    <3>2. Counted
      BY <1>5, <3>1 DEF CountInv, Stopped
    <3> QED
      BY <1>4, <3>1, <3>2
  <2>4. ~(Built \/ TakeProbe \/ ReportProbe \/ Emit \/ EndOfProbe \/ PostOver \/ \E k \in todo : PostKey(k))
    <3>1. ~Emit
      BY <1>5 DEF Emit, Done, TypeInv
    <3>2. ~TakeProbe
      BY <1>5 DEF TakeProbe, Probing, Done, ProbeNext
    <3> QED
      BY <1>5, <3>1, <3>2 DEF Built, ReportProbe, EndOfProbe, Probing, PostOver, PostKey, Done
  <2> QED
    BY Steps, <2>1, <2>2, <2>3, <2>4
<1>6. ASSUME Exact' PROVE Counted'
  <2>1. CASE Built /\ ~Stopped /\ phase' = "probe" /\ result' # "ok"
    <3>1. phase = "build" /\ UNCHANGED <<pos, total, skipped>>
      BY <2>1 DEF Built, counters
    <3> QED
      BY <1>4, <2>1, <3>1 DEF CountInv
  <2>2. CASE Exact /\ TakeProbe
    <3>0. ~cancelled /\ Counted
      BY <2>2 DEF Exact, CountInv
    <3>1. /\ Probe \in Streams /\ pos'[Probe] = pos[Probe] + 1 /\ \A t \in Streams \ {Probe} : pos'[t] = pos[t]
          /\ total' = total /\ skipped' = IF Key(Probe, pos[Probe] + 1) = NoKey THEN skipped + 1 ELSE skipped
      BY <2>2, <3>0, OneProbed
    <3>2. BuildStreams \in SUBSET Streams /\ Probe \notin BuildStreams
      BY <2>2, <3>0, OneProbed, Cover DEF TypeInv, Opened
    <3>3. Taken(BuildStreams)' = Taken(BuildStreams)
      <4>1. Taken(BuildStreams)' = IF Probe \in BuildStreams THEN Taken(BuildStreams) \cup {<<Probe, pos[Probe] + 1>>} ELSE Taken(BuildStreams)
        BY <1>1, <3>1, <3>2, TakenMove
      <4> QED
        BY <3>2, <4>1
    <3>4. /\ <<Probe, pos[Probe] + 1>> \notin Keyless
          /\ Keyless' = IF Key(Probe, pos[Probe] + 1) = NoKey THEN Keyless \cup {<<Probe, pos[Probe] + 1>>} ELSE Keyless
      BY <3>1, TakenMove
    <3>5. IsFiniteSet(Keyless') /\ skipped' = Cardinality(Keyless')
      BY <3>0, <3>1, <3>4, FS_AddElement
    <3> QED
      BY <1>1, <3>0, <3>1, <3>3, <3>5
  <2>3. CASE Exact /\ (ReportProbe \/ Emit \/ EndOfProbe \/ PostOver \/ UNCHANGED vars \/ \E k \in todo : PostKey(k))
    <3>1. UNCHANGED <<pos, total, skipped>>
      BY <2>3 DEF ReportProbe, Emit, EndOfProbe, PostOver, PostKey, counters, vars
    <3>2. Counted
      BY <2>3 DEF CountInv
    <3> QED
      BY <1>4, <3>1, <3>2
  <2> QED
    BY <1>6, ExactSteps, <2>1, <2>2, <2>3
<1> QED
  BY <1>3, <1>5, <1>6 DEF CountInv

-----------------------------------------------------------------------------
(* The theorems.                                                           *)

LEMMA InitInv == Init => IInv
<1> SUFFICES ASSUME Init PROVE IInv
  OBVIOUS
<1> USE DEF Init
<1>1. TypeInv
  <2>1. \A s \in Streams : Len(input[s]) \in Nat
    BY Carried
  <2> QED
    BY <2>1 DEF TypeInv, Opened
<1>2. TableInv /\ BuildInv /\ MatchInv /\ SoundInv /\ DueInv /\ CountInv
  BY DEF TableInv, BuildInv, MatchInv, SoundInv, DueInv, CountInv, Opened, Exact
<1> QED
  BY <1>1, <1>2 DEF IInv

\* The invariant behind the two theorems: what each goroutine has done with the
\* records it took, and which rows are due by then.
THEOREM Inductive == Spec => []IInv
<1>1. IInv /\ [Next]_vars => IInv'
  BY TypeStep, TableStep, BuildStepInv, MatchStep, SoundStep, DueStep, CountStep DEF IInv
<1> QED
  BY InitInv, <1>1, PTL DEF Spec

\* A join that ends well, its context alive, emitted the rows of the join of
\* relational algebra, each once, and its summary counts them; for all streams, keys
\* and parameters (runBuildPhase, runProbePhase, runPostProbePhase).
THEOREM JoinsLikeTheReference == Spec => []MatchesReference
<1>1. IInv => MatchesReference
  <2> SUFFICES ASSUME IInv, result = "ok", ~cancelled
               PROVE  /\ out = Reference /\ joined = Cardinality(Reference)
                      /\ total = Cardinality(RecordsOf(BuildStreams)) /\ processed = Len(input[Probe])
                      /\ params.max > 0 => total <= params.max
                      /\ skipped = Cardinality({e \in RecordsOf(Streams) : Key(e[1], e[2]) = NoKey})
    BY DEF MatchesReference
  <2>1. Exact /\ Opened /\ phase = "done" /\ todo = {} /\ pending = {} /\ pos[Probe] = Len(input[Probe])
        /\ params \in AllParams /\ Accepted /\ input \in Inputs /\ Complete
    BY DEF Exact, Opened, IInv, TypeInv, MatchInv
  <2>2. Probe \in Streams /\ BuildStreams = Streams \ {Probe}
    BY <2>1, Cover
  <2>3. \A s \in Streams : pos[s] = Len(input[s]) /\ DOMAIN input[s] = 1..Len(input[s])
    BY <2>1, <2>2, Carried DEF Complete
  <2>4. Due = Reference
    <3>1. ASSUME NEW k \in AllKeys, NEW c \in Rows(k), c[Probe] \notin 1..pos[Probe] PROVE c[Probe] = 0
      <4>1. c[Probe] \in IF With(Probe, k) = {} THEN {0} ELSE With(Probe, k)
        BY <2>1, <2>2, Row
      <4>2. With(Probe, k) \subseteq 1..pos[Probe]
        BY <2>2, <2>3 DEF With
      <4> QED
        BY <3>1, <4>1, <4>2
    <3>2. Late /\ AllKeys \ todo = AllKeys
      BY <2>1 DEF Late
    <3> QED
      BY <3>1, <3>2 DEF Due, Reference
  <2>5. out = Reference /\ joined = Cardinality(Reference) /\ processed = Len(input[Probe])
    BY <2>1, <2>4 DEF IInv, DueInv
  <2>6. \A S \in SUBSET Streams : Taken(S) = RecordsOf(S)
    BY <2>3 DEF Taken, RecordsOf
  <2>7. Taken(BuildStreams) = RecordsOf(BuildStreams) /\ Keyless = {e \in RecordsOf(Streams) : Key(e[1], e[2]) = NoKey}
    BY <2>2, <2>6 DEF Keyless
  <2> QED
    BY <2>1, <2>5, <2>7 DEF IInv, CountInv
<1> QED
  BY Inductive, <1>1, PTL

\* Whatever the moment the join is cancelled or meets its limit, it emitted only
\* rows of that join: none is called unmatched on a table that is not complete.
THEOREM InventsNothing == Spec => []NothingInvented
<1>1. IInv => NothingInvented
  BY DEF IInv, TypeInv, SoundInv, NothingInvented
<1> QED
  BY Inductive, <1>1, PTL
=============================================================================
