------------------------------- MODULE JoinTable -------------------------------
(***************************************************************************)
(* One Perform of stream:join (modules/stream/join/join.go): the build     *)
(* streams are read concurrently into a table by key, then the probe       *)
(* stream is matched with it, then what no probe record met is emitted.    *)
(* A joined record is the combination it is made of: for each stream the   *)
(* index of its record, 0 for none.  Pipeline has the join as one task of  *)
(* a playbook, its records without keys.                                   *)
(***************************************************************************)
EXTENDS Integers, Sequences, FiniteSets

CONSTANTS
  Streams,    \* the tasks whose streams the join reads
  AllParams,  \* the parameters tried
  Inputs,     \* what the streams carry: the raw join keys of their records
  ErrCap      \* capacity of errChan (10 in the code)

\* A raw key; "missing" is a record without the field, or a template that
\* fails; number says that the text reads as an integer, or the float is one.
RawKeys == [kind : {"nil", "int", "float", "text", "other", "missing"}, v : STRING, number : BOOLEAN]

EntryRecords == [stream : STRING, role : STRING, field : BOOLEAN, template : BOOLEAN]

ASSUME JoinAssumption ==
  /\ IsFiniteSet(Streams) /\ ErrCap \in Nat
  /\ \A p \in AllParams : p.on \in Seq(EntryRecords) /\ p.max \in Int
  /\ Inputs \subseteq [Streams -> Seq(RawKeys)]

VARIABLES
  params, input, \* the task's parameters and its streams
  cancelled,  \* ctx is done
  phase,      \* "parse", "build", "probe", "post" or "done"
  result,     \* "none", "invalid", "limit", "canceled" or "ok"
  worker,     \* the goroutine of each build stream, and main in Probe's place
  pos,        \* records taken from each stream
  limit,      \* buildErr is set
  errs,       \* reports in errChan
  table,      \* buildMap: the records in it, as <<stream, index>>
  matched,    \* keys some probe record had
  pending,    \* combinations about to be emitted
  todo,       \* keys the post-probe phase has not looked at
  out,        \* combinations emitted
  total, skipped, processed, joined \* the summary's counters

counters == <<total, skipped, processed, joined>>
emitVars == <<pending, out>>
vars == <<params, input, cancelled, phase, result, worker, pos, limit, errs, table, matched, todo, emitVars, counters>>
-----------------------------------------------------------------------------
(* Parameters: "on" has one entry for each input stream.                   *)

Entries == params.on
Accepted ==
  /\ params.joinType \in {"inner", "left", "right", "outer"}
  /\ Len(Entries) >= 2 /\ Len(Entries) = Cardinality(Streams)
  /\ \A i, j \in DOMAIN Entries : Entries[i].stream = Entries[j].stream => i = j
  /\ \A i \in DOMAIN Entries : /\ Entries[i].stream \in Streams
                               /\ Entries[i].field # Entries[i].template
  /\ Cardinality({i \in DOMAIN Entries : Entries[i].role = "probe"}) = 1
  /\ params.strategy \in {"flat", "nested"}
  /\ params.strategy = "nested" => \A i \in DOMAIN Entries : Entries[i].stream \in params.nestingKeys

\* Any other role makes a build stream.
Probe == CHOOSE s \in Streams : \E i \in DOMAIN Entries : Entries[i] = [Entries[i] EXCEPT !.stream = s, !.role = "probe"]
BuildStreams == {Entries[i].stream : i \in {j \in DOMAIN Entries : Entries[j].role # "probe"}}

NoKey == <<"none", "">>

\* normalizeKey: whole numbers are one key in whatever type they come, except
\* the types it does not list (unsigned, boolean), which become text.
NormalKey(raw) ==
  CASE raw.kind = "nil" -> <<"nil", "">>
    [] raw.kind = "int" \/ (raw.kind \in {"float", "text"} /\ raw.number) -> <<"int", raw.v>>
    [] raw.kind = "other" \/ (raw.kind = "text" /\ ~raw.number) -> <<"text", raw.v>>
    [] OTHER -> NoKey

Key(s, i) == NormalKey(input[s][i])
Found(k) == [s \in BuildStreams |-> {i \in DOMAIN input[s] : <<s, i>> \in table /\ Key(s, i) = k}]
TableKeys == {Key(e[1], e[2]) : e \in table}

Indices == UNION {0..Len(input[s]) : s \in Streams}

\* getCombinations: p is the probe record's index, 0 after the probe phase.
Combinations(p, found) ==
  IF params.joinType = "inner" /\ \E s \in BuildStreams : found[s] = {} THEN {}
  ELSE {c \in [Streams -> Indices] :
          /\ c[Probe] = p
          /\ \A s \in BuildStreams : c[s] \in IF found[s] = {} THEN {0} ELSE found[s]}
-----------------------------------------------------------------------------
Init ==
  /\ params \in AllParams /\ input \in Inputs
  /\ cancelled = FALSE /\ phase = "parse" /\ result = "none"
  /\ worker = [s \in Streams |-> "read"] /\ pos = [s \in Streams |-> 0]
  /\ limit = FALSE /\ errs = 0 /\ table = {} /\ matched = {} /\ todo = {}
  /\ pending = {} /\ out = {}
  /\ total = 0 /\ skipped = 0 /\ processed = 0 /\ joined = 0

Done(r) == phase' = "done" /\ result' = r

Parse ==
  /\ phase = "parse"
  /\ IF Accepted THEN phase' = "build" /\ UNCHANGED result ELSE Done("invalid")
  /\ UNCHANGED <<params, input, cancelled, worker, pos, limit, errs, table, matched, todo, emitVars, counters>>

Cancel ==
  /\ phase # "done" /\ ~cancelled /\ cancelled' = TRUE
  /\ UNCHANGED <<params, input, phase, result, worker, pos, limit, errs, table, matched, todo, emitVars, counters>>
-----------------------------------------------------------------------------
(* The build phase: a goroutine per stream, and the loop that fills the    *)
(* table (with the goroutines' last step: nothing reads it before).        *)

Stopped == cancelled \/ limit
More(s) == pos[s] < Len(input[s])
At(s, here) == phase = "build" /\ s \in BuildStreams /\ worker[s] = here

\* Every record counts, those without a key too; a stopped stream is drained.
TakeBuild(s) ==
  /\ At(s, "read") /\ More(s)
  /\ pos' = [pos EXCEPT ![s] = @ + 1]
  /\ IF Stopped THEN UNCHANGED <<worker, limit, total, skipped>>
     ELSE /\ total' = total + 1
          /\ limit' = (params.max > 0 /\ total' > params.max)
          /\ IF limit' THEN UNCHANGED <<worker, skipped>>
             ELSE IF Key(s, pos'[s]) = NoKey THEN worker' = [worker EXCEPT ![s] = "report"] /\ skipped' = skipped + 1
             ELSE worker' = [worker EXCEPT ![s] = "insert"] /\ UNCHANGED skipped
  /\ UNCHANGED <<params, input, cancelled, phase, result, errs, table, matched, todo, emitVars, processed, joined>>

ReportBuild(s) ==
  /\ At(s, "report")
  /\ \/ errs < ErrCap /\ errs' = errs + 1 /\ worker' = [worker EXCEPT ![s] = "read"]
     \/ Stopped /\ worker' = [worker EXCEPT ![s] = "left"] /\ UNCHANGED errs
  /\ UNCHANGED <<params, input, cancelled, phase, result, pos, limit, table, matched, todo, emitVars, counters>>

Insert(s) ==
  /\ At(s, "insert")
  /\ \/ table' = table \cup {<<s, pos[s]>>} /\ worker' = [worker EXCEPT ![s] = "read"]
     \/ Stopped /\ worker' = [worker EXCEPT ![s] = "left"] /\ UNCHANGED table
  /\ UNCHANGED <<params, input, cancelled, phase, result, pos, limit, errs, matched, todo, emitVars, counters>>

\* A cancelled producer closes its stream before the end.
EndOfBuild(s) ==
  /\ At(s, "read") /\ (cancelled \/ ~More(s))
  /\ worker' = [worker EXCEPT ![s] = "ended"]
  /\ UNCHANGED <<params, input, cancelled, phase, result, pos, limit, errs, table, matched, todo, emitVars, counters>>

\* A build phase that the context stopped is no error.
Built ==
  /\ phase = "build" /\ \A s \in BuildStreams : worker[s] \in {"ended", "left"}
  /\ IF limit THEN Done("limit") ELSE phase' = "probe" /\ UNCHANGED result
  /\ UNCHANGED <<params, input, cancelled, worker, pos, limit, errs, table, matched, todo, emitVars, counters>>
-----------------------------------------------------------------------------
(* The probe phase.                                                        *)

Probing == phase = "probe" /\ worker[Probe] = "read" /\ pending = {}

\* A probe record matches a key as soon as one build stream has it.
Match(k, p) ==
  IF k \in TableKeys THEN matched' = matched \cup {k} /\ pending' = Combinations(p, Found(k))
  ELSE /\ pending' = IF params.joinType \in {"left", "outer"}
                     THEN Combinations(p, [s \in BuildStreams |-> {}]) ELSE {}
       /\ UNCHANGED matched

ProbeNext(p) ==
  /\ processed' = processed + 1
  /\ IF Key(Probe, p) = NoKey
     THEN /\ worker' = [worker EXCEPT ![Probe] = "report"] /\ skipped' = skipped + 1
          /\ UNCHANGED <<matched, pending>>
     ELSE Match(Key(Probe, p), p) /\ UNCHANGED <<worker, skipped>>
  /\ UNCHANGED <<phase, result>>

\* Defect: the context is not looked at before a probe record is matched.
TakeProbeBlind ==
  /\ Probing /\ More(Probe)
  /\ pos' = [pos EXCEPT ![Probe] = @ + 1] /\ ProbeNext(pos'[Probe])
  /\ UNCHANGED <<params, input, cancelled, limit, errs, table, todo, out, total, joined>>

TakeProbe ==
  /\ Probing /\ More(Probe)
  /\ pos' = [pos EXCEPT ![Probe] = @ + 1]
  /\ IF cancelled THEN Done("canceled") /\ UNCHANGED <<worker, matched, pending, skipped, processed>>
     ELSE ProbeNext(pos'[Probe])
  /\ UNCHANGED <<params, input, cancelled, limit, errs, table, todo, out, total, joined>>

ReportProbe ==
  /\ phase = "probe" /\ worker[Probe] = "report"
  /\ \/ errs < ErrCap /\ errs' = errs + 1 /\ worker' = [worker EXCEPT ![Probe] = "read"] /\ UNCHANGED <<phase, result>>
     \/ cancelled /\ Done("canceled") /\ UNCHANGED <<errs, worker>>
  /\ UNCHANGED <<params, input, cancelled, pos, limit, table, matched, todo, emitVars, counters>>

\* emitJoinedRecords: to every output, or until the context is done.
Emit ==
  /\ \E c \in pending :
       /\ joined' = joined + 1
       /\ \/ out' = out \cup {c} /\ pending' = pending \ {c} /\ UNCHANGED <<phase, result>>
          \/ cancelled /\ Done("canceled") /\ pending' = {} /\ UNCHANGED out
  /\ UNCHANGED <<params, input, cancelled, worker, pos, limit, errs, table, matched, todo, total, skipped, processed>>

EndOfProbe ==
  /\ Probing /\ (cancelled \/ ~More(Probe))
  /\ IF params.joinType \notin {"right", "outer"} THEN Done("ok") /\ UNCHANGED todo
     ELSE IF cancelled THEN Done("canceled") /\ UNCHANGED todo
     ELSE phase' = "post" /\ todo' = TableKeys /\ UNCHANGED result
  /\ UNCHANGED <<params, input, cancelled, worker, pos, limit, errs, table, matched, emitVars, counters>>
-----------------------------------------------------------------------------
(* The post-probe phase, in the order of the keys' texts in the code.      *)

\* Defect: what a probe record met is emitted again.
PostKeyAlways(k) ==
  /\ phase = "post" /\ pending = {} /\ k \in todo /\ ~cancelled
  /\ todo' = todo \ {k} /\ pending' = Combinations(0, Found(k))
  /\ UNCHANGED <<params, input, cancelled, phase, result, worker, pos, limit, errs, table, matched, out, counters>>

PostKey(k) ==
  /\ phase = "post" /\ pending = {} /\ k \in todo
  /\ IF cancelled THEN Done("canceled") /\ UNCHANGED <<todo, pending>>
     ELSE /\ todo' = todo \ {k}
          /\ pending' = IF k \in matched THEN {} ELSE Combinations(0, Found(k))
          /\ UNCHANGED <<phase, result>>
  /\ UNCHANGED <<params, input, cancelled, worker, pos, limit, errs, table, matched, out, counters>>

PostOver ==
  /\ phase = "post" /\ pending = {} /\ todo = {}
  /\ Done("ok")
  /\ UNCHANGED <<params, input, cancelled, worker, pos, limit, errs, table, matched, todo, emitVars, counters>>
-----------------------------------------------------------------------------
BuildStep(s) == TakeBuild(s) \/ ReportBuild(s) \/ Insert(s) \/ EndOfBuild(s)
ProbeStep == TakeProbe \/ ReportProbe \/ Emit \/ EndOfProbe
PostStep == (\E k \in todo : PostKey(k)) \/ PostOver
Ended == phase = "done" /\ UNCHANGED vars

Next == Parse \/ (\E s \in Streams : BuildStep(s)) \/ Built \/ ProbeStep \/ PostStep \/ Cancel \/ Ended

Spec == Init /\ [][Next]_vars
=============================================================================
