------------------------------ MODULE StateStore ------------------------------
(***************************************************************************)
(* The playbook state (internal/state/memory_store.go): a flat map under   *)
(* a lock, which Load, Set and Delete write.  Get reads one key; GetAll,   *)
(* what templates see, clones the map under the lock and then nests its    *)
(* dotted keys one by one, in the order of a Go map, while others write.   *)
(*                                                                         *)
(* A key is the sequence of its parts.  A value, and a nested map, is a    *)
(* function from the paths inside it to what is found at their end: a      *)
(* value that is no map is a function on the empty path.                   *)
(***************************************************************************)
EXTENDS Sequences, FiniteSets, SequencesExt

CONSTANTS
  Parts,      \* the parts of keys
  Vars,       \* the states RunPlaybook may load: functions from keys to values
  Results,    \* what modules return and tasks register
  Registers,  \* the keys tasks register under: one part each
  TaskNames,  \* names of tasks: a part each
  Statuses    \* the task statuses written

Paths == Seq(Parts)
IsValue(v) == DOMAIN v \subseteq Paths /\ v = [p \in DOMAIN v |-> v[p]]

\* What the theorems ask of the constants.
StoreAssumption ==
  /\ \A vars0 \in Vars : \A k \in DOMAIN vars0 : k \in Paths \ {<<>>} /\ IsValue(vars0[k])
  /\ \A v \in Results : IsValue(v)
  /\ \A k \in Registers : k \in Paths /\ Len(k) = 1
  /\ {"_gxo", "tasks", "status"} \cup TaskNames \subseteq Parts

Scalar(x) == [p \in {<<>>} |-> x]
StatusKey(name) == <<"_gxo", "tasks", name, "status">>

VARIABLES
  data,   \* the store's map
  reader, \* GetAll: "idle" or "nesting"
  flat,   \* its clone
  todo,   \* the keys of the clone it has not placed yet
  nested  \* the map it builds

vars == <<data, reader, flat, todo, nested>>
readVars == <<reader, flat, todo, nested>>

Init ==
  /\ data = <<>>
  /\ reader = "idle" /\ flat = <<>> /\ todo = {} /\ nested = <<>>
-----------------------------------------------------------------------------
Put(k, v) == data' = [j \in DOMAIN data \cup {k} |-> IF j = k THEN v ELSE data[j]]

Load == \E v \in Vars : data' = v /\ UNCHANGED readVars

Set(k, v) == Put(k, v) /\ UNCHANGED readVars

RegisterResult == \E k \in Registers, v \in Results : Set(k, v)

\* writeTaskStatus
WriteTaskStatus == \E name \in TaskNames, s \in Statuses : Set(StatusKey(name), Scalar(s))

\* Absent keys are an error that changes nothing.
Delete(k) ==
  /\ k \in DOMAIN data
  /\ data' = [j \in DOMAIN data \ {k} |-> data[j]]
  /\ UNCHANGED readVars
-----------------------------------------------------------------------------
Clone ==
  /\ reader = "idle"
  /\ reader' = "nesting" /\ flat' = data /\ todo' = DOMAIN data /\ nested' = <<>>
  /\ UNCHANGED data

\* Defect: the maps on the way are always new.
AssignFresh(m, k, v) ==
  LET kept == {p \in DOMAIN m : p[1] # k[1]}
  IN [p \in kept \cup {k \o q : q \in DOMAIN v} |->
        IF p \in kept THEN m[p] ELSE v[SubSeq(p, Len(k) + 1, Len(p))]]

\* A value in the way of the path gives way to a map; what was at the key's
\* place goes.  A map that is in the way is entered, and keeps the rest.
Assign(m, k, v) ==
  LET kept == {p \in DOMAIN m : ~IsPrefix(p, k) /\ ~IsPrefix(k, p)}
  IN [p \in kept \cup {k \o q : q \in DOMAIN v} |->
        IF p \in kept THEN m[p] ELSE v[SubSeq(p, Len(k) + 1, Len(p))]]

Place(k) ==
  /\ reader = "nesting" /\ k \in todo
  /\ nested' = Assign(nested, k, flat[k]) /\ todo' = todo \ {k}
  /\ UNCHANGED <<data, reader, flat>>

Return ==
  /\ reader = "nesting" /\ todo = {}
  /\ reader' = "idle" /\ flat' = <<>> /\ nested' = <<>>
  /\ UNCHANGED <<data, todo>>
-----------------------------------------------------------------------------
Write == Load \/ RegisterResult \/ WriteTaskStatus \/ \E k \in DOMAIN data : Delete(k)
GetAll == Clone \/ (\E k \in todo : Place(k)) \/ Return

Next == Write \/ GetAll

Spec == Init /\ [][Next]_vars
=============================================================================
