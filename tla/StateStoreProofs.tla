---------------------------- MODULE StateStoreProofs ----------------------------
(***************************************************************************)
(* Theorems about StateStore: what a template sees is what was stored, for *)
(* any keys, values and writers.                                           *)
(***************************************************************************)
EXTENDS StateStoreProperties, SequenceTheorems, TLAPS

Rest(k, p) == SubSeq(p, Len(k) + 1, Len(p))

-----------------------------------------------------------------------------
(* Paths.                                                                  *)

\* A prefix agrees with the path on its own length.
LEMMA Prefix ==
  ASSUME NEW k \in Paths, NEW p \in Paths
  PROVE  IsPrefix(k, p) <=> Len(k) <= Len(p) /\ \A i \in 1..Len(k) : k[i] = p[i]
<1>1. k \in [1..Len(k) -> Parts] /\ p \in [1..Len(p) -> Parts] /\ Len(k) \in Nat /\ Len(p) \in Nat
  BY LenProperties DEF Paths
<1>2. ASSUME Len(k) <= Len(p)
      PROVE  SubSeq(k, 1, Len(k)) = SubSeq(p, 1, Len(k)) <=> \A i \in 1..Len(k) : k[i] = p[i]
  <2>1. SubSeq(k, 1, Len(k)) = [i \in 1..Len(k) |-> k[i]]
    BY <1>1
  <2>2. SubSeq(p, 1, Len(k)) = [i \in 1..Len(k) |-> p[i]]
    BY <1>1, <1>2
  <2> QED
    BY <2>1, <2>2
<1> QED
  BY <1>2 DEF IsPrefix

\* A key followed by a path begins with the key, and what follows is the path.
LEMMA Extended ==
  ASSUME NEW k \in Paths, NEW q \in Paths
  PROVE  k \o q \in Paths /\ IsPrefix(k, k \o q) /\ Rest(k, k \o q) = q
<1>1. /\ k \o q \in Paths /\ Len(k \o q) = Len(k) + Len(q) /\ Len(k) \in Nat /\ Len(q) \in Nat
      /\ \A i \in 1..(Len(k) + Len(q)) : (k \o q)[i] = IF i <= Len(k) THEN k[i] ELSE q[i - Len(k)]
  BY ConcatProperties, LenProperties DEF Paths
<1>2. IsPrefix(k, k \o q)
  <2>1. Len(k) <= Len(k \o q)
    BY <1>1
  <2>2. \A i \in 1..Len(k) : k[i] = (k \o q)[i]
    BY <1>1
  <2> QED
    BY <1>1, <2>1, <2>2, Prefix
<1>3. Rest(k, k \o q) = q
  <2> DEFINE z == k \o q
  <2>1. /\ Len(z) = Len(k) + Len(q)
        /\ \A i \in 1..(Len(k) + Len(q)) : z[i] = IF i <= Len(k) THEN k[i] ELSE q[i - Len(k)]
    BY <1>1
  <2> HIDE DEF z
  <2>2. SubSeq(z, Len(k) + 1, Len(z)) = [i \in 1..Len(q) |-> q[i]]
    BY <1>1, <2>1
  <2>3. q = [i \in 1..Len(q) |-> q[i]]
    BY LenProperties DEF Paths
  <2> QED
    BY <2>2, <2>3 DEF Rest, z
<1> QED
  BY <1>1, <1>2, <1>3

\* A path is its prefix and the rest.
LEMMA Split ==
  ASSUME NEW k \in Paths, NEW p \in Paths, IsPrefix(k, p)
  PROVE  Rest(k, p) \in Paths /\ p = k \o Rest(k, p)
<1>1. k \in [1..Len(k) -> Parts] /\ p \in [1..Len(p) -> Parts] /\ Len(k) \in Nat /\ Len(p) \in Nat
  BY LenProperties DEF Paths
<1>2. Len(k) <= Len(p) /\ \A i \in 1..Len(k) : k[i] = p[i]
  BY Prefix
<1>3. Rest(k, p) \in Paths /\ Len(Rest(k, p)) = Len(p) - Len(k)
      /\ \A i \in 1..(Len(p) - Len(k)) : Rest(k, p)[i] = p[Len(k) + i]
  <2>1. Rest(k, p) = [i \in 1..(Len(p) - Len(k)) |-> p[Len(k) + i]]
    BY <1>1, <1>2 DEF Rest
  <2>2. Rest(k, p) \in [1..(Len(p) - Len(k)) -> Parts]
    BY <1>1, <1>2, <2>1
  <2>3. Len(p) - Len(k) \in Nat
    BY <1>1, <1>2
  <2>4. Rest(k, p) \in Paths
    BY <2>2, <2>3, SeqDef DEF Paths
  <2>5. Len(Rest(k, p)) = Len(p) - Len(k)
    BY <2>2, <2>3, <2>4, LenProperties DEF Paths
  <2> QED
    BY <2>1, <2>4, <2>5
<1> DEFINE z == k \o Rest(k, p)
<1>4. /\ z \in Paths /\ Len(z) = Len(k) + Len(Rest(k, p))
      /\ \A i \in 1..(Len(k) + Len(Rest(k, p))) : z[i] = IF i <= Len(k) THEN k[i] ELSE Rest(k, p)[i - Len(k)]
  BY <1>3, ConcatProperties DEF Paths
<1> HIDE DEF z
<1>5. Len(z) = Len(p) /\ z \in [1..Len(z) -> Parts]
  BY <1>1, <1>3, <1>4, LenProperties DEF Paths
<1>6. ASSUME NEW i \in 1..Len(p) PROVE z[i] = p[i]
  <2>1. CASE i <= Len(k)
    BY <2>1, <1>1, <1>2, <1>4, <1>5
  <2>2. CASE ~(i <= Len(k))
    <3>1. i - Len(k) \in 1..(Len(p) - Len(k)) /\ Len(k) + (i - Len(k)) = i
      BY <2>2, <1>1, <1>2
    <3>2. Rest(k, p)[i - Len(k)] = p[i]
      BY <3>1, <1>3
    <3> QED
      BY <2>2, <3>2, <1>4, <1>5
  <2> QED
    BY <2>1, <2>2
<1>7. z = p
  BY <1>1, <1>5, <1>6
<1> QED
  BY <1>3, <1>7 DEF z

\* Two beginnings of one path, and a beginning of a beginning.
LEMMA Beginnings ==
  ASSUME NEW j \in Paths, NEW k \in Paths, NEW p \in Paths
  PROVE  /\ IsPrefix(j, p) /\ IsPrefix(k, p) => IsPrefix(j, k) \/ IsPrefix(k, j)
         /\ IsPrefix(j, k) /\ IsPrefix(k, p) => IsPrefix(j, p)
<1>1. Len(j) \in Nat /\ Len(k) \in Nat /\ Len(p) \in Nat
  BY LenProperties DEF Paths
<1>2. ASSUME IsPrefix(j, p), IsPrefix(k, p) PROVE IsPrefix(j, k) \/ IsPrefix(k, j)
  <2>1. /\ Len(j) <= Len(p) /\ \A i \in 1..Len(j) : j[i] = p[i]
        /\ Len(k) <= Len(p) /\ \A i \in 1..Len(k) : k[i] = p[i]
    BY <1>2, Prefix
  <2>2. CASE Len(j) <= Len(k)
    <3>1. \A i \in 1..Len(j) : j[i] = k[i]
      BY <1>1, <2>1, <2>2
    <3> QED
      BY <2>2, <3>1, Prefix
  <2>3. CASE Len(k) <= Len(j)
    <3>1. \A i \in 1..Len(k) : k[i] = j[i]
      BY <1>1, <2>1, <2>3
    <3> QED
      BY <2>3, <3>1, Prefix
  <2> QED
    BY <1>1, <2>2, <2>3
<1>3. ASSUME IsPrefix(j, k), IsPrefix(k, p) PROVE IsPrefix(j, p)
  <2>1. /\ Len(j) <= Len(k) /\ \A i \in 1..Len(j) : j[i] = k[i]
        /\ Len(k) <= Len(p) /\ \A i \in 1..Len(k) : k[i] = p[i]
    BY <1>3, Prefix
  <2>2. Len(j) <= Len(p) /\ \A i \in 1..Len(j) : j[i] = p[i]
    BY <1>1, <2>1
  <2> QED
    BY <2>2, Prefix
<1> QED
  BY <1>2, <1>3

-----------------------------------------------------------------------------
(* The store and its reader.                                               *)

Stored(m) == \A k \in DOMAIN m : k \in Paths /\ IsValue(m[k])

\* Where what is found at a path of the nested map comes from.
From(k, p) == IsPrefix(k, p) /\ Rest(k, p) \in DOMAIN flat[k] /\ nested[p] = flat[k][Rest(k, p)]

\* The nested map holds what the keys placed so far give it, and all of each key
\* that collides with none.
NestInv ==
  /\ DOMAIN nested \subseteq Paths /\ todo \subseteq DOMAIN flat
  /\ \A p \in DOMAIN nested : \E k \in DOMAIN flat : From(k, p)
  /\ \A k \in DOMAIN flat \ todo : (\A j \in DOMAIN flat : ~Collide(j, k)) => At(nested, k) = flat[k]

IInv == Stored(data) /\ Stored(flat) /\ (reader = "nesting" => NestInv)

\* Everything that is written is a value under a path.
LEMMA StoredStep ==
  ASSUME StoreAssumption
  PROVE  Stored(data) /\ [Next]_vars => Stored(data)'
<1> SUFFICES ASSUME Stored(data), [Next]_vars PROVE Stored(data)'
  OBVIOUS
<1>1. ASSUME NEW k \in Paths, NEW v, IsValue(v), Put(k, v) PROVE Stored(data)'
  <2>1. data' = [j \in DOMAIN data \cup {k} |-> IF j = k THEN v ELSE data[j]]
    BY <1>1 DEF Put
  <2>2. DOMAIN data' = {k} \cup DOMAIN data
    BY <2>1
  <2>3. ASSUME NEW j \in DOMAIN data' PROVE j \in Paths /\ IsValue(data'[j])
    <3>1. data'[j] = IF j = k THEN v ELSE data[j]
      BY <2>1, <2>2
    <3> QED
      BY <1>1, <2>2, <3>1 DEF Stored
  <2> QED
    BY <2>3 DEF Stored
<1>2. CASE Load
  BY <1>2 DEF StoreAssumption, Load, Stored
<1>3. CASE RegisterResult
  BY <1>1, <1>3 DEF StoreAssumption, RegisterResult, Set
<1>4. CASE WriteTaskStatus
  <2>1. PICK name \in TaskNames, st \in Statuses : Set(StatusKey(name), Scalar(st))
    BY <1>4 DEF WriteTaskStatus
  <2>2. StatusKey(name) \in Paths
    <3>1. "_gxo" \in Parts /\ "tasks" \in Parts /\ name \in Parts /\ "status" \in Parts
      BY DEF StoreAssumption
    <3> QED
      BY <3>1 DEF StatusKey, Paths
  <2>3. IsValue(Scalar(st))
    BY EmptySeq DEF IsValue, Scalar, Paths
  <2> QED
    BY <1>1, <2>1, <2>2, <2>3 DEF Set
<1>5. ASSUME NEW k \in DOMAIN data, Delete(k) PROVE Stored(data)'
  <2>1. data' = [j \in DOMAIN data \ {k} |-> data[j]]
    BY <1>5 DEF Delete
  <2>2. DOMAIN data' = DOMAIN data \ {k} /\ \A j \in DOMAIN data' : data'[j] = data[j]
    BY <2>1
  <2> QED
    BY <2>2 DEF Stored
<1>6. CASE GetAll \/ UNCHANGED vars
  <2>1. data' = data
    BY <1>6 DEF GetAll, Clone, Place, Return, vars
  <2> QED
    BY <2>1 DEF Stored
<1> QED
  BY <1>2, <1>3, <1>4, <1>5, <1>6 DEF Next, Write

\* One key is placed: what others gave stays unless it is in the way, so a key
\* that collides with none keeps all it gave, and the new one gives all it has.
LEMMA PlaceStep ==
  ASSUME IInv, NEW k \in todo, Place(k)
  PROVE  NestInv'
<1> DEFINE kept == {p \in DOMAIN nested : ~IsPrefix(p, k) /\ ~IsPrefix(k, p)}
           v == flat[k]
           given == {k \o q : q \in DOMAIN v}
<1>1. NestInv /\ flat' = flat /\ todo' = todo \ {k} /\ nested' = Assign(nested, k, v)
  BY DEF IInv, Place
<1>2. nested' = [p \in kept \cup given |-> IF p \in kept THEN nested[p] ELSE v[Rest(k, p)]]
  BY <1>1 DEF Assign, Rest
<1>3. k \in DOMAIN flat /\ k \in Paths /\ IsValue(v)
  BY <1>1 DEF NestInv, IInv, Stored
<1>4. DOMAIN v \subseteq Paths /\ v = [p \in DOMAIN v |-> v[p]]
  BY <1>3 DEF IsValue
<1>5. ASSUME NEW q \in DOMAIN v
      PROVE  k \o q \in Paths /\ k \o q \in given /\ k \o q \notin kept /\ IsPrefix(k, k \o q) /\ Rest(k, k \o q) = q
  BY <1>3, <1>4, Extended
<1> HIDE DEF v
<1>6. /\ DOMAIN nested' = kept \cup given
      /\ \A p \in kept : nested'[p] = nested[p]
      /\ \A p \in given : nested'[p] = v[Rest(k, p)]
  BY <1>2, <1>5
<1>7. DOMAIN nested \subseteq Paths /\ kept \subseteq DOMAIN nested /\ given \subseteq Paths
  BY <1>1, <1>5 DEF NestInv
<1>8. \A p \in given : IsPrefix(k, p) /\ Rest(k, p) \in DOMAIN v
  BY <1>5
<1> HIDE DEF kept, given
<1>9. ASSUME NEW p \in DOMAIN nested' PROVE \E j \in DOMAIN flat : From(j, p)'
  <2>1. CASE p \in kept
    <3>1. PICK j \in DOMAIN flat : From(j, p)
      BY <2>1, <1>1, <1>7 DEF NestInv
    <3>2. From(j, p)'
      BY <3>1, <2>1, <1>1, <1>6 DEF From, Rest
    <3> QED
      BY <3>2
  <2>2. CASE p \in given
    <3>1. From(k, p)'
      BY <2>2, <1>1, <1>6, <1>8 DEF From, Rest, v
    <3> QED
      BY <3>1, <1>3
  <2> QED
    BY <2>1, <2>2, <1>6
<1>10. ASSUME NEW j \in DOMAIN flat \ todo', \A i \in DOMAIN flat : ~Collide(i, j)
       PROVE  At(nested', j) = flat[j]
  <2>1. j \in Paths /\ IsValue(flat[j])
    BY DEF IInv, Stored
  <2>2. CASE j = k
    <3>1. {r \in DOMAIN nested' : IsPrefix(k, r)} = given
      BY <1>6, <1>8 DEF kept
    <3>2. {Rest(k, r) : r \in given} = DOMAIN v
      <4>1. \A q \in DOMAIN v : k \o q \in given /\ Rest(k, k \o q) = q
        BY <1>5
      <4> QED
        BY <4>1, <1>8
    <3>3. At(nested', k) = [q \in DOMAIN v |-> nested'[k \o q]]
      BY <3>1, <3>2 DEF At, Rest
    <3>4. \A q \in DOMAIN v : nested'[k \o q] = v[q]
      BY <1>5, <1>6
    <3> QED
      BY <2>2, <3>3, <3>4, <1>4 DEF v
  <2>3. CASE j # k
    <3>1. ~IsPrefix(j, k) /\ ~IsPrefix(k, j)
      BY <2>3, <1>3, <1>10 DEF Collide
    <3>2. At(nested, j) = flat[j]
      BY <2>3, <1>1, <1>10 DEF NestInv
    <3>3. {r \in DOMAIN nested' : IsPrefix(j, r)} = {r \in DOMAIN nested : IsPrefix(j, r)}
      <4>1. ASSUME NEW r \in given PROVE ~IsPrefix(j, r)
        <5>1. r \in Paths /\ IsPrefix(k, r)
          BY <1>7, <1>8
        <5> QED
          BY <5>1, <3>1, <2>1, <1>3, Beginnings
      <4>2. ASSUME NEW r \in DOMAIN nested, IsPrefix(j, r) PROVE r \in kept
        <5>1. r \in Paths
          BY <1>7
        <5>2. ~IsPrefix(r, k) /\ ~IsPrefix(k, r)
          BY <5>1, <4>2, <3>1, <2>1, <1>3, Beginnings
        <5> QED
          BY <5>2 DEF kept
      <4> QED
        BY <4>1, <4>2, <1>6, <1>7
    <3>4. ASSUME NEW r \in DOMAIN nested, IsPrefix(j, r) PROVE nested'[j \o Rest(j, r)] = nested[j \o Rest(j, r)]
      <4>1. r = j \o Rest(j, r)
        BY <3>4, <2>1, <1>7, Split
      <4>2. r \in kept
        BY <3>3, <3>4, <1>6, <1>8, <1>7, <2>1, <1>3, <3>1, Beginnings
      <4> QED
        BY <4>1, <4>2, <1>6
    <3> DEFINE D == {Rest(j, r) : r \in {p \in DOMAIN nested : IsPrefix(j, p)}}
    <3>5. At(nested, j) = [q \in D |-> nested[j \o q]]
      BY DEF At, Rest
    <3>6. At(nested', j) = [q \in D |-> nested'[j \o q]]
      BY <3>3 DEF At, Rest
    <3>7. \A q \in D : nested'[j \o q] = nested[j \o q]
      BY <3>4
    <3> HIDE DEF D
    <3> QED
      BY <3>2, <3>5, <3>6, <3>7
  <2> QED
    BY <2>2, <2>3
<1>11. DOMAIN nested' \subseteq Paths /\ todo' \subseteq DOMAIN flat'
  BY <1>1, <1>6, <1>7 DEF NestInv
<1>12. \A j : At(nested, j)' = At(nested', j)
  BY DEF At
<1> QED
  BY <1>1, <1>9, <1>10, <1>11, <1>12 DEF NestInv, Collide

LEMMA Invariant ==
  ASSUME StoreAssumption
  PROVE  Spec => []IInv
<1>1. Init => IInv
  BY DEF Init, IInv, Stored
<1>2. IInv /\ [Next]_vars => IInv'
  <2> SUFFICES ASSUME IInv, [Next]_vars PROVE IInv'
    OBVIOUS
  <2>1. Stored(data)'
    BY StoredStep DEF IInv
  <2>2. CASE UNCHANGED <<flat, todo, nested, reader>>
    <3>1. Stored(flat)'
      BY <2>2 DEF IInv, Stored
    <3>2. NestInv => NestInv'
      BY <2>2 DEF NestInv, From, At, Collide, Rest
    <3> QED
      BY <2>1, <2>2, <3>1, <3>2 DEF IInv
  <2>3. CASE Clone
    <3>1. /\ flat' = data /\ todo' = DOMAIN data /\ nested' = <<>> /\ data' = data
      BY <2>3 DEF Clone
    <3>2. Stored(flat)'
      BY <3>1 DEF IInv, Stored
    <3>3. NestInv'
      BY <3>1 DEF NestInv
    <3> QED
      BY <2>1, <3>2, <3>3 DEF IInv
  <2>4. ASSUME NEW k \in todo, Place(k) PROVE IInv'
    <3>1. flat' = flat
      BY <2>4 DEF Place
    <3>2. Stored(flat)'
      BY <3>1 DEF IInv, Stored
    <3> QED
      BY <2>1, <2>4, <3>2, PlaceStep DEF IInv
  <2>5. CASE Return
    BY <2>1, <2>5 DEF Return, IInv, Stored
  <2>6. CASE Write
    <3>1. UNCHANGED readVars
      BY <2>6 DEF Write, Load, RegisterResult, WriteTaskStatus, Set, Delete
    <3> QED
      BY <3>1, <2>2 DEF readVars
  <2> QED
    BY <2>2, <2>3, <2>4, <2>5, <2>6 DEF Next, GetAll, vars
<1> QED
  BY <1>1, <1>2, PTL DEF Spec

\* What a template sees of the state is what Get gives at the moment of the clone,
\* whatever is written while GetAll nests its keys.
THEOREM SeesTheClone ==
  ASSUME StoreAssumption
  PROVE  Spec => []ReadsAgree
<1>1. IInv => ReadsAgree
  <2> SUFFICES ASSUME IInv, reader = "nesting", todo = {}
               PROVE  /\ \A k \in DOMAIN flat : (\A j \in DOMAIN flat : ~Collide(j, k)) => At(nested, k) = flat[k]
                      /\ \A p \in DOMAIN nested : \E k \in DOMAIN flat :
                           IsPrefix(k, p) /\ SubSeq(p, Len(k) + 1, Len(p)) \in DOMAIN flat[k]
                                          /\ nested[p] = flat[k][SubSeq(p, Len(k) + 1, Len(p))]
    BY DEF ReadsAgree
  <2>1. NestInv
    BY DEF IInv
  <2>2. \A k \in DOMAIN flat : (\A j \in DOMAIN flat : ~Collide(j, k)) => At(nested, k) = flat[k]
    BY <2>1 DEF NestInv
  <2> QED
    BY <2>1, <2>2 DEF NestInv, From, Rest
<1> QED
  BY Invariant, <1>1, PTL
=============================================================================
