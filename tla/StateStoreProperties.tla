------------------------- MODULE StateStoreProperties -------------------------
(* What the two ways to read the state promise.                            *)
EXTENDS StateStore

\* What Get returns of a value, and GetAll of a key.
At(m, k) == [q \in {SubSeq(p, Len(k) + 1, Len(p)) : p \in {r \in DOMAIN m : IsPrefix(k, r)}} |-> m[k \o q]]

Collide(j, k) == j # k /\ (IsPrefix(j, k) \/ IsPrefix(k, j))

\* A template sees under a key what Get gives for it at the moment of the
\* clone, in whatever order the keys are placed and whatever is written
\* meanwhile, unless the key is the beginning of another key or has another
\* as its beginning; and it sees nothing that no key gives
\* (memory_store.go:48-57, 66-91).
ReadsAgree ==
  reader = "nesting" /\ todo = {} =>
    /\ \A k \in DOMAIN flat : (\A j \in DOMAIN flat : ~Collide(j, k)) => At(nested, k) = flat[k]
    /\ \A p \in DOMAIN nested : \E k \in DOMAIN flat :
         IsPrefix(k, p) /\ SubSeq(p, Len(k) + 1, Len(p)) \in DOMAIN flat[k]
                        /\ nested[p] = flat[k][SubSeq(p, Len(k) + 1, Len(p))]
=============================================================================
