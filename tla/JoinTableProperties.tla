-------------------------- MODULE JoinTableProperties --------------------------
(* What stream:join computes, against the join of relational algebra.      *)
EXTENDS JoinTable

\* Types of the state.
TypeOK ==
  /\ params \in AllParams /\ input \in Inputs
  /\ phase \in {"parse", "build", "probe", "post", "done"}
  /\ result \in {"none", "invalid", "limit", "canceled", "ok"}
  /\ worker \in [Streams -> {"read", "report", "insert", "ended", "left"}]
  /\ \A s \in Streams : pos[s] \in 0..Len(input[s])
  /\ errs \in 0..ErrCap /\ {total, skipped, processed, joined} \subseteq Nat

With(s, k) == {i \in DOMAIN input[s] : Key(s, i) = k}
AllKeys == (UNION {{Key(s, i) : i \in DOMAIN input[s]} : s \in Streams}) \ {NoKey}

\* The rows of the join on one key: every way to take a record with the key
\* from each stream that has some; an inner join wants all streams to have
\* some, the others the streams of their side.
Rows(k) ==
  LET sides == {s \in Streams : With(s, k) # {}}
      wanted == CASE params.joinType = "inner" -> sides = Streams
                  [] params.joinType = "left" -> Probe \in sides
                  [] params.joinType = "right" -> sides # {Probe}
                  [] OTHER -> TRUE
  IN IF ~wanted THEN {}
     ELSE {c \in [Streams -> Indices] :
             \A s \in Streams : c[s] \in IF s \in sides THEN With(s, k) ELSE {0}}
Reference == UNION {Rows(k) : k \in AllKeys}

\* The records of some streams, each as its stream and its place.
RecordsOf(S) == UNION {{s} \X DOMAIN input[s] : s \in S}

\* A join that ends well, its context alive, has emitted the rows of the join
\* and each once, within the limit, and its summary counts them
\* (join.go:107-122, 146, 215-231, 268).
MatchesReference ==
  result = "ok" /\ ~cancelled =>
    /\ out = Reference /\ joined = Cardinality(Reference)
    /\ total = Cardinality(RecordsOf(BuildStreams)) /\ processed = Len(input[Probe])
    /\ params.max > 0 => total <= params.max
    /\ skipped = Cardinality({e \in RecordsOf(Streams) : Key(e[1], e[2]) = NoKey})

\* Whatever the moment a join is cancelled or meets its limit, it has emitted
\* nothing that the whole streams do not give: no record is called unmatched
\* on a table that is not complete (join.go:141, 171, 199, 253).
NothingInvented == out # {} => out \subseteq Reference
=============================================================================
