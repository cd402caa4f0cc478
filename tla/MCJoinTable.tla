------------------------------ MODULE MCJoinTable ------------------------------
(* Two build streams and a probe stream; the keys 7, "007" and x, and a    *)
(* record without key; errChan holds one report.                           *)
EXTENDS JoinTableProperties

Raw(kind, v, number) == [kind |-> kind, v |-> v, number |-> number]
Seven == Raw("int", "7", TRUE)
SevenText == Raw("text", "7", TRUE)
SevenUnsigned == Raw("other", "7", TRUE)
X == Raw("text", "x", FALSE)
Half == Raw("float", "7.5", FALSE)
Missing == Raw("missing", "", FALSE)
Nil == Raw("nil", "", FALSE)

MCInputs ==
  [{"users", "orders", "events"} -> {<<>>}]
  \cup {[users |-> u, orders |-> o, events |-> e] :
          u \in {<<>>, <<Seven>>, <<Seven, X>>, <<Seven, SevenUnsigned>>, <<Half, Seven>>},
          o \in {<<>>, <<SevenText>>, <<X>>, <<Nil>>},
          e \in {<<>>, <<Seven>>, <<SevenText, X>>, <<Nil, Missing>>, <<X, SevenUnsigned>>}}

Entry(s, role) == [stream |-> s, role |-> role, field |-> TRUE, template |-> FALSE]
On == <<Entry("users", "build"), Entry("orders", "build"), Entry("events", "probe")>>
Plain == [joinType |-> "inner", on |-> On, strategy |-> "flat", nestingKeys |-> {}, max |-> 0]
MCParams ==
  {[Plain EXCEPT !.joinType = t] : t \in {"inner", "left", "right", "outer", "cross"}}
  \cup {[Plain EXCEPT !.joinType = "outer", !.max = 1], [Plain EXCEPT !.on[1] = On[2]],
        [Plain EXCEPT !.on[1].role = "probe"], [Plain EXCEPT !.strategy = "nested", !.nestingKeys = {"users"}]}
=============================================================================
