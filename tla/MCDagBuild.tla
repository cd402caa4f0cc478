----------------------------- MODULE MCDagBuild -----------------------------
(* All playbooks of three tasks with at most four of these mentions.       *)
EXTENDS DagBuildProperties, SequencesExt
CONSTANTS a, b, c, x

Mention(kinds, at, of) == [kind : kinds, at : at, of : of]

SmallMentions ==
  Mention({"stream", "status"}, {a, b, c}, {a, b, c, x})
    \cup Mention({"again"}, {a}, {b, c})
    \cup Mention({"var"}, {c}, {a, b, c})
    \cup Mention({"entry"}, {b}, {a, x})
    \cup Mention({"field"}, {b}, {c})

\* "again" repeats a producer in the list of stream inputs.
PlaybookOf(M) ==
  LET Named(t, kind) == {m.of : m \in {n \in M : n.at = t /\ n.kind = kind}} IN
  [inputs |-> [t \in Tasks |-> SetToSeq(Named(t, "stream")) \o SetToSeq(Named(t, "again"))],
   refs   |-> [t \in Tasks |-> UNION {{kind} \X Named(t, kind) : kind \in {"status", "entry", "var", "field"}}]]

Pairs == {{m, n} : m, n \in SmallMentions}
SmallPlaybooks == {PlaybookOf(M) : M \in {{}} \cup {P \cup Q : P, Q \in Pairs}}
=============================================================================
