------------------------- MODULE DagBuildProperties -------------------------
(***************************************************************************)
(* What a playbook that was accepted guarantees to the scheduler and to    *)
(* the streams, and when it is refused.                                    *)
(***************************************************************************)
EXTENDS DagBuild

Deps(t)  == streamDeps[t] \cup stateDeps[t]
Channels == UNION {{<<c, i>> : i \in 1..Len(Inputs(c))} : c \in Tasks}

\* The types of the variables; edges lead to tasks of the playbook only.
TypeOK ==
  /\ todo \subseteq Tasks /\ ready \subseteq Tasks
  /\ pc \in {"validate", "edges", "search", "channels", "done"}
  /\ verdict \in {"none", "invalid", "undefined", "cycle", "ok"}
  /\ \A deps \in {streamDeps, stateDeps, requiredBy} : deps \in [Tasks -> SUBSET Tasks]
  /\ streamRem \in [Tasks -> Nat] /\ stateRem \in [Tasks -> Nat]
  /\ stack \in Seq([node : Tasks, left : SUBSET Tasks])
  /\ path \subseteq Tasks /\ visited \subseteq Tasks
  /\ \A p \in Tasks : outputs[p] \subseteq Channels
  /\ \A c, p \in Tasks : inputOf[c][p] \in Channels \cup {NoChannel}
  /\ signals \in [Tasks -> Seq(Tasks)] /\ wg \in [Tasks -> Nat]

Cyclic == \E S \in SUBSET Tasks : S # {} /\ \A t \in S : Deps(t) \cap S # {}

\* detectCycle refuses exactly the playbooks in which some tasks wait for each
\* other, through streams, state or both, whatever order its nested map
\* iterations take: no cycle escapes it and no diamond is taken for one.
CycleFound ==
  /\ verdict = "cycle" => Cyclic
  /\ verdict = "ok" \/ pc = "channels" => ~Cyclic

\* Validation and BuildDAG look references up in tables of their own, yet a
\* playbook that passes the first never fails on an undefined name in the second.
ValidatedBuilds == verdict # "undefined"

\* What the scheduler starts from: each counter is the number of producers
\* that will decrement it (they find the task in RequiredBy, which holds both
\* kinds of edges, and look the kind up in the task), and some task is ready.
CountersMatchSignals ==
  verdict = "ok" =>
    /\ \A t \in Tasks :
         /\ streamRem[t] = Cardinality({p \in Tasks : t \in requiredBy[p] /\ p \in streamDeps[t]})
         /\ stateRem[t] = Cardinality({p \in Tasks : t \in requiredBy[p] /\ p \in stateDeps[t]})
    /\ ready # {} /\ ready = {t \in Tasks : Deps(t) = {}}

\* The counter of a producer's WaitGroup is the number of signals its
\* consumers will send, so it reaches zero and never goes below; and each
\* stream edge has a channel that its producer writes and its consumer reads.
WiringBalanced ==
  verdict = "ok" =>
    /\ \A p \in Tasks :
         wg[p] = Cardinality({x \in Channels : signals[x[1]][x[2]] = p})
    /\ \A c \in Tasks : {p \in Tasks : inputOf[c][p] # NoChannel} = streamDeps[c]
    /\ \A c \in Tasks : \A p \in streamDeps[c] : inputOf[c][p] \in outputs[p]
=============================================================================
