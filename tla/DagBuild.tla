------------------------------ MODULE DagBuild ------------------------------
(***************************************************************************)
(* What happens to a playbook before its first task runs: the references   *)
(* of ValidatePlaybookStructure (internal/config/validation.go), BuildDAG  *)
(* with its depth-first search for a cycle (internal/engine/dag.go) and    *)
(* the topology CreateChannels wires (internal/engine/channel_manager.go). *)
(*                                                                         *)
(* One goroutine does all of it; what is arbitrary is the playbook and the *)
(* order of every iteration over a Go map.  A task is its name, so names   *)
(* are unique and tasks without one, which nothing can refer to, are left  *)
(* out; every task registers a variable.                                   *)
(***************************************************************************)
EXTENDS Integers, Sequences, FiniteSets, Functions

CONSTANTS
  Tasks,     \* the tasks of the playbook
  Strangers, \* names that are no task's
  Playbooks  \* the playbooks that may be submitted

\* What a template can mention of a task n: {{ ._gxo.tasks.n.status }}, another
\* entry below ._gxo.tasks.n, the variable n registers, or a field of it.
References == {"status", "entry", "var", "field"} \X (Tasks \cup Strangers)

ASSUME PlaybooksAssumption ==
  /\ Tasks # {} /\ IsFiniteSet(Tasks) /\ IsFiniteSet(Strangers) /\ Tasks \cap Strangers = {}
  /\ \A pb \in Playbooks :
       /\ pb.inputs \in [Tasks -> Seq(Tasks \cup Strangers)] \* stream_inputs
       /\ pb.refs \in [Tasks -> SUBSET References]           \* ExtractVariables of its templates

NoChannel == <<>>

VARIABLES
  playbook,
  pc,         \* "validate", "edges", "search", "channels" or "done"
  verdict,    \* "none" so far, "invalid", "undefined", "cycle" or "ok"
  todo,       \* tasks the current pass has not visited
  streamDeps, stateDeps, requiredBy, \* the edges of each Node
  streamRem, stateRem,               \* its two counters
  ready,      \* initialReadyNodes
  stack,      \* the calls of hasCycleDFS: node and dependents not looked at
  path, visited,
  outputs,    \* producerChannels: channels <<consumer, position>>
  inputOf,    \* consumerProducerToChannel
  signals,    \* consumerToProducerWGs: producers to signal, with repetition
  wg          \* counters of producerWaitGroups

edgeVars   == <<streamDeps, stateDeps, requiredBy>>
countVars  == <<streamRem, stateRem, ready>>
searchVars == <<stack, path, visited>>
wireVars   == <<outputs, inputOf, signals, wg>>
vars == <<playbook, pc, verdict, todo, edgeVars, countVars, searchVars, wireVars>>

Inputs(t) == playbook.inputs[t]

Init ==
  /\ playbook \in Playbooks
  /\ pc = "validate" /\ verdict = "none" /\ todo = Tasks
  /\ streamDeps = [t \in Tasks |-> {}] /\ stateDeps = [t \in Tasks |-> {}]
  /\ requiredBy = [t \in Tasks |-> {}]
  /\ streamRem = [t \in Tasks |-> 0] /\ stateRem = [t \in Tasks |-> 0] /\ ready = {}
  /\ stack = <<>> /\ path = {} /\ visited = {}
  /\ outputs = [p \in Tasks |-> {}]
  /\ inputOf = [c \in Tasks |-> [p \in Tasks |-> NoChannel]]
  /\ signals = [c \in Tasks |-> <<>>]
  /\ wg = [p \in Tasks |-> 0]
-----------------------------------------------------------------------------
(* Validation.                                                             *)

\* Defect: stream_inputs are only checked against the task itself.
ValidButUndefined ==
  \A t \in Tasks :
    /\ t \notin Range(Inputs(t))
    /\ \A ref \in playbook.refs[t] : ref[1] \in {"status", "var"} => ref[2] # t

\* A status and a stream must be some other task's; other entries are not looked at.
Valid ==
  \A t \in Tasks :
    /\ Range(Inputs(t)) \subseteq Tasks \ {t}
    /\ \A ref \in playbook.refs[t] :
         /\ ref[1] = "status" => ref[2] \in Tasks \ {t}
         /\ ref[1] = "var" => ref[2] # t

Validate ==
  /\ pc = "validate"
  /\ pc' = IF Valid THEN "edges" ELSE "done"
  /\ verdict' = IF Valid THEN "none" ELSE "invalid"
  /\ UNCHANGED <<playbook, todo, edgeVars, countVars, searchVars, wireVars>>
-----------------------------------------------------------------------------
(* BuildDAG.                                                               *)

\* Defect: names that are no task's become edges.
UnresolvedTargets(t) ==
  {n \in Tasks \cup Strangers : n # t /\ \E k \in {"status", "entry", "var"} : <<k, n>> \in playbook.refs[t]}

\* An entry of the task table names its task; a variable is looked up by the
\* whole path, so a field of a registered variable is not found.
StateTargets(t) ==
  {n \in Tasks \ {t} : \E k \in {"status", "entry", "var"} : <<k, n>> \in playbook.refs[t]}

AddEdges(t) ==
  /\ pc = "edges" /\ t \in todo
  /\ todo' = todo \ {t}
  /\ IF Range(Inputs(t)) \subseteq Tasks
     THEN /\ streamDeps' = [streamDeps EXCEPT ![t] = Range(Inputs(t))]
          /\ stateDeps' = [stateDeps EXCEPT ![t] = StateTargets(t)]
          /\ requiredBy' = [p \in Tasks |->
               IF p \in Range(Inputs(t)) \cup StateTargets(t) THEN requiredBy[p] \cup {t} ELSE requiredBy[p]]
          /\ UNCHANGED <<pc, verdict>>
     ELSE /\ pc' = "done" /\ verdict' = "undefined"
          /\ UNCHANGED edgeVars
  /\ UNCHANGED <<playbook, countVars, searchVars, wireVars>>

Counted(streams) ==
  /\ pc = "edges" /\ todo = {}
  /\ streamRem' = streams
  /\ stateRem' = [t \in Tasks |-> Cardinality(stateDeps[t])]
  /\ ready' = {t \in Tasks : streamRem'[t] = 0 /\ stateRem'[t] = 0}
  /\ pc' = "search"
  /\ UNCHANGED <<playbook, verdict, todo, edgeVars, searchVars, wireVars>>

\* Defect: a producer named twice is counted twice.
CountMentions == Counted([t \in Tasks |-> Len(Inputs(t))])

CountDeps == Counted([t \in Tasks |-> Cardinality(streamDeps[t])])

\* A call of hasCycleDFS.
Call(t, rest) ==
  /\ stack' = <<[node |-> t, left |-> requiredBy[t]]>> \o rest
  /\ path' = path \cup {t}
  /\ visited' = visited \cup {t}

Root(t) ==
  /\ pc = "search" /\ stack = <<>> /\ t \in Tasks \ visited
  /\ Call(t, <<>>)
  /\ UNCHANGED <<playbook, pc, verdict, todo, edgeVars, countVars, wireVars>>

\* The next dependent of the node on top: on the path, new, or seen before.
Explore(d) ==
  /\ pc = "search" /\ stack # <<>> /\ d \in Head(stack).left
  /\ LET rest == <<[Head(stack) EXCEPT !.left = @ \ {d}]>> \o Tail(stack) IN
     \/ /\ d \in path
        /\ pc' = "done" /\ verdict' = "cycle"
        /\ UNCHANGED searchVars
     \/ d \notin visited /\ Call(d, rest) /\ UNCHANGED <<pc, verdict>>
     \/ /\ d \in visited \ path
        /\ stack' = rest
        /\ UNCHANGED <<path, visited, pc, verdict>>
  /\ UNCHANGED <<playbook, todo, edgeVars, countVars, wireVars>>

Back(p) ==
  /\ pc = "search" /\ stack # <<>> /\ Head(stack).left = {}
  /\ stack' = Tail(stack)
  /\ path' = p
  /\ UNCHANGED <<playbook, pc, verdict, todo, edgeVars, countVars, visited, wireVars>>

\* Defect: a node stays on the path when its call returns.
RetreatMarked == Back(path)

Retreat == Back(path \ {Head(stack).node})

NoCycle ==
  /\ pc = "search" /\ stack = <<>> /\ visited = Tasks
  /\ pc' = "channels" /\ todo' = Tasks
  /\ UNCHANGED <<playbook, verdict, edgeVars, countVars, searchVars, wireVars>>
-----------------------------------------------------------------------------
(* CreateChannels.                                                         *)

Positions(c, p) == {i \in 1..Len(Inputs(c)) : Inputs(c)[i] = p}
LastOf(I) == CHOOSE i \in I : \A k \in I : k <= i

Wired(c, added) ==
  /\ pc = "channels" /\ c \in todo
  /\ todo' = todo \ {c}
  /\ outputs' = [p \in Tasks |-> outputs[p] \cup {<<c, i>> : i \in Positions(c, p)}]
  /\ inputOf' = [inputOf EXCEPT ![c] = [p \in Tasks |->
       IF Positions(c, p) = {} THEN NoChannel ELSE <<c, LastOf(Positions(c, p))>>]]
  /\ signals' = [signals EXCEPT ![c] = Inputs(c)]
  /\ wg' = [p \in Tasks |-> wg[p] + added[p]]
  /\ UNCHANGED <<playbook, pc, verdict, edgeVars, countVars, searchVars>>

\* Defect: one count for a consumer, however often it names the producer.
WireOncePerConsumer(c) == Wired(c, [p \in Tasks |-> IF Positions(c, p) = {} THEN 0 ELSE 1])

\* A channel, a count and a signal for every mention of a producer; the
\* consumer's map keeps the last channel of each.
Wire(c) == Wired(c, [p \in Tasks |-> Cardinality(Positions(c, p))])

Built ==
  /\ pc = "channels" /\ todo = {}
  /\ pc' = "done" /\ verdict' = "ok"
  /\ UNCHANGED <<playbook, todo, edgeVars, countVars, searchVars, wireVars>>
-----------------------------------------------------------------------------
Done == pc = "done" /\ UNCHANGED vars

Next ==
  \/ Validate \/ CountDeps \/ Retreat \/ NoCycle \/ Built \/ Done
  \/ \E t \in Tasks : AddEdges(t) \/ Root(t) \/ Explore(t) \/ Wire(t)

Spec == Init /\ [][Next]_vars
=============================================================================
