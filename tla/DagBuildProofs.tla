---------------------------- MODULE DagBuildProofs ----------------------------
(***************************************************************************)
(* Theorems about DagBuild: from a playbook to its graph and its channels, *)
(* for any number of tasks, any references between them and any order of   *)
(* the map iterations.                                                     *)
(***************************************************************************)
EXTENDS DagBuildProperties, SequenceTheorems, FiniteSetTheorems, WellFoundedInduction, TLAPS

Frames == [node : Tasks, left : SUBSET Tasks]
Nodes  == {stack[i].node : i \in 1..Len(stack)}
Closed == visited \ path \* nodes whose call has returned

\* The types of what the proofs follow.
TypeInv ==
  /\ playbook \in Playbooks /\ todo \subseteq Tasks
  /\ streamDeps \in [Tasks -> SUBSET Tasks] /\ stateDeps \in [Tasks -> SUBSET Tasks]
  /\ requiredBy \in [Tasks -> SUBSET Tasks]
  /\ stack \in Seq(Frames) /\ path \subseteq Tasks /\ visited \subseteq Tasks

\* Which verdict goes with which stage, and what validation has excluded since.
StageInv ==
  /\ pc \in {"validate", "edges", "search", "channels", "done"}
  /\ pc = "done" <=> verdict # "none"
  /\ verdict \in {"none", "invalid", "cycle", "ok"}
  /\ pc # "validate" /\ verdict # "invalid" => Valid

\* The edges of the tasks the pass has visited, and RequiredBy as their converse.
EdgeInv ==
  /\ \A p, t \in Tasks : t \in requiredBy[p] <=> p \in Deps(t)
  /\ pc = "validate" => todo = Tasks
  /\ pc \in {"validate", "edges"} => \A t \in todo : Deps(t) = {}
  /\ pc = "edges" => \A t \in Tasks \ todo : streamDeps[t] = Range(Inputs(t))
  /\ pc \in {"search", "channels"} \/ verdict \in {"cycle", "ok"} =>
       \A t \in Tasks : streamDeps[t] = Range(Inputs(t))

\* The calls of hasCycleDFS are a path of edges, each node on it once; a dependent
\* that a call has looked at is the node of the call above it or has returned; and
\* the nodes that have returned are closed under dependents and free of cycles.
PathInv ==
  /\ path = Nodes /\ path \subseteq visited
  /\ \A i, j \in 1..Len(stack) : stack[i].node = stack[j].node => i = j
  /\ \A i, j \in 1..Len(stack) : j = i + 1 => stack[i].node \in requiredBy[stack[j].node]
  /\ \A j \in 1..Len(stack) : \A d \in requiredBy[stack[j].node] \ stack[j].left :
       d \in Closed \/ \E i \in 1..Len(stack) : j = i + 1 /\ d = stack[i].node

\* Tasks that wait for each other.
Knots == {S \in SUBSET Tasks : S # {} /\ \A t \in S : Deps(t) \cap S # {}}

SearchInv ==
  /\ pc \in {"validate", "edges"} => stack = <<>> /\ visited = {} /\ path = {}
  /\ PathInv
  /\ \A i \in 1..Len(stack) : stack[i].left \subseteq requiredBy[stack[i].node]
  /\ \A p \in Closed : requiredBy[p] \subseteq Closed
  /\ \A S \in Knots : ~(S \subseteq Closed)

IInv == TypeInv /\ StageInv /\ EdgeInv /\ SearchInv /\ CycleFound
-----------------------------------------------------------------------------
\* A playbook has the shape the assumption gives it.
LEMMA Shape ==
  ASSUME TypeInv, NEW t \in Tasks
  PROVE  /\ Inputs(t) \in Seq(Tasks \cup Strangers)
         /\ Range(Inputs(t)) = {Inputs(t)[i] : i \in 1..Len(Inputs(t))}
         /\ StateTargets(t) \subseteq Tasks
<1>1. Inputs(t) \in Seq(Tasks \cup Strangers)
  BY PlaybooksAssumption DEF TypeInv, Inputs
<1>2. DOMAIN Inputs(t) = 1..Len(Inputs(t))
  BY <1>1, LenProperties
<1> QED
  BY <1>1, <1>2 DEF Range, StateTargets

\* Nothing is looked at yet.
LEMMA InitInv == Init => IInv
<1> SUFFICES ASSUME Init PROVE IInv
  OBVIOUS
<1>1. Len(stack) = 0 /\ stack \in Seq(Frames)
  BY EmptySeq DEF Init
<1>2. \A t \in Tasks : Deps(t) = {}
  BY DEF Init, Deps
<1>3. TypeInv /\ StageInv
  BY <1>1 DEF Init, TypeInv, StageInv
<1>4. EdgeInv
  BY <1>2 DEF Init, EdgeInv
<1>5. SearchInv
  BY <1>1 DEF Init, SearchInv, PathInv, Nodes, Closed, Knots
<1>6. CycleFound
  BY DEF Init, CycleFound
<1> QED
  BY <1>3, <1>4, <1>5, <1>6 DEF IInv

\* Validation, and the passes over the tasks.
LEMMA StageStep ==
  ASSUME IInv, Next
  PROVE  StageInv' /\ playbook' = playbook
<1> USE DEF IInv, StageInv
<1>1. CASE Validate
  BY <1>1 DEF Validate, Valid, Inputs
<1>2. CASE CountDeps \/ NoCycle \/ Built \/ Done
  BY <1>2 DEF CountDeps, Counted, NoCycle, Built, Done, vars, Valid, Inputs
<1>3. ASSUME NEW t \in Tasks, AddEdges(t) PROVE StageInv' /\ playbook' = playbook
  <2>1. Range(Inputs(t)) \subseteq Tasks
    BY <1>3 DEF AddEdges, Valid
  <2> QED
    BY <1>3, <2>1 DEF AddEdges, Valid, Inputs
<1>4. ASSUME NEW t \in Tasks, Root(t) \/ Wire(t) PROVE StageInv' /\ playbook' = playbook
  BY <1>4 DEF Root, Wire, Wired, Valid, Inputs
<1>5. ASSUME NEW t \in Tasks, Explore(t) PROVE StageInv' /\ playbook' = playbook
  BY <1>5 DEF Explore, Valid, Inputs
<1>6. CASE Retreat
  BY <1>6 DEF Retreat, Back, Valid, Inputs
<1> QED
  BY <1>1, <1>2, <1>3, <1>4, <1>5, <1>6 DEF Next

\* The edges: AddEdges gives a task its dependencies and their converse.
LEMMA EdgeStep ==
  ASSUME IInv, Next
  PROVE  EdgeInv' /\ ((\E t \in Tasks : AddEdges(t)) \/ UNCHANGED edgeVars)
<1> USE DEF IInv
<1>1. ASSUME NEW t \in Tasks, AddEdges(t)
      PROVE  EdgeInv'
  <2>1. Range(Inputs(t)) \subseteq Tasks /\ StateTargets(t) \subseteq Tasks
    BY <1>1, Shape DEF AddEdges, StageInv, Valid
  <2>2. /\ pc = "edges" /\ t \in todo /\ todo' = todo \ {t} /\ pc' = "edges" /\ verdict' = verdict
        /\ playbook' = playbook
        /\ streamDeps' = [streamDeps EXCEPT ![t] = Range(Inputs(t))]
        /\ stateDeps' = [stateDeps EXCEPT ![t] = StateTargets(t)]
        /\ requiredBy' = [p \in Tasks |->
             IF p \in Range(Inputs(t)) \cup StateTargets(t) THEN requiredBy[p] \cup {t} ELSE requiredBy[p]]
    BY <1>1, <2>1 DEF AddEdges
  <2>3. Deps(t)' = Range(Inputs(t)) \cup StateTargets(t)
    BY <2>2 DEF TypeInv, Deps
  <2>4. \A u \in Tasks \ {t} : Deps(u)' = Deps(u) /\ streamDeps'[u] = streamDeps[u]
    BY <2>2 DEF TypeInv, Deps
  <2>5. streamDeps'[t] = Range(Inputs(t)) /\ Deps(t) = {}
    BY <2>2 DEF TypeInv, EdgeInv
  <2>6. \A p, u \in Tasks : u \in requiredBy'[p] <=> p \in Deps(u)'
    BY <2>2, <2>3, <2>4, <2>5 DEF EdgeInv
  <2>7. \A u \in Tasks : Range(Inputs(u))' = Range(Inputs(u))
    BY <2>2 DEF Inputs, Range
  <2>8. verdict = "none"
    BY <2>2 DEF StageInv
  <2>9. \A u \in todo' : Deps(u)' = {}
    BY <2>2, <2>4 DEF EdgeInv, TypeInv
  <2>10. \A u \in Tasks \ todo' : streamDeps'[u] = Range(Inputs(u))'
    BY <2>2, <2>4, <2>5, <2>7 DEF EdgeInv
  <2> QED
    BY <2>2, <2>6, <2>8, <2>9, <2>10 DEF EdgeInv
<1>2. ASSUME UNCHANGED <<playbook, edgeVars>>,
             \/ UNCHANGED <<pc, verdict, todo>>
             \/ pc = "validate" /\ todo' = todo /\ pc' \in {"edges", "done"} /\ verdict' \in {"none", "invalid"}
             \/ pc = "edges" /\ todo = {} /\ pc' = "search" /\ verdict' = verdict
             \/ pc \in {"search", "channels"} /\ pc' \in {"search", "channels", "done"}
      PROVE  EdgeInv' /\ UNCHANGED edgeVars
  <2>1. \A t \in Tasks : /\ Range(Inputs(t))' = Range(Inputs(t)) /\ Deps(t)' = Deps(t)
                         /\ streamDeps'[t] = streamDeps[t]
    BY <1>2 DEF Inputs, Deps, edgeVars, Range
  <2>2. \A p, t \in Tasks : t \in requiredBy'[p] <=> p \in Deps(t)'
    BY <1>2, <2>1 DEF EdgeInv, edgeVars
  <2>3. /\ pc' = "validate" => todo' = Tasks
        /\ pc' \in {"validate", "edges"} => \A t \in todo' : Deps(t)' = {}
    BY <1>2, <2>1 DEF EdgeInv, TypeInv
  <2>4. pc' = "edges" => \A t \in Tasks \ todo' : streamDeps'[t] = Range(Inputs(t))'
    BY <1>2, <2>1 DEF EdgeInv, TypeInv
  <2>5. pc' \in {"search", "channels"} \/ verdict' \in {"cycle", "ok"} =>
          \A t \in Tasks : streamDeps'[t] = Range(Inputs(t))'
    BY <1>2, <2>1 DEF EdgeInv, StageInv
  <2> QED
    BY <1>2, <2>2, <2>3, <2>4, <2>5 DEF EdgeInv
<1>3. CASE Validate \/ CountDeps \/ NoCycle \/ Built \/ Done
  BY <1>2, <1>3 DEF Validate, CountDeps, Counted, NoCycle, Built, Done, vars
<1>4. ASSUME NEW t \in Tasks, Root(t) \/ Wire(t)
      PROVE  EdgeInv' /\ UNCHANGED edgeVars
  BY <1>2, <1>4 DEF Root, Wire, Wired
<1>5. ASSUME NEW t \in Tasks, Explore(t)
      PROVE  EdgeInv' /\ UNCHANGED edgeVars
  BY <1>2, <1>5 DEF Explore
<1>6. CASE Retreat
  BY <1>2, <1>6 DEF Retreat, Back
<1> QED
  BY <1>1, <1>3, <1>4, <1>5, <1>6 DEF Next

-----------------------------------------------------------------------------
(* The call stack: a return, a call, a dependent taken.                    *)

\* What is left when the call on top returns.
LEMMA Returned ==
  ASSUME NEW s \in Seq(Frames), s # <<>>
  PROVE  /\ Tail(s) \in Seq(Frames) /\ Len(s) = Len(Tail(s)) + 1 /\ Len(Tail(s)) \in Nat
         /\ Head(s) = s[1] /\ Head(s) \in Frames
         /\ \A i \in 1..Len(Tail(s)) : Tail(s)[i] = s[i + 1]
  BY HeadTailProperties, LenProperties, ElementOfSeq

\* A call on top of the others.
LEMMA Called ==
  ASSUME NEW s \in Seq(Frames), NEW f \in Frames
  PROVE  /\ <<f>> \o s \in Seq(Frames) /\ Len(<<f>> \o s) = Len(s) + 1 /\ Len(s) \in Nat
         /\ (<<f>> \o s)[1] = f
         /\ \A i \in 1..Len(s) : (<<f>> \o s)[i + 1] = s[i]
<1>1. /\ <<f>> \in Seq(Frames) /\ Len(<<f>>) = 1 /\ <<f>>[1] = f /\ Len(s) \in Nat
  BY LenProperties
<1>2. /\ <<f>> \o s \in Seq(Frames) /\ Len(<<f>> \o s) = Len(<<f>>) + Len(s)
      /\ \A i \in 1..(Len(<<f>>) + Len(s)) :
           (<<f>> \o s)[i] = IF i <= Len(<<f>>) THEN <<f>>[i] ELSE s[i - Len(<<f>>)]
  BY <1>1, ConcatProperties
<1>3. ASSUME NEW i \in 1..Len(s) PROVE (<<f>> \o s)[i + 1] = s[i]
  <2>1. i + 1 \in 1..(1 + Len(s)) /\ ~(i + 1 <= 1) /\ (i + 1) - 1 = i
    BY <1>1
  <2> QED
    BY <1>1, <1>2, <2>1
<1>4. (<<f>> \o s)[1] = f
  BY <1>1, <1>2
<1> QED
  BY <1>1, <1>2, <1>3, <1>4

\* The call on top takes a dependent.
Took(s, d) == <<[Head(s) EXCEPT !.left = @ \ {d}]>> \o Tail(s)

\* It keeps its node, and no other call changes.
LEMMA Taken ==
  ASSUME NEW s \in Seq(Frames), s # <<>>, NEW d, NEW r, r = Took(s, d)
  PROVE  /\ r \in Seq(Frames) /\ Len(r) = Len(s)
         /\ r[1].left = s[1].left \ {d} /\ r[1].node = s[1].node
         /\ \A i \in 1..Len(s) : r[i].node = s[i].node /\ (i # 1 => r[i] = s[i])
<1> DEFINE f == [Head(s) EXCEPT !.left = @ \ {d}]
<1>1. f \in Frames /\ f.left = s[1].left \ {d} /\ f.node = s[1].node
  <2>1. Head(s) = s[1] /\ Head(s) \in Frames
    BY Returned
  <2> QED
    BY <2>1 DEF Frames
<1> HIDE DEF f
<1>2. /\ r \in Seq(Frames) /\ Len(r) = Len(Tail(s)) + 1 /\ r[1] = f /\ Len(Tail(s)) \in Nat
      /\ \A i \in 1..Len(Tail(s)) : r[i + 1] = Tail(s)[i]
  BY <1>1, Returned, Called DEF f, Took
<1>3. Len(r) = Len(s)
  BY <1>2, Returned
<1>4. ASSUME NEW i \in 1..Len(s), i # 1 PROVE r[i] = s[i]
  <2>1. PICK k \in 1..Len(Tail(s)) : i = k + 1
    <3>1. i - 1 \in 1..Len(Tail(s)) /\ i = (i - 1) + 1
      BY <1>4, <1>2, <1>3
    <3> QED
      BY <3>1
  <2> QED
    BY <2>1, <1>2, Returned
<1> QED
  BY <1>1, <1>2, <1>3, <1>4

\* Edges and calls are of tasks of the playbook.
LEMMA TypeStep ==
  ASSUME IInv, Next
  PROVE  TypeInv'
<1> USE DEF IInv
<1>1. playbook' \in Playbooks
  BY StageStep DEF TypeInv
<1>2. /\ streamDeps' \in [Tasks -> SUBSET Tasks] /\ stateDeps' \in [Tasks -> SUBSET Tasks]
      /\ requiredBy' \in [Tasks -> SUBSET Tasks]
  <2>1. ASSUME NEW t \in Tasks, AddEdges(t)
        PROVE  /\ streamDeps' \in [Tasks -> SUBSET Tasks] /\ stateDeps' \in [Tasks -> SUBSET Tasks]
               /\ requiredBy' \in [Tasks -> SUBSET Tasks]
    <3>1. StateTargets(t) \subseteq Tasks
      BY Shape
    <3> QED
      BY <2>1, <3>1 DEF AddEdges, TypeInv, edgeVars
  <2> QED
    BY <2>1, EdgeStep DEF edgeVars, TypeInv
<1>3. todo' \subseteq Tasks /\ stack' \in Seq(Frames) /\ path' \subseteq Tasks /\ visited' \subseteq Tasks
  <2>1. CASE Validate \/ CountDeps \/ NoCycle \/ Built \/ Done
    BY <2>1 DEF Validate, CountDeps, Counted, NoCycle, Built, Done, vars, searchVars, TypeInv
  <2>2. ASSUME NEW t \in Tasks, AddEdges(t) \/ Wire(t)
        PROVE  todo' \subseteq Tasks /\ stack' \in Seq(Frames) /\ path' \subseteq Tasks /\ visited' \subseteq Tasks
    BY <2>2 DEF AddEdges, Wire, Wired, searchVars, TypeInv
  <2>3. ASSUME NEW t \in Tasks, Root(t)
        PROVE  todo' \subseteq Tasks /\ stack' \in Seq(Frames) /\ path' \subseteq Tasks /\ visited' \subseteq Tasks
    <3>1. [node |-> t, left |-> requiredBy[t]] \in Frames /\ <<>> \in Seq(Frames)
      BY EmptySeq DEF TypeInv, Frames
    <3> QED
      BY <2>3, <3>1, Called DEF Root, Call, TypeInv
  <2>4. ASSUME NEW t \in Tasks, Explore(t)
        PROVE  todo' \subseteq Tasks /\ stack' \in Seq(Frames) /\ path' \subseteq Tasks /\ visited' \subseteq Tasks
    <3> DEFINE rest == <<[Head(stack) EXCEPT !.left = @ \ {t}]>> \o Tail(stack)
    <3>1. [node |-> t, left |-> requiredBy[t]] \in Frames /\ rest \in Seq(Frames)
      BY <2>4, Taken DEF TypeInv, Frames, Explore, Took
    <3>2. stack' = stack \/ stack' = rest \/ stack' = <<[node |-> t, left |-> requiredBy[t]]>> \o rest
      BY <2>4 DEF Explore, Call, searchVars
    <3> HIDE DEF rest
    <3>3. stack' \in Seq(Frames)
      BY <3>1, <3>2, Called DEF TypeInv
    <3> QED
      BY <2>4, <3>3 DEF Explore, Call, searchVars, TypeInv
  <2>5. CASE Retreat
    BY <2>5, Returned DEF Retreat, Back, TypeInv
  <2> QED
    BY <2>1, <2>2, <2>3, <2>4, <2>5 DEF Next
<1> QED
  BY <1>1, <1>2, <1>3 DEF TypeInv

\* A first call, from the loop over the nodes.
LEMMA RootStep ==
  ASSUME IInv, NEW t \in Tasks, Root(t)
  PROVE  SearchInv'
<1> USE DEF IInv
<1> DEFINE f == [node |-> t, left |-> requiredBy[t]]
<1>1. /\ pc = "search" /\ pc' = "search" /\ requiredBy' = requiredBy /\ UNCHANGED edgeVars
      /\ stack = <<>> /\ stack' = <<f>> \o <<>> /\ path' = path \cup {t} /\ visited' = visited \cup {t}
      /\ t \notin visited
  BY DEF Root, Call, edgeVars
<1>2. f \in Frames /\ f.node = t /\ f.left = requiredBy[t] /\ <<>> \in Seq(Frames) /\ Len(<<>>) = 0
  BY EmptySeq DEF TypeInv, Frames
<1> HIDE DEF f
<1>3. Len(stack') = 1 /\ stack'[1] = f /\ Len(stack) = 0
  BY <1>1, <1>2, Called
<1>4. path = {} /\ Nodes' = {t}
  BY <1>1, <1>2, <1>3 DEF SearchInv, PathInv, Nodes
<1>5. Closed' = Closed /\ Knots' = Knots
  BY <1>1, <1>4 DEF Closed, Knots, edgeVars, Deps
<1>6. PathInv'
  BY <1>1, <1>2, <1>3, <1>4 DEF PathInv
<1> QED
  BY <1>1, <1>2, <1>3, <1>5, <1>6 DEF SearchInv

\* A call returns: its node and, since all its dependents had returned, no knot
\* can go through it.
LEMMA RetreatStep ==
  ASSUME IInv, Retreat
  PROVE  SearchInv'
<1> USE DEF IInv
<1> DEFINE n == Head(stack).node
<1>1. /\ pc = "search" /\ pc' = "search" /\ requiredBy' = requiredBy /\ UNCHANGED edgeVars
      /\ stack # <<>> /\ stack' = Tail(stack) /\ path' = path \ {n} /\ visited' = visited
      /\ Head(stack).left = {}
  BY DEF Retreat, Back, edgeVars
<1>2. /\ stack \in Seq(Frames) /\ Len(stack) = Len(stack') + 1 /\ Len(stack') \in Nat
      /\ Head(stack) = stack[1] /\ Head(stack) \in Frames
      /\ \A i \in 1..Len(stack') : stack'[i] = stack[i + 1]
  BY <1>1, Returned DEF TypeInv
<1>3. n \in Tasks /\ n = stack[1].node /\ stack[1].left = {} /\ 1 \in 1..Len(stack)
  BY <1>1, <1>2 DEF Frames
<1> HIDE DEF n
<1>4. n \in path
  BY <1>3 DEF SearchInv, PathInv, Nodes
<1>5. Closed' = Closed \cup {n} /\ Knots' = Knots
  BY <1>1, <1>4 DEF Closed, Knots, edgeVars, Deps, SearchInv, PathInv
<1>6. requiredBy[n] \subseteq Closed
  <2>1. ASSUME NEW d \in requiredBy[n], d \notin Closed PROVE FALSE
    <3>1. PICK i \in 1..Len(stack) : 1 = i + 1
      BY <1>3, <2>1 DEF SearchInv, PathInv
    <3> QED
      BY <3>1
  <2> QED
    BY <2>1
<1>7. \A i \in 1..Len(stack') : i + 1 \in 1..Len(stack) /\ i + 1 # 1 /\ stack'[i] = stack[i + 1]
  BY <1>2
<1>8. \A j \in 1..Len(stack) : j # 1 => \E i \in 1..Len(stack') : j = i + 1
  <2>1. ASSUME NEW j \in 1..Len(stack), j # 1 PROVE \E i \in 1..Len(stack') : j = i + 1
    <3>1. j - 1 \in 1..Len(stack') /\ j = (j - 1) + 1
      BY <1>2, <2>1
    <3> QED
      BY <3>1
  <2> QED
    BY <2>1
<1>9. PathInv'
  <2>1. path' = Nodes'
    <3>1. ASSUME NEW m \in path' PROVE m \in Nodes'
      <4>1. PICK j \in 1..Len(stack) : m = stack[j].node /\ j # 1
        BY <1>1, <1>3, <3>1 DEF SearchInv, PathInv, Nodes
      <4>2. PICK i \in 1..Len(stack') : j = i + 1
        BY <4>1, <1>8
      <4> QED
        BY <4>1, <4>2, <1>7 DEF Nodes
    <3>2. ASSUME NEW i \in 1..Len(stack') PROVE stack'[i].node \in path'
      <4>1. stack[i + 1].node \in path /\ stack[i + 1].node # n
        BY <1>3, <1>7 DEF SearchInv, PathInv, Nodes
      <4> QED
        BY <4>1, <1>1, <1>7
    <3> QED
      BY <3>1, <3>2 DEF Nodes
  <2>2. path' \subseteq visited'
    BY <1>1 DEF SearchInv, PathInv
  <2>3. ASSUME NEW i \in 1..Len(stack'), NEW j \in 1..Len(stack'), stack'[i].node = stack'[j].node PROVE i = j
    <3>1. i + 1 = j + 1
      BY <1>7, <2>3 DEF SearchInv, PathInv
    <3> QED
      BY <3>1, <1>2
  <2>4. ASSUME NEW i \in 1..Len(stack'), NEW j \in 1..Len(stack'), j = i + 1
        PROVE  stack'[i].node \in requiredBy'[stack'[j].node]
    <3>1. j + 1 = (i + 1) + 1
      BY <2>4
    <3> QED
      BY <3>1, <1>1, <1>7 DEF SearchInv, PathInv
  <2>5. ASSUME NEW j \in 1..Len(stack'), NEW d \in requiredBy'[stack'[j].node] \ stack'[j].left
        PROVE  d \in Closed' \/ \E i \in 1..Len(stack') : j = i + 1 /\ d = stack'[i].node
    <3>1. d \in requiredBy[stack[j + 1].node] \ stack[j + 1].left /\ j + 1 \in 1..Len(stack)
      BY <2>5, <1>1, <1>7
    <3>2. CASE d \in Closed
      BY <3>2, <1>5
    <3>3. ASSUME NEW k \in 1..Len(stack), j + 1 = k + 1, d = stack[k].node
          PROVE  d \in Closed' \/ \E i \in 1..Len(stack') : j = i + 1 /\ d = stack'[i].node
      <4>1. CASE k = 1
        BY <4>1, <3>3, <1>3, <1>5
      <4>2. CASE k # 1
        <5>1. PICK i \in 1..Len(stack') : k = i + 1
          BY <4>2, <1>8
        <5>2. j = i + 1
          BY <5>1, <3>3, <1>2
        <5> QED
          BY <5>1, <5>2, <3>3, <1>7
      <4> QED
        BY <4>1, <4>2
    <3> QED
      BY <3>1, <3>2, <3>3 DEF SearchInv, PathInv
  <2> QED
    BY <2>1, <2>2, <2>3, <2>4, <2>5 DEF PathInv
<1>10. \A i \in 1..Len(stack') : stack'[i].left \subseteq requiredBy'[stack'[i].node]
  BY <1>1, <1>7 DEF SearchInv
<1>11. \A p \in Closed' : requiredBy'[p] \subseteq Closed'
  BY <1>1, <1>5, <1>6 DEF SearchInv
<1>12. ASSUME NEW S \in Knots', S \subseteq Closed' PROVE FALSE
  <2>1. S \in Knots /\ n \in S
    BY <1>5, <1>12 DEF SearchInv
  <2>2. PICK p \in S : p \in Deps(n)
    BY <2>1 DEF Knots
  <2>3. n \in requiredBy[p] /\ p \in Tasks
    BY <1>3, <2>1, <2>2 DEF EdgeInv, Knots
  <2>4. n \in Closed
    BY <2>2, <2>3, <1>5, <1>6, <1>12 DEF SearchInv
  <2> QED
    BY <2>4, <1>4 DEF Closed
<1> QED
  BY <1>1, <1>9, <1>10, <1>11, <1>12 DEF SearchInv

\* A dependent that returned before: only the top of the stack changes.
LEMMA SeenStep ==
  ASSUME IInv, NEW d \in Tasks, pc = "search", stack # <<>>, d \in visited \ path,
         stack' = Took(stack, d),
         UNCHANGED <<path, visited, pc, edgeVars>>
  PROVE  SearchInv'
<1> USE DEF IInv
<1>1. /\ Len(stack') = Len(stack)
      /\ stack'[1].left = stack[1].left \ {d}
      /\ \A i \in 1..Len(stack) : stack'[i].node = stack[i].node /\ (i # 1 => stack'[i] = stack[i])
  BY Taken DEF TypeInv
<1>2. requiredBy' = requiredBy /\ Closed' = Closed /\ Knots' = Knots /\ Nodes' = Nodes
  BY <1>1 DEF Closed, Knots, edgeVars, Deps, Nodes
<1>3. ASSUME NEW j \in 1..Len(stack), NEW e \in requiredBy[stack[j].node] \ stack'[j].left
      PROVE  e \in Closed \/ \E i \in 1..Len(stack) : j = i + 1 /\ e = stack[i].node
  <2>1. CASE e = d
    BY <2>1 DEF Closed
  <2>2. CASE e # d
    <3>1. e \notin stack[j].left
      BY <2>2, <1>1, <1>3
    <3> QED
      BY <3>1, <1>3 DEF SearchInv, PathInv
  <2> QED
    BY <2>1, <2>2
<1>4. PathInv'
  <2>1. path' = Nodes' /\ path' \subseteq visited'
    BY <1>2 DEF SearchInv, PathInv
  <2>2. ASSUME NEW i \in 1..Len(stack'), NEW j \in 1..Len(stack'), stack'[i].node = stack'[j].node PROVE i = j
    BY <1>1, <2>2 DEF SearchInv, PathInv
  <2>3. ASSUME NEW i \in 1..Len(stack'), NEW j \in 1..Len(stack'), j = i + 1
        PROVE  stack'[i].node \in requiredBy'[stack'[j].node]
    BY <1>1, <1>2, <2>3 DEF SearchInv, PathInv
  <2>4. \A j \in 1..Len(stack') : \A e \in requiredBy'[stack'[j].node] \ stack'[j].left :
          e \in Closed' \/ \E i \in 1..Len(stack') : j = i + 1 /\ e = stack'[i].node
    BY <1>1, <1>2, <1>3
  <2> QED
    BY <2>1, <2>2, <2>3, <2>4 DEF PathInv
<1>5. \A i \in 1..Len(stack') : stack'[i].left \subseteq requiredBy'[stack'[i].node]
  BY <1>1, <1>2 DEF SearchInv
<1> QED
  BY <1>2, <1>4, <1>5 DEF SearchInv

\* A new dependent: a call on top of the one that takes it.
LEMMA NewStep ==
  ASSUME IInv, NEW d \in Tasks, pc = "search", stack # <<>>, d \in Head(stack).left, d \notin visited,
         NEW rest, rest = Took(stack, d),
         Call(d, rest), UNCHANGED <<pc, edgeVars>>
  PROVE  SearchInv'
<1> USE DEF IInv
<1> DEFINE f == [node |-> d, left |-> requiredBy[d]]
<1>1. f \in Frames /\ f.node = d /\ f.left = requiredBy[d]
  BY DEF TypeInv, Frames
<1>2. /\ rest \in Seq(Frames) /\ Len(rest) = Len(stack) /\ Len(stack) \in Nat
      /\ rest[1].left = stack[1].left \ {d}
      /\ \A i \in 1..Len(stack) : rest[i].node = stack[i].node /\ (i # 1 => rest[i] = stack[i])
  BY Taken, LenProperties DEF TypeInv
<1>3. stack' = <<f>> \o rest /\ path' = path \cup {d} /\ visited' = visited \cup {d}
  BY DEF Call
<1> HIDE DEF f
<1>4. /\ Len(stack') = Len(stack) + 1 /\ stack'[1] = f
      /\ \A i \in 1..Len(stack) : /\ stack'[i + 1].node = stack[i].node
                                  /\ stack'[i + 1].left = rest[i].left
                                  /\ i # 1 => stack'[i + 1].left = stack[i].left
  BY <1>1, <1>2, <1>3, Called
<1>5. requiredBy' = requiredBy /\ Closed' = Closed /\ Knots' = Knots
  BY <1>3 DEF Closed, Knots, edgeVars, Deps, SearchInv, PathInv
<1>6. \A j \in 1..Len(stack') : j = 1 \/ \E k \in 1..Len(stack) : j = k + 1
  <2>1. ASSUME NEW j \in 1..Len(stack'), j # 1 PROVE \E k \in 1..Len(stack) : j = k + 1
    <3>1. j - 1 \in 1..Len(stack) /\ j = (j - 1) + 1
      BY <1>2, <1>4, <2>1
    <3> QED
      BY <3>1
  <2> QED
    BY <2>1
<1>7. \A k \in 1..Len(stack) : k + 1 \in 1..Len(stack')
  BY <1>2, <1>4
<1>8. 1 \in 1..Len(stack) /\ 1 \in 1..Len(stack') /\ d \in requiredBy[stack[1].node] /\ d \notin path
  <2>1. 1 \in 1..Len(stack) /\ Head(stack) = stack[1]
    BY Returned DEF TypeInv
  <2> QED
    BY <2>1, <1>7, <1>2, <1>4 DEF SearchInv, PathInv
<1>9. Nodes' = Nodes \cup {d}
  <2>1. ASSUME NEW j \in 1..Len(stack') PROVE stack'[j].node \in Nodes \cup {d}
    <3>1. CASE j = 1
      BY <3>1, <1>1, <1>4
    <3>2. ASSUME NEW k \in 1..Len(stack), j = k + 1 PROVE stack'[j].node \in Nodes
      BY <3>2, <1>4 DEF Nodes
    <3> QED
      BY <3>1, <3>2, <1>6
  <2>2. ASSUME NEW k \in 1..Len(stack) PROVE stack[k].node \in Nodes'
    BY <2>2, <1>4, <1>7 DEF Nodes
  <2>3. d \in Nodes'
    BY <1>1, <1>4, <1>8 DEF Nodes
  <2> QED
    BY <2>1, <2>2, <2>3 DEF Nodes
<1>10. PathInv'
  <2>1. path' = Nodes' /\ path' \subseteq visited'
    BY <1>3, <1>9 DEF SearchInv, PathInv
  <2>2. ASSUME NEW i \in 1..Len(stack'), NEW j \in 1..Len(stack'), stack'[i].node = stack'[j].node PROVE i = j
    <3>1. \A k \in 1..Len(stack) : stack'[k + 1].node # d
      <4>1. \A k \in 1..Len(stack) : stack[k].node \in path
        BY DEF SearchInv, PathInv, Nodes
      <4> QED
        BY <4>1, <1>4, <1>8
    <3>2. CASE i = 1 /\ j = 1
      BY <3>2
    <3>3. ASSUME NEW k \in 1..Len(stack), i = k + 1, j = 1 \/ (\E m \in 1..Len(stack) : j = m + 1) PROVE i = j
      <4>1. j # 1
        BY <2>2, <3>1, <3>3, <1>1, <1>4
      <4>2. PICK m \in 1..Len(stack) : j = m + 1
        BY <4>1, <3>3
      <4>3. k = m
        BY <2>2, <3>3, <4>2, <1>4 DEF SearchInv, PathInv
      <4> QED
        BY <3>3, <4>2, <4>3
    <3>4. CASE i = 1 /\ j # 1
      BY <2>2, <3>1, <3>4, <1>1, <1>4, <1>6
    <3> QED
      BY <3>2, <3>3, <3>4, <1>6
  <2>3. ASSUME NEW i \in 1..Len(stack'), NEW j \in 1..Len(stack'), j = i + 1
        PROVE  stack'[i].node \in requiredBy'[stack'[j].node]
    <3>1. CASE i = 1
      <4>1. stack'[j].node = stack[1].node
        BY <3>1, <2>3, <1>4, <1>8
      <4> QED
        BY <4>1, <3>1, <1>1, <1>4, <1>5, <1>8
    <3>2. ASSUME NEW k \in 1..Len(stack), i = k + 1 PROVE stack'[i].node \in requiredBy'[stack'[j].node]
      <4>1. j = i + 1 /\ j # 1
        BY <2>3
      <4>2. PICK m \in 1..Len(stack) : j = m + 1
        BY <4>1, <1>6
      <4>3. m = k + 1
        BY <4>1, <4>2, <3>2
      <4>4. stack[k].node \in requiredBy[stack[m].node]
        BY <4>2, <4>3, <3>2 DEF SearchInv, PathInv
      <4> QED
        BY <4>2, <4>4, <3>2, <1>4, <1>5
    <3> QED
      BY <3>1, <3>2, <1>6
  <2>4. ASSUME NEW j \in 1..Len(stack'), NEW e \in requiredBy'[stack'[j].node] \ stack'[j].left
        PROVE  e \in Closed' \/ \E i \in 1..Len(stack') : j = i + 1 /\ e = stack'[i].node
    <3>1. j # 1
      BY <2>4, <1>1, <1>4, <1>5
    <3>2. PICK m \in 1..Len(stack) : j = m + 1
      BY <3>1, <1>6
    <3>3. e \in requiredBy[stack[m].node]
      BY <2>4, <3>2, <1>4, <1>5
    <3>4. CASE m = 1 /\ e = d
      BY <3>4, <3>2, <1>1, <1>4, <1>8
    <3>5. CASE ~(m = 1 /\ e = d)
      <4>1. e \notin stack[m].left
        BY <3>5, <2>4, <3>2, <1>2, <1>4
      <4>2. CASE e \in Closed
        BY <4>2, <1>5
      <4>3. ASSUME NEW i \in 1..Len(stack), m = i + 1, e = stack[i].node
            PROVE  \E k \in 1..Len(stack') : j = k + 1 /\ e = stack'[k].node
        BY <4>3, <3>2, <1>4, <1>7
      <4> QED
        BY <4>1, <4>2, <4>3, <3>3 DEF SearchInv, PathInv
    <3> QED
      BY <3>4, <3>5
  <2> QED
    BY <2>1, <2>2, <2>3, <2>4 DEF PathInv
<1>11. ASSUME NEW j \in 1..Len(stack') PROVE stack'[j].left \subseteq requiredBy'[stack'[j].node]
  <2>1. CASE j = 1
    BY <2>1, <1>1, <1>4, <1>5
  <2>2. ASSUME NEW k \in 1..Len(stack), j = k + 1 PROVE stack'[j].left \subseteq requiredBy'[stack'[j].node]
    <3>1. rest[k].left \subseteq stack[k].left
      BY <1>2
    <3> QED
      BY <3>1, <2>2, <1>4, <1>5 DEF SearchInv
  <2> QED
    BY <2>1, <2>2, <1>6
<1> QED
  BY <1>5, <1>10, <1>11 DEF SearchInv

\* Every step keeps the search's invariant.
LEMMA SearchStep ==
  ASSUME IInv, Next
  PROVE  SearchInv'
<1> USE DEF IInv
<1>1. ASSUME UNCHANGED <<edgeVars, searchVars>>, pc \notin {"validate", "edges"} => pc' \notin {"validate", "edges"}
      PROVE  SearchInv'
  <2>1. Closed' = Closed /\ Knots' = Knots /\ Nodes' = Nodes
    BY <1>1 DEF Closed, Knots, edgeVars, searchVars, Deps, Nodes
  <2>2. PathInv'
    BY <1>1, <2>1 DEF PathInv, SearchInv, searchVars, edgeVars
  <2> QED
    BY <1>1, <2>1, <2>2 DEF SearchInv, searchVars, edgeVars
<1>2. CASE Validate \/ CountDeps \/ NoCycle \/ Built \/ Done
  BY <1>2, <1>1 DEF Validate, CountDeps, Counted, NoCycle, Built, Done, vars, edgeVars, searchVars
<1>3. ASSUME NEW t \in Tasks, Wire(t) PROVE SearchInv'
  BY <1>3, <1>1 DEF Wire, Wired
<1>4. ASSUME NEW t \in Tasks, AddEdges(t) PROVE SearchInv'
  <2>1. /\ stack = <<>> /\ path = {} /\ visited = {}
        /\ stack' = <<>> /\ path' = {} /\ visited' = {}
    BY <1>4 DEF AddEdges, SearchInv, searchVars
  <2>2. Len(stack') = 0
    BY <2>1, EmptySeq
  <2>3. Closed' = {} /\ Nodes' = {}
    BY <2>1, <2>2 DEF Closed, Nodes
  <2>4. \A S \in Knots' : S # {}
    BY DEF Knots
  <2> QED
    BY <2>1, <2>2, <2>3, <2>4 DEF SearchInv, PathInv
<1>5. ASSUME NEW t \in Tasks, Explore(t) PROVE SearchInv'
  <2> DEFINE rest == Took(stack, t)
  <2>1. pc = "search" /\ stack # <<>> /\ t \in Head(stack).left /\ UNCHANGED edgeVars
    BY <1>5 DEF Explore, edgeVars
  <2>2. CASE UNCHANGED searchVars /\ pc' = "done"
    BY <2>1, <2>2, <1>1
  <2>3. CASE t \notin visited /\ Call(t, rest) /\ pc' = pc
    BY <2>1, <2>3, NewStep
  <2>4. CASE t \in visited \ path /\ stack' = rest /\ UNCHANGED <<path, visited, pc>>
    BY <2>1, <2>4, SeenStep
  <2> QED
    BY <1>5, <2>2, <2>3, <2>4 DEF Explore, Took
<1> QED
  BY <1>2, <1>3, <1>4, <1>5, RootStep, RetreatStep DEF Next

\* A dependent on the path closes a cycle through the calls up to it; and when
\* every node has returned there is none.
LEMMA VerdictStep ==
  ASSUME IInv, Next
  PROVE  CycleFound'
<1> USE DEF IInv
<1>1. ASSUME NEW d \in Tasks, stack # <<>>, d \in Head(stack).left, d \in path
      PROVE  Cyclic
  <2>1. PICK k \in 1..Len(stack) : d = stack[k].node
    BY <1>1 DEF SearchInv, PathInv, Nodes
  <2> DEFINE S == {stack[i].node : i \in 1..k}
  <2>2. k \in Nat /\ Len(stack) \in Nat /\ stack \in Seq(Frames) /\ \A i \in 1..k : i \in 1..Len(stack)
    BY <2>1, LenProperties DEF TypeInv
  <2>3. \A i \in 1..k : stack[i].node \in Tasks
    <3>1. \A i \in 1..Len(stack) : stack[i] \in Frames
      BY <2>2, ElementOfSeq
    <3> QED
      BY <3>1, <2>2 DEF Frames
  <2>4. ASSUME NEW i \in 1..k PROVE Deps(stack[i].node) \cap S # {}
    <3>1. CASE i = k
      <4>1. Head(stack) = stack[1] /\ 1 \in 1..k
        BY <1>1, <2>1, <2>2, Returned
      <4>2. d \in requiredBy[stack[1].node]
        BY <4>1, <2>2, <1>1 DEF SearchInv
      <4>3. stack[1].node \in Deps(d)
        BY <4>1, <4>2, <2>3, <1>1 DEF EdgeInv
      <4> QED
        BY <3>1, <4>1, <4>3, <2>1
    <3>2. CASE i # k
      <4>1. i + 1 \in 1..k
        BY <3>2, <2>2
      <4>2. stack[i].node \in requiredBy[stack[i + 1].node]
        BY <4>1, <2>2 DEF SearchInv, PathInv
      <4>3. stack[i + 1].node \in Deps(stack[i].node)
        BY <4>1, <4>2, <2>3 DEF EdgeInv
      <4> QED
        BY <4>1, <4>3
    <3> QED
      BY <3>1, <3>2
  <2>5. S \in SUBSET Tasks /\ S # {}
    BY <2>1, <2>2, <2>3
  <2>6. \A t \in S : Deps(t) \cap S # {}
    BY <2>4
  <2> HIDE DEF S
  <2> QED
    BY <2>5, <2>6 DEF Cyclic
<1>2. ASSUME stack = <<>>, visited = Tasks
      PROVE  ~Cyclic
  <2>1. Len(stack) = 0
    BY <1>2, EmptySeq
  <2>2. Closed = Tasks
    BY <1>2, <2>1 DEF SearchInv, PathInv, Nodes, Closed
  <2> QED
    BY <2>2 DEF SearchInv, Knots, Cyclic
<1>3. UNCHANGED edgeVars => Cyclic' = Cyclic
  BY DEF Cyclic, Deps, edgeVars
<1>4. CASE Validate \/ CountDeps \/ Built \/ Done
  BY <1>3, <1>4 DEF Validate, CountDeps, Counted, Built, Done, vars, edgeVars, CycleFound, StageInv
<1>5. CASE NoCycle
  BY <1>2, <1>3, <1>5 DEF NoCycle, edgeVars, CycleFound, StageInv
<1>6. CASE Retreat
  BY <1>3, <1>6 DEF Retreat, Back, edgeVars, CycleFound
<1>7. ASSUME NEW t \in Tasks, Root(t) \/ Wire(t) PROVE CycleFound'
  BY <1>3, <1>7 DEF Root, Wire, Wired, edgeVars, CycleFound
<1>8. ASSUME NEW t \in Tasks, AddEdges(t) PROVE CycleFound'
  BY <1>8 DEF AddEdges, CycleFound, StageInv
<1>9. ASSUME NEW t \in Tasks, Explore(t) PROVE CycleFound'
  <2>1. pc = "search" /\ verdict = "none" /\ UNCHANGED edgeVars
    BY <1>9 DEF Explore, edgeVars, StageInv
  <2>2. CASE t \in path /\ pc' = "done" /\ verdict' = "cycle"
    BY <1>1, <1>3, <1>9, <2>1, <2>2 DEF Explore, CycleFound
  <2>3. CASE UNCHANGED <<pc, verdict>>
    BY <2>1, <2>3 DEF CycleFound
  <2> QED
    BY <1>9, <2>2, <2>3 DEF Explore
<1> QED
  BY <1>4, <1>5, <1>6, <1>7, <1>8, <1>9 DEF Next
-----------------------------------------------------------------------------
\* What BuildDAG leaves to the scheduler.
CountInv ==
  /\ ready \subseteq Tasks /\ streamRem \in [Tasks -> Nat] /\ stateRem \in [Tasks -> Nat]
  /\ pc \in {"search", "channels"} \/ verdict \in {"cycle", "ok"} =>
       /\ \A t \in Tasks : streamRem[t] = Cardinality(streamDeps[t]) /\ stateRem[t] = Cardinality(stateDeps[t])
       /\ ready = {t \in Tasks : streamRem[t] = 0 /\ stateRem[t] = 0}

\* What CreateChannels has wired: the consumers it has visited, each mention of a
\* producer once, and a WaitGroup counter for each producer's channels.
WireInv ==
  /\ outputs \in [Tasks -> SUBSET Channels] /\ wg \in [Tasks -> Nat]
  /\ inputOf \in [Tasks -> [Tasks -> Channels \cup {NoChannel}]]
  /\ signals \in [Tasks -> Seq(Tasks)]
  /\ pc \in {"validate", "edges", "search"} => \A p \in Tasks : outputs[p] = {} /\ wg[p] = 0
  /\ verdict = "ok" => todo = {}
  /\ pc = "channels" \/ verdict = "ok" =>
       /\ \A p \in Tasks : /\ outputs[p] = {x \in Channels : x[1] \notin todo /\ Inputs(x[1])[x[2]] = p}
                           /\ IsFiniteSet(outputs[p]) /\ wg[p] = Cardinality(outputs[p])
       /\ \A c \in Tasks \ todo :
            /\ signals[c] = Inputs(c)
            /\ \A p \in Tasks : inputOf[c][p] = IF Positions(c, p) = {} THEN NoChannel
                                               ELSE <<c, LastOf(Positions(c, p))>>

\* What the passes before and after the search leave behind.
Wiring == CountInv /\ WireInv

\* The last of a finite number of positions is one of them.
LEMMA LastIsOne ==
  ASSUME NEW n \in Nat, NEW I \in SUBSET (1..n), I # {}
  PROVE  LastOf(I) \in I
<1> DEFINE T == {j \in Nat : \E i \in I : i + j = n}
           R == {ss \in Nat \X Nat : ss[1] < ss[2]}
<1>1. ASSUME NEW k \in I PROVE n - k \in T
  BY <1>1
<1>2. T \subseteq Nat /\ T # {}
  BY <1>1
<1>3. IsWellFoundedOn(R, Nat)
  BY NatLessThanWellFounded DEF OpToRel
<1> HIDE DEF R, T
<1>4. PICK m \in T : \A k \in T : <<k, m>> \notin R
  BY <1>2, <1>3, WFMin
<1>5. PICK i \in I : i + m = n
  BY <1>4 DEF T
<1>6. ASSUME NEW k \in I PROVE k <= i
  <2>1. <<n - k, m>> \notin R /\ n - k \in Nat /\ m \in Nat
    BY <1>1, <1>2, <1>4
  <2>2. ~(n - k < m)
    BY <2>1 DEF R
  <2> QED
    BY <2>1, <2>2, <1>5
<1> QED
  BY <1>6 DEF LastOf

\* As many channels as positions.
LEMMA PairsOf ==
  ASSUME NEW c, NEW I, IsFiniteSet(I)
  PROVE  /\ IsFiniteSet({<<c, i>> : i \in I})
         /\ Cardinality({<<c, i>> : i \in I}) = Cardinality(I)
<1> DEFINE T == {<<c, i>> : i \in I}
           f == [i \in I |-> <<c, i>>]
<1>1. f \in Bijection(I, T)
  BY DEF Bijection, Injection, Surjection, IsInjective
<1>2. ExistsBijection(I, T)
  BY <1>1 DEF ExistsBijection
<1> QED
  BY <1>2, FS_Bijection

\* The mentions of a producer in a consumer that validation has let through.
LEMMA Mentions ==
  ASSUME TypeInv, Valid, NEW c \in Tasks
  PROVE  /\ Inputs(c) \in Seq(Tasks)
         /\ \A i \in 1..Len(Inputs(c)) : Inputs(c)[i] \in Tasks /\ <<c, i>> \in Channels
         /\ \A p \in Tasks : /\ Positions(c, p) = {} <=> p \notin Range(Inputs(c))
                             /\ IsFiniteSet(Positions(c, p)) /\ Cardinality(Positions(c, p)) \in Nat
                             /\ Positions(c, p) # {} => LastOf(Positions(c, p)) \in Positions(c, p)
<1>1. Inputs(c) \in Seq(Tasks \cup Strangers) /\ Range(Inputs(c)) = {Inputs(c)[i] : i \in 1..Len(Inputs(c))}
  BY Shape
<1>2. Len(Inputs(c)) \in Nat /\ Inputs(c) \in [1..Len(Inputs(c)) -> Tasks \cup Strangers]
  BY <1>1, LenProperties
<1>3. \A i \in 1..Len(Inputs(c)) : Inputs(c)[i] \in Tasks
  BY <1>1 DEF Valid
<1>4. Inputs(c) \in [1..Len(Inputs(c)) -> Tasks]
  BY <1>2, <1>3
<1>5. Inputs(c) \in Seq(Tasks)
  BY <1>2, <1>4, SeqDef
<1>6. ASSUME NEW i \in 1..Len(Inputs(c)) PROVE <<c, i>> \in Channels
  BY <1>6 DEF Channels
<1>7. ASSUME NEW p \in Tasks
      PROVE  /\ Positions(c, p) = {} <=> p \notin Range(Inputs(c))
             /\ IsFiniteSet(Positions(c, p)) /\ Cardinality(Positions(c, p)) \in Nat
             /\ Positions(c, p) # {} => LastOf(Positions(c, p)) \in Positions(c, p)
  <2>1. Positions(c, p) = {} <=> p \notin Range(Inputs(c))
    BY <1>1 DEF Positions
  <2>2. Positions(c, p) \in SUBSET (1..Len(Inputs(c)))
    BY DEF Positions
  <2>3. IsFiniteSet(1..Len(Inputs(c)))
    BY <1>2, FS_Interval
  <2>4. IsFiniteSet(Positions(c, p))
    BY <2>2, <2>3, FS_Subset
  <2>5. Positions(c, p) # {} => LastOf(Positions(c, p)) \in Positions(c, p)
    BY <1>2, <2>2, LastIsOne
  <2> QED
    BY <2>1, <2>4, <2>5, FS_CardinalityType
<1> QED
  BY <1>3, <1>5, <1>6, <1>7

\* No counter, channel or signal yet.
LEMMA WiringInit == Init => Wiring
<1> SUFFICES ASSUME Init PROVE Wiring
  OBVIOUS
<1>1. <<>> \in Seq(Tasks)
  BY EmptySeq
<1> QED
  BY <1>1 DEF Init, Wiring, CountInv, WireInv

\* The counters are computed once, from edges that no longer change.
LEMMA CountStep ==
  ASSUME IInv, CountInv, Next
  PROVE  CountInv'
<1> USE DEF IInv, CountInv
<1>1. CASE CountDeps
  <2>1. \A t \in Tasks : streamDeps[t] \subseteq Tasks /\ stateDeps[t] \subseteq Tasks
    BY DEF TypeInv
  <2>2. \A t \in Tasks : Cardinality(streamDeps[t]) \in Nat /\ Cardinality(stateDeps[t]) \in Nat
    BY <2>1, PlaybooksAssumption, FS_Subset, FS_CardinalityType
  <2>3. /\ streamRem' = [t \in Tasks |-> Cardinality(streamDeps[t])]
        /\ stateRem' = [t \in Tasks |-> Cardinality(stateDeps[t])]
        /\ ready' = {t \in Tasks : streamRem'[t] = 0 /\ stateRem'[t] = 0}
        /\ UNCHANGED edgeVars
    BY <1>1 DEF CountDeps, Counted
  <2> QED
    BY <2>2, <2>3 DEF edgeVars
<1>2. ASSUME UNCHANGED <<edgeVars, countVars>>,
             pc' \in {"search", "channels"} \/ verdict' \in {"cycle", "ok"} =>
               pc \in {"search", "channels"} \/ verdict \in {"cycle", "ok"}
      PROVE  CountInv'
  BY <1>2 DEF edgeVars, countVars
<1>3. CASE Validate \/ NoCycle \/ Built \/ Done
  BY <1>2, <1>3 DEF Validate, NoCycle, Built, Done, vars, StageInv
<1>4. CASE Retreat
  BY <1>2, <1>4 DEF Retreat, Back
<1>5. ASSUME NEW t \in Tasks, Root(t) \/ Wire(t) PROVE CountInv'
  BY <1>2, <1>5 DEF Root, Wire, Wired
<1>6. ASSUME NEW t \in Tasks, Explore(t) PROVE CountInv'
  BY <1>2, <1>6 DEF Explore
<1>7. ASSUME NEW t \in Tasks, AddEdges(t) PROVE CountInv'
  <2>1. pc = "edges" /\ UNCHANGED countVars /\ pc' \in {"edges", "done"} /\ verdict' \in {"none", "undefined"}
    BY <1>7 DEF AddEdges, StageInv
  <2> QED
    BY <2>1 DEF countVars
<1> QED
  BY <1>1, <1>3, <1>4, <1>5, <1>6, <1>7 DEF Next

\* The channels are the mentions: one consumer's step adds those of its inputs.
LEMMA WireStepOne ==
  ASSUME IInv, WireInv, NEW c \in Tasks, Wire(c)
  PROVE  WireInv'
<1> USE DEF IInv
<1> DEFINE Added(p) == {<<c, i>> : i \in Positions(c, p)}
<1>1. /\ pc = "channels" /\ c \in todo /\ UNCHANGED <<pc, verdict, playbook>>
      /\ todo' = todo \ {c}
      /\ outputs' = [p \in Tasks |-> outputs[p] \cup Added(p)]
      /\ inputOf' = [inputOf EXCEPT ![c] = [p \in Tasks |->
           IF Positions(c, p) = {} THEN NoChannel ELSE <<c, LastOf(Positions(c, p))>>]]
      /\ signals' = [signals EXCEPT ![c] = Inputs(c)]
      /\ wg' = [p \in Tasks |-> wg[p] + Cardinality(Positions(c, p))]
  BY DEF Wire, Wired
<1>2. TypeInv /\ Valid /\ verdict = "none"
  BY <1>1 DEF StageInv
<1>3. /\ Inputs(c) \in Seq(Tasks)
      /\ \A i \in 1..Len(Inputs(c)) : Inputs(c)[i] \in Tasks /\ <<c, i>> \in Channels
      /\ \A p \in Tasks : /\ Positions(c, p) = {} <=> p \notin Range(Inputs(c))
                          /\ IsFiniteSet(Positions(c, p)) /\ Cardinality(Positions(c, p)) \in Nat
                          /\ Positions(c, p) # {} => LastOf(Positions(c, p)) \in Positions(c, p)
  <2>1. TypeInv /\ Valid
    BY <1>2
  <2> QED
    BY <2>1, Mentions, Zenon
<1>4. \A p \in Tasks : Added(p) \subseteq Channels
  BY <1>3 DEF Positions
<1>0. playbook' = playbook
  BY <1>1
<1>5. Channels' = Channels /\ (\A q \in Tasks : Inputs(q)' = Inputs(q))
      /\ (\A q, p \in Tasks : Positions(q, p)' = Positions(q, p))
  BY <1>0 DEF Channels, Inputs, Positions
<1>6. \A p \in Tasks : Positions(c, p) # {} => <<c, LastOf(Positions(c, p))>> \in Channels
  BY <1>3 DEF Positions
<1>7. ASSUME NEW p \in Tasks
      PROVE  /\ outputs'[p] = {x \in Channels : x[1] \notin todo' /\ Inputs(x[1])[x[2]] = p}
             /\ IsFiniteSet(outputs'[p]) /\ wg'[p] = Cardinality(outputs'[p])
  <2>1. /\ outputs[p] = {x \in Channels : x[1] \notin todo /\ Inputs(x[1])[x[2]] = p}
        /\ IsFiniteSet(outputs[p]) /\ wg[p] = Cardinality(outputs[p])
    BY <1>1 DEF WireInv
  <2>2. \A x \in Channels : \E q \in Tasks : \E i \in 1..Len(Inputs(q)) : x = <<q, i>>
    BY DEF Channels
  <2>3. Added(p) = {x \in Channels : x[1] = c /\ Inputs(x[1])[x[2]] = p}
    <3>1. ASSUME NEW x \in Channels, x[1] = c, Inputs(x[1])[x[2]] = p PROVE x \in Added(p)
      <4>1. PICK q \in Tasks : \E i \in 1..Len(Inputs(q)) : x = <<q, i>>
        BY <2>2
      <4>2. PICK i \in 1..Len(Inputs(q)) : x = <<q, i>>
        BY <4>1
      <4>3. q = c /\ i \in Positions(c, p)
        BY <3>1, <4>2 DEF Positions
      <4> QED
        BY <4>2, <4>3
    <3>2. ASSUME NEW i \in Positions(c, p) PROVE <<c, i>> \in Channels /\ Inputs(c)[i] = p
      BY <1>3 DEF Positions
    <3> QED
      BY <3>1, <3>2
  <2>4. outputs'[p] = outputs[p] \cup Added(p)
    BY <1>1
  <2>5. IsFiniteSet(Added(p)) /\ Cardinality(Added(p)) = Cardinality(Positions(c, p))
    <3>1. IsFiniteSet(Positions(c, p))
      BY <1>3
    <3> QED
      BY <3>1, PairsOf, Zenon
  <2>6. outputs[p] \cap Added(p) = {}
    BY <1>1, <2>1, <2>3
  <2>7. outputs'[p] = {x \in Channels : x[1] \notin todo' /\ Inputs(x[1])[x[2]] = p}
    BY <1>1, <2>1, <2>3, <2>4 DEF TypeInv
  <2> HIDE DEF Added
  <2>8. /\ IsFiniteSet(outputs[p] \cup Added(p))
        /\ Cardinality(outputs[p] \cup Added(p)) = Cardinality(outputs[p]) + Cardinality(Added(p))
    <3>1. Cardinality(outputs[p]) \in Nat /\ Cardinality(Added(p)) \in Nat
      BY <2>1, <2>5, FS_CardinalityType
    <3>2. /\ IsFiniteSet(outputs[p] \cup Added(p))
          /\ Cardinality(outputs[p] \cup Added(p)) =
               Cardinality(outputs[p]) + Cardinality(Added(p)) - Cardinality(outputs[p] \cap Added(p))
      BY <2>1, <2>5, FS_Union
    <3> QED
      BY <2>6, <3>1, <3>2, FS_EmptySet
  <2>9. wg'[p] = wg[p] + Cardinality(Added(p))
    BY <1>1, <2>5
  <2> QED
    BY <2>1, <2>4, <2>7, <2>8, <2>9
<1>8. /\ outputs' \in [Tasks -> SUBSET Channels] /\ wg' \in [Tasks -> Nat]
      /\ inputOf' \in [Tasks -> [Tasks -> Channels \cup {NoChannel}]]
      /\ signals' \in [Tasks -> Seq(Tasks)]
  <2>1. outputs' \in [Tasks -> SUBSET Channels]
    BY <1>1, <1>4 DEF WireInv
  <2>2. wg' \in [Tasks -> Nat]
    <3>1. ASSUME NEW p \in Tasks PROVE wg[p] + Cardinality(Positions(c, p)) \in Nat
      BY <1>3 DEF WireInv
    <3> QED
      BY <1>1, <3>1
  <2>4. signals' \in [Tasks -> Seq(Tasks)]
    BY <1>1, <1>3 DEF WireInv
  <2>3. inputOf' \in [Tasks -> [Tasks -> Channels \cup {NoChannel}]]
    BY <1>1, <1>6 DEF WireInv
  <2> QED
    BY <2>1, <2>2, <2>3, <2>4
<1>9. ASSUME NEW q \in Tasks \ todo'
      PROVE  /\ signals'[q] = Inputs(q)
             /\ \A p \in Tasks : inputOf'[q][p] = IF Positions(q, p) = {} THEN NoChannel
                                                 ELSE <<q, LastOf(Positions(q, p))>>
  BY <1>1 DEF WireInv
<1>10. outputs' \in [Tasks -> SUBSET Channels'] /\ inputOf' \in [Tasks -> [Tasks -> Channels' \cup {NoChannel}]]
  BY <1>5, <1>8
<1>11. \A p \in Tasks : /\ outputs'[p] = {x \in Channels' : x[1] \notin todo' /\ Inputs(x[1])'[x[2]] = p}
                        /\ IsFiniteSet(outputs'[p]) /\ wg'[p] = Cardinality(outputs'[p])
  BY <1>5, <1>7, <1>1 DEF Inputs
<1>12. \A q \in Tasks \ todo' :
         /\ signals'[q] = Inputs(q)'
         /\ \A p \in Tasks : inputOf'[q][p] = IF Positions(q, p)' = {} THEN NoChannel
                                             ELSE <<q, LastOf(Positions(q, p)')>>
  BY <1>5, <1>9
<1> QED
  BY <1>1, <1>2, <1>8, <1>10, <1>11, <1>12 DEF WireInv

\* Only the pass over the consumers touches the channels.
LEMMA WireStep ==
  ASSUME IInv, WireInv, Next
  PROVE  WireInv'
<1> USE DEF IInv
<1>0. playbook' = playbook
  BY StageStep
<1>1. Channels' = Channels /\ (\A q \in Tasks : Inputs(q)' = Inputs(q))
      /\ (\A q, p \in Tasks : Positions(q, p)' = Positions(q, p))
  BY <1>0 DEF Channels, Inputs, Positions
<1>2. ASSUME UNCHANGED wireVars, verdict' = "ok" => todo' = {},
             pc' \in {"validate", "edges", "search"} => pc \in {"validate", "edges", "search"},
             (pc' = "channels" \/ verdict' = "ok") =>
               ((pc = "channels" \/ verdict = "ok") /\ todo' = todo)
      PROVE  WireInv'
  <2>1. /\ outputs' \in [Tasks -> SUBSET Channels'] /\ wg' \in [Tasks -> Nat]
        /\ inputOf' \in [Tasks -> [Tasks -> Channels' \cup {NoChannel}]]
        /\ signals' \in [Tasks -> Seq(Tasks)]
        /\ pc' \in {"validate", "edges", "search"} => \A p \in Tasks : outputs'[p] = {} /\ wg'[p] = 0
    BY <1>1, <1>2 DEF wireVars, WireInv
  <2>2. ASSUME pc' = "channels" \/ verdict' = "ok", NEW p \in Tasks
        PROVE  /\ outputs'[p] = {x \in Channels' : x[1] \notin todo' /\ Inputs(x[1])'[x[2]] = p}
               /\ IsFiniteSet(outputs'[p]) /\ wg'[p] = Cardinality(outputs'[p])
    BY <1>0, <1>1, <1>2, <2>2 DEF wireVars, WireInv, Inputs
  <2>3. ASSUME pc' = "channels" \/ verdict' = "ok", NEW q \in Tasks \ todo'
        PROVE  /\ signals'[q] = Inputs(q)'
               /\ \A p \in Tasks : inputOf'[q][p] = IF Positions(q, p)' = {} THEN NoChannel
                                                   ELSE <<q, LastOf(Positions(q, p)')>>
    BY <1>1, <1>2, <2>3 DEF wireVars, WireInv
  <2> QED
    BY <1>2, <2>1, <2>2, <2>3 DEF WireInv
<1>3. CASE NoCycle
  <2>1. /\ pc = "search" /\ pc' = "channels" /\ todo' = Tasks /\ UNCHANGED wireVars /\ verdict' = "none"
    BY <1>3 DEF NoCycle, StageInv
  <2>2. /\ outputs' \in [Tasks -> SUBSET Channels'] /\ wg' \in [Tasks -> Nat]
        /\ inputOf' \in [Tasks -> [Tasks -> Channels' \cup {NoChannel}]]
        /\ signals' \in [Tasks -> Seq(Tasks)]
    BY <1>1, <2>1 DEF wireVars, WireInv
  <2>3. \A x \in Channels' : x[1] \in Tasks
    BY DEF Channels
  <2>4. ASSUME NEW p \in Tasks
        PROVE  /\ outputs'[p] = {x \in Channels' : x[1] \notin todo' /\ Inputs(x[1])'[x[2]] = p}
               /\ IsFiniteSet(outputs'[p]) /\ wg'[p] = Cardinality(outputs'[p])
    <3>1. outputs'[p] = {} /\ wg'[p] = 0
      BY <2>1 DEF wireVars, WireInv
    <3>2. {x \in Channels' : x[1] \notin todo' /\ Inputs(x[1])'[x[2]] = p} = {}
      BY <2>1, <2>3
    <3> QED
      BY <3>1, <3>2, FS_EmptySet
  <2> QED
    BY <2>1, <2>2, <2>4 DEF WireInv
<1>4. CASE Validate \/ CountDeps \/ Built \/ Done
  BY <1>2, <1>4 DEF Validate, CountDeps, Counted, Built, Done, vars, StageInv, wireVars, WireInv
<1>5. CASE Retreat
  BY <1>2, <1>5 DEF Retreat, Back, StageInv
<1>6. ASSUME NEW t \in Tasks, Root(t) PROVE WireInv'
  BY <1>2, <1>6 DEF Root, StageInv
<1>7. ASSUME NEW t \in Tasks, Explore(t) PROVE WireInv'
  <2>1. pc = "search" /\ pc' \in {"search", "done"} /\ verdict' # "ok" /\ UNCHANGED wireVars
    BY <1>7 DEF Explore, StageInv
  <2> QED
    BY <1>2, <2>1
<1>8. ASSUME NEW t \in Tasks, AddEdges(t) PROVE WireInv'
  <2>1. pc = "edges" /\ pc' \in {"edges", "done"} /\ verdict' # "ok" /\ UNCHANGED wireVars
    BY <1>8 DEF AddEdges, StageInv
  <2> QED
    BY <1>2, <2>1
<1>9. ASSUME NEW t \in Tasks, Wire(t) PROVE WireInv'
  BY <1>9, WireStepOne
<1> QED
  BY <1>3, <1>4, <1>5, <1>6, <1>7, <1>8, <1>9 DEF Next
-----------------------------------------------------------------------------
\* No step of building the graph and the channels leaves the invariant.
THEOREM Inductive == Spec => [](IInv /\ Wiring)
<1>1. IInv /\ Wiring /\ [Next]_vars => IInv' /\ Wiring'
  <2> SUFFICES ASSUME IInv, Wiring, [Next]_vars PROVE IInv' /\ Wiring'
    OBVIOUS
  <2>1. CASE Next
    <3>1. IInv'
      BY <2>1, TypeStep, StageStep, EdgeStep, SearchStep, VerdictStep DEF IInv
    <3> QED
      BY <2>1, <3>1, CountStep, WireStep DEF Wiring
  <2>2. CASE UNCHANGED vars
    <3>1. TypeInv' /\ StageInv'
      BY <2>2 DEF IInv, vars, edgeVars, searchVars, TypeInv, StageInv, Valid, Inputs
    <3>2. EdgeInv' /\ SearchInv' /\ CycleFound'
      BY <2>2 DEF IInv, vars, edgeVars, searchVars, EdgeInv, SearchInv, CycleFound, PathInv, Nodes,
                  Closed, Knots, Cyclic, Deps, Inputs, Range
    <3>3. CountInv'
      BY <2>2 DEF Wiring, vars, edgeVars, countVars, CountInv
    <3>4. WireInv'
      <4>1. Channels' = Channels /\ \A c, p \in Tasks : Positions(c, p)' = Positions(c, p)
        BY <2>2 DEF vars, Channels, Inputs, Positions
      <4>2. /\ UNCHANGED <<pc, verdict, todo, playbook>>
            /\ outputs' = outputs /\ inputOf' = inputOf /\ signals' = signals /\ wg' = wg
        BY <2>2 DEF vars, wireVars
      <4> QED
        BY <4>1, <4>2 DEF Wiring, WireInv, Inputs
    <3> QED
      BY <3>1, <3>2, <3>3, <3>4 DEF IInv, Wiring
  <2> QED
    BY <2>1, <2>2
<1>2. Init => IInv /\ Wiring
  BY InitInv, WiringInit
<1> QED
  BY <1>1, <1>2, PTL DEF Spec

\* BuildDAG and CreateChannels keep the types of their tables: edges, calls and
\* channels are between tasks of the playbook.
THEOREM TypesKept == Spec => []TypeOK
<1>1. IInv /\ Wiring => TypeOK
  <2> SUFFICES ASSUME IInv, Wiring PROVE TypeOK
    OBVIOUS
  <2>1. \A p \in Tasks : outputs[p] \subseteq Channels
    BY DEF Wiring, WireInv
  <2>2. \A c, p \in Tasks : inputOf[c][p] \in Channels \cup {NoChannel}
    BY DEF Wiring, WireInv
  <2> QED
    BY <2>1, <2>2 DEF IInv, Wiring, TypeInv, StageInv, CountInv, WireInv, TypeOK, Frames
<1> QED
  BY Inductive, <1>1, PTL

\* detectCycle refuses exactly the playbooks whose tasks wait for each other.
THEOREM CyclesRefused == Spec => []CycleFound
<1>1. IInv => CycleFound
  BY DEF IInv
<1> QED
  BY Inductive, <1>1, PTL

\* BuildDAG never meets a name that ValidatePlaybookStructure let through undefined.
THEOREM NamesResolve == Spec => []ValidatedBuilds
<1>1. IInv => ValidatedBuilds
  BY DEF IInv, StageInv, ValidatedBuilds
<1> QED
  BY Inductive, <1>1, PTL

\* The counters BuildDAG gives the scheduler are the numbers of producers that
\* will decrement them, and some task of an accepted playbook can start.
THEOREM CountersRight == Spec => []CountersMatchSignals
<1>1. IInv /\ Wiring => CountersMatchSignals
  <2> SUFFICES ASSUME IInv, Wiring, verdict = "ok"
               PROVE  /\ \A t \in Tasks :
                           /\ streamRem[t] = Cardinality({p \in Tasks : t \in requiredBy[p] /\ p \in streamDeps[t]})
                           /\ stateRem[t] = Cardinality({p \in Tasks : t \in requiredBy[p] /\ p \in stateDeps[t]})
                      /\ ready # {} /\ ready = {t \in Tasks : Deps(t) = {}}
    BY DEF CountersMatchSignals
  <2>1. ASSUME NEW t \in Tasks
        PROVE  /\ streamDeps[t] = {p \in Tasks : t \in requiredBy[p] /\ p \in streamDeps[t]}
               /\ stateDeps[t] = {p \in Tasks : t \in requiredBy[p] /\ p \in stateDeps[t]}
    BY DEF IInv, TypeInv, EdgeInv, Deps
  <2>2. \A t \in Tasks : streamRem[t] = Cardinality(streamDeps[t]) /\ stateRem[t] = Cardinality(stateDeps[t])
    BY DEF Wiring, CountInv
  <2>3. ready = {t \in Tasks : streamRem[t] = 0 /\ stateRem[t] = 0}
    BY DEF Wiring, CountInv
  <2>4. ASSUME NEW t \in Tasks
        PROVE  streamRem[t] = 0 /\ stateRem[t] = 0 <=> Deps(t) = {}
    <3>1. streamDeps[t] \subseteq Tasks /\ stateDeps[t] \subseteq Tasks
      BY DEF IInv, TypeInv
    <3>2. IsFiniteSet(streamDeps[t]) /\ IsFiniteSet(stateDeps[t])
      BY <3>1, PlaybooksAssumption, FS_Subset
    <3>3. /\ Cardinality(streamDeps[t]) = 0 <=> streamDeps[t] = {}
          /\ Cardinality(stateDeps[t]) = 0 <=> stateDeps[t] = {}
      BY <3>2, FS_EmptySet
    <3> QED
      BY <3>3, <2>2 DEF Deps
  <2>5. ready = {t \in Tasks : Deps(t) = {}}
    BY <2>3, <2>4
  <2>6. \E t \in Tasks : Deps(t) = {}
    <3>1. ~Cyclic
      BY DEF IInv, CycleFound
    <3>2. PICK t \in Tasks : Deps(t) \cap Tasks = {}
      BY <3>1, PlaybooksAssumption DEF Cyclic
    <3>3. Deps(t) \subseteq Tasks
      BY DEF IInv, TypeInv, Deps
    <3> QED
      BY <3>2, <3>3
  <2>7. ready # {}
    BY <2>5, <2>6
  <2> QED
    BY <2>1, <2>2, <2>5, <2>7
<1> QED
  BY Inductive, <1>1, PTL

\* CreateChannels gives every stream edge a channel that its producer writes and
\* its consumer reads, and a producer's WaitGroup as many counts as its consumers
\* will send signals.
THEOREM ChannelsBalanced == Spec => []WiringBalanced
<1>1. IInv /\ Wiring => WiringBalanced
  <2> SUFFICES ASSUME IInv, Wiring, verdict = "ok"
               PROVE  /\ \A p \in Tasks : wg[p] = Cardinality({x \in Channels : signals[x[1]][x[2]] = p})
                      /\ \A c \in Tasks : {p \in Tasks : inputOf[c][p] # NoChannel} = streamDeps[c]
                      /\ \A c \in Tasks : \A p \in streamDeps[c] : inputOf[c][p] \in outputs[p]
    BY DEF WiringBalanced
  <2>1. TypeInv /\ Valid /\ todo = {}
    BY DEF IInv, StageInv, Wiring, WireInv
  <2>2. /\ \A p \in Tasks : /\ outputs[p] = {x \in Channels : x[1] \notin todo /\ Inputs(x[1])[x[2]] = p}
                            /\ wg[p] = Cardinality(outputs[p])
        /\ \A c \in Tasks : /\ signals[c] = Inputs(c)
                            /\ \A p \in Tasks : inputOf[c][p] = IF Positions(c, p) = {} THEN NoChannel
                                                                ELSE <<c, LastOf(Positions(c, p))>>
    BY <2>1 DEF Wiring, WireInv
  <2>3. \A x \in Channels : x[1] \in Tasks
    BY DEF Channels
  <2>4. \A p \in Tasks : outputs[p] = {x \in Channels : signals[x[1]][x[2]] = p}
    BY <2>1, <2>2, <2>3
  <2>5. ASSUME NEW c \in Tasks
        PROVE  /\ {p \in Tasks : inputOf[c][p] # NoChannel} = streamDeps[c]
               /\ \A p \in streamDeps[c] : inputOf[c][p] \in outputs[p]
    <3>1. streamDeps[c] = Range(Inputs(c)) /\ streamDeps[c] \subseteq Tasks
      BY DEF IInv, EdgeInv, TypeInv
    <3>2. ASSUME NEW p \in Tasks
          PROVE  /\ Positions(c, p) = {} <=> p \notin streamDeps[c]
                 /\ Positions(c, p) # {} => LastOf(Positions(c, p)) \in Positions(c, p)
      BY <2>1, <3>1, Mentions
    <3>3. \A i \in 1..Len(Inputs(c)) : <<c, i>> \in Channels
      BY DEF Channels
    <3>4. ASSUME NEW p \in Tasks PROVE inputOf[c][p] # NoChannel <=> p \in streamDeps[c]
      <4>1. CASE Positions(c, p) = {}
        BY <4>1, <2>2, <3>2
      <4>2. CASE Positions(c, p) # {}
        <5>1. inputOf[c][p] = <<c, LastOf(Positions(c, p))>>
          BY <4>2, <2>2
        <5>2. <<c, LastOf(Positions(c, p))>> # NoChannel
          BY DEF NoChannel
        <5> QED
          BY <4>2, <5>1, <5>2, <3>2
      <4> QED
        BY <4>1, <4>2
    <3>5. ASSUME NEW p \in streamDeps[c] PROVE inputOf[c][p] \in outputs[p]
      <4>1. p \in Tasks /\ LastOf(Positions(c, p)) \in Positions(c, p)
        BY <3>1, <3>2
      <4>2. LastOf(Positions(c, p)) \in 1..Len(Inputs(c)) /\ Inputs(c)[LastOf(Positions(c, p))] = p
        BY <4>1 DEF Positions
      <4>3. <<c, LastOf(Positions(c, p))>> \in outputs[p]
        BY <4>1, <4>2, <3>3, <2>1, <2>2
      <4> QED
        BY <4>1, <4>3, <2>2
    <3> QED
      BY <3>1, <3>4, <3>5
  <2> QED
    BY <2>2, <2>4, <2>5
<1> QED
  BY Inductive, <1>1, PTL
=============================================================================
