--------------------------- MODULE PipelineProofs ---------------------------
(***************************************************************************)
(* Theorems about Pipeline, for every playbook and every size of buffer,   *)
(* pool and stream that satisfies the assumptions of Pipeline: what it     *)
(* takes to panic; streams arrive whole, and the build sides of a join     *)
(* before its probe side.                                                  *)
(***************************************************************************)
EXTENDS PipelineInvariant, FiniteSetTheorems, TLAPS

USE DEF taskVars, moduleVars, streamVars

-----------------------------------------------------------------------------
(* The topology.                                                           *)

\* The types of the constants the steps use.
LEMMA Constants ==
  /\ Outputs \in [Tasks -> Seq(Tasks)] /\ Iterations \in [Tasks -> Nat \ {0}]
  /\ \A t \in Tasks : t \notin Loops => Iterations[t] = 1
  /\ Records \in Nat /\ BufferSize \in Nat \ {0}
  /\ Kind \in [Tasks -> {"source", "passthrough", "join", "sink"}]
  /\ \A t \in Tasks : Kind[t] = "source" => Producers(t) = {}
  /\ \A t \in Tasks : Kind[t] = "join" => Probe[t] \in Producers(t)
  BY PipelineAssumption

\* A consumer is a task, and a channel joins it to its producer.
LEMMA Topology ==
  /\ \A p \in Tasks : \A c \in Consumers(p) :
       c \in Tasks /\ <<p, c>> \in Links /\ p \in Producers(c)
  /\ \A c \in Tasks : \A p \in Producers(c) : p \in Tasks /\ c \in Consumers(p) /\ <<p, c>> \in Links
  /\ \A l \in Links : l[1] \in Tasks /\ l[2] \in Consumers(l[1]) /\ l = <<l[1], l[2]>>
<1>1. ASSUME NEW p \in Tasks, NEW c \in Consumers(p) PROVE c \in Tasks
  BY Constants DEF Consumers
<1> QED
  BY <1>1 DEF Links, Producers

\* An instance is one of its task, and a reader serves it on one of its inputs.
LEMMA Populace ==
  /\ \A x \in Instances : x[1] \in Tasks /\ x[2] \in 1..Iterations[x[1]] /\ x = <<x[1], x[2]>>
  /\ \A t \in Tasks : \A i \in 1..Iterations[t] : <<t, i>> \in Instances
  /\ \A t \in Tasks : First(t) \in Instances /\ First(t)[1] = t /\ First(t)[2] = 1
  /\ \A r \in Readers : r[1] \in Instances /\ r[2] \in Producers(r[1][1]) /\ r = <<r[1], r[2]>>
  /\ \A x \in Instances : \A p \in Producers(x[1]) : <<x, p>> \in Readers
<1>1. \A x \in Instances : x[1] \in Tasks /\ x[2] \in 1..Iterations[x[1]] /\ x = <<x[1], x[2]>>
  BY DEF Instances
<1>2. \A t \in Tasks : \A i \in 1..Iterations[t] : <<t, i>> \in Instances
  BY DEF Instances
<1>3. \A t \in Tasks : 1 \in 1..Iterations[t]
  BY Constants
<1>4. \A r \in Readers : r[1] \in Instances /\ r[2] \in Producers(r[1][1]) /\ r = <<r[1], r[2]>>
  BY DEF Readers
<1>5. \A x \in Instances : \A p \in Producers(x[1]) : <<x, p>> \in Readers
  BY DEF Readers
<1> QED
  BY <1>1, <1>2, <1>3, <1>4, <1>5 DEF First

\* The reader of an input, and the channel it reads.
LEMMA Input ==
  ASSUME NEW x \in Instances, NEW p \in Producers(x[1])
  PROVE  x[1] \in Tasks /\ p \in Tasks /\ <<x, p>> \in Readers /\ <<p, x[1]>> \in Links
  BY Topology, Populace

\* What is left of a sequence when its head is gone.
LEMMA HeadTail ==
  ASSUME NEW S, NEW s \in Seq(S), s # <<>>
  PROVE  /\ Head(s) \in S /\ Tail(s) \in Seq(S) /\ Len(s) \in Nat \ {0} /\ Head(s) = s[1]
         /\ Len(Tail(s)) = Len(s) - 1
         /\ \A i \in 1..Len(s) - 1 : i + 1 \in 1..Len(s) /\ Tail(s)[i] = s[i + 1]
  OBVIOUS

\* A task that feeds a stream has one instance.
LEMMA OneProducer ==
  ASSUME SingleProducers, NEW x \in Instances, Consumers(x[1]) # {}
  PROVE  x = First(x[1])
<1>1. x[1] \in Tasks /\ x[2] \in 1..Iterations[x[1]] /\ x = <<x[1], x[2]>>
  BY Populace
<1>2. Iterations[x[1]] = 1
  <2>1. Iterations[x[1]] \in Nat \ {0} /\ ~(Iterations[x[1]] > 1)
    BY <1>1, Constants DEF SingleProducers
  <2> QED
    BY <2>1
<1>3. x[2] = 1
  BY <1>1, <1>2
<1> QED
  BY <1>1, <1>3 DEF First

\* It alone closes the streams, at its end.
LEMMA ClosedByFirst ==
  ASSUME SingleProducers, ClosedInv, NEW p \in Tasks, NEW c \in Consumers(p), closed[<<p, c>>]
  PROVE  ipc[First(p)] = "done"
<1>1. PICK x \in Instances : x[1] = p /\ ipc[x] = "done"
  BY DEF ClosedInv
<1> QED
  BY <1>1, OneProducer

\* The consumers of a task form a finite set.
LEMMA FiniteTasks ==
  \A S \in SUBSET Tasks : IsFiniteSet(S) /\ Cardinality(S) \in Nat
  BY PipelineAssumption, FS_Subset, FS_CardinalityType
-----------------------------------------------------------------------------
(* The steps.                                                              *)

\* A step is one of a task, of an instance, or of the context.
LEMMA SplitNext ==
  [Next]_vars =>
    \/ UNCHANGED vars
    \/ CancelRun \/ \E t \in Tasks : Expire(t) \/ TaskStep(t)
    \/ \E x \in Instances : InstanceStep(x)
  BY DEF Next, Work, Finished

\* The ways out of Perform, all of which go through Return.
Ends(x) == Exhausted(x) \/ GiveUp(x) \/ Passed(x) \/ Drained(x) \/ Joined(x)

\* Perform returns nil, an error of the context, or a failure of a command.
LEMMA EndsReturn ==
  ASSUME NEW x \in Instances, Ends(x)
  PROVE  /\ ipc[x] = "perform"
         /\ \E err \in Errors : /\ Return(x, err)
                                /\ err = "fail" => Kind[x[1]] = "sink"
  BY Zenon DEF Ends, Exhausted, GiveUp, Passed, Drained, Joined, At, Errors
-----------------------------------------------------------------------------
(* Types and panics.                                                       *)

\* What an instance serves next is a channel of its own.
LEMMA NextOutput ==
  ASSUME TodoInv, NEW x \in Instances, todo[x] # <<>>
  PROVE  /\ Head(todo[x]) \in Consumers(x[1]) /\ <<x[1], Head(todo[x])>> \in Links
         /\ Tail(todo[x]) \in Seq(Consumers(x[1]))
<1>1. x[1] \in Tasks /\ todo[x] \in Seq(Consumers(x[1]))
  BY Populace DEF TodoInv
<1>2. Head(todo[x]) \in Consumers(x[1]) /\ Tail(todo[x]) \in Seq(Consumers(x[1]))
  BY <1>1, HeadTail
<1> QED
  BY <1>1, <1>2, Topology

\* What a producer starts to serve is every consumer, each once.
LEMMA AllOutputs ==
  ASSUME NEW p \in Tasks
  PROVE  /\ Outputs[p] \in Seq(Consumers(p)) /\ Outputs[p] \in Seq(Tasks)
         /\ \A i, j \in 1..Len(Outputs[p]) : Outputs[p][i] = Outputs[p][j] => i = j
         /\ \A c \in Consumers(p) : \E i \in 1..Len(Outputs[p]) : Outputs[p][i] = c
<1>1. Outputs[p] \in Seq(Tasks) /\ Len(Outputs[p]) \in Nat
  BY Constants
<1>2. \A i \in 1..Len(Outputs[p]) : Outputs[p][i] \in Consumers(p)
  BY DEF Consumers
<1>3. Outputs[p] \in Seq(Consumers(p))
  BY <1>1, <1>2
<1>4. \A c \in Consumers(p) : \E i \in 1..Len(Outputs[p]) : Outputs[p][i] = c
  BY DEF Consumers
<1> QED
  BY <1>1, <1>3, <1>4, NamedOnceAssumption

\* A task's step keeps the types.
LEMMA TaskTypeStep ==
  ASSUME TypeOK, PhaseInv, InstanceInv, WgInv, NEW t \in Tasks, TaskStep(t)
  PROVE  TypeOK'
<1> USE DEF TypeOK
<1>1. ASSUME NEW r \in {"ok", "skip", "fail", "ctx"}, Leave(t, r), phase[t] # "ended" PROVE TypeOK'
  <2>1. ASSUME NEW p \in Tasks, t \in Consumers(p) PROVE wg[p] - 1 \in Nat
    <3> DEFINE S == {c \in Consumers(p) : phase[c] # "ended"}
    <3>1. IsFiniteSet(S) /\ Cardinality(S) \in Nat
      BY FiniteTasks, Topology
    <3>2. t \in S
      BY <1>1, <2>1
    <3>3. Cardinality(S) # 0
      BY <3>1, <3>2, FS_EmptySet
    <3>4. wg[p] \in Nat /\ wg[p] >= Cardinality(S)
      BY DEF WgInv
    <3> QED
      BY <3>1, <3>3, <3>4
  <2>2. wg' \in [Tasks -> Nat]
    BY <1>1, <2>1, Topology DEF Leave
  <2> QED
    BY <1>1, <2>2 DEF Leave
<1>2. CASE Start(t) \/ Refuse(t)
  BY <1>2 DEF Start, Refuse
<1>3. CASE Skip(t) \/ EmptyLoop(t) \/ BadLoop(t)
  BY <1>1, <1>3 DEF Skip, EmptyLoop, BadLoop
<1>4. CASE Enter(t)
  <2>1. <<t, 1>> \in Instances
    BY Populace DEF First
  <2>2. CASE t \in Loops
    BY <1>4, <2>2 DEF Enter
  <2>3. CASE t \notin Loops
    <3>1. spawned' = [spawned EXCEPT ![t] = 1] /\ ipc' = [ipc EXCEPT ![<<t, 1>>] = "setup"]
      BY <1>4, <2>3 DEF Enter
    <3>2. spawned' \in [Tasks -> Nat]
      BY <3>1
    <3> QED
      BY <1>4, <2>1, <3>1, <3>2 DEF Enter
  <2> QED
    BY <2>2, <2>3
<1>5. CASE Spawn(t)
  <2>1. spawned[t] + 1 \in Nat
    OBVIOUS
  <2> QED
    BY <1>5, <2>1 DEF Spawn
<1>6. CASE BreakLoop(t)
  BY <1>6 DEF BreakLoop, Errors
<1>7. CASE EndTask(t)
  <2>1. (IF taskErr[t] = "none" THEN "ok" ELSE taskErr[t]) \in {"ok", "skip", "fail", "ctx"}
    BY DEF Errors
  <2> QED
    BY <1>1, <1>7, <2>1 DEF EndTask
<1> QED
  BY <1>2, <1>3, <1>4, <1>5, <1>6, <1>7 DEF TaskStep

\* An instance's step keeps the types.
LEMMA InstanceTypeStep ==
  ASSUME TypeOK, TodoInv, NEW x \in Instances, InstanceStep(x)
  PROVE  TypeOK'
<1> USE DEF TypeOK
<1>1. ASSUME NEW err \in Errors, Return(x, err) PROVE TypeOK'
  BY <1>1 DEF Return
<1>2. CASE Ends(x)
  BY <1>1, <1>2, EndsReturn
<1>3. CASE Birth(x)
  BY <1>3 DEF Birth
<1>4. CASE Prepare(x)
  <2>1. CASE Return(x, "fail") \/ Return(x, "ctx")
    BY <1>1, <2>1 DEF Errors
  <2>2. CASE ~(Return(x, "fail") \/ Return(x, "ctx"))
    <3>1. /\ ipc' = [ipc EXCEPT ![x] = "perform"] /\ attempt' = [attempt EXCEPT ![x] = 1]
          /\ \E S \in SUBSET Readers :
               reader' = [r \in Readers |-> IF r \in S THEN "read" ELSE reader[r]]
          /\ UNCHANGED <<taskVars, runDone, ierr, sent, todo, streamVars, wg, panicked>>
      <4> DEFINE S == {r \in Readers : r[1] = x /\ ~Probing(x, r[2])}
      <4>1. reader' = [r \in Readers |-> IF r \in S THEN "read" ELSE reader[r]]
        BY <1>4, <2>2 DEF Prepare
      <4> QED
        BY <1>4, <2>2, <4>1 DEF Prepare
    <3> QED
      BY <3>1
  <2> QED
    BY <2>1, <2>2
<1>5. CASE Retry(x)
  BY <1>5 DEF Retry, Errors
<1>6. CASE Close(x)
  BY <1>6 DEF Close
<1>7. CASE Generate(x)
  <2>1. Outputs[x[1]] \in Seq(Tasks) /\ sent[x] + 1 \in Nat
    BY AllOutputs, Populace
  <2> QED
    BY <1>7, <2>1 DEF Generate
<1>8. CASE Send(x)
  <2> DEFINE l == <<x[1], Head(todo[x])>>
  <2>1. l \in Links /\ Tail(todo[x]) \in Seq(Tasks)
    BY <1>8, NextOutput, HeadTail DEF Send
  <2>2. CASE closed[l]
    BY <1>8, <2>2 DEF Send
  <2>3. CASE ~closed[l]
    <3>1. buffer[l] < BufferSize
      BY <1>8, <2>3, Zenon DEF Send
    <3>2. buffer[l] + 1 \in 0..BufferSize /\ emitted[l] + 1 \in Nat
      <4>1. buffer[l] \in 0..BufferSize /\ emitted[l] \in Nat /\ BufferSize \in Nat
        BY <2>1, Constants
      <4> HIDE DEF TypeOK, l
      <4> QED
        BY <3>1, <4>1
    <3> QED
      BY <1>8, <2>1, <2>3, <3>2 DEF Send
  <2> QED
    BY <2>2, <2>3
<1>9. CASE StartProbe(x)
  <2>1. <<x, Probe[x[1]]>> \in Readers
    BY <1>9, Constants, Populace DEF StartProbe, At
  <2>2. CASE ierr[x] # "none"
    BY <1>1, <1>9, <2>2 DEF StartProbe
  <2>3. CASE ierr[x] = "none"
    BY <1>9, <2>1, <2>3 DEF StartProbe
  <2> QED
    BY <2>2, <2>3
<1>10. CASE ProbeRecord(x)
  <2> DEFINE p == Probe[x[1]]
  <2>1. p \in Producers(x[1])
    BY <1>10, Constants, Populace DEF ProbeRecord, At
  <2>2. <<x, p>> \in Readers /\ <<p, x[1]>> \in Links /\ x[1] \in Tasks
    BY <2>1, Input
  <2>3. Outputs[x[1]] \in Seq(Tasks)
    BY <2>2, AllOutputs
  <2>4. /\ buffer[<<p, x[1]>>] > 0
        /\ buffer' = [buffer EXCEPT ![<<p, x[1]>>] = @ - 1]
        /\ got' = [got EXCEPT ![<<p, x[1]>>] = @ + 1]
        /\ \E s \in {"done", "read"} : reader' = [reader EXCEPT ![<<x, p>>] = s]
    BY <1>10 DEF ProbeRecord, Pull, TakeIn
  <2>5. /\ buffer' \in [Links -> 0..BufferSize] /\ got' \in [Links -> Nat]
        /\ reader' \in [Readers -> {"idle", "read", "hold", "done"}]
    BY <2>2, <2>4, Constants, SMTT(60)
  <2>6. todo' \in [Instances -> Seq(Tasks)]
    BY <1>10, <2>3, ZenonT(60) DEF ProbeRecord
  <2> QED
    BY <1>10, <2>5, <2>6, ZenonT(60) DEF ProbeRecord, Errors
<1>11. CASE EmitUnmatched(x)
  BY <1>11, AllOutputs, Populace DEF EmitUnmatched
<1>12. ASSUME NEW p \in Producers(x[1]), Receive(x, p) PROVE TypeOK'
  <2>1. <<x, p>> \in Readers /\ <<p, x[1]>> \in Links
    BY <1>12, Input
  <2>2. /\ buffer[<<p, x[1]>>] > 0
        /\ buffer' = [buffer EXCEPT ![<<p, x[1]>>] = @ - 1]
        /\ \E s \in {"hold", "read"} : reader' = [reader EXCEPT ![<<x, p>>] = s]
        /\ got' = got \/ got' = [got EXCEPT ![<<p, x[1]>>] = @ + 1]
    BY <1>12 DEF Receive, Pull, TakeIn
  <2>3. buffer' \in [Links -> 0..BufferSize]
    BY <2>1, <2>2, Constants
  <2>4. got' \in [Links -> Nat]
    <3>1. got[<<p, x[1]>>] + 1 \in Nat
      BY <2>1
    <3> QED
      BY <2>2, <3>1
  <2>5. reader' \in [Readers -> {"idle", "read", "hold", "done"}]
    BY <2>1, <2>2
  <2> QED
    BY <1>12, <2>3, <2>4, <2>5 DEF Receive
<1>13. ASSUME NEW p \in Producers(x[1]), EndOfStream(x, p) \/ StopReading(x, p) PROVE TypeOK'
  <2>1. <<x, p>> \in Readers
    BY <1>13, Input
  <2> QED
    BY <1>13, <2>1 DEF EndOfStream, StopReading, EndRead
<1>14. ASSUME NEW p \in Producers(x[1]), Merge(x, p) PROVE TypeOK'
  BY <1>14, AllOutputs, Populace, SMTT(60) DEF Merge
<1>15. ASSUME NEW p \in Producers(x[1]), Build(x, p) PROVE TypeOK'
  <2>1. <<x, p>> \in Readers /\ <<p, x[1]>> \in Links
    BY <1>15, Input
  <2>2. reader' \in [Readers -> {"idle", "read", "hold", "done"}]
    BY <1>15, <2>1 DEF Build
  <2>3. CASE TakeIn(x, p) /\ UNCHANGED ierr
    <3>1. got' \in [Links -> Nat]
      BY <2>1, <2>3 DEF TakeIn
    <3> QED
      BY <1>15, <2>2, <2>3, <3>1 DEF Build
  <2>4. CASE ierr' = [ierr EXCEPT ![x] = "fail"] /\ UNCHANGED got
    BY <1>15, <2>2, <2>4 DEF Build, Errors
  <2> QED
    BY <1>15, <2>3, <2>4 DEF Build
<1> QED
  BY <1>2, <1>3, <1>4, <1>5, <1>6, <1>7, <1>8, <1>9, <1>10, <1>11, <1>12, <1>13, <1>14, <1>15
     DEF InstanceStep, Ends
-----------------------------------------------------------------------------
(* Which steps change what.                                                *)

\* A step of an instance leaves the tasks' progress and the other instances alone.
LEMMA InstanceFrame ==
  ASSUME TypeOK, NEW x \in Instances, InstanceStep(x)
  PROVE  /\ UNCHANGED <<phase, result, expired, spawned, broken, runDone, wg>>
         /\ \A y \in Instances : y # x =>
              /\ ipc'[y] = ipc[y] /\ ierr'[y] = ierr[y] /\ sent'[y] = sent[y]
              /\ todo'[y] = todo[y] /\ attempt'[y] = attempt[y]
              /\ \A p \in Producers(y[1]) : reader'[<<y, p>>] = reader[<<y, p>>]
<1> DEFINE Frame ==
         /\ UNCHANGED <<phase, result, expired, spawned, broken, runDone, wg>>
         /\ \A y \in Instances : y # x =>
              /\ ipc'[y] = ipc[y] /\ ierr'[y] = ierr[y] /\ sent'[y] = sent[y]
              /\ todo'[y] = todo[y] /\ attempt'[y] = attempt[y]
              /\ \A p \in Producers(y[1]) : reader'[<<y, p>>] = reader[<<y, p>>]
<1> USE DEF TypeOK
<1>0. \A y \in Instances : \A p \in Producers(y[1]) : <<y, p>> \in Readers
  BY Populace
<1>1. ASSUME NEW err, Return(x, err) PROVE Frame
  BY <1>1 DEF Return
<1>2. CASE Ends(x)
  BY <1>1, <1>2, EndsReturn
<1>3. CASE Birth(x)
  BY <1>3 DEF Birth
<1>4. CASE Prepare(x)
  <2>1. CASE Return(x, "fail") \/ Return(x, "ctx")
    BY <1>1, <2>1
  <2>2. CASE ~(Return(x, "fail") \/ Return(x, "ctx"))
    BY <1>0, <1>4, <2>2 DEF Prepare
  <2> QED
    BY <2>1, <2>2
<1>5. CASE Retry(x)
  BY <1>0, <1>5 DEF Retry
<1>6. CASE Close(x)
  BY <1>6 DEF Close
<1>7. CASE Generate(x)
  BY <1>7 DEF Generate
<1>8. CASE Send(x)
  BY <1>8 DEF Send
<1>9. CASE StartProbe(x)
  <2>1. CASE ierr[x] # "none"
    BY <1>1, <1>9, <2>1 DEF StartProbe
  <2>2. CASE ierr[x] = "none"
    BY <1>0, <1>9, <2>2 DEF StartProbe
  <2> QED
    BY <2>1, <2>2
<1>10. CASE ProbeRecord(x)
  BY <1>0, <1>10 DEF ProbeRecord, Pull
<1>11. CASE EmitUnmatched(x)
  BY <1>11 DEF EmitUnmatched
<1>12. ASSUME NEW p \in Producers(x[1]), Receive(x, p) PROVE Frame
  BY <1>0, <1>12 DEF Receive, Pull
<1>13. ASSUME NEW p \in Producers(x[1]), EndOfStream(x, p) \/ StopReading(x, p) PROVE Frame
  BY <1>0, <1>13 DEF EndOfStream, StopReading, EndRead
<1>14. ASSUME NEW p \in Producers(x[1]), Merge(x, p) PROVE Frame
  BY <1>0, <1>14 DEF Merge
<1>15. ASSUME NEW p \in Producers(x[1]), Build(x, p) PROVE Frame
  BY <1>0, <1>15 DEF Build
<1> QED
  BY <1>2, <1>3, <1>4, <1>5, <1>6, <1>7, <1>8, <1>9, <1>10, <1>11, <1>12, <1>13, <1>14, <1>15
     DEF InstanceStep, Ends

\* A step of a task leaves the streams, the other tasks and what runs alone.
LEMMA TaskFrame ==
  ASSUME TypeOK, PhaseInv, InstanceInv, NEW t \in Tasks, TaskStep(t)
  PROVE  /\ UNCHANGED <<expired, runDone, ierr, moduleVars, streamVars, attempt, panicked>>
         /\ \A u \in Tasks : u # t =>
              /\ phase'[u] = phase[u] /\ result'[u] = result[u] /\ spawned'[u] = spawned[u]
              /\ taskErr'[u] = taskErr[u]
         /\ \A x \in Instances : x[1] # t \/ ipc[x] # "idle" => ipc'[x] = ipc[x]
<1> DEFINE Frame ==
         /\ UNCHANGED <<expired, runDone, ierr, moduleVars, streamVars, attempt, panicked>>
         /\ \A u \in Tasks : u # t =>
              /\ phase'[u] = phase[u] /\ result'[u] = result[u] /\ spawned'[u] = spawned[u]
              /\ taskErr'[u] = taskErr[u]
         /\ \A x \in Instances : x[1] # t \/ ipc[x] # "idle" => ipc'[x] = ipc[x]
<1> USE DEF TypeOK
<1>1. ASSUME NEW r, Leave(t, r) PROVE Frame
  BY <1>1 DEF Leave
<1>2. CASE Start(t) \/ Refuse(t) \/ BreakLoop(t)
  BY <1>2 DEF Start, Refuse, BreakLoop
<1>3. CASE Skip(t) \/ EmptyLoop(t) \/ BadLoop(t) \/ EndTask(t)
  BY <1>1, <1>3 DEF Skip, EmptyLoop, BadLoop, EndTask
<1>4. ASSUME NEW i \in Nat, i > spawned[t], NEW s, ipc' = [ipc EXCEPT ![<<t, i>>] = s]
      PROVE  \A x \in Instances : x[1] # t \/ ipc[x] # "idle" => ipc'[x] = ipc[x]
  <2> SUFFICES ASSUME NEW x \in Instances, x[1] # t \/ ipc[x] # "idle" PROVE ipc'[x] = ipc[x]
    OBVIOUS
  <2>1. x # <<t, i>>
    BY <1>4 DEF InstanceInv, Started
  <2> QED
    BY <1>4, <2>1
<1>5. CASE Enter(t)
  <2>1. spawned[t] = 0
    BY <1>5 DEF Enter, PhaseInv
  <2>2. ipc' = ipc \/ ipc' = [ipc EXCEPT ![<<t, 1>>] = "setup"]
    BY <1>5 DEF Enter
  <2>3. \A x \in Instances : x[1] # t \/ ipc[x] # "idle" => ipc'[x] = ipc[x]
    <3>1. 1 \in Nat /\ 1 > spawned[t]
      BY <2>1
    <3>2. CASE ipc' = [ipc EXCEPT ![<<t, 1>>] = "setup"]
      BY <1>4, <3>1, <3>2
    <3> QED
      BY <2>2, <3>2
  <2> QED
    BY <1>5, <2>3 DEF Enter
<1>6. CASE Spawn(t)
  <2>1. spawned[t] + 1 \in Nat /\ spawned[t] + 1 > spawned[t]
    OBVIOUS
  <2> QED
    BY <1>4, <1>6, <2>1 DEF Spawn
<1> QED
  BY <1>2, <1>3, <1>5, <1>6 DEF TaskStep

\* An instance goes on within its task's "instances" phase.
LEMMA LiveInstance ==
  ASSUME PhaseInv, InstanceInv, NEW x \in Instances, ipc[x] \notin {"idle", "done", "dropped"}
  PROVE  phase[x[1]] \notin {"waiting", "begin", "ended"}
<1>1. x[1] \in Tasks /\ x[2] \in 1..Iterations[x[1]] /\ Iterations[x[1]] \in Nat
  BY Populace, Constants
<1>2. ~(x[2] > spawned[x[1]]) /\ phase[x[1]] # "ended"
  BY DEF InstanceInv, Started, Calm
<1>3. spawned[x[1]] # 0
  BY <1>1, <1>2
<1> QED
  BY <1>1, <1>2, <1>3 DEF PhaseInv
-----------------------------------------------------------------------------
(* Panics.                                                                 *)

\* A panic comes of an instance that uses a channel another one closed, and the
\* process takes no step after it.
LEMMA PanicStep ==
  ASSUME ChannelInv, [Next]_vars
  PROVE  PanicsOnlyInLoops'
<1> USE DEF ChannelInv, TypeOK
<1>1. ASSUME NEW x \in Instances, ipc[x] \in {"perform", "close"}, NEW l \in Links, l[1] = x[1], closed[l]
      PROVE  \E y \in Instances : x # y /\ x[1] = y[1] /\ Consumers(x[1]) # {} /\ ipc[y] = "done"
  <2>1. l[2] \in Consumers(x[1]) /\ l = <<x[1], l[2]>> /\ x[1] \in Tasks
    BY <1>1, Topology
  <2>2. \A c \in Consumers(x[1]) :
          closed[<<x[1], c>>] => \E y \in Instances : y[1] = x[1] /\ ipc[y] = "done"
    BY <2>1 DEF ClosedInv
  <2>3. closed[<<x[1], l[2]>>]
    BY <1>1, <2>1, Zenon
  <2>4. PICK y \in Instances : y[1] = x[1] /\ ipc[y] = "done"
    BY <2>1, <2>2, <2>3, Zenon
  <2>5. x # y
    BY <1>1, <2>4
  <2> QED
    BY <2>1, <2>4, <2>5
<1>2. CASE panicked
  <2>1. UNCHANGED vars
    BY <1>2 DEF Next, Finished
  <2> QED
    BY <2>1 DEF PanicsOnlyInLoops, vars
<1>3. ASSUME NEW x \in Instances, Send(x), panicked' PROVE panicked \/ PanicsOnlyInLoops'
  <2> DEFINE l == <<x[1], Head(todo[x])>>
  <2>1. l \in Links /\ l[1] = x[1] /\ ipc[x] = "perform" /\ ipc' = ipc
    BY <1>3, NextOutput DEF Send
  <2>2. CASE closed[l]
    <3>1. PICK y \in Instances : x # y /\ x[1] = y[1] /\ Consumers(x[1]) # {} /\ ipc[y] = "done"
      BY <1>1, <2>1, <2>2
    <3>2. ipc'[y] = "done" /\ ipc'[x] = "perform"
      BY <2>1, <3>1
    <3> QED
      BY <3>1, <3>2, Zenon DEF PanicsOnlyInLoops
  <2>3. CASE ~closed[l]
    <3>1. panicked' = panicked
      BY <1>3, <2>3 DEF Send
    <3> QED
      BY <1>3, <3>1, Zenon
  <2> QED
    BY <2>2, <2>3
<1>4. ASSUME NEW x \in Instances, Close(x), panicked' PROVE panicked \/ PanicsOnlyInLoops'
  <2>1. ipc[x] = "close" /\ ipc' = [ipc EXCEPT ![x] = "done"]
    BY <1>4 DEF Close
  <2>2. panicked \/ \E l \in Links : l[1] = x[1] /\ closed[l]
    BY <1>4 DEF Close
  <2>3. \A y \in Instances : ipc[y] = "done" => ipc'[y] = "done"
    BY <2>1
  <2>4. ipc'[x] = "done"
    BY <2>1
  <2> QED
    BY <1>1, <2>1, <2>2, <2>3, <2>4 DEF PanicsOnlyInLoops
<1>5. ASSUME NEW x \in Instances, InstanceStep(x), ~Send(x), ~Close(x) PROVE panicked' = panicked
  BY <1>5 DEF InstanceStep, Birth, Prepare, Return, Retry, Generate, Exhausted, GiveUp, Passed,
     Drained, StartProbe, ProbeRecord, EmitUnmatched, Joined, Receive, EndOfStream, StopReading,
     EndRead, Merge, Build
<1>6. ASSUME NEW t \in Tasks, TaskStep(t) PROVE panicked' = panicked
  BY <1>6, TaskFrame
<1>7. CASE ~panicked'
  BY <1>7 DEF PanicsOnlyInLoops
<1>8. CASE ~panicked /\ panicked'
  BY <1>3, <1>4, <1>5, <1>6, <1>8, SplitNext DEF CancelRun, Expire, vars
<1> QED
  BY <1>2, <1>7, <1>8
-----------------------------------------------------------------------------
(* Where tasks and instances are.                                          *)

\* A result is set once, as a task ends.
LEMMA PhaseStep ==
  ASSUME TypeOK, PhaseInv, InstanceInv, [Next]_vars
  PROVE  PhaseInv'
<1> USE DEF TypeOK, PhaseInv
<1>1. CASE UNCHANGED <<phase, result, spawned, taskErr>>
  BY <1>1
<1>2. ASSUME NEW t \in Tasks, TaskStep(t) PROVE PhaseInv'
  <2>1. ASSUME NEW u \in Tasks, u # t
        PROVE  /\ phase'[u] = phase[u] /\ result'[u] = result[u] /\ spawned'[u] = spawned[u]
               /\ taskErr'[u] = taskErr[u]
    BY <1>2, <2>1, TaskFrame
  <2>2. /\ phase'[t] = "ended" <=> result'[t] # "none"
        /\ phase'[t] \in {"waiting", "begin"} => spawned'[t] = 0 /\ taskErr'[t] = "none"
        /\ result'[t] = "ok" => taskErr'[t] = "none"
    <3>1. CASE Start(t) \/ Refuse(t) \/ BreakLoop(t)
      BY <1>2, <3>1 DEF Start, Refuse, BreakLoop, Looping
    <3>2. CASE Skip(t) \/ EmptyLoop(t) \/ BadLoop(t)
      BY <1>2, <3>2 DEF Skip, EmptyLoop, BadLoop, Leave
    <3>3. CASE Enter(t) \/ Spawn(t)
      BY <1>2, <3>3 DEF Enter, Spawn, Looping
    <3>4. CASE EndTask(t)
      BY <1>2, <3>4 DEF EndTask, Leave, Errors
    <3> QED
      BY <1>2, <3>1, <3>2, <3>3, <3>4 DEF TaskStep
  <2> QED
    BY <2>1, <2>2, ZenonT(60)
<1>3. ASSUME NEW x \in Instances, Close(x) PROVE PhaseInv'
  <2>1. x[1] \in Tasks /\ phase[x[1]] \notin {"waiting", "begin", "ended"}
    BY <1>3, Populace, LiveInstance DEF Close
  <2> QED
    BY <1>3, <2>1 DEF Close
<1>4. ASSUME NEW x \in Instances, InstanceStep(x), ~Close(x)
      PROVE  UNCHANGED <<phase, result, spawned, taskErr>>
  BY <1>4 DEF InstanceStep, Birth, Prepare, Return, Retry, Generate, Exhausted, GiveUp, Passed, Send,
     Drained, StartProbe, ProbeRecord, EmitUnmatched, Joined, Receive, EndOfStream, StopReading,
     EndRead, Merge, Build
<1> QED
  BY <1>1, <1>2, <1>3, <1>4, SplitNext DEF CancelRun, Expire, vars

\* What is left to serve stays a list of consumers without repetition.
LEMMA TodoStep ==
  ASSUME TypeOK, PhaseInv, InstanceInv, TodoInv, [Next]_vars
  PROVE  TodoInv'
<1> DEFINE Fine(s, x) == /\ s \in Seq(Consumers(x[1]))
                         /\ \A i, j \in 1..Len(s) : s[i] = s[j] => i = j
<1>0. \A x \in Instances : Fine(todo[x], x) /\ Fine(Outputs[x[1]], x) /\ Fine(<<>>, x)
  BY AllOutputs, Populace, SMTT(60) DEF TodoInv
<1>1. CASE UNCHANGED todo
  BY <1>1 DEF TodoInv
<1>2. ASSUME NEW x \in Instances, Send(x), ~(UNCHANGED todo) PROVE TodoInv'
  <2>1. todo' = [todo EXCEPT ![x] = Tail(todo[x])] /\ todo[x] # <<>>
    BY <1>2 DEF Send
  <2>2. Fine(Tail(todo[x]), x)
    <3> DEFINE s == todo[x]
    <3>1. s \in Seq(Consumers(x[1])) /\ s # <<>> /\ \A i, j \in 1..Len(s) : s[i] = s[j] => i = j
      BY <1>0, <2>1
    <3>2. /\ Tail(s) \in Seq(Consumers(x[1])) /\ Len(s) \in Nat /\ Len(Tail(s)) = Len(s) - 1
          /\ \A i \in 1..Len(s) - 1 : i + 1 \in 1..Len(s) /\ Tail(s)[i] = s[i + 1]
      BY <3>1, HeadTail
    <3> HIDE DEF s
    <3>3. ASSUME NEW i \in 1..Len(Tail(s)), NEW j \in 1..Len(Tail(s)), Tail(s)[i] = Tail(s)[j]
          PROVE  i = j
      <4>1. i + 1 = j + 1
        BY <3>1, <3>2, <3>3
      <4> QED
        BY <4>1
    <3> QED
      BY <3>2, <3>3 DEF s
  <2> QED
    BY <1>0, <2>1, <2>2, ZenonT(60) DEF TodoInv, TypeOK
<1>3. ASSUME NEW x \in Instances, todo' = [todo EXCEPT ![x] = Outputs[x[1]]] PROVE TodoInv'
  BY <1>0, <1>3 DEF TodoInv, TypeOK
<1>4. ASSUME NEW x \in Instances, todo' = [todo EXCEPT ![x] = <<>>] PROVE TodoInv'
  <2>1. ASSUME NEW y \in Instances PROVE todo'[y] = todo[y] \/ todo'[y] = <<>>
    BY <1>4 DEF TypeOK
  <2> QED
    BY <1>0, <2>1 DEF TodoInv
<1>5. ASSUME NEW x \in Instances, InstanceStep(x), ~Send(x)
      PROVE  \/ UNCHANGED todo
             \/ todo' = [todo EXCEPT ![x] = Outputs[x[1]]] \/ todo' = [todo EXCEPT ![x] = <<>>]
  BY <1>5 DEF InstanceStep, Birth, Prepare, Return, Retry, Close, Generate, Exhausted, GiveUp, Passed,
     Drained, StartProbe, ProbeRecord, EmitUnmatched, Joined, Receive, EndOfStream, StopReading,
     EndRead, Merge, Build
<1>6. ASSUME NEW t \in Tasks, TaskStep(t) PROVE UNCHANGED todo
  BY <1>6, TaskFrame
<1> QED
  BY <1>1, <1>2, <1>3, <1>4, <1>5, <1>6, SplitNext DEF CancelRun, Expire, vars

\* A channel that is closed has a producer that is done.
LEMMA ClosedStep ==
  ASSUME TypeOK, PhaseInv, InstanceInv, ClosedInv, [Next]_vars
  PROVE  ClosedInv'
<1> USE DEF TypeOK
<1>1. ASSUME NEW x \in Instances, ipc[x] = "done" PROVE ipc'[x] = "done"
  <2>1. ASSUME NEW y \in Instances, InstanceStep(y) PROVE ipc'[x] = ipc[x]
    <3>1. CASE y = x
      BY <1>1, <2>1, <3>1 DEF InstanceStep, Birth, Prepare, Return, Retry, Close, Generate, Exhausted,
         GiveUp, Passed, Send, Drained, StartProbe, ProbeRecord, EmitUnmatched, Joined, Receive,
         EndOfStream, StopReading, EndRead, Merge, Build, At
    <3> QED
      BY <2>1, <3>1, InstanceFrame
  <2>2. ASSUME NEW t \in Tasks, TaskStep(t) PROVE ipc'[x] = ipc[x]
    BY <1>1, <2>2, TaskFrame
  <2> QED
    BY <1>1, <2>1, <2>2, SplitNext DEF CancelRun, Expire, vars
<1>2. CASE UNCHANGED closed
  BY <1>1, <1>2 DEF ClosedInv
<1>3. ASSUME NEW x \in Instances, Close(x) PROVE ClosedInv'
  <2> SUFFICES ASSUME NEW p \in Tasks, NEW c \in Consumers(p), closed'[<<p, c>>]
               PROVE  \E y \in Instances : y[1] = p /\ ipc'[y] = "done"
    BY DEF ClosedInv
  <2>1. <<p, c>> \in Links
    BY Topology
  <2>2. closed[<<p, c>>] \/ p = x[1]
    BY <1>3, <2>1 DEF Close
  <2>3. CASE p = x[1]
    BY <1>3, <2>3 DEF Close
  <2> QED
    BY <1>1, <2>2, <2>3 DEF ClosedInv
<1>4. ASSUME NEW x \in Instances, InstanceStep(x), ~Close(x) PROVE UNCHANGED closed
  BY <1>4 DEF InstanceStep, Birth, Prepare, Return, Retry, Generate, Exhausted, GiveUp, Passed, Send,
     Drained, StartProbe, ProbeRecord, EmitUnmatched, Joined, Receive, EndOfStream, StopReading,
     EndRead, Merge, Build, Pull
<1>5. ASSUME NEW t \in Tasks, TaskStep(t) PROVE UNCHANGED closed
  BY <1>5, TaskFrame
<1> QED
  BY <1>2, <1>3, <1>4, <1>5, SplitNext DEF CancelRun, Expire, vars

\* A task tells its producers once, as it ends; one that is refused never does.
LEMMA WgStep ==
  ASSUME TypeOK, PhaseInv, InstanceInv, WgInv, [Next]_vars
  PROVE  WgInv'
<1> USE DEF TypeOK
<1> DEFINE S(p) == {c \in Consumers(p) : phase[c] # "ended"}
           T(p) == {c \in Consumers(p) : phase'[c] # "ended"}
<1>0. \A p \in Tasks : /\ S(p) \in SUBSET Tasks /\ T(p) \in SUBSET Tasks
                       /\ IsFiniteSet(S(p)) /\ Cardinality(S(p)) \in Nat
                       /\ IsFiniteSet(T(p)) /\ Cardinality(T(p)) \in Nat
  BY Topology, FiniteTasks
<1>1. ASSUME NEW t \in Tasks, NEW r, Leave(t, r), phase[t] # "ended" PROVE WgInv'
  <2> SUFFICES ASSUME NEW p \in Tasks PROVE wg'[p] >= Cardinality(T(p))
    BY DEF WgInv
  <2>1. wg[p] \in Nat /\ wg[p] >= Cardinality(S(p))
    BY DEF WgInv
  <2>2. T(p) = S(p) \ {t}
    BY <1>1, Topology DEF Leave
  <2>3. CASE t \in Consumers(p)
    <3>1. wg'[p] = wg[p] - 1
      BY <1>1, <2>3, Topology DEF Leave
    <3>2. t \in S(p) /\ IsFiniteSet(S(p)) /\ Cardinality(S(p)) \in Nat
      BY <1>0, <1>1, <2>3
    <3> HIDE DEF S, T
    <3>3. Cardinality(T(p)) = Cardinality(S(p)) - 1
      BY <2>2, <3>2, FS_RemoveElement
    <3> QED
      BY <2>1, <3>1, <3>2, <3>3
  <2>4. CASE t \notin Consumers(p)
    <3>1. wg'[p] = wg[p] /\ T(p) = S(p)
      BY <1>1, <2>2, <2>4, Topology, ZenonT(60) DEF Leave
    <3> QED
      BY <2>1, <3>1
  <2> QED
    BY <2>3, <2>4
<1>2. CASE wg' = wg /\ \A t \in Tasks : phase[t] = "ended" => phase'[t] = "ended"
  <2> SUFFICES ASSUME NEW p \in Tasks PROVE wg'[p] >= Cardinality(T(p))
    BY DEF WgInv
  <2>1. T(p) \subseteq S(p)
    BY <1>0, <1>2
  <2>2. Cardinality(T(p)) <= Cardinality(S(p))
    BY <1>0, <2>1, FS_Subset
  <2>3. Cardinality(T(p)) \in Nat /\ Cardinality(S(p)) \in Nat
    BY <1>0
  <2>4. wg'[p] = wg[p] /\ wg[p] \in Nat /\ wg[p] >= Cardinality(S(p))
    BY <1>2 DEF WgInv
  <2> HIDE DEF S, T
  <2> QED
    BY <2>2, <2>3, <2>4
<1>3. ASSUME NEW t \in Tasks, TaskStep(t)
      PROVE  \/ \E r \in {"ok", "skip", "fail", "ctx"} : Leave(t, r) /\ phase[t] # "ended"
             \/ wg' = wg /\ \A u \in Tasks : phase[u] = "ended" => phase'[u] = "ended"
  BY <1>3 DEF TaskStep, Start, Refuse, Skip, EmptyLoop, BadLoop, Enter, Spawn, BreakLoop, EndTask,
     Looping, Errors
<1>4. ASSUME NEW x \in Instances, InstanceStep(x) PROVE UNCHANGED <<wg, phase>>
  BY <1>4, InstanceFrame
<1> QED
  BY <1>1, <1>2, <1>3, <1>4, SplitNext DEF CancelRun, Expire, vars
\* An instance that is done and reported success takes no further step but its
\* readers', which have ended.
LEMMA DoneKept ==
  ASSUME TypeOK, InstanceInv, NEW x \in Instances, InstanceStep(x), ~Close(x)
  PROVE  taskErr' = taskErr /\ (ipc[x] = "done" /\ ierr[x] = "none" => ierr'[x] = "none")
<1>1. taskErr' = taskErr
  BY DEF InstanceStep, Birth, Prepare, Return, Retry, Generate, Exhausted, GiveUp, Passed,
     Send, Drained, StartProbe, ProbeRecord, EmitUnmatched, Joined, Receive, EndOfStream,
     StopReading, EndRead, Merge, Build
<1>2. ASSUME ipc[x] = "done", ierr[x] = "none" PROVE ierr' = ierr
  <2>1. \A p \in Producers(x[1]) : reader[<<x, p>>] = "done"
    BY <1>2 DEF InstanceInv, Complete, Over, AllRead
  <2>2. \A p \in Producers(x[1]) : ~Build(x, p)
    BY <2>1 DEF Build
  <2> QED
    BY <1>2, <2>2 DEF InstanceStep, Birth, Prepare, Return, Retry, Generate, Exhausted, GiveUp, Passed,
       Send, Drained, StartProbe, ProbeRecord, EmitUnmatched, Joined, Receive, EndOfStream,
       StopReading, EndRead, Merge, At, Close
<1> QED
  BY <1>1, <1>2

\* A step of an instance keeps what is known of that instance.
LEMMA OwnStep ==
  ASSUME TypeOK, InstanceInv, NEW x \in Instances, InstanceStep(x)
  PROVE  Clean(x)' /\ Complete(x)' /\ Known(x)'
<1> USE DEF TypeOK
<1> DEFINE Own == Clean(x)' /\ Complete(x)' /\ Known(x)'
<1>0. /\ Clean(x) /\ Complete(x) /\ Known(x)
      /\ x[1] \in Tasks /\ \A p \in Producers(x[1]) : <<x, p>> \in Readers
  BY Populace DEF InstanceInv
<1>1. ASSUME NEW err \in Errors, Return(x, err),
             err = "none" => todo[x] = <<>> /\ AllRead(x),
             err = "fail" /\ attempt[x] # 0 => Kind[x[1]] \in {"join", "sink"}
      PROVE  Own
  <2>1. /\ ipc'[x] = "close" /\ ierr'[x] = err
        /\ UNCHANGED <<todo, reader, attempt>>
    BY <1>1 DEF Return
  <2> QED
    BY <1>0, <1>1, <2>1 DEF Clean, Complete, Known, Fresh, Over, AllRead
<1>2. ASSUME ipc'[x] \notin Fresh \cup Over, ierr'[x] \in {"none", ierr[x]}, attempt'[x] # 0 => attempt[x] # 0 \/ ierr'[x] = "none",
             Kind[x[1]] = "sink" => todo'[x] = todo[x]
      PROVE  Own
  BY <1>0, <1>2 DEF Clean, Complete, Known
<1>3. CASE Birth(x)
  BY <1>0, <1>3 DEF Birth, Clean, Complete, Known, Fresh, Over, AllRead
<1>4. CASE Prepare(x)
  <2>1. attempt[x] = 0 /\ ierr[x] = "none"
    BY <1>0, <1>4 DEF Prepare, Clean, Fresh
  <2>2. CASE Return(x, "fail") \/ Return(x, "ctx")
    BY <1>1, <2>1, <2>2 DEF Errors
  <2>3. CASE ~(Return(x, "fail") \/ Return(x, "ctx"))
    <3>1. ipc'[x] = "perform" /\ UNCHANGED <<ierr, todo>>
      BY <1>4, <2>3 DEF Prepare
    <3> QED
      BY <1>2, <2>1, <3>1 DEF Fresh, Over
  <2> QED
    BY <2>2, <2>3
<1>5. CASE Retry(x)
  BY <1>2, <1>5 DEF Retry, Fresh, Over
<1>6. CASE Close(x)
  <2>1. ipc'[x] = "done" /\ ipc[x] = "close" /\ UNCHANGED <<ierr, todo, reader, attempt>>
    BY <1>6 DEF Close
  <2> QED
    BY <1>0, <2>1 DEF Clean, Complete, Known, Fresh, Over, AllRead
<1>7. CASE Exhausted(x)
  <2>1. todo[x] = <<>> /\ AllRead(x) /\ Return(x, "none")
    BY <1>0, <1>7, Constants DEF Exhausted, At, AllRead
  <2> QED
    BY <1>1, <2>1 DEF Errors
<1>8. CASE GiveUp(x)
  BY <1>1, <1>8 DEF GiveUp, Errors
<1>9. CASE Passed(x) \/ Joined(x)
  BY <1>1, <1>9, Zenon DEF Passed, Joined, Errors
<1>10. CASE Drained(x)
  <2>1. todo[x] = <<>> /\ AllRead(x) /\ Kind[x[1]] = "sink" /\ \E err \in Errors : Return(x, err)
    BY <1>0, <1>10, ZenonT(60) DEF Drained, At, Known, Errors
  <2> QED
    BY <1>1, <2>1
<1>11. CASE Generate(x) \/ EmitUnmatched(x)
  BY <1>2, <1>11 DEF Generate, EmitUnmatched, At, Fresh, Over
<1>12. CASE Send(x)
  <2>1. Kind[x[1]] # "sink"
    BY <1>0, <1>12 DEF Known, Send
  <2> QED
    BY <1>2, <1>12, <2>1 DEF Send, Fresh, Over
<1>13. CASE StartProbe(x)
  <2>1. CASE ierr[x] # "none"
    BY <1>1, <1>13, <2>1 DEF StartProbe, At
  <2>2. CASE ierr[x] = "none"
    BY <1>2, <1>13, <2>2 DEF StartProbe, At, Fresh, Over
  <2> QED
    BY <2>1, <2>2
<1>14. CASE ProbeRecord(x)
  <2>1. ipc[x] = "perform" /\ Kind[x[1]] = "join" /\ attempt' = attempt
    BY <1>14 DEF ProbeRecord, At
  <2>2. CASE CtxDone(x[1])
    <3>1. ipc'[x] = "close" /\ ierr'[x] = "ctx"
      BY <1>14, <2>2 DEF ProbeRecord
    <3> QED
      BY <2>1, <3>1 DEF Clean, Complete, Known, Fresh, Over
  <2>3. CASE ~CtxDone(x[1])
    <3>1. UNCHANGED <<ipc, ierr>>
      BY <1>14, <2>3 DEF ProbeRecord
    <3> QED
      BY <1>2, <2>1, <3>1 DEF Fresh, Over
  <2> QED
    BY <2>2, <2>3
<1>15. ASSUME NEW p \in Producers(x[1]), Merge(x, p) PROVE Own
  BY <1>2, <1>15 DEF Merge, At, Fresh, Over
<1>16. ASSUME NEW p \in Producers(x[1]), reader[<<x, p>>] \in {"read", "hold"},
              UNCHANGED <<ipc, sent, todo, attempt>>,
              ierr' = ierr \/ (Kind[x[1]] = "join" /\ ierr'[x] = "fail")
       PROVE  Own
  <2>1. ipc[x] \notin Fresh /\ ~(ipc[x] \in Over /\ ierr[x] = "none")
    BY <1>0, <1>16 DEF Clean, Complete, AllRead
  <2> QED
    BY <1>0, <1>16, <2>1 DEF Clean, Complete, Known
<1>17. ASSUME NEW p \in Producers(x[1]), Receive(x, p) PROVE Own
  <2>1. /\ reader[<<x, p>>] \in {"read", "hold"} /\ ierr' = ierr
        /\ UNCHANGED <<ipc, sent, todo, attempt>>
    BY <1>17 DEF Receive, Pull
  <2> QED
    BY <1>16, <2>1
<1>18. ASSUME NEW p \in Producers(x[1]), EndOfStream(x, p) \/ StopReading(x, p) PROVE Own
  <2>1. /\ reader[<<x, p>>] \in {"read", "hold"} /\ ierr' = ierr
        /\ UNCHANGED <<ipc, sent, todo, attempt>>
    BY <1>18 DEF EndOfStream, StopReading, EndRead
  <2> QED
    BY <1>16, <2>1
<1>19. ASSUME NEW p \in Producers(x[1]), Build(x, p) PROVE Own
  <2>1. /\ reader[<<x, p>>] \in {"read", "hold"} /\ UNCHANGED <<ipc, sent, todo, attempt>>
        /\ ierr' = ierr \/ (Kind[x[1]] = "join" /\ ierr'[x] = "fail")
    BY <1>19 DEF Build, Building
  <2> QED
    BY <1>16, <2>1
<1> QED
  BY <1>3, <1>4, <1>5, <1>6, <1>7, <1>8, <1>9, <1>10, <1>11, <1>12, <1>13, <1>14, <1>15, <1>17, <1>18, <1>19
     DEF InstanceStep

\* Where an instance is, and what it has done so far.
LEMMA InstanceInvStep ==
  ASSUME TypeOK, PhaseInv, InstanceInv, [Next]_vars
  PROVE  InstanceInv'
<1> USE DEF TypeOK
<1> DEFINE Own(y) == Clean(y) /\ Complete(y) /\ Known(y)
<1>0. \A y \in Instances : Started(y) /\ Calm(y) /\ Own(y) /\ Noted(y)
  BY DEF InstanceInv
<1>1. CASE UNCHANGED <<phase, spawned, taskErr, ipc, ierr, moduleVars, attempt>>
  BY <1>1 DEF InstanceInv, Started, Calm, Clean, Complete, Known, Noted, AllRead
<1>2. ASSUME NEW t \in Tasks, TaskStep(t) PROVE InstanceInv'
  <2> SUFFICES ASSUME NEW y \in Instances
               PROVE  Started(y)' /\ Calm(y)' /\ Own(y)' /\ Noted(y)'
    BY DEF InstanceInv
  <2>1. /\ UNCHANGED <<ierr, moduleVars, attempt>>
        /\ y[1] # t \/ ipc[y] # "idle" => ipc'[y] = ipc[y]
        /\ y[1] # t => /\ phase'[y[1]] = phase[y[1]] /\ spawned'[y[1]] = spawned[y[1]]
                       /\ taskErr'[y[1]] = taskErr[y[1]]
    <3>1. y[1] \in Tasks
      BY Populace
    <3> HIDE DEF TypeOK
    <3> QED
      BY <1>2, <3>1, TaskFrame
  <2>2. y[1] \in Tasks /\ y[2] \in Nat \ {0} /\ y = <<y[1], y[2]>>
    <3>1. y[1] \in Tasks /\ y[2] \in 1..Iterations[y[1]] /\ y = <<y[1], y[2]>>
      BY Populace
    <3>2. Iterations[y[1]] \in Nat
      BY <3>1, Constants
    <3> QED
      BY <3>1, <3>2
  <2>3. CASE y[1] # t
    <3>1. Started(y)' /\ Calm(y)'
      BY <1>0, <2>1, <2>3 DEF Started, Calm
    <3>2. Own(y)' /\ Noted(y)'
      BY <1>0, <2>1, <2>3 DEF Clean, Complete, Known, Noted, AllRead
    <3> QED
      BY <3>1, <3>2
  <2>4. CASE y[1] = t
    <3>1. ipc'[y] = ipc[y] \/ (ipc[y] = "idle" /\ ipc'[y] \in {"born", "setup"})
      <4>1. CASE Enter(t)
        <5>1. ipc'[y] = ipc[y] \/ ipc'[y] = "setup"
          BY <4>1 DEF Enter
        <5> QED
          BY <2>1, <5>1, Zenon
      <4>2. CASE Spawn(t)
        <5>1. ipc'[y] = ipc[y] \/ ipc'[y] = "born"
          BY <4>2 DEF Spawn
        <5> QED
          BY <2>1, <5>1, Zenon
      <4>3. CASE ~Enter(t) /\ ~Spawn(t)
        BY <1>2, <4>3 DEF TaskStep, Start, Refuse, Skip, EmptyLoop, BadLoop, Leave, BreakLoop, EndTask
      <4> QED
        BY <4>1, <4>2, <4>3
    <3>2. Own(y)'
      BY <1>0, <2>1, <3>1 DEF Clean, Complete, Known, AllRead, Fresh, Over
    <3>3. Noted(y)'
      <4>1. taskErr'[t] = "none" => taskErr[t] = "none"
        BY <1>2 DEF TaskStep, Start, Refuse, Skip, EmptyLoop, BadLoop, Leave, Enter, Spawn,
           BreakLoop, EndTask
      <4> QED
        BY <1>0, <2>1, <2>4, <3>1, <4>1 DEF Noted
    <3>4. Started(y)' /\ Calm(y)'
      <4>1. CASE Start(t) \/ BreakLoop(t)
        <5>1. UNCHANGED <<ipc, spawned>> /\ phase'[t] # "ended"
          BY <4>1 DEF Start, BreakLoop, Looping
        <5> QED
          BY <1>0, <2>4, <5>1 DEF Started, Calm
      <4>2. CASE Refuse(t) \/ Skip(t) \/ EmptyLoop(t) \/ BadLoop(t)
        <5>1. spawned[t] = 0 /\ spawned' = spawned /\ ipc' = ipc
          BY <4>2 DEF PhaseInv, Refuse, Skip, EmptyLoop, BadLoop, Leave
        <5> QED
          BY <1>0, <2>2, <2>4, <5>1 DEF Started, Calm
      <4>3. CASE EndTask(t)
        BY <1>0, <2>4, <4>3 DEF EndTask, Leave, Live, Started, Calm
      <4>4. CASE Enter(t) /\ t \in Loops
        BY <1>0, <2>4, <4>4 DEF Enter, Started, Calm
      <4>5. CASE Enter(t) /\ t \notin Loops
        <5>1. y = <<t, 1>> /\ y[2] = 1
          <6>1. Iterations[t] = 1 /\ y[2] \in 1..Iterations[t]
            BY <2>4, <4>5, Constants, Populace
          <6> QED
            BY <2>2, <2>4, <6>1
        <5>2. ipc'[y] = "setup" /\ spawned'[t] = 1 /\ phase'[t] = "instances"
          BY <4>5, <5>1 DEF Enter
        <5> QED
          BY <2>4, <5>1, <5>2 DEF Started, Calm
      <4>6. CASE Spawn(t)
        <5>1. /\ spawned' = [spawned EXCEPT ![t] = spawned[t] + 1] /\ phase' = phase
              /\ ipc' = [ipc EXCEPT ![<<t, spawned[t] + 1>>] = "born"] /\ phase[t] # "ended"
          BY <4>6 DEF Spawn, Looping
        <5>2. CASE y[2] = spawned[t] + 1
          BY <2>2, <2>4, <5>1, <5>2 DEF Started, Calm
        <5>3. CASE y[2] # spawned[t] + 1
          <6>1. ipc'[y] = ipc[y] /\ spawned'[t] = spawned[t] + 1
            BY <2>2, <2>4, <5>1, <5>3
          <6>2. y[2] > spawned[t] + 1 <=> y[2] > spawned[t]
            BY <2>2, <5>3
          <6> QED
            BY <1>0, <2>4, <5>1, <6>1, <6>2 DEF Started, Calm
        <5> QED
          BY <5>2, <5>3
      <4> QED
        BY <1>2, <4>1, <4>2, <4>3, <4>4, <4>5, <4>6 DEF TaskStep
    <3> QED
      BY <3>2, <3>3, <3>4
  <2> QED
    BY <2>3, <2>4
<1>3. ASSUME NEW x \in Instances, InstanceStep(x) PROVE InstanceInv'
  <2>1. /\ UNCHANGED <<phase, spawned>>
        /\ \A y \in Instances : y # x =>
              /\ ipc'[y] = ipc[y] /\ ierr'[y] = ierr[y] /\ sent'[y] = sent[y]
              /\ todo'[y] = todo[y] /\ attempt'[y] = attempt[y]
              /\ \A p \in Producers(y[1]) : reader'[<<y, p>>] = reader[<<y, p>>]
    BY <1>3, InstanceFrame
  <2>2. ASSUME NEW y \in Instances, y # x PROVE Started(y)' /\ Calm(y)' /\ Own(y)'
    <3>1. Started(y)' /\ Calm(y)'
      BY <1>0, <2>1, <2>2 DEF Started, Calm
    <3>2. /\ ipc'[y] = ipc[y] /\ ierr'[y] = ierr[y] /\ sent'[y] = sent[y]
          /\ todo'[y] = todo[y] /\ attempt'[y] = attempt[y]
          /\ \A p \in Producers(y[1]) : reader'[<<y, p>>] = reader[<<y, p>>]
      BY <2>1, <2>2
    <3>3. Own(y)'
      BY <1>0, <3>2, ZenonT(60) DEF Clean, Complete, Known, AllRead
    <3> QED
      BY <3>1, <3>3
  <2>3. /\ ipc'[x] = ipc[x] \/ (ipc[x] \notin {"idle", "done", "dropped"} /\ ipc'[x] # "idle")
        /\ ipc'[x] = "done" => ipc[x] = "done" \/ Close(x)
    BY <1>3, ZenonT(60) DEF InstanceStep, Birth, Prepare, Return, Retry, Close, Generate, Exhausted, GiveUp, Passed,
       Send, Drained, StartProbe, ProbeRecord, EmitUnmatched, Joined, Receive, EndOfStream,
       StopReading, EndRead, Merge, Build, At
  <2>4. Started(x)' /\ Calm(x)'
    BY <1>0, <2>1, <2>3 DEF Started, Calm
  <2>5. Own(x)'
    BY <1>3, OwnStep
  <2>6. CASE Close(x)
    <3>1. /\ taskErr' = [taskErr EXCEPT ![x[1]] = IF @ = "none" THEN ierr[x] ELSE @]
          /\ ierr' = ierr /\ ipc' = [ipc EXCEPT ![x] = "done"] /\ x[1] \in Tasks
      BY <2>6, Populace DEF Close
    <3>2. ASSUME NEW y \in Instances PROVE Noted(y)'
      BY <1>0, <3>1 DEF Noted
    <3> QED
      BY <2>2, <2>4, <2>5, <3>2 DEF InstanceInv
  <2>7. CASE ~Close(x)
    <3>1. taskErr' = taskErr /\ (ipc[x] = "done" /\ ierr[x] = "none" => ierr'[x] = "none")
      BY <1>3, <2>7, DoneKept
    <3>2. ASSUME NEW y \in Instances PROVE Noted(y)'
      BY <1>0, <2>1, <2>3, <2>7, <3>1 DEF Noted
    <3> QED
      BY <2>2, <2>4, <2>5, <3>2 DEF InstanceInv
  <2> QED
    BY <2>6, <2>7
<1> QED
  BY <1>1, <1>2, <1>3, SplitNext DEF CancelRun, Expire, vars
-----------------------------------------------------------------------------
(* The invariant of the channels.                                          *)

\* Every step keeps the invariant of the channels.
LEMMA ChannelStep ==
  ASSUME ChannelInv, [Next]_vars
  PROVE  ChannelInv'
<1>1. TypeOK /\ PhaseInv /\ InstanceInv /\ TodoInv /\ ClosedInv /\ WgInv
  BY DEF ChannelInv
<1>2. PanicsOnlyInLoops'
  BY PanicStep
<1>3. TypeOK'
  <2>1. CASE UNCHANGED vars
    BY <1>1, <2>1 DEF TypeOK, vars
  <2>2. CASE CancelRun
    BY <1>1, <2>2 DEF TypeOK, CancelRun
  <2>3. ASSUME NEW t \in Tasks, Expire(t) PROVE TypeOK'
    BY <1>1, <2>3 DEF TypeOK, Expire
  <2>4. ASSUME NEW t \in Tasks, TaskStep(t) PROVE TypeOK'
    BY <1>1, <2>4, TaskTypeStep
  <2>5. ASSUME NEW x \in Instances, InstanceStep(x) PROVE TypeOK'
    BY <1>1, <2>5, InstanceTypeStep
  <2> QED
    BY <2>1, <2>2, <2>3, <2>4, <2>5, SplitNext
<1> QED
  BY <1>1, <1>2, <1>3, PhaseStep, InstanceInvStep, TodoStep, ClosedStep, WgStep DEF ChannelInv

\* Nothing has been started, sent or closed at first.
LEMMA ChannelInit == Init => ChannelInv
<1> SUFFICES ASSUME Init PROVE ChannelInv
  OBVIOUS
<1> USE DEF Init
<1>1. \A p \in Tasks : Consumers(p) \subseteq Tasks /\ Cardinality(Consumers(p)) \in Nat
  BY Topology, FiniteTasks
<1>2. TypeOK
  <2>1. BufferSize \in Nat /\ 0 \in 0..BufferSize
    BY Constants
  <2>2. <<>> \in Seq(Tasks)
    OBVIOUS
  <2>3. wg \in [Tasks -> Nat]
    BY <1>1
  <2> QED
    BY <2>1, <2>2, <2>3 DEF TypeOK, Errors
<1>3. PhaseInv
  BY DEF PhaseInv
<1>4. InstanceInv
  <2> SUFFICES ASSUME NEW x \in Instances
               PROVE Started(x) /\ Calm(x) /\ Clean(x) /\ Complete(x) /\ Known(x) /\ Noted(x)
    BY DEF InstanceInv
  <2>1. x[1] \in Tasks /\ x[2] \in 1..Iterations[x[1]] /\ Iterations[x[1]] \in Nat
    BY Populace, Constants
  <2>2. Started(x) /\ Calm(x)
    BY <2>1 DEF Started, Calm
  <2>3. Clean(x)
    BY Populace DEF Clean
  <2>4. Complete(x) /\ Known(x) /\ Noted(x)
    BY DEF Complete, Known, Noted, Over
  <2> QED
    BY <2>2, <2>3, <2>4
<1>5. TodoInv
  BY DEF TodoInv
<1>6. ClosedInv
  BY Topology DEF ClosedInv
<1>7. WgInv
  <2> DEFINE S(p) == {c \in Consumers(p) : phase[c] # "ended"}
  <2> SUFFICES ASSUME NEW p \in Tasks PROVE wg[p] >= Cardinality(S(p))
    BY DEF WgInv
  <2>1. S(p) = Consumers(p)
    BY <1>1
  <2>2. wg[p] = Cardinality(Consumers(p)) /\ Cardinality(Consumers(p)) \in Nat
    BY <1>1
  <2> HIDE DEF S
  <2> QED
    BY <2>1, <2>2
<1> QED
  BY <1>2, <1>3, <1>4, <1>5, <1>6, <1>7 DEF ChannelInv, PanicsOnlyInLoops

\* Who may use a channel is known in every reachable state.
LEMMA ChannelInvariant == Spec => []ChannelInv
<1>1. ChannelInv /\ [Next]_vars => ChannelInv'
  BY ChannelStep
<1> QED
  BY <1>1, ChannelInit, PTL DEF Spec

\* The types hold, and no WaitGroup counter goes below zero (channel_manager.go:
\* a sync.WaitGroup with a negative counter panics), in every playbook.
THEOREM TypesKept == Spec => []TypeOK
<1>1. ChannelInv => TypeOK
  BY DEF ChannelInv
<1> QED
  BY <1>1, ChannelInvariant, PTL

\* In every playbook, a send on a closed channel or a second close takes two
\* iterations of one task that feeds a stream, one of which has ended: no skip,
\* retry, timeout or cancellation brings it about.
THEOREM PanicExplained == Spec => []PanicsOnlyInLoops
<1>1. ChannelInv => PanicsOnlyInLoops
  BY DEF ChannelInv
<1> QED
  BY <1>1, ChannelInvariant, PTL
-----------------------------------------------------------------------------
(* What a step does to one instance and to one channel.                    *)

\* A context that is done stays done.
LEMMA CtxKept ==
  ASSUME TypeOK, PhaseInv, InstanceInv, [Next]_vars, NEW t \in Tasks, CtxDone(t)
  PROVE  CtxDone(t)'
<1>1. runDone => runDone'
  <2>1. ASSUME NEW u \in Tasks, TaskStep(u) PROVE runDone' = runDone
    BY <2>1, TaskFrame
  <2>2. ASSUME NEW x \in Instances, InstanceStep(x) PROVE runDone' = runDone
    BY <2>2, InstanceFrame
  <2> QED
    BY <2>1, <2>2, SplitNext DEF CancelRun, Expire, vars
<1>2. expired[t] => expired'[t]
  <2>1. ASSUME NEW u \in Tasks, TaskStep(u) PROVE expired' = expired
    BY <2>1, TaskFrame
  <2>2. ASSUME NEW x \in Instances, InstanceStep(x) PROVE expired' = expired
    BY <2>2, InstanceFrame
  <2>3. ASSUME NEW u \in Tasks, Expire(u) PROVE expired[t] => expired'[t]
    BY <2>3 DEF Expire, TypeOK
  <2> QED
    BY <2>1, <2>2, <2>3, SplitNext DEF CancelRun, vars
<1> QED
  BY <1>1, <1>2 DEF CtxDone

\* What an instance that takes no step may see of a step: it may be started.
Unmoved(x) ==
  /\ ierr'[x] = ierr[x] /\ sent'[x] = sent[x] /\ todo'[x] = todo[x] /\ attempt'[x] = attempt[x]
  /\ \A p \in Producers(x[1]) : reader'[<<x, p>>] = reader[<<x, p>>]
  /\ ipc'[x] = ipc[x] \/ (ipc[x] \in Fresh /\ ipc'[x] \in Fresh)

\* A step is one of the instance, or leaves it as it was.
LEMMA Quiet ==
  ASSUME TypeOK, PhaseInv, InstanceInv, [Next]_vars, NEW x \in Instances
  PROVE  InstanceStep(x) \/ Unmoved(x)
<1>1. CASE UNCHANGED <<ipc, ierr, moduleVars, attempt>>
  BY <1>1 DEF Unmoved
<1>2. ASSUME NEW y \in Instances, InstanceStep(y), y # x PROVE Unmoved(x)
  BY <1>2, InstanceFrame DEF Unmoved
<1>3. ASSUME NEW t \in Tasks, TaskStep(t) PROVE Unmoved(x)
  <2>1. UNCHANGED <<ierr, moduleVars, attempt>> /\ (ipc[x] # "idle" => ipc'[x] = ipc[x])
    BY <1>3, TaskFrame
  <2>2. ipc'[x] \in {ipc[x], "born", "setup"}
    <3>1. CASE Enter(t) \/ Spawn(t)
      BY <3>1 DEF Enter, Spawn, TypeOK
    <3>2. CASE ~(Enter(t) \/ Spawn(t))
      BY <1>3, <3>2 DEF TaskStep, Start, Refuse, Skip, EmptyLoop, BadLoop, Leave, BreakLoop, EndTask
    <3> QED
      BY <3>1, <3>2
  <2>3. ipc'[x] = ipc[x] \/ (ipc[x] \in Fresh /\ ipc'[x] \in Fresh)
    BY <2>1, <2>2 DEF Fresh
  <2> QED
    BY <2>1, <2>3 DEF Unmoved
<1> QED
  BY <1>1, <1>2, <1>3, SplitNext DEF CancelRun, Expire, vars

\* What a step of x may do to the reader of its input p.
ReaderMove(x, p) ==
  LET old == reader[<<x, p>>]
      new == reader'[<<x, p>>] IN
  \/ new = old
  \/ Prepare(x) /\ ~Probing(x, p) /\ new = "read"
  \/ Retry(x)
  \/ Receive(x, p) /\ old = "read" /\ new \in {"read", "hold"}
  \/ EndOfStream(x, p) /\ old = "read" /\ new = "done"
  \/ StopReading(x, p) /\ new = "done"
  \/ (Merge(x, p) \/ Build(x, p)) /\ old = "hold" /\ new = "read"
  \/ StartProbe(x) /\ Probing(x, p) /\ ierr[x] = "none" /\ old = "idle" /\ new = "read"
  \/ ProbeRecord(x) /\ Probing(x, p) /\ old = "read" /\ new = (IF CtxDone(x[1]) THEN "done" ELSE "read")

\* The moves of a reader.
LEMMA ReaderStep ==
  ASSUME TypeOK, NEW x \in Instances, InstanceStep(x), NEW p \in Producers(x[1])
  PROVE  ReaderMove(x, p)
<1> USE DEF ReaderMove
<1>0. <<x, p>> \in Readers /\ reader \in [Readers -> {"idle", "read", "hold", "done"}]
  BY Populace DEF TypeOK
<1>1. CASE UNCHANGED reader
  BY <1>1
<1>2. CASE Prepare(x)
  BY <1>0, <1>2 DEF Prepare, Return
<1>3. CASE Retry(x)
  BY <1>3
<1>4. CASE StartProbe(x)
  <2>1. CASE ierr[x] # "none"
    BY <1>1, <1>4, <2>1 DEF StartProbe, Return
  <2>2. CASE ierr[x] = "none"
    <3>1. reader' = [reader EXCEPT ![<<x, Probe[x[1]]>>] = "read"] /\ Kind[x[1]] = "join"
          /\ reader[<<x, Probe[x[1]]>>] = "idle"
      BY <1>4, <2>2 DEF StartProbe, At
    <3> QED
      BY <1>0, <1>4, <2>2, <3>1 DEF Probing
  <2> QED
    BY <2>1, <2>2
<1>5. CASE ProbeRecord(x)
  <2>1. /\ reader' = [reader EXCEPT ![<<x, Probe[x[1]]>>] = IF CtxDone(x[1]) THEN "done" ELSE "read"]
        /\ reader[<<x, Probe[x[1]]>>] = "read" /\ Kind[x[1]] = "join"
    BY <1>5 DEF ProbeRecord, Pull, At
  <2> QED
    BY <1>0, <1>5, <2>1 DEF Probing
<1>6. ASSUME NEW q \in Producers(x[1]), Receive(x, q) PROVE ReaderMove(x, p)
  <2>1. /\ \E s \in {"read", "hold"} : reader' = [reader EXCEPT ![<<x, q>>] = s]
        /\ reader[<<x, q>>] = "read"
    BY <1>6 DEF Receive, Pull
  <2> QED
    BY <1>0, <1>6, <2>1
<1>7. ASSUME NEW q \in Producers(x[1]), EndOfStream(x, q) \/ StopReading(x, q) PROVE ReaderMove(x, p)
  <2>1. /\ reader' = [reader EXCEPT ![<<x, q>>] = "done"]
        /\ EndOfStream(x, q) => reader[<<x, q>>] = "read"
    BY <1>7 DEF EndOfStream, StopReading, EndRead
  <2> QED
    BY <1>0, <1>7, <2>1
<1>8. ASSUME NEW q \in Producers(x[1]), Merge(x, q) \/ Build(x, q) PROVE ReaderMove(x, p)
  <2>1. reader' = [reader EXCEPT ![<<x, q>>] = "read"] /\ reader[<<x, q>>] = "hold"
    BY <1>8 DEF Merge, Build
  <2> QED
    BY <1>0, <1>8, <2>1
<1>9. CASE Birth(x) \/ Close(x) \/ Generate(x) \/ Send(x) \/ EmitUnmatched(x) \/ Ends(x)
  <2>1. UNCHANGED reader
    BY <1>9, EndsReturn DEF Birth, Close, Generate, Send, EmitUnmatched, Return
  <2> QED
    BY <1>1, <2>1
<1> QED
  BY <1>2, <1>3, <1>4, <1>5, <1>6, <1>7, <1>8, <1>9 DEF InstanceStep, Ends

\* What a step may do to the channel from p to c.
Still(l) == emitted'[l] = emitted[l] /\ buffer'[l] = buffer[l] /\ got'[l] = got[l]

LinkMove(p, c) ==
  LET l == <<p, c>> IN
  \/ Still(l)
  \/ \E x \in Instances :
       \/ /\ Send(x) /\ x[1] = p /\ Head(todo[x]) = c
          /\ emitted'[l] = emitted[l] + 1 /\ buffer'[l] = buffer[l] + 1 /\ got'[l] = got[l]
       \/ /\ Receive(x, p) /\ x[1] = c
          /\ emitted'[l] = emitted[l] /\ buffer[l] > 0 /\ buffer'[l] = buffer[l] - 1
          /\ got'[l] = (IF Building(x, p) THEN got[l] ELSE got[l] + 1)
       \/ /\ ProbeRecord(x) /\ x[1] = c /\ Probing(x, p)
          /\ emitted'[l] = emitted[l] /\ buffer[l] > 0 /\ buffer'[l] = buffer[l] - 1
          /\ got'[l] = got[l] + 1
       \/ /\ Build(x, p) /\ x[1] = c /\ ierr' = ierr
          /\ emitted'[l] = emitted[l] /\ buffer'[l] = buffer[l] /\ got'[l] = got[l] + 1
       \/ /\ Retry(x) /\ x[1] = c /\ Building(x, p)
          /\ emitted'[l] = emitted[l] /\ buffer'[l] = buffer[l]

\* The moves of a channel.
LEMMA LinkStep ==
  ASSUME TypeOK, PhaseInv, InstanceInv, TodoInv, [Next]_vars, NEW p \in Tasks, NEW c \in Consumers(p)
  PROVE  LinkMove(p, c)
<1> DEFINE l == <<p, c>>
<1>0. /\ l \in Links /\ p \in Producers(c) /\ c \in Tasks
      /\ buffer \in [Links -> 0..BufferSize] /\ emitted \in [Links -> Nat] /\ got \in [Links -> Nat]
  BY Topology DEF TypeOK
<1>1. CASE UNCHANGED <<buffer, emitted, got>>
  BY <1>1 DEF LinkMove, Still
<1>2. ASSUME NEW x \in Instances, Send(x) PROVE LinkMove(p, c)
  <2>1. CASE closed[<<x[1], Head(todo[x])>>]
    BY <1>1, <1>2, <2>1 DEF Send
  <2>2. CASE ~closed[<<x[1], Head(todo[x])>>]
    <3>1. /\ buffer' = [buffer EXCEPT ![<<x[1], Head(todo[x])>>] = @ + 1]
          /\ emitted' = [emitted EXCEPT ![<<x[1], Head(todo[x])>>] = @ + 1]
          /\ got' = got
      BY <1>2, <2>2 DEF Send
    <3> QED
      BY <1>0, <1>2, <3>1 DEF LinkMove, Still
  <2> QED
    BY <2>1, <2>2
<1>3. ASSUME NEW x \in Instances, NEW q \in Producers(x[1]), Receive(x, q) PROVE LinkMove(p, c)
  <2>1. /\ buffer[<<q, x[1]>>] > 0 /\ buffer' = [buffer EXCEPT ![<<q, x[1]>>] = @ - 1]
        /\ emitted' = emitted
        /\ got' = IF Building(x, q) THEN got ELSE [got EXCEPT ![<<q, x[1]>>] = @ + 1]
    BY <1>3 DEF Receive, Pull, TakeIn
  <2> QED
    BY <1>0, <1>3, <2>1 DEF LinkMove, Still
<1>4. ASSUME NEW x \in Instances, ProbeRecord(x) PROVE LinkMove(p, c)
  <2> DEFINE q == Probe[x[1]]
  <2>1. /\ buffer[<<q, x[1]>>] > 0 /\ buffer' = [buffer EXCEPT ![<<q, x[1]>>] = @ - 1]
        /\ emitted' = emitted /\ got' = [got EXCEPT ![<<q, x[1]>>] = @ + 1] /\ Probing(x, q)
    BY <1>4 DEF ProbeRecord, Pull, TakeIn, At, Probing
  <2> QED
    BY <1>0, <1>4, <2>1 DEF LinkMove, Still
<1>5. ASSUME NEW x \in Instances, NEW q \in Producers(x[1]), Build(x, q) PROVE LinkMove(p, c)
  <2>1. /\ UNCHANGED <<buffer, emitted>>
        /\ UNCHANGED got \/ (ierr' = ierr /\ got' = [got EXCEPT ![<<q, x[1]>>] = @ + 1])
    BY <1>5 DEF Build, TakeIn
  <2> QED
    BY <1>0, <1>5, <2>1 DEF LinkMove, Still
<1>6. ASSUME NEW x \in Instances, Retry(x) PROVE LinkMove(p, c)
  <2>1. /\ UNCHANGED <<buffer, emitted>>
        /\ got' = [k \in Links |-> IF k[2] = x[1] /\ Building(x, k[1]) THEN 0 ELSE got[k]]
    BY <1>6 DEF Retry
  <2> QED
    BY <1>0, <1>6, <2>1 DEF LinkMove, Still
<1>7. ASSUME NEW x \in Instances, InstanceStep(x), ~Send(x), ~ProbeRecord(x), ~Retry(x),
             \A q \in Producers(x[1]) : ~Receive(x, q) /\ ~Build(x, q)
      PROVE  UNCHANGED <<buffer, emitted, got>>
  BY <1>7 DEF InstanceStep, Birth, Prepare, Return, Close, Generate, Exhausted, GiveUp, Passed,
     Drained, StartProbe, EmitUnmatched, Joined, EndOfStream, StopReading, EndRead, Merge
<1>8. ASSUME NEW t \in Tasks, TaskStep(t) PROVE UNCHANGED <<buffer, emitted, got>>
  BY <1>8, TaskFrame
<1> QED
  BY <1>1, <1>2, <1>3, <1>4, <1>5, <1>6, <1>7, <1>8, SplitNext DEF CancelRun, Expire, vars

\* A channel stays closed.
LEMMA ClosedKept ==
  ASSUME TypeOK, PhaseInv, InstanceInv, [Next]_vars, NEW l \in Links, closed[l]
  PROVE  closed'[l]
<1>1. ASSUME NEW x \in Instances, Close(x) PROVE closed'[l]
  BY <1>1 DEF Close
<1>2. ASSUME NEW x \in Instances, InstanceStep(x), ~Close(x) PROVE UNCHANGED closed
  BY <1>2 DEF InstanceStep, Birth, Prepare, Return, Retry, Generate, Exhausted, GiveUp, Passed, Send,
     Drained, StartProbe, ProbeRecord, EmitUnmatched, Joined, Receive, EndOfStream, StopReading,
     EndRead, Merge, Build, Pull
<1>3. ASSUME NEW t \in Tasks, TaskStep(t) PROVE UNCHANGED closed
  BY <1>3, TaskFrame
<1> QED
  BY <1>1, <1>2, <1>3, SplitNext DEF CancelRun, Expire, vars

\* A stream that came to its end stays so: nothing more is written to it.
LEMMA SpentKept ==
  ASSUME SingleProducers, ChannelInv, [Next]_vars, NEW p \in Tasks, NEW c \in Consumers(p), Spent(p, c)
  PROVE  Spent(p, c)' /\ emitted'[<<p, c>>] = emitted[<<p, c>>]
<1> DEFINE l == <<p, c>>
<1>1. TypeOK /\ PhaseInv /\ InstanceInv /\ TodoInv /\ ClosedInv
  BY DEF ChannelInv
<1>2. l \in Links /\ closed[l] /\ buffer[l] = 0 /\ ipc[First(p)] = "done"
  BY <1>1, Topology, ClosedByFirst DEF Spent
<1>3. closed'[l]
  BY <1>1, <1>2, ClosedKept
<1>4. ASSUME NEW x \in Instances, x[1] = p PROVE ~Send(x)
  BY <1>2, <1>4, OneProducer DEF Send
<1>5. buffer'[l] = 0 /\ emitted'[l] = emitted[l]
  BY <1>1, <1>2, <1>4, LinkStep DEF LinkMove, Still
<1> QED
  BY <1>3, <1>5 DEF Spent
-----------------------------------------------------------------------------
(* Joins.                                                                  *)

\* A join is not tried again.
LEMMA NoJoinRetry ==
  ASSUME JoinsTryOnce, TypeOK, NEW x \in Instances, Kind[x[1]] = "join"
  PROVE  ~Retry(x)
<1>1. x[1] \in Tasks /\ Attempts[x[1]] = 1 /\ attempt[x] \in Nat
  BY Populace DEF JoinsTryOnce, TypeOK
<1>2. 1..(Attempts[x[1]] - 1) = {}
  BY <1>1
<1> QED
  BY <1>2 DEF Retry, MayRetry

\* The error of an attempt of a join stays: its probe phase is not entered with one.
LEMMA JoinErrKept ==
  ASSUME TypeOK, PhaseInv, InstanceInv, ProbeInv, [Next]_vars,
         NEW x \in Instances, ~Retry(x), Kind[x[1]] = "join", ierr[x] # "none"
  PROVE  ierr'[x] # "none"
<1>0. /\ ierr \in [Instances -> Errors] /\ x[1] \in Tasks /\ Probe[x[1]] \in Producers(x[1])
  BY Populace, Constants DEF TypeOK
<1>1. CASE Unmoved(x)
  BY <1>1 DEF Unmoved
<1>2. CASE InstanceStep(x)
  <2>1. CASE Joined(x)
    BY <1>0, <2>1 DEF Joined, AllRead, ProbeInv, At
  <2>2. CASE GiveUp(x)
    BY <1>0, <2>2 DEF GiveUp, Return
  <2>3. CASE Exhausted(x) \/ Passed(x) \/ Drained(x)
    BY <2>3 DEF Exhausted, Passed, Drained, At
  <2>4. CASE Prepare(x)
    BY <1>0, <2>4 DEF Prepare, Return
  <2>5. CASE StartProbe(x)
    BY <1>0, <2>5 DEF StartProbe, Return
  <2>6. CASE ProbeRecord(x)
    <3>1. ierr' = ierr \/ ierr' = [ierr EXCEPT ![x] = "ctx"]
      BY <2>6 DEF ProbeRecord
    <3> QED
      BY <1>0, <3>1
  <2>7. ASSUME NEW p \in Producers(x[1]), Build(x, p) PROVE ierr'[x] # "none"
    <3>1. ierr' = ierr \/ ierr' = [ierr EXCEPT ![x] = "fail"]
      BY <2>7 DEF Build
    <3> QED
      BY <1>0, <3>1
  <2>8. CASE Birth(x) \/ Close(x) \/ Generate(x) \/ Send(x) \/ EmitUnmatched(x)
             \/ \E p \in Producers(x[1]) :
                  Receive(x, p) \/ EndOfStream(x, p) \/ StopReading(x, p) \/ Merge(x, p)
    <3>1. UNCHANGED ierr
      BY <2>8 DEF Birth, Close, Generate, Send, EmitUnmatched, Receive, EndOfStream, StopReading,
         EndRead, Merge
    <3> QED
      BY <3>1
  <2> QED
    BY <1>0, <1>2, <2>1, <2>2, <2>3, <2>4, <2>5, <2>6, <2>7, <2>8 DEF InstanceStep
<1> QED
  BY <1>1, <1>2, Quiet

\* A build phase that is over stays over.
LEMMA BuiltKept ==
  ASSUME TypeOK, PhaseInv, InstanceInv, [Next]_vars,
         NEW x \in Instances, ~Retry(x), Kind[x[1]] = "join", Built(x), ipc[x] \notin Fresh
  PROVE  Built(x)'
<1> SUFFICES ASSUME NEW p \in BuildSide(x[1]) PROVE reader'[<<x, p>>] = "done"
  BY DEF Built
<1>1. p \in Producers(x[1]) /\ reader[<<x, p>>] = "done"
  BY DEF Built, BuildSide
<1>2. ~Prepare(x)
  BY DEF Prepare, Fresh
<1>3. CASE Unmoved(x)
  BY <1>1, <1>3 DEF Unmoved
<1>4. CASE InstanceStep(x)
  <2>1. ReaderMove(x, p)
    BY <1>1, <1>4, ReaderStep
  <2> QED
    BY <1>1, <1>2, <2>1 DEF ReaderMove
<1> QED
  BY <1>3, <1>4, Quiet

\* The probe phase comes after the build phase.
LEMMA ProbeStep ==
  ASSUME TypeOK, PhaseInv, InstanceInv, ProbeInv, [Next]_vars
  PROVE  ProbeInv'
<1> SUFFICES ASSUME NEW x \in Instances, Kind[x[1]] = "join",
                    reader'[<<x, Probe[x[1]]>>] # "idle"
             PROVE  Built(x)' /\ (ipc'[x] = "perform" => ierr'[x] = "none")
  BY DEF ProbeInv
<1> DEFINE q == Probe[x[1]]
<1>1. q \in Producers(x[1]) /\ x[1] \in Tasks /\ Probing(x, q)
  BY Populace, Constants DEF Probing
<1>2. ~Retry(x)
  BY <1>1, Populace DEF Retry
<1>3. CASE reader[<<x, q>>] # "idle"
  <2>1. Built(x) /\ (ipc[x] = "perform" => ierr[x] = "none") /\ ipc[x] \notin Fresh
    BY <1>1, <1>3 DEF ProbeInv, InstanceInv, Clean
  <2>2. Built(x)'
    BY <1>2, <2>1, BuiltKept
  <2>3. ASSUME ipc'[x] = "perform" PROVE ierr'[x] = "none"
    <3>1. CASE Unmoved(x)
      BY <2>1, <2>3, <3>1 DEF Unmoved
    <3>2. CASE InstanceStep(x)
      <4>1. ~Prepare(x) /\ ~Birth(x)
        BY <2>1 DEF Prepare, Birth, Fresh
      <4>2. ipc \in [Instances -> {"idle", "born", "setup", "perform", "close", "done", "dropped"}]
        BY DEF TypeOK
      <4>3. ~Close(x) /\ ~Ends(x)
        <5>1. ASSUME NEW err, Return(x, err) PROVE FALSE
          BY <2>3, <4>2, <5>1 DEF Return
        <5> QED
          BY <2>3, <4>2, <5>1, EndsReturn DEF Close
      <4>4. ASSUME NEW p \in Producers(x[1]) PROVE ~Build(x, p)
        BY <2>1, <4>4 DEF Build, Building, Built, BuildSide
      <4>5. CASE StartProbe(x)
        BY <1>3, <4>5 DEF StartProbe
      <4>6. CASE ProbeRecord(x)
        <5>1. ipc[x] = "perform" /\ (ierr' = ierr \/ ipc' = [ipc EXCEPT ![x] = "close"])
          BY <4>6 DEF ProbeRecord, At
        <5> QED
          BY <2>1, <2>3, <4>2, <5>1
      <4>7. CASE Generate(x) \/ Send(x) \/ EmitUnmatched(x)
                 \/ \E p \in Producers(x[1]) :
                      Receive(x, p) \/ EndOfStream(x, p) \/ StopReading(x, p) \/ Merge(x, p)
        <5>1. UNCHANGED <<ipc, ierr>>
          BY <4>7 DEF Generate, Send, EmitUnmatched, Receive, EndOfStream, StopReading, EndRead, Merge
        <5> QED
          BY <2>1, <2>3, <5>1
      <4> QED
        BY <1>2, <3>2, <4>1, <4>3, <4>4, <4>5, <4>6, <4>7 DEF InstanceStep, Ends
    <3> QED
      BY <3>1, <3>2, Quiet
  <2> QED
    BY <2>2, <2>3
<1>4. CASE reader[<<x, q>>] = "idle"
  <2>1. InstanceStep(x)
    BY <1>1, <1>4, Quiet DEF Unmoved
  <2>2. StartProbe(x) /\ ierr[x] = "none"
    <3>1. ReaderMove(x, q) /\ reader'[<<x, q>>] # "idle"
      BY <1>1, <2>1, ReaderStep
    <3>2. ~(StopReading(x, q))
      BY <1>4 DEF StopReading, EndRead
    <3> QED
      BY <1>1, <1>2, <1>4, <3>1, <3>2 DEF ReaderMove
  <2>3. /\ reader' = [reader EXCEPT ![<<x, q>>] = "read"] /\ ierr' = ierr /\ Built(x)
    BY <2>2 DEF StartProbe, Return
  <2>4. \A p \in BuildSide(x[1]) : <<x, p>> \in Readers /\ p # q
    BY Populace DEF BuildSide
  <2>5. Built(x)'
    BY <2>3, <2>4 DEF Built, TypeOK
  <2> QED
    BY <2>2, <2>3, <2>5
<1> QED
  BY <1>3, <1>4
-----------------------------------------------------------------------------
(* Consumers.                                                              *)

\* What an instance of a join came to stays, once it probed.
LEMMA CtxKeptInJoin ==
  ASSUME TypeOK, PhaseInv, InstanceInv, ProbeInv, [Next]_vars,
         NEW x \in Instances, Kind[x[1]] = "join", reader[<<x, Probe[x[1]]>>] = "done",
         ipc[x] \in Over, ierr[x] = "ctx"
  PROVE  ipc'[x] \in Over /\ ierr'[x] = "ctx"
<1>1. ~Retry(x) /\ ipc \in [Instances -> {"idle", "born", "setup", "perform", "close", "done", "dropped"}]
  BY DEF Retry, MayRetry, TypeOK
<1>2. CASE Unmoved(x)
  BY <1>2 DEF Unmoved, Over, Fresh
<1>3. CASE InstanceStep(x)
  <2>1. ASSUME NEW p \in Producers(x[1]) PROVE ~Build(x, p)
    <3>1. Built(x)
      BY DEF ProbeInv
    <3> QED
      BY <2>1, <3>1 DEF Build, Building, Built, BuildSide
  <2>2. ipc[x] \in {"close", "done"}
    BY DEF Over
  <2>3. ierr' = ierr /\ (ipc' = ipc \/ ipc' = [ipc EXCEPT ![x] = "done"])
    <3>1. ~Ends(x)
      BY <2>2, EndsReturn
    <3>2. CASE Close(x)
      BY <3>2 DEF Close
    <3>3. CASE ~Close(x)
      BY <1>1, <1>3, <2>1, <2>2, <3>1, <3>3 DEF InstanceStep, Birth, Prepare, Generate, Send, StartProbe,
         ProbeRecord, EmitUnmatched, Receive, EndOfStream, StopReading, EndRead, Merge, At, Ends
    <3> QED
      BY <3>2, <3>3
  <2> QED
    BY <1>1, <2>2, <2>3 DEF Over
<1> QED
  BY <1>2, <1>3, Quiet

\* A reader ends at the end of its stream, or where success is out of reach.
LEMMA ReaderInvStep ==
  ASSUME SingleProducers, ChannelInv, ReaderInv, ProbeInv, [Next]_vars
  PROVE  ReaderInv'
<1>1. TypeOK /\ PhaseInv /\ InstanceInv
  BY DEF ChannelInv
<1> SUFFICES ASSUME NEW x \in Instances, NEW p \in Producers(x[1]), reader'[<<x, p>>] = "done"
             PROVE \/ Spent(p, x[1])'
                   \/ Kind[x[1]] = "passthrough" /\ CtxDone(x[1])'
                   \/ Building(x, p) /\ (CtxDone(x[1])' \/ ierr'[x] # "none")
                   \/ Probing(x, p) /\ ipc'[x] \in Over /\ ierr'[x] = "ctx"
  BY DEF ReaderInv
<1>2. x[1] \in Tasks /\ p \in Tasks /\ x[1] \in Consumers(p)
  BY Populace, Topology
<1>3. CtxDone(x[1]) => CtxDone(x[1])'
  BY <1>1, <1>2, CtxKept
<1>4. Spent(p, x[1]) => Spent(p, x[1])'
  BY <1>2, SpentKept
<1>5. ~Retry(x)
  BY <1>1, Populace DEF Retry
<1>6. Building(x, p) /\ ierr[x] # "none" => ierr'[x] # "none"
  BY <1>1, <1>5, JoinErrKept DEF Building
<1>7. CASE reader[<<x, p>>] = "done"
  <2>1. CASE Probing(x, p) /\ ipc[x] \in Over /\ ierr[x] = "ctx"
    BY <1>1, <1>7, <2>1, CtxKeptInJoin DEF Probing
  <2>2. CASE ~(Probing(x, p) /\ ipc[x] \in Over /\ ierr[x] = "ctx")
    BY <1>3, <1>4, <1>6, <1>7, <2>2 DEF ReaderInv
  <2> QED
    BY <2>1, <2>2
<1>8. CASE reader[<<x, p>>] # "done"
  <2>1. InstanceStep(x) /\ ReaderMove(x, p)
    BY <1>1, <1>8, Quiet, ReaderStep DEF Unmoved
  <2>2. CASE EndOfStream(x, p)
    <3>1. Spent(p, x[1])
      BY <2>2 DEF EndOfStream, EndRead, Spent
    <3> QED
      BY <1>4, <3>1
  <2>3. CASE StopReading(x, p)
    BY <1>3, <1>6, <2>3 DEF StopReading, EndRead
  <2>4. CASE ProbeRecord(x) /\ Probing(x, p) /\ CtxDone(x[1])
    <3>1. ipc'[x] = "close" /\ ierr'[x] = "ctx"
      BY <1>1, <2>4 DEF ProbeRecord, TypeOK
    <3> QED
      BY <2>4, <3>1 DEF Over
  <2> QED
    BY <1>5, <1>8, <2>1, <2>2, <2>3, <2>4 DEF ReaderMove
<1> QED
  BY <1>7, <1>8

\* An instance comes to report success by returning it.
LEMMA SuccessReached ==
  ASSUME TypeOK, NEW x \in Instances, InstanceStep(x), ipc'[x] \in Over, ierr'[x] = "none",
         ~(ipc[x] \in Over /\ ierr[x] = "none")
  PROVE  /\ Exhausted(x) \/ Passed(x) \/ Drained(x) \/ Joined(x)
         /\ Return(x, "none") /\ ipc[x] = "perform"
<1>0. /\ ipc \in [Instances -> {"idle", "born", "setup", "perform", "close", "done", "dropped"}]
      /\ ierr \in [Instances -> Errors]
  BY DEF TypeOK
<1>1. ASSUME NEW err, Return(x, err) PROVE err = "none"
  BY <1>0, <1>1 DEF Return
<1>2. ~Prepare(x) /\ ~StartProbe(x) /\ ~GiveUp(x)
  <2>1. ~Return(x, "fail") /\ ~Return(x, "ctx") /\ (ierr[x] # "none" => ~Return(x, ierr[x]))
    BY <1>1
  <2> QED
    BY <1>0, <2>1 DEF Prepare, StartProbe, GiveUp, Over, At
<1>3. ~Birth(x) /\ ~Retry(x) /\ ~Close(x) /\ ~ProbeRecord(x)
  BY <1>0 DEF Birth, Retry, Close, ProbeRecord, Over, At
<1>4. ~Generate(x) /\ ~Send(x) /\ ~EmitUnmatched(x)
  BY DEF Generate, Send, EmitUnmatched
<1>5. ASSUME NEW p \in Producers(x[1])
      PROVE  ~Receive(x, p) /\ ~EndOfStream(x, p) /\ ~StopReading(x, p) /\ ~Merge(x, p) /\ ~Build(x, p)
  BY <1>0 DEF Receive, EndOfStream, StopReading, EndRead, Merge, Build, Errors
<1>6. Exhausted(x) \/ Passed(x) \/ Drained(x) \/ Joined(x)
  BY <1>2, <1>3, <1>4, <1>5 DEF InstanceStep
<1>7. Return(x, "none")
  BY <1>1, <1>6, EndsReturn DEF Ends
<1> QED
  BY <1>6, <1>7 DEF Exhausted, Passed, Drained, Joined, At

\* Success is reported when every stream that is read to the end is at its end.
LEMMA SuccessStep ==
  ASSUME SingleProducers, ChannelInv, ReaderInv, SuccessInv, [Next]_vars
  PROVE  SuccessInv'
<1>1. TypeOK /\ PhaseInv /\ InstanceInv
  BY DEF ChannelInv
<1> SUFFICES ASSUME NEW x \in Instances, ipc'[x] \in Over, ierr'[x] = "none"
             PROVE  /\ \A p \in Producers(x[1]) : ~Building(x, p) => Spent(p, x[1])'
                    /\ Kind[x[1]] = "source" => sent'[x] = Records
  BY DEF SuccessInv
<1>2. \A p \in Producers(x[1]) : Spent(p, x[1]) => Spent(p, x[1])'
  BY Populace, Topology, SpentKept
<1>3. CASE ipc[x] \in Over /\ ierr[x] = "none"
  <2>1. sent'[x] = sent[x]
    <3>1. CASE Unmoved(x)
      BY <3>1 DEF Unmoved
    <3>2. CASE InstanceStep(x)
      <4>1. ~Generate(x) /\ ~EmitUnmatched(x)
        BY <1>3 DEF Generate, EmitUnmatched, At, Over
      <4> QED
        BY <3>2, <4>1 DEF InstanceStep, Birth, Prepare, Return, Retry, Close, Exhausted, GiveUp, Passed,
           Send, Drained, StartProbe, ProbeRecord, Joined, Receive, EndOfStream, StopReading,
           EndRead, Merge, Build
    <3> QED
      BY <1>1, <3>1, <3>2, Quiet
  <2> QED
    BY <1>2, <1>3, <2>1 DEF SuccessInv
<1>4. CASE ~(ipc[x] \in Over /\ ierr[x] = "none")
  <2>1. InstanceStep(x)
    BY <1>1, <1>4, Quiet DEF Unmoved, Over, Fresh
  <2>2. /\ Exhausted(x) \/ Passed(x) \/ Drained(x) \/ Joined(x)
        /\ Return(x, "none") /\ ipc[x] = "perform"
    BY <1>1, <1>4, <2>1, SuccessReached
  <2>3. CASE Exhausted(x)
    <3>1. Kind[x[1]] = "source" /\ sent[x] = Records /\ sent' = sent
      BY <2>3 DEF Exhausted, At, Return
    <3>2. Producers(x[1]) = {}
      BY <3>1, Constants, Populace
    <3> QED
      BY <3>1, <3>2
  <2>4. CASE Passed(x) \/ Drained(x) \/ Joined(x)
    <3>1. AllRead(x) /\ Kind[x[1]] \in {"passthrough", "sink", "join"}
      BY <2>4 DEF Passed, Drained, Joined, At
    <3>2. Kind[x[1]] = "passthrough" /\ Producers(x[1]) # {} => ~CtxDone(x[1])
      <4> SUFFICES ASSUME Kind[x[1]] = "passthrough", Producers(x[1]) # {}, CtxDone(x[1]) PROVE FALSE
        OBVIOUS
      <4>1. Passed(x)
        BY <2>4 DEF Drained, Joined, At
      <4>2. Return(x, "ctx")
        BY <4>1 DEF Passed
      <4> QED
        BY <1>1, <4>2 DEF Return, TypeOK
    <3>3. ASSUME NEW p \in Producers(x[1]), ~Building(x, p) PROVE Spent(p, x[1])
      BY <2>2, <3>1, <3>2, <3>3 DEF ReaderInv, AllRead, Over, Probing
    <3> QED
      BY <1>2, <3>1, <3>3
  <2> QED
    BY <2>2, <2>3, <2>4
<1> QED
  BY <1>3, <1>4

\* No record is lost between a producer and a consumer that counts it as it
\* receives it.
LEMMA BalanceStep ==
  ASSUME ChannelInv, BalanceInv, [Next]_vars
  PROVE  BalanceInv'
<1>1. TypeOK /\ PhaseInv /\ InstanceInv /\ TodoInv
  BY DEF ChannelInv
<1> SUFFICES ASSUME NEW p \in Tasks, NEW c \in Consumers(p), Kind[c] # "join" \/ p = Probe[c]
             PROVE  emitted'[<<p, c>>] = got'[<<p, c>>] + buffer'[<<p, c>>]
  BY DEF BalanceInv
<1> DEFINE l == <<p, c>>
<1>2. /\ emitted[l] = got[l] + buffer[l] /\ emitted[l] \in Nat /\ got[l] \in Nat /\ buffer[l] \in Int
  <2>1. l \in Links /\ buffer[l] \in 0..BufferSize
    BY <1>1, Topology DEF TypeOK
  <2> QED
    BY <1>1, <2>1 DEF BalanceInv, TypeOK
<1>3. \A x \in Instances : x[1] = c => ~Building(x, p)
  BY DEF Building
<1>4. \/ emitted'[l] = emitted[l] /\ buffer'[l] = buffer[l] /\ got'[l] = got[l]
      \/ emitted'[l] = emitted[l] + 1 /\ buffer'[l] = buffer[l] + 1 /\ got'[l] = got[l]
      \/ emitted'[l] = emitted[l] /\ buffer'[l] = buffer[l] - 1 /\ got'[l] = got[l] + 1
  <2>1. LinkMove(p, c)
    BY <1>1, LinkStep
  <2> QED
    BY <1>3, <2>1, Zenon DEF LinkMove, Still, Build
<1> QED
  BY <1>2, <1>4

\* The consumers' half of the invariant is kept.
LEMMA ReadStep ==
  ASSUME SingleProducers, ChannelInv, ReadInv, [Next]_vars
  PROVE  ReadInv'
<1>1. ReaderInv /\ ProbeInv /\ SuccessInv /\ BalanceInv /\ TypeOK /\ PhaseInv /\ InstanceInv
  BY DEF ReadInv, ChannelInv
<1> QED
  BY <1>1, ReaderInvStep, ProbeStep, SuccessStep, BalanceStep DEF ReadInv
-----------------------------------------------------------------------------
(* Producers.                                                              *)

\* A producer takes up a record.
Handed(x) == todo[x] = <<>> /\ todo'[x] = Outputs[x[1]]

\* A list that loses its head loses that entry and no other.
LEMMA OneServed ==
  ASSUME NEW S, NEW s \in Seq(S), s # <<>>, NEW c,
         \A i, j \in 1..Len(s) : s[i] = s[j] => i = j
  PROVE  (\E i \in 1..Len(Tail(s)) : Tail(s)[i] = c) <=> (\E i \in 1..Len(s) : s[i] = c) /\ Head(s) # c
<1>1. /\ Len(s) \in Nat \ {0} /\ Head(s) = s[1] /\ Len(Tail(s)) = Len(s) - 1
      /\ \A i \in 1..Len(s) - 1 : i + 1 \in 1..Len(s) /\ Tail(s)[i] = s[i + 1]
  BY HeadTail
<1>2. ASSUME NEW i \in 1..Len(Tail(s)), Tail(s)[i] = c
      PROVE  (\E k \in 1..Len(s) : s[k] = c) /\ Head(s) # c
  <2>1. i + 1 \in 1..Len(s) /\ s[i + 1] = c /\ 1 \in 1..Len(s) /\ i + 1 # 1
    BY <1>1, <1>2
  <2> QED
    BY <1>1, <2>1
<1>3. ASSUME NEW k \in 1..Len(s), s[k] = c, Head(s) # c
      PROVE  \E i \in 1..Len(Tail(s)) : Tail(s)[i] = c
  <2>1. k # 1
    BY <1>1, <1>3
  <2>2. k - 1 \in 1..Len(s) - 1 /\ (k - 1) + 1 = k
    BY <1>1, <2>1
  <2>3. Tail(s)[k - 1] = c
    BY <1>1, <1>3, <2>2
  <2> QED
    BY <1>1, <2>2, <2>3
<1> QED
  BY <1>2, <1>3

\* What an instance that is not sending has still to send.
LEMMA TodoMove ==
  ASSUME TypeOK, NEW x \in Instances, InstanceStep(x), ~Send(x)
  PROVE  todo'[x] = todo[x] \/ (todo[x] = <<>> /\ todo'[x] \in {<<>>, Outputs[x[1]]})
<1>1. /\ todo \in [Instances -> Seq(Tasks)]
      /\ UNCHANGED todo \/ (todo[x] = <<>> /\ \E out \in {<<>>, Outputs[x[1]]} : todo' = [todo EXCEPT ![x] = out])
  BY DEF TypeOK, InstanceStep, Birth, Prepare, Return, Retry, Close, Generate, Exhausted, GiveUp, Passed,
     Drained, StartProbe, ProbeRecord, EmitUnmatched, Joined, Receive, EndOfStream, StopReading,
     EndRead, Merge, Build
<1> QED
  BY <1>1

\* The same number of records is given to every consumer: one more when a record
\* is taken up, and it is then sent to each once.
LEMMA GivenStep ==
  ASSUME SingleProducers, ChannelInv, [Next]_vars, NEW p \in Tasks, NEW c \in Consumers(p)
  PROVE  /\ Given(p, c) \in Nat
         /\ Handed(First(p)) => InstanceStep(First(p)) /\ Given(p, c)' = Given(p, c) + 1
         /\ ~Handed(First(p)) => Given(p, c)' = Given(p, c)
<1> DEFINE x == First(p)
           l == <<p, c>>
<1>1. TypeOK /\ PhaseInv /\ InstanceInv /\ TodoInv /\ ClosedInv
  BY DEF ChannelInv
<1>2. /\ x \in Instances /\ x[1] = p /\ emitted[l] \in Nat /\ Outputs[p] # <<>>
      /\ \E i \in 1..Len(Outputs[p]) : Outputs[p][i] = c
      /\ ~ \E i \in 1..Len(<<>>) : <<>>[i] = c
  <2>1. x \in Instances /\ x[1] = p /\ emitted[l] \in Nat
    BY <1>1, Populace, Topology DEF TypeOK
  <2>2. \E i \in 1..Len(Outputs[p]) : Outputs[p][i] = c
    BY AllOutputs
  <2>3. ~ \E i \in 1..Len(<<>>) : <<>>[i] = c
    OBVIOUS
  <2> QED
    BY <2>1, <2>2, <2>3
<1>3. Owed(x, c) \in {0, 1} /\ Owed(x, c)' \in {0, 1}
  BY DEF Owed
<1>4. Given(p, c) = emitted[l] + Owed(x, c) /\ Given(p, c)' = emitted'[l] + Owed(x, c)'
  BY DEF Given
<1> HIDE DEF x
<1>5. CASE Send(x)
  <2>0. ~closed[<<x[1], Head(todo[x])>>]
    <3>1. ipc[x] = "perform" /\ Head(todo[x]) \in Consumers(p)
      BY <1>1, <1>2, <1>5, NextOutput DEF Send
    <3> QED
      BY <1>1, <1>2, <3>1, ClosedByFirst DEF x
  <2>1. todo[x] # <<>> /\ todo'[x] = Tail(todo[x]) /\ InstanceStep(x)
    BY <1>1, <1>2, <1>5, <2>0 DEF Send, TypeOK, InstanceStep
  <2>2. emitted'[l] = (IF Head(todo[x]) = c THEN emitted[l] + 1 ELSE emitted[l])
    <3>1. emitted' = [emitted EXCEPT ![<<x[1], Head(todo[x])>>] = @ + 1] /\ l \in Links
      BY <1>5, <2>0, Topology DEF Send
    <3> QED
      BY <1>1, <1>2, <3>1 DEF TypeOK
  <2>3. /\ Owed(x, c) = (IF \E i \in 1..Len(todo[x]) : todo[x][i] = c THEN 1 ELSE 0)
        /\ Owed(x, c)' = (IF \E i \in 1..Len(Tail(todo[x])) : Tail(todo[x])[i] = c THEN 1 ELSE 0)
    BY <2>1 DEF Owed
  <2>4. (\E i \in 1..Len(Tail(todo[x])) : Tail(todo[x])[i] = c)
          <=> (\E i \in 1..Len(todo[x]) : todo[x][i] = c) /\ Head(todo[x]) # c
    <3>1. todo[x] \in Seq(Consumers(p)) /\ \A i, j \in 1..Len(todo[x]) : todo[x][i] = todo[x][j] => i = j
      BY <1>1, <1>2 DEF TodoInv
    <3> QED
      BY <2>1, <3>1, OneServed
  <2>5. Head(todo[x]) = c => \E i \in 1..Len(todo[x]) : todo[x][i] = c
    <3>1. Len(todo[x]) \in Nat \ {0} /\ Head(todo[x]) = todo[x][1]
      BY <1>1, <1>2, <2>1, HeadTail DEF TypeOK
    <3> QED
      BY <3>1
  <2>6. Owed(x, c) = (IF Head(todo[x]) = c THEN Owed(x, c)' + 1 ELSE Owed(x, c)')
    BY <2>3, <2>4, <2>5
  <2>7. ~Handed(x)
    BY <2>1 DEF Handed
  <2> QED
    BY <1>2, <1>3, <1>4, <2>2, <2>6, <2>7 DEF x
<1>6. CASE ~Send(x)
  <2>1. emitted'[l] = emitted[l]
    <3>1. LinkMove(p, c)
      BY <1>1, LinkStep
    <3>2. \A y \in Instances : y[1] = p => ~Send(y)
      BY <1>6, OneProducer DEF x
    <3> QED
      BY <3>1, <3>2 DEF LinkMove, Still
  <2>2. todo'[x] = todo[x] \/ (InstanceStep(x) /\ todo[x] = <<>> /\ todo'[x] = Outputs[p])
    BY <1>1, <1>2, <1>6, Quiet, TodoMove DEF Unmoved
  <2>3. CASE todo'[x] = todo[x]
    <3>1. Owed(x, c)' = Owed(x, c) /\ ~Handed(x)
      BY <1>2, <2>3 DEF Owed, Handed
    <3> QED
      BY <1>2, <1>3, <1>4, <2>1, <3>1 DEF x
  <2>4. CASE InstanceStep(x) /\ todo[x] = <<>> /\ todo'[x] = Outputs[p]
    <3>1. Owed(x, c)' = 1 /\ Owed(x, c) = 0 /\ Handed(x)
      BY <1>2, <2>4 DEF Owed, Handed
    <3> QED
      BY <1>2, <1>4, <2>1, <2>4, <3>1 DEF x
  <2> QED
    BY <2>2, <2>3, <2>4
<1> QED
  BY <1>5, <1>6

\* How a record is taken up.
LEMMA HandedBy ==
  ASSUME TypeOK, NEW x \in Instances, InstanceStep(x), Consumers(x[1]) # {}, Handed(x)
  PROVE  \/ Generate(x) \/ EmitUnmatched(x) \/ (ProbeRecord(x) /\ ~CtxDone(x[1]))
         \/ \E p \in Producers(x[1]) : Merge(x, p)
<1>1. todo'[x] # <<>>
  BY AllOutputs, Populace DEF Handed
<1>2. ~Send(x) /\ ~(UNCHANGED todo)
  BY <1>1 DEF Send, Handed
<1> QED
  BY <1>2 DEF InstanceStep, Birth, Prepare, Return, Retry, Close, Exhausted, GiveUp, Passed,
     Drained, StartProbe, ProbeRecord, Joined, Receive, EndOfStream, StopReading, EndRead, Build

\* A record is taken up by one module only, and a source counts it.
LEMMA SourceStep ==
  ASSUME SingleProducers, ChannelInv, [Next]_vars, NEW p \in Tasks, NEW c \in Consumers(p),
         Kind[p] = "source", Given(p, c) = sent[First(p)]
  PROVE  Given(p, c)' = sent'[First(p)]
<1> DEFINE x == First(p)
<1>1. TypeOK /\ PhaseInv /\ InstanceInv
  BY DEF ChannelInv
<1>2. x \in Instances /\ x[1] = p /\ sent \in [Instances -> Nat] /\ Outputs[p] # <<>>
  <2>1. Outputs[p] # <<>>
    BY GivenStep, AllOutputs
  <2> QED
    BY <1>1, <2>1, Populace DEF TypeOK
<1> HIDE DEF x
<1>3. CASE Generate(x)
  <2>1. Handed(x) /\ sent'[x] = sent[x] + 1
    BY <1>1, <1>2, <1>3 DEF Generate, Handed, TypeOK
  <2> QED
    BY <2>1, GivenStep DEF x
<1>4. CASE ~Generate(x)
  <2>1. ~Handed(x)
    <3>1. CASE InstanceStep(x)
      BY <1>1, <1>2, <1>4, <3>1, HandedBy DEF EmitUnmatched, ProbeRecord, Merge, At
    <3>2. CASE Unmoved(x)
      BY <1>2, <3>2 DEF Unmoved, Handed
    <3> QED
      BY <1>1, <1>2, <3>1, <3>2, Quiet
  <2>2. sent'[x] = sent[x]
    <3>1. CASE InstanceStep(x)
      <4>1. ~EmitUnmatched(x)
        BY <1>2 DEF EmitUnmatched, At
      <4> QED
        BY <1>4, <3>1, <4>1 DEF InstanceStep, Birth, Prepare, Return, Retry, Close, Exhausted, GiveUp,
           Passed, Send, Drained, StartProbe, ProbeRecord, Joined, Receive, EndOfStream, StopReading,
           EndRead, Merge, Build
    <3>2. CASE Unmoved(x)
      BY <3>2 DEF Unmoved
    <3> QED
      BY <1>1, <1>2, <3>1, <3>2, Quiet
  <2> QED
    BY <2>1, <2>2, GivenStep DEF x
<1> QED
  BY <1>3, <1>4

\* A drain hands nothing on.
LEMMA SinkStep ==
  ASSUME SingleProducers, ChannelInv, [Next]_vars, NEW p \in Tasks, NEW c \in Consumers(p),
         Kind[p] = "sink", Given(p, c) = 0
  PROVE  Given(p, c)' = 0
<1>1. ~Handed(First(p))
  <2> SUFFICES ASSUME Handed(First(p)) PROVE FALSE
    OBVIOUS
  <2> DEFINE x == First(p)
  <2>1. TypeOK /\ InstanceStep(x) /\ x \in Instances /\ x[1] = p /\ Handed(x) /\ Consumers(p) # {}
    BY GivenStep, Populace DEF ChannelInv
  <2> HIDE DEF x
  <2>2. \/ Generate(x) \/ EmitUnmatched(x) \/ ProbeRecord(x) \/ \E q \in Producers(p) : Merge(x, q)
    BY <2>1, HandedBy
  <2> QED
    BY <2>1, <2>2 DEF Generate, EmitUnmatched, ProbeRecord, Merge, At
<1> QED
  BY <1>1, GivenStep

\* The records a task took in, as a set of pairs.
LEMMA TakenPairs ==
  ASSUME NEW g \in [Links -> Nat], NEW p \in Tasks
  PROVE  UNION {{q} \X (1..g[<<q, p>>]) : q \in Producers(p)}
           = {e \in Producers(p) \X Nat : e[2] \in 1..g[<<e[1], p>>]}
<1>1. \A q \in Producers(p) : g[<<q, p>>] \in Nat
  BY Topology
<1>2. \A q \in Producers(p) : 1..g[<<q, p>>] \subseteq Nat
  BY <1>1
<1> DEFINE T == UNION {{q} \X (1..g[<<q, p>>]) : q \in Producers(p)}
<1>3. ASSUME NEW e \in T PROVE e \in Producers(p) \X Nat /\ e[2] \in 1..g[<<e[1], p>>]
  <2>1. PICK q \in Producers(p) : e \in {q} \X (1..g[<<q, p>>])
    BY <1>3
  <2> QED
    BY <1>2, <2>1
<1>4. ASSUME NEW e \in Producers(p) \X Nat, e[2] \in 1..g[<<e[1], p>>] PROVE e \in T
  <2>1. e = <<e[1], e[2]>> /\ e[1] \in Producers(p)
    OBVIOUS
  <2>2. e \in {e[1]} \X (1..g[<<e[1], p>>])
    BY <1>4, <2>1
  <2> QED
    BY <2>1, <2>2
<1> QED
  BY <1>3, <1>4

\* One record more that is taken in is one more in the count.
LEMMA TakenGrows ==
  ASSUME TypeOK, TypeOK', NEW p \in Tasks, NEW q \in Producers(p), IsFiniteSet(Taken(p)),
         got' = [got EXCEPT ![<<q, p>>] = @ + 1]
  PROVE  IsFiniteSet(Taken(p)') /\ Cardinality(Taken(p)') = Cardinality(Taken(p)) + 1
<1> DEFINE e == <<q, got[<<q, p>>] + 1>>
<1>1. got[<<q, p>>] \in Nat /\ <<q, p>> \in Links
  BY Topology DEF TypeOK
<1>2. /\ Taken(p) = {d \in Producers(p) \X Nat : d[2] \in 1..got[<<d[1], p>>]}
      /\ Taken(p)' = {d \in Producers(p) \X Nat : d[2] \in 1..got'[<<d[1], p>>]}
  <2> DEFINE All(g)  == UNION {{r} \X (1..g[<<r, p>>]) : r \in Producers(p)}
             Some(g) == {d \in Producers(p) \X Nat : d[2] \in 1..g[<<d[1], p>>]}
  <2>1. \A g \in [Links -> Nat] : All(g) = Some(g)
    BY TakenPairs
  <2>2. Taken(p) = All(got) /\ Taken(p)' = All(got')
    BY DEF Taken
  <2>3. got \in [Links -> Nat] /\ got' \in [Links -> Nat]
    BY DEF TypeOK
  <2>4. All(got) = Some(got) /\ All(got') = Some(got')
    <3> HIDE DEF All, Some
    <3> QED
      BY <2>1, <2>3
  <2> QED
    BY <2>2, <2>4
<1>3. e \in Producers(p) \X Nat /\ e \notin Taken(p)
  BY <1>1, <1>2
<1>4. ASSUME NEW d \in Producers(p) \X Nat
      PROVE  d[2] \in 1..got'[<<d[1], p>>] <=> d[2] \in 1..got[<<d[1], p>>] \/ d = e
  <2>1. d = <<d[1], d[2]>> /\ d[1] \in Producers(p) /\ d[2] \in Nat /\ <<d[1], p>> \in Links
    BY Topology
  <2>2. CASE d[1] = q
    <3>1. got'[<<d[1], p>>] = got[<<q, p>>] + 1 /\ got[<<d[1], p>>] = got[<<q, p>>]
      BY <1>1, <2>2 DEF TypeOK
    <3> HIDE DEF TypeOK
    <3> QED
      BY <1>1, <2>1, <2>2, <3>1
  <2>3. CASE d[1] # q
    <3>1. got'[<<d[1], p>>] = got[<<d[1], p>>] /\ d # e
      BY <1>1, <2>1, <2>3 DEF TypeOK
    <3> QED
      BY <3>1
  <2> QED
    BY <2>2, <2>3
<1>5. Taken(p)' = Taken(p) \cup {e}
  BY <1>2, <1>3, <1>4
<1> HIDE DEF e
<1> QED
  BY <1>3, <1>5, FS_AddElement

\* What a passthrough took in is given on, or held by a reader.
LEMMA PassStep ==
  ASSUME SingleProducers, ChannelInv, ChannelInv', GivenInv, [Next]_vars,
         NEW p \in Tasks, NEW c \in Consumers(p), Kind[p] = "passthrough"
  PROVE  /\ IsFiniteSet(Taken(p)')
         /\ ~CtxDone(p)' \/ Producers(p) = {} =>
              Given(p, c)' + Cardinality(Holders(First(p))') = Cardinality(Taken(p)')
         /\ ipc'[First(p)] \in Over /\ ierr'[First(p)] = "none" =>
              Given(p, c)' = Cardinality(Taken(p)')
<1> DEFINE x == First(p)
           T == Taken(p)
           H == Holders(x)
           G == Given(p, c)
<1>1. TypeOK /\ TypeOK' /\ PhaseInv /\ InstanceInv /\ TodoInv
  BY DEF ChannelInv
<1>2. /\ x \in Instances /\ x[1] = p /\ Outputs[p] # <<>>
      /\ \A y \in Instances : y[1] = p => y = x
  <2>1. Outputs[p] # <<>>
    BY GivenStep, AllOutputs
  <2>2. \A y \in Instances : y[1] = p => y = x
    BY OneProducer
  <2> QED
    BY <2>1, <2>2, Populace
<1>3. /\ IsFiniteSet(T) /\ Cardinality(T) \in Nat /\ G \in Nat
      /\ ~CtxDone(p) \/ Producers(p) = {} => G + Cardinality(H) = Cardinality(T)
      /\ ipc[x] \in Over /\ ierr[x] = "none" => G = Cardinality(T)
  <2>1. IsFiniteSet(T) /\ G \in Nat
    BY GivenStep DEF GivenInv
  <2> QED
    BY <2>1, FS_CardinalityType DEF GivenInv
<1>4. H \subseteq Producers(p) /\ IsFiniteSet(H) /\ Cardinality(H) \in Nat
  <2>1. H \subseteq Producers(p) /\ Producers(p) \subseteq Tasks
    BY <1>2 DEF Holders, Producers
  <2> QED
    BY <2>1, FiniteTasks
<1>5. /\ Handed(x) => InstanceStep(x) /\ G' = G + 1
      /\ ~Handed(x) => G' = G
  BY GivenStep
<1>6. ~CtxDone(p)' => ~CtxDone(p)
  BY <1>1, CtxKept
<1>7. ~Retry(x) /\ \A q \in Producers(p) : ~Building(x, q) /\ ~Probing(x, q)
  <2>1. ~MayRetry(x)
    <3>1. Known(x) /\ Attempts[p] \in Nat
      BY <1>1, <1>2, PipelineAssumption DEF InstanceInv
    <3> QED
      BY <1>2, <3>1 DEF MayRetry, Known
  <2> QED
    BY <1>2, <2>1 DEF Retry, Building, Probing
<1> HIDE DEF x, T, H, G
<1>8. ASSUME NEW q \in Producers(p), Receive(x, q)
      PROVE  /\ IsFiniteSet(T') /\ (~CtxDone(p)' => G' + Cardinality(H') = Cardinality(T'))
             /\ ~(ipc'[x] \in Over /\ ierr'[x] = "none")
  <2>1. /\ got' = [got EXCEPT ![<<q, p>>] = @ + 1] /\ reader' = [reader EXCEPT ![<<x, q>>] = "hold"]
        /\ reader[<<x, q>>] = "read" /\ UNCHANGED <<ipc, ierr, todo>>
    BY <1>2, <1>7, <1>8 DEF Receive, Pull, TakeIn
  <2>2. IsFiniteSet(T') /\ Cardinality(T') = Cardinality(T) + 1
    BY <1>1, <1>3, <2>1, TakenGrows DEF T
  <2>3. H' = H \cup {q} /\ q \notin H
    BY <1>1, <1>2, <2>1, Populace, SMTT(60) DEF H, Holders, TypeOK
  <2>4. Cardinality(H') = Cardinality(H) + 1
    BY <1>4, <2>3, FS_AddElement
  <2>5. G' = G
    BY <1>2, <1>5, <2>1 DEF Handed
  <2>6. ~(ipc[x] \in Over /\ ierr[x] = "none")
    BY <1>1, <1>2, <2>1 DEF InstanceInv, Complete, AllRead
  <2>7. CtxDone(p)' \/ G + Cardinality(H) = Cardinality(T)
    BY <1>3, <1>6
  <2>8. ~CtxDone(p)' => G' + Cardinality(H') = Cardinality(T')
    BY <1>3, <1>4, <2>2, <2>4, <2>5, <2>7
  <2> QED
    BY <2>1, <2>2, <2>6, <2>8
<1>9. ASSUME \A q \in Producers(p) : ~Receive(x, q) PROVE T' = T
  <2>1. ASSUME NEW q \in Producers(p) PROVE got'[<<q, p>>] = got[<<q, p>>]
    <3>1. q \in Tasks /\ p \in Consumers(q)
      BY Topology
    <3>2. LinkMove(q, p)
      BY <1>1, <3>1, LinkStep
    <3> QED
      BY <1>2, <1>7, <1>9, <3>2 DEF LinkMove, Still, Build
  <2> QED
    BY <2>1 DEF T, Taken
<1>10. ASSUME NEW q \in Producers(p), Merge(x, q)
       PROVE  /\ IsFiniteSet(T') /\ (~CtxDone(p)' => G' + Cardinality(H') = Cardinality(T'))
              /\ ~(ipc'[x] \in Over)
  <2>1. /\ reader[<<x, q>>] = "hold" /\ reader' = [reader EXCEPT ![<<x, q>>] = "read"]
        /\ todo[x] = <<>> /\ todo' = [todo EXCEPT ![x] = Outputs[p]] /\ ipc' = ipc /\ ipc[x] = "perform"
        /\ got' = got
    BY <1>2, <1>10 DEF Merge, At
  <2>2. T' = T
    BY <2>1 DEF T, Taken
  <2>3. H' = H \ {q} /\ q \in H
    <3>1. \A r \in Producers(p) : reader'[<<x, r>>] = (IF r = q THEN "read" ELSE reader[<<x, r>>])
      BY <1>1, <1>2, <2>1, Populace, ZenonT(60) DEF TypeOK
    <3> QED
      BY <1>2, <2>1, <3>1 DEF H, Holders
  <2>4. Cardinality(H') = Cardinality(H) - 1
    BY <1>4, <2>3, FS_RemoveElement
  <2>5. G' = G + 1
    BY <1>1, <1>2, <1>5, <2>1 DEF Handed, TypeOK
  <2>6. CtxDone(p)' \/ G + Cardinality(H) = Cardinality(T)
    BY <1>3, <1>6
  <2>7. ~CtxDone(p)' => G' + Cardinality(H') = Cardinality(T')
    BY <1>3, <1>4, <2>2, <2>4, <2>5, <2>6
  <2> QED
    BY <1>3, <2>1, <2>2, <2>7 DEF Over
<1>11. ASSUME \A q \in Producers(p) : ~Receive(x, q) /\ ~Merge(x, q)
       PROVE  /\ IsFiniteSet(T')
              /\ (~CtxDone(p)' \/ Producers(p) = {} => G' + Cardinality(H') = Cardinality(T'))
              /\ ipc'[x] \in Over /\ ierr'[x] = "none" => G' = Cardinality(T')
  <2>1. T' = T
    BY <1>9, <1>11
  <2>2. G' = G
    <3>1. ~Handed(x)
      <4> SUFFICES ASSUME Handed(x) PROVE FALSE
        OBVIOUS
      <4>1. InstanceStep(x)
        BY <1>5
      <4>2. Generate(x) \/ EmitUnmatched(x) \/ ProbeRecord(x)
        BY <1>1, <1>2, <1>11, <4>1, HandedBy
      <4> QED
        BY <1>2, <4>2 DEF Generate, EmitUnmatched, ProbeRecord, At
    <3> QED
      BY <1>5, <3>1
  <2>3. ASSUME ~CtxDone(p) \/ Producers(p) = {} PROVE H' = H
    <3>1. ASSUME NEW q \in Producers(p) PROVE reader'[<<x, q>>] = "hold" <=> reader[<<x, q>>] = "hold"
      <4>1. CASE Unmoved(x)
        BY <1>2, <4>1 DEF Unmoved
      <4>2. CASE InstanceStep(x)
        <5>1. ReaderMove(x, q)
          BY <1>1, <1>2, <4>2, ReaderStep
        <5>2. ~StopReading(x, q)
          BY <1>2, <1>7, <2>3 DEF StopReading, EndRead
        <5>3. Prepare(x) => reader[<<x, q>>] = "idle"
          BY <1>1, <1>2 DEF Prepare, InstanceInv, Clean, Fresh
        <5>4. ~Build(x, q)
          BY <1>7 DEF Build
        <5> QED
          BY <1>7, <1>11, <5>1, <5>2, <5>3, <5>4 DEF ReaderMove
      <4> QED
        BY <1>1, <1>2, <4>1, <4>2, Quiet
    <3> QED
      BY <1>2, <3>1 DEF H, Holders
  <2>4. ~CtxDone(p)' \/ Producers(p) = {} => G' + Cardinality(H') = Cardinality(T')
    BY <1>3, <1>6, <2>1, <2>2, <2>3
  <2>5. ASSUME ipc'[x] \in Over, ierr'[x] = "none" PROVE G' = Cardinality(T')
    <3>1. CASE ipc[x] \in Over /\ ierr[x] = "none"
      BY <1>3, <2>1, <2>2, <3>1
    <3>2. CASE ~(ipc[x] \in Over /\ ierr[x] = "none")
      <4>1. InstanceStep(x)
        BY <1>1, <1>2, <2>5, <3>2, Quiet DEF Unmoved, Over, Fresh
      <4>2. Passed(x) /\ Return(x, "none")
        <5>1. /\ Exhausted(x) \/ Passed(x) \/ Drained(x) \/ Joined(x)
              /\ Return(x, "none")
          BY <1>1, <1>2, <2>5, <3>2, <4>1, SuccessReached
        <5> QED
          BY <1>2, <5>1 DEF Exhausted, Drained, Joined, At
      <4>3. H = {}
        BY <1>2, <4>2 DEF Passed, AllRead, H, Holders
      <4>4. ~CtxDone(p) \/ Producers(p) = {}
        <5> SUFFICES ASSUME CtxDone(p), Producers(p) # {} PROVE FALSE
          OBVIOUS
        <5>1. Return(x, "ctx")
          BY <1>2, <4>2 DEF Passed
        <5> QED
          BY <1>1, <1>2, <4>2, <5>1 DEF Return, TypeOK
      <4>5. G + Cardinality(H) = Cardinality(T) /\ Cardinality(H) = 0
        BY <1>3, <4>3, <4>4, FS_EmptySet
      <4> QED
        BY <1>3, <2>1, <2>2, <4>5
    <3> QED
      BY <3>1, <3>2
  <2> QED
    BY <1>3, <2>1, <2>4, <2>5
<1>12. \A q \in Producers(p) : Producers(p) # {}
  OBVIOUS
<1> QED
  BY <1>8, <1>10, <1>11, <1>12 DEF x, T, H, G

\* An instance that has not called Perform had not called it before the step.
LEMMA FreshBefore ==
  ASSUME TypeOK, PhaseInv, InstanceInv, [Next]_vars, NEW x \in Instances, ipc'[x] \in Fresh
  PROVE  ipc[x] \in Fresh
<1>1. CASE Unmoved(x)
  BY <1>1 DEF Unmoved
<1>2. CASE InstanceStep(x)
  <2>0. ipc \in [Instances -> {"idle", "born", "setup", "perform", "close", "done", "dropped"}]
    BY DEF TypeOK
  <2>1. ASSUME NEW err, Return(x, err) PROVE FALSE
    BY <2>0, <2>1 DEF Return, Fresh
  <2>2. ~Ends(x)
    BY <2>1, EndsReturn
  <2>3. CASE Birth(x) \/ Prepare(x) \/ Close(x) \/ Retry(x)
    <3>1. ipc[x] \in {"born", "setup"} \/ ipc' = [ipc EXCEPT ![x] = "done"] \/ ipc' = [ipc EXCEPT ![x] = "perform"]
      BY <2>3 DEF Birth, Prepare, Close, Retry
    <3> QED
      BY <2>0, <3>1 DEF Fresh
  <2>4. CASE StartProbe(x) \/ ProbeRecord(x)
    <3>1. ipc' = ipc \/ ipc' = [ipc EXCEPT ![x] = "close"]
      BY <2>1, <2>4 DEF StartProbe, ProbeRecord
    <3> QED
      BY <2>0, <3>1 DEF Fresh
  <2>5. CASE Generate(x) \/ Send(x) \/ EmitUnmatched(x)
             \/ \E p \in Producers(x[1]) : Receive(x, p) \/ EndOfStream(x, p) \/ StopReading(x, p)
                                          \/ Merge(x, p) \/ Build(x, p)
    <3>1. UNCHANGED ipc
      BY <2>5 DEF Generate, Send, EmitUnmatched, Receive, EndOfStream, StopReading, EndRead, Merge, Build
    <3> QED
      BY <3>1
  <2> QED
    BY <1>2, <2>2, <2>3, <2>4, <2>5 DEF InstanceStep, Ends
<1> QED
  BY <1>1, <1>2, Quiet

\* The producers' half of the invariant is kept.
LEMMA GivenInvStep ==
  ASSUME SingleProducers, ChannelInv, ChannelInv', GivenInv, [Next]_vars
  PROVE  GivenInv'
<1>1. TypeOK /\ PhaseInv /\ InstanceInv /\ TodoInv
  BY DEF ChannelInv
<1> SUFFICES ASSUME NEW p \in Tasks, NEW c \in Consumers(p)
    PROVE /\ ipc'[First(p)] \in Fresh => emitted'[<<p, c>>] = 0
          /\ Kind[p] = "source" => Given(p, c)' = sent'[First(p)]
          /\ Kind[p] = "sink" => Given(p, c)' = 0
          /\ Kind[p] = "join" => \A k \in Consumers(p) : Given(p, c)' = Given(p, k)'
          /\ Kind[p] = "passthrough" =>
               /\ IsFiniteSet(Taken(p)')
               /\ ~CtxDone(p)' \/ Producers(p) = {} =>
                    Given(p, c)' + Cardinality(Holders(First(p))') = Cardinality(Taken(p)')
               /\ ipc'[First(p)] \in Over /\ ierr'[First(p)] = "none" =>
                    Given(p, c)' = Cardinality(Taken(p)')
  BY DEF GivenInv
<1>2. /\ ipc[First(p)] \in Fresh => emitted[<<p, c>>] = 0
      /\ Kind[p] = "source" => Given(p, c) = sent[First(p)]
      /\ Kind[p] = "sink" => Given(p, c) = 0
      /\ Kind[p] = "join" => \A k \in Consumers(p) : Given(p, c) = Given(p, k)
  BY DEF GivenInv
<1>3. ipc'[First(p)] \in Fresh => emitted'[<<p, c>>] = 0
  <2> SUFFICES ASSUME ipc'[First(p)] \in Fresh PROVE emitted'[<<p, c>>] = 0
    OBVIOUS
  <2>1. ipc[First(p)] \in Fresh
    BY <1>1, FreshBefore, Populace
  <2>2. \A x \in Instances : x[1] = p => ~Send(x)
    BY <2>1, OneProducer DEF Send, Fresh
  <2>3. LinkMove(p, c)
    BY <1>1, LinkStep
  <2> QED
    BY <1>2, <2>1, <2>2, <2>3 DEF LinkMove, Still
<1>4. Kind[p] = "source" => Given(p, c)' = sent'[First(p)]
  BY <1>2, SourceStep
<1>5. Kind[p] = "sink" => Given(p, c)' = 0
  BY <1>2, SinkStep
<1>6. ASSUME Kind[p] = "join", NEW k \in Consumers(p) PROVE Given(p, c)' = Given(p, k)'
  <2>1. Given(p, c) = Given(p, k)
    BY <1>2, <1>6
  <2> QED
    BY <2>1, GivenStep
<1>7. Kind[p] = "passthrough" =>
        /\ IsFiniteSet(Taken(p)')
        /\ ~CtxDone(p)' \/ Producers(p) = {} =>
             Given(p, c)' + Cardinality(Holders(First(p))') = Cardinality(Taken(p)')
        /\ ipc'[First(p)] \in Over /\ ierr'[First(p)] = "none" =>
             Given(p, c)' = Cardinality(Taken(p)')
  BY PassStep
<1> QED
  BY <1>3, <1>4, <1>5, <1>6, <1>7

\* Nothing is lost while a build phase goes well.
LEMMA BuildBalanceStep ==
  ASSUME SingleProducers, JoinsTryOnce, ChannelInv, ProbeInv, [Next]_vars,
         NEW j \in Tasks, Kind[j] = "join", Consumers(j) # {}, NEW p \in BuildSide(j),
         ~CtxDone(j), ierr[First(j)] = "none", ierr'[First(j)] = "none",
         emitted[<<p, j>>] = got[<<p, j>>] + buffer[<<p, j>>]
                             + (IF reader[<<First(j), p>>] = "hold" THEN 1 ELSE 0)
  PROVE  emitted'[<<p, j>>] = got'[<<p, j>>] + buffer'[<<p, j>>]
                              + (IF reader'[<<First(j), p>>] = "hold" THEN 1 ELSE 0)
<1> DEFINE x == First(j)
           l == <<p, j>>
           r == <<x, p>>
           Kept == /\ emitted'[l] = emitted[l] /\ buffer'[l] = buffer[l] /\ got'[l] = got[l]
           Held == reader'[r] = "hold" <=> reader[r] = "hold"
<1>1. TypeOK /\ PhaseInv /\ InstanceInv /\ TodoInv
  BY DEF ChannelInv
<1>2. /\ x \in Instances /\ x[1] = j /\ p \in Producers(j) /\ p # Probe[j] /\ p \in Tasks
      /\ j \in Consumers(p) /\ l \in Links /\ r \in Readers
  <2>1. x \in Instances /\ x[1] = j
    BY Populace
  <2>2. p \in Producers(j) /\ p # Probe[j]
    BY DEF BuildSide
  <2> QED
    BY <2>1, <2>2, Topology, Populace
<1>3. \A y \in Instances : y[1] = j => y = x
  BY OneProducer
<1>4. Building(x, p) /\ ~Probing(x, p)
  BY <1>2 DEF Building, Probing
<1>5. ~Retry(x)
  BY <1>2, <1>1, NoJoinRetry
<1>6. /\ emitted[l] \in Nat /\ got[l] \in Nat /\ buffer[l] \in Nat
  <2>1. buffer[l] \in 0..BufferSize
    BY <1>1, <1>2 DEF TypeOK
  <2> QED
    BY <1>1, <1>2, <2>1 DEF TypeOK
<1> HIDE DEF x
<1>7. LinkMove(p, j)
  BY <1>1, <1>2, LinkStep
<1>8. CASE Receive(x, p)
  <2>1. /\ reader[r] = "read" /\ reader' = [reader EXCEPT ![r] = "hold"]
        /\ buffer' = [buffer EXCEPT ![l] = @ - 1] /\ UNCHANGED <<got, emitted>>
    BY <1>2, <1>4, <1>8 DEF Receive, Pull, x
  <2>2. reader'[r] = "hold" /\ buffer'[l] = buffer[l] - 1
    BY <1>1, <1>2, <2>1 DEF TypeOK
  <2> QED
    BY <1>6, <2>1, <2>2 DEF x
<1>9. CASE Build(x, p)
  <2>1. /\ reader[r] = "hold" /\ reader' = [reader EXCEPT ![r] = "read"]
        /\ got' = [got EXCEPT ![l] = @ + 1] \/ ierr' = [ierr EXCEPT ![x] = "fail"]
        /\ UNCHANGED <<buffer, emitted>>
    BY <1>2, <1>9 DEF Build, TakeIn
  <2>2. reader'[r] = "read" /\ got'[l] = got[l] + 1
    BY <1>1, <1>2, <2>1 DEF TypeOK, x
  <2> QED
    BY <1>6, <2>1, <2>2 DEF x
<1>10. CASE ~Receive(x, p) /\ ~Build(x, p)
  <2>1. Held
    <3>1. CASE Unmoved(x)
      BY <1>2, <3>1 DEF Unmoved
    <3>2. CASE InstanceStep(x)
      <4>1. ReaderMove(x, p)
        BY <1>1, <1>2, <3>2, ReaderStep
      <4>2. ~StopReading(x, p)
        BY <1>2 DEF StopReading, EndRead, Building, x
      <4>3. Prepare(x) => reader[r] = "idle"
        BY <1>1, <1>2 DEF Prepare, InstanceInv, Clean, Fresh
      <4>4. ~Merge(x, p)
        BY <1>2 DEF Merge, At
      <4> QED
        BY <1>4, <1>5, <1>10, <4>1, <4>2, <4>3, <4>4 DEF ReaderMove
    <3> QED
      BY <1>1, <1>2, <3>1, <3>2, Quiet
  <2>2. Kept \/ (emitted'[l] = emitted[l] + 1 /\ buffer'[l] = buffer[l] + 1 /\ got'[l] = got[l])
    BY <1>3, <1>4, <1>5, <1>7, <1>10 DEF LinkMove, Still
  <2> QED
    BY <1>6, <2>1, <2>2 DEF x
<1> QED
  BY <1>8, <1>9, <1>10

\* A join hands on its first record when its build streams are at their end, and
\* they stay so.
LEMMA WholeStep ==
  ASSUME SingleProducers, JoinsTryOnce, ChannelInv, ReadInv, GivenInv, BuildInv, [Next]_vars,
         NEW j \in Tasks, Kind[j] = "join", NEW k \in Consumers(j), Given(j, k)' > 0
  PROVE  /\ Built(First(j))'
         /\ \A p \in BuildSide(j) : Spent(p, j)' /\ got'[<<p, j>>] = emitted'[<<p, j>>]
<1> DEFINE x == First(j)
           Whole == Built(x) /\ \A p \in BuildSide(j) : Spent(p, j) /\ got[<<p, j>>] = emitted[<<p, j>>]
<1>1. /\ TypeOK /\ PhaseInv /\ InstanceInv /\ TodoInv /\ ProbeInv /\ ReaderInv
      /\ x \in Instances /\ x[1] = j /\ Given(j, k) \in Nat
      /\ \A y \in Instances : y[1] = j => y = x
  <2>1. \A y \in Instances : y[1] = j => y = x
    BY OneProducer
  <2> QED
    BY <2>1, GivenStep, Populace DEF ChannelInv, ReadInv
<1>2. \A p \in BuildSide(j) : /\ p \in Producers(j) /\ p \in Tasks /\ j \in Consumers(p) /\ <<p, j>> \in Links
                             /\ Building(x, p) /\ ~Probing(x, p)
  BY <1>1, Topology DEF BuildSide, Building, Probing
<1>3. ~Retry(x)
  BY <1>1, NoJoinRetry
<1> HIDE DEF x
<1>4. Whole /\ ipc[x] \notin Fresh
  <2>1. CASE Given(j, k) > 0
    <3>1. Whole
      BY <2>1 DEF BuildInv, x
    <3>2. ipc[x] \notin Fresh
      <4> SUFFICES ASSUME ipc[x] \in Fresh PROVE FALSE
        OBVIOUS
      <4>1. emitted[<<j, k>>] = 0 /\ todo[x] = <<>>
        BY <1>1 DEF GivenInv, InstanceInv, Clean, x
      <4>2. Owed(x, k) = 0
        BY <4>1 DEF Owed
      <4> QED
        BY <2>1, <4>1, <4>2 DEF Given, x
    <3> QED
      BY <3>1, <3>2
  <2>2. CASE ~(Given(j, k) > 0)
    <3>1. Handed(x) /\ InstanceStep(x)
      BY <1>1, <2>2, GivenStep DEF x
    <3>2. EmitUnmatched(x) \/ (ProbeRecord(x) /\ ~CtxDone(j))
      <4>1. \/ Generate(x) \/ EmitUnmatched(x) \/ (ProbeRecord(x) /\ ~CtxDone(x[1]))
            \/ \E p \in Producers(x[1]) : Merge(x, p)
        BY <1>1, <3>1, HandedBy
      <4> QED
        BY <1>1, <4>1 DEF Generate, Merge, At
    <3>3. ipc[x] = "perform" /\ ~CtxDone(j) /\ reader[<<x, Probe[j]>>] # "idle"
      <4>1. CASE EmitUnmatched(x)
        <5>1. Probe[j] \in Producers(j)
          BY Constants
        <5> QED
          BY <1>1, <4>1, <5>1 DEF EmitUnmatched, At, AllRead
      <4>2. CASE ProbeRecord(x) /\ ~CtxDone(j)
        BY <1>1, <4>2 DEF ProbeRecord, Pull, At
      <4> QED
        BY <3>2, <4>1, <4>2
    <3>4. Built(x) /\ ierr[x] = "none"
      BY <1>1, <3>3 DEF ProbeInv
    <3>5. ASSUME NEW p \in BuildSide(j) PROVE Spent(p, j) /\ got[<<p, j>>] = emitted[<<p, j>>]
      <4>1. reader[<<x, p>>] = "done"
        BY <1>1, <3>4, <3>5 DEF Built
      <4>2. Spent(p, j)
        BY <1>1, <1>2, <3>3, <3>4, <4>1 DEF ReaderInv, Building
      <4>3. emitted[<<p, j>>] = got[<<p, j>>] + buffer[<<p, j>>]
                                + (IF reader[<<x, p>>] = "hold" THEN 1 ELSE 0)
        BY <3>3, <3>4 DEF BuildInv, x
      <4>4. emitted[<<p, j>>] \in Nat /\ got[<<p, j>>] \in Nat
        BY <1>1, <1>2 DEF TypeOK
      <4> QED
        BY <4>1, <4>2, <4>3, <4>4 DEF Spent
    <3> QED
      BY <3>3, <3>4, <3>5 DEF Fresh
  <2> QED
    BY <2>1, <2>2
<1>5. Built(x)'
  BY <1>1, <1>3, <1>4, BuiltKept
<1>6. ASSUME NEW p \in BuildSide(j) PROVE Spent(p, j)' /\ got'[<<p, j>>] = emitted'[<<p, j>>]
  <2>1. Spent(p, j)' /\ emitted'[<<p, j>>] = emitted[<<p, j>>]
    BY <1>2, <1>4, SpentKept
  <2>2. reader[<<x, p>>] = "done"
    BY <1>1, <1>4 DEF Built
  <2>3. got'[<<p, j>>] = got[<<p, j>>]
    <3>1. LinkMove(p, j)
      BY <1>1, <1>2, LinkStep
    <3> QED
      BY <1>1, <1>2, <1>3, <2>2, <3>1 DEF LinkMove, Still, Build
  <2> QED
    BY <1>4, <2>1, <2>3
<1> QED
  BY <1>5, <1>6 DEF x

\* The invariant of the joins is kept.
LEMMA BuildInvStep ==
  ASSUME SingleProducers, JoinsTryOnce, ChannelInv, ReadInv, GivenInv, BuildInv, [Next]_vars
  PROVE  BuildInv'
<1>1. TypeOK /\ PhaseInv /\ InstanceInv /\ ProbeInv
  BY DEF ChannelInv, ReadInv
<1>2. ASSUME NEW j \in Tasks, Kind[j] = "join", Consumers(j) # {}, ~CtxDone(j)', ierr'[First(j)] = "none",
             NEW p \in BuildSide(j)
      PROVE  emitted'[<<p, j>>] = got'[<<p, j>>] + buffer'[<<p, j>>]
                                  + (IF reader'[<<First(j), p>>] = "hold" THEN 1 ELSE 0)
  <2>1. First(j) \in Instances /\ Kind[First(j)[1]] = "join"
    BY <1>2, Populace
  <2>2. ierr[First(j)] = "none" /\ ~CtxDone(j)
    BY <1>1, <1>2, <2>1, NoJoinRetry, JoinErrKept, CtxKept
  <2>3. emitted[<<p, j>>] = got[<<p, j>>] + buffer[<<p, j>>]
                            + (IF reader[<<First(j), p>>] = "hold" THEN 1 ELSE 0)
    BY <1>2, <2>2 DEF BuildInv
  <2> QED
    BY <1>1, <1>2, <2>2, <2>3, BuildBalanceStep
<1>3. ASSUME NEW j \in Tasks, Kind[j] = "join", NEW k \in Consumers(j), Given(j, k)' > 0
      PROVE  /\ Built(First(j))'
             /\ \A p \in BuildSide(j) : Spent(p, j)' /\ got'[<<p, j>>] = emitted'[<<p, j>>]
  BY <1>3, WholeStep
<1> QED
  BY <1>2, <1>3 DEF BuildInv
-----------------------------------------------------------------------------
(* The theorems.                                                           *)

\* Every step keeps the invariant of the streams, and where no join is tried again
\* that of the joins.
LEMMA StreamStep ==
  ASSUME SingleProducers, StreamInv, [Next]_vars
  PROVE  StreamInv' /\ (JoinsTryOnce /\ BuildInv => BuildInv')
<1>1. ChannelInv /\ ReadInv /\ GivenInv
  BY DEF StreamInv
<1>2. ChannelInv'
  BY <1>1, ChannelStep
<1> QED
  BY <1>1, <1>2, ReadStep, GivenInvStep, BuildInvStep DEF StreamInv

\* No stream has begun at first.
LEMMA StreamInit == Init => StreamInv /\ BuildInv
<1> SUFFICES ASSUME Init PROVE StreamInv /\ BuildInv
  OBVIOUS
<1>1. ChannelInv
  BY ChannelInit
<1>2. /\ \A l \in Links : emitted[l] = 0 /\ got[l] = 0 /\ buffer[l] = 0
      /\ \A r \in Readers : reader[r] = "idle"
      /\ \A x \in Instances : ipc[x] = "idle" /\ todo[x] = <<>> /\ sent[x] = 0
  BY DEF Init
<1>3. ReadInv
  <2>1. ReaderInv
    BY <1>2, Input DEF ReaderInv
  <2>2. ProbeInv
    BY <1>2, Constants, Populace DEF ProbeInv
  <2>3. SuccessInv
    BY <1>2 DEF SuccessInv, Over
  <2>4. BalanceInv
    BY <1>2, Topology DEF BalanceInv
  <2> QED
    BY <2>1, <2>2, <2>3, <2>4 DEF ReadInv
<1>4. ASSUME NEW p \in Tasks, NEW c \in Consumers(p) PROVE Given(p, c) = 0
  <2>1. emitted[<<p, c>>] = 0 /\ todo[First(p)] = <<>>
    BY <1>2, Topology, Populace
  <2>2. Owed(First(p), c) = 0
    BY <2>1 DEF Owed
  <2> QED
    BY <2>1, <2>2 DEF Given
<1>5. ASSUME NEW p \in Tasks PROVE Taken(p) = {} /\ Holders(First(p)) = {}
  <2>1. \A q \in Producers(p) : got[<<q, p>>] = 0 /\ reader[<<First(p), q>>] = "idle"
    BY <1>2, Topology, Populace
  <2>2. Taken(p) = {}
    <3>1. ASSUME NEW e \in Taken(p) PROVE FALSE
      <4>1. PICK q \in Producers(p) : e \in {q} \X (1..got[<<q, p>>])
        BY <3>1 DEF Taken
      <4>2. e[2] \in 1..0
        BY <2>1, <4>1
      <4> QED
        BY <4>2
    <3> QED
      BY <3>1
  <2>3. Holders(First(p)) = {}
    BY <2>1, Populace DEF Holders
  <2> QED
    BY <2>2, <2>3
<1>6. GivenInv
  <2> SUFFICES ASSUME NEW p \in Tasks, NEW c \in Consumers(p)
      PROVE /\ emitted[<<p, c>>] = 0 /\ Given(p, c) = sent[First(p)]
            /\ \A k \in Consumers(p) : Given(p, c) = Given(p, k)
            /\ IsFiniteSet(Taken(p)) /\ Given(p, c) + Cardinality(Holders(First(p))) = Cardinality(Taken(p))
            /\ Given(p, c) = Cardinality(Taken(p)) /\ Given(p, c) = 0
    BY DEF GivenInv
  <2>1. emitted[<<p, c>>] = 0 /\ sent[First(p)] = 0
    BY <1>2, Topology, Populace
  <2>2. /\ IsFiniteSet(Taken(p)) /\ Cardinality(Taken(p)) = 0 /\ Cardinality(Holders(First(p))) = 0
    BY <1>5, FS_EmptySet
  <2> QED
    BY <1>4, <2>1, <2>2
<1>7. BuildInv
  <2>1. ASSUME NEW j \in Tasks, NEW p \in BuildSide(j)
        PROVE  emitted[<<p, j>>] = got[<<p, j>>] + buffer[<<p, j>>]
                                   + (IF reader[<<First(j), p>>] = "hold" THEN 1 ELSE 0)
    <3>1. <<p, j>> \in Links /\ <<First(j), p>> \in Readers
      BY Topology, Populace DEF BuildSide
    <3>2. emitted[<<p, j>>] = 0 /\ got[<<p, j>>] = 0 /\ buffer[<<p, j>>] = 0 /\ reader[<<First(j), p>>] = "idle"
      BY <1>2, <3>1
    <3> QED
      BY <3>2
  <2>2. \A j \in Tasks : \A k \in Consumers(j) : ~(Given(j, k) > 0)
    BY <1>4
  <2> QED
    BY <2>1, <2>2 DEF BuildInv
<1> QED
  BY <1>1, <1>3, <1>6, <1>7 DEF StreamInv

\* Where the records of every stream are is known in every reachable state.
LEMMA StreamInvariant ==
  ASSUME SingleProducers
  PROVE  Spec => []StreamInv
<1>1. StreamInv /\ [Next]_vars => StreamInv'
  BY StreamStep
<1> QED
  BY <1>1, StreamInit, PTL DEF Spec

\* What a task that ended well came to: its instances that ran report success.
LEMMA EndedWell ==
  ASSUME ChannelInv, NEW x \in Instances, result[x[1]] = "ok", ipc[x] = "done"
  PROVE  ierr[x] = "none" /\ ipc[x] \in Over /\ todo[x] = <<>>
<1>1. taskErr[x[1]] = "none"
  BY Populace DEF ChannelInv, PhaseInv
<1>2. ierr[x] = "none"
  BY <1>1 DEF ChannelInv, InstanceInv, Noted
<1> QED
  BY <1>2 DEF ChannelInv, InstanceInv, Complete, Over

\* The invariant says that two tasks that ended well exchanged the whole stream.
LEMMA StreamDelivers ==
  ASSUME SingleProducers, StreamInv
  PROVE  Delivery
<1> SUFFICES ASSUME NEW p \in Tasks, NEW c \in Consumers(p), Kind[c] # "join" \/ p = Probe[c],
                    result[p] = "ok", result[c] = "ok", Ran(p), Ran(c)
             PROVE  got[<<p, c>>] = Volume(p) /\ emitted[<<p, c>>] = Volume(p)
  BY DEF Delivery
<1> DEFINE l == <<p, c>>
           y == First(p)
<1>1. /\ ChannelInv /\ TypeOK /\ SuccessInv /\ BalanceInv /\ GivenInv
  BY DEF StreamInv, ChannelInv, ReadInv
<1>2. c \in Tasks /\ p \in Producers(c) /\ l \in Links
  BY Topology
<1>3. y \in Instances /\ y[1] = p /\ ipc[y] = "done"
  BY OneProducer, Populace DEF Ran
<1>4. ierr[y] = "none" /\ ipc[y] \in Over /\ todo[y] = <<>>
  BY <1>1, <1>3, EndedWell
<1>5. Spent(p, c)
  <2>1. PICK x \in Instances : x[1] = c /\ ipc[x] = "done"
    BY DEF Ran
  <2>2. ierr[x] = "none" /\ ipc[x] \in Over
    BY <1>1, <2>1, EndedWell
  <2> QED
    BY <1>1, <1>2, <2>1, <2>2 DEF SuccessInv, Building
<1>6. emitted[l] = got[l] /\ emitted[l] \in Nat
  <2>1. emitted[l] = got[l] + buffer[l] /\ buffer[l] = 0
    BY <1>1, <1>5 DEF BalanceInv, Spent
  <2>2. emitted[l] \in Nat /\ got[l] \in Nat
    BY <1>1, <1>2 DEF TypeOK
  <2> QED
    BY <2>1, <2>2
<1>7. \A k \in Consumers(p) : Given(p, k) = emitted[<<p, k>>]
  <2>1. \A k \in Consumers(p) : Owed(y, k) = 0
    BY <1>4 DEF Owed
  <2>2. \A k \in Consumers(p) : emitted[<<p, k>>] \in Nat
    BY <1>1, Topology DEF TypeOK
  <2> QED
    BY <2>1, <2>2 DEF Given
<1>8. emitted[l] = Volume(p)
  <2>1. CASE Kind[p] = "source"
    <3>1. Given(p, c) = sent[y] /\ sent[y] = Records
      BY <1>1, <1>3, <1>4, <2>1 DEF GivenInv, SuccessInv
    <3> QED
      BY <1>7, <2>1, <3>1 DEF Volume
  <2>2. CASE Kind[p] = "passthrough"
    <3>1. Given(p, c) = Cardinality(Taken(p))
      BY <1>1, <1>4, <2>2 DEF GivenInv
    <3> QED
      BY <1>7, <2>2, <3>1 DEF Volume
  <2>3. CASE Kind[p] = "join"
    <3>1. Outputs[p][1] \in Consumers(p)
      <4>1. PICK i \in 1..Len(Outputs[p]) : Outputs[p][i] = c
        BY DEF Consumers
      <4>2. 1 \in 1..Len(Outputs[p])
        BY <4>1, Constants
      <4> QED
        BY <4>2 DEF Consumers
    <3>2. Given(p, c) = Given(p, Outputs[p][1])
      BY <1>1, <2>3, <3>1 DEF GivenInv
    <3> QED
      BY <1>7, <2>3, <3>1, <3>2 DEF Volume
  <2>4. CASE Kind[p] = "sink"
    <3>1. Given(p, c) = 0
      BY <1>1, <2>4 DEF GivenInv
    <3> QED
      BY <1>7, <2>4, <3>1 DEF Volume
  <2> QED
    BY <2>1, <2>2, <2>3, <2>4, Constants
<1> QED
  BY <1>6, <1>8

\* A consumer that reports success has the whole stream of a producer that does:
\* whatever the buffers, the order of the goroutines and the moment a context ends,
\* no record is lost, kept in a channel or counted twice.
THEOREM WholeStreams ==
  ASSUME SingleProducers
  PROVE  Spec => []Delivery
<1>1. StreamInv => Delivery
  BY StreamDelivers
<1> QED
  BY <1>1, StreamInvariant, PTL

\* A join emits nothing before it has all of every build stream, and nothing when
\* the context or a limit kept it from reading one to the end.
THEOREM BuildsFirst ==
  ASSUME SingleProducers, JoinsTryOnce
  PROVE  Spec => []WholeBuildSide
<1>1. StreamInv /\ BuildInv => WholeBuildSide
  <2> SUFFICES ASSUME StreamInv, BuildInv, NEW c \in Tasks, NEW k \in Consumers(c), Kind[c] = "join",
                      emitted[<<c, k>>] > 0, NEW p \in BuildSide(c)
               PROVE  closed[<<p, c>>] /\ got[<<p, c>>] = emitted[<<p, c>>]
    BY DEF WholeBuildSide
  <2>1. emitted[<<c, k>>] \in Nat /\ Owed(First(c), k) \in {0, 1}
    BY Topology DEF StreamInv, ChannelInv, TypeOK, Owed
  <2>2. Given(c, k) > 0
    BY <2>1 DEF Given
  <2> QED
    BY <2>2 DEF BuildInv, Spent
<1>2. StreamInv /\ BuildInv /\ [Next]_vars => StreamInv' /\ BuildInv'
  BY StreamStep
<1> QED
  BY <1>1, <1>2, StreamInit, PTL DEF Spec
=============================================================================
