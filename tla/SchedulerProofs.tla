-------------------------- MODULE SchedulerProofs --------------------------
(***************************************************************************)
(* Theorems about Scheduler, for every playbook, pool size and stall       *)
(* tolerance that satisfies the assumptions of Scheduler: who holds which  *)
(* task and when one starts; how a run ends, and that it implements        *)
(* PlaybookRun; its queues, where no wake-up is lost, producers leave      *)
(* workQueue before their consumers, the counters of the shutdown are      *)
(* right, and the workers leave no task behind.                            *)
(***************************************************************************)
EXTENDS SchedulerInvariant, FiniteSetTheorems, TLAPS

USE TasksAssumption, DepsAssumption
USE DEF nodeVars, chanVars, tickVars, endVars, schedVars, workerVars

\* Capacities are natural numbers, and sets of tasks are finite.
LEMMA Finite ==
  /\ ReadyCap \in Nat /\ WorkCap \in Nat /\ Cardinality(Tasks) \in Nat
  /\ \A S \in SUBSET Tasks :
       IsFiniteSet(S) /\ Cardinality(S) \in Nat /\ Cardinality(S) <= Cardinality(Tasks)
<1>1. Cardinality(Tasks) \in Nat /\ Cardinality(Workers) \in Nat
  BY FS_CardinalityType
<1>2. \A S \in SUBSET Tasks : IsFiniteSet(S) /\ Cardinality(S) <= Cardinality(Tasks)
  BY FS_Subset
<1>3. \A S \in SUBSET Tasks : Cardinality(S) \in Nat
  BY <1>2, FS_CardinalityType
<1> QED
  BY <1>1, <1>2, <1>3 DEF ReadyCap, WorkCap

\* What the operations on a channel leave in it.
LEMMA Dequeue ==
  \A s \in Seq(Tasks) : s # <<>> =>
    /\ Head(s) \in Tasks /\ Tail(s) \in Seq(Tasks) /\ Len(Tail(s)) = Len(s) - 1
  OBVIOUS

\* A send adds one entry to the channel.
LEMMA Enlarge ==
  \A s \in Seq(Tasks), t \in Tasks :
    Append(s, t) \in Seq(Tasks) /\ Len(Append(s, t)) = Len(s) + 1
  OBVIOUS

\* A send adds the task to what the channel holds, and repeats none that was absent.
LEMMA RangeAppend ==
  ASSUME NEW s \in Seq(Tasks), NEW t \in Tasks
  PROVE  /\ Range(Append(s, t)) = Range(s) \cup {t}
         /\ IsInjective(s) /\ t \notin Range(s) => IsInjective(Append(s, t))
<1>1. /\ DOMAIN s = 1..Len(s) /\ Len(s) \in Nat
      /\ DOMAIN Append(s, t) = 1..Len(s) + 1
      /\ \A i \in 1..Len(s) : Append(s, t)[i] = s[i]
      /\ Append(s, t)[Len(s) + 1] = t
  OBVIOUS
<1>2. Range(Append(s, t)) = Range(s) \cup {t}
  BY <1>1 DEF Range
<1>3. ASSUME IsInjective(s), t \notin Range(s) PROVE IsInjective(Append(s, t))
  BY <1>1, <1>3 DEF Range, IsInjective
<1> QED
  BY <1>2, <1>3

\* A receive takes the head out of what the channel holds, for good if nothing repeats.
LEMMA RangeTail ==
  ASSUME NEW s \in Seq(Tasks), s # <<>>
  PROVE  /\ Range(s) = {Head(s)} \cup Range(Tail(s))
         /\ IsInjective(s) => IsInjective(Tail(s)) /\ Head(s) \notin Range(Tail(s))
<1>1. /\ DOMAIN s = 1..Len(s) /\ Len(s) \in Nat /\ Head(s) = s[1] /\ 1 \in DOMAIN s
      /\ DOMAIN Tail(s) = 1..Len(s) - 1
      /\ \A i \in 1..Len(s) - 1 : Tail(s)[i] = s[i + 1] /\ i + 1 \in DOMAIN s /\ i + 1 # 1
  OBVIOUS
<1>2. Range(s) = {Head(s)} \cup Range(Tail(s))
  <2>1. ASSUME NEW i \in DOMAIN s, i # 1 PROVE s[i] \in Range(Tail(s))
    <3>1. i - 1 \in 1..Len(s) - 1 /\ (i - 1) + 1 = i
      BY <1>1, <2>1
    <3>2. i - 1 \in DOMAIN Tail(s) /\ Tail(s)[i - 1] = s[i]
      BY <1>1, <3>1
    <3> QED
      BY <3>2 DEF Range
  <2>2. Range(s) \subseteq {Head(s)} \cup Range(Tail(s))
    BY <1>1, <2>1 DEF Range
  <2>3. Range(Tail(s)) \subseteq Range(s) /\ Head(s) \in Range(s)
    BY <1>1 DEF Range
  <2> QED
    BY <2>2, <2>3
<1>3. ASSUME IsInjective(s) PROVE IsInjective(Tail(s)) /\ Head(s) \notin Range(Tail(s))
  BY <1>1, <1>3 DEF Range, IsInjective
<1> QED
  BY <1>2, <1>3
-----------------------------------------------------------------------------
(* Which actions change what.                                              *)

\* A step is one of the scheduling goroutine, of a worker, or a cancellation.
LEMMA SplitNext ==
  [Next]_vars => \/ SchedulerStep
                 \/ \E w \in Workers : WorkerStep(w)
                 \/ ParentCancel
                 \/ UNCHANGED vars
  BY DEF Next, Returned

\* Only dispatch, completion and the signals touch the state of the DAG nodes.
LEMMA NodeFrame ==
  [Next]_vars =>
    \/ UNCHANGED nodeVars
    \/ Dispatch \/ AbortDispatch \/ StoreAborted
    \/ \E d \in Tasks : SignalStream(d)
    \/ \E w \in Workers : Complete(w) \/ WriteStatus(w) \/ \E d \in Tasks : SignalState(w, d)
<1>1. SchedulerStep => \/ UNCHANGED nodeVars \/ Dispatch \/ AbortDispatch \/ StoreAborted
                       \/ \E d \in Tasks : SignalStream(d)
  BY DEF SchedulerStep, LoopStep, TickStep, EndStep, DropReady, PushStream, AddRunning, Enqueue,
         ReceiveFatal, LeaveOnDone, TickCount, TickActive, StableExit, StallExit, TickOver,
         WaitDone, WaitTimeout, WaitCanceled, WaitOver, Finish
<1>2. ASSUME NEW w \in Workers, WorkerStep(w)
      PROVE  UNCHANGED nodeVars \/ Complete(w) \/ WriteStatus(w) \/ \E d \in Tasks : SignalState(w, d)
  BY <1>2 DEF WorkerStep, Pick, Take, WorkerExit, Leave, CountActive, Refuse, Execute, PushState,
              SignalledAll, OfferFatal, DoneRunning, UncountActive, Return
<1> QED
  BY <1>1, <1>2, SplitNext DEF ParentCancel, vars

\* Only the scheduling loop takes from readyChan; it and the workers send to it.
LEMMA ReadyFrame ==
  [Next]_vars =>
    UNCHANGED readyChan \/ DropReady \/ Dispatch \/ PushStream \/ \E w \in Workers : PushState(w)
<1>1. SchedulerStep => UNCHANGED readyChan \/ DropReady \/ Dispatch \/ PushStream
  BY DEF SchedulerStep, LoopStep, TickStep, EndStep, SignalStream, AddRunning, Enqueue,
         AbortDispatch, FailUnqueued, StoreAborted, ReceiveFatal, LeaveOnDone, TickCount,
         TickActive, StableExit, StallExit, TickOver, WaitDone, WaitTimeout, WaitCanceled,
         WaitOver, Finish
<1>2. ASSUME NEW w \in Workers, WorkerStep(w)
      PROVE  UNCHANGED readyChan \/ PushState(w)
  BY <1>2 DEF WorkerStep, Pick, Take, WorkerExit, Leave, CountActive, Refuse, Execute, Complete,
              SetFinal, WriteStatus, SignalState, SignalledAll, OfferFatal, DoneRunning,
              UncountActive, Return
<1> QED
  BY <1>1, <1>2, SplitNext DEF ParentCancel, vars

\* Only the scheduling loop sends to workQueue and only workers take from it.
LEMMA QueueFrame ==
  [Next]_vars => UNCHANGED workQueue \/ Enqueue \/ \E w \in Workers : Pick(w)
<1>1. SchedulerStep => UNCHANGED workQueue \/ Enqueue
  BY DEF SchedulerStep, LoopStep, TickStep, EndStep, DropReady, Dispatch, StartTask, SignalStream,
         PushStream, AddRunning, AbortDispatch, FailUnqueued, StoreAborted, ReceiveFatal,
         LeaveOnDone, TickCount, TickActive, StableExit, StallExit, TickOver, WaitDone,
         WaitTimeout, WaitCanceled, WaitOver, Finish
<1>2. ASSUME NEW w \in Workers, WorkerStep(w)
      PROVE  UNCHANGED workQueue \/ Pick(w)
  BY <1>2 DEF WorkerStep, WorkerExit, Leave, CountActive, Refuse, Execute, Complete, SetFinal,
              WriteStatus, SignalState, PushState, SignalledAll, OfferFatal, DoneRunning,
              UncountActive, Return
<1> QED
  BY <1>1, <1>2, SplitNext DEF ParentCancel, vars

\* A step of the scheduling goroutine leaves the workers alone, and the reverse.
LEMMA ProcessFrame ==
  [Next]_vars =>
    \/ SchedulerStep /\ UNCHANGED workerVars
    \/ \E w \in Workers : WorkerStep(w) /\ UNCHANGED schedVars
    \/ UNCHANGED <<schedVars, workerVars>>
<1>1. SchedulerStep => UNCHANGED workerVars
  BY DEF SchedulerStep, LoopStep, TickStep, EndStep, DropReady, Dispatch, StartTask, SignalStream,
         PushStream, AddRunning, Enqueue, AbortDispatch, FailUnqueued, StoreAborted, ReceiveFatal,
         LeaveOnDone, TickCount, TickActive, StableExit, StallExit, TickOver, WaitDone,
         WaitTimeout, WaitCanceled, WaitOver, Finish
<1>2. ASSUME NEW w \in Workers, WorkerStep(w)
      PROVE  UNCHANGED schedVars
  BY <1>2 DEF WorkerStep, Pick, Take, WorkerExit, Leave, CountActive, Refuse, Execute, Complete,
              SetFinal, WriteStatus, SignalState, PushState, SignalledAll, OfferFatal,
              DoneRunning, UncountActive, Return
<1> QED
  BY <1>1, <1>2, SplitNext DEF ParentCancel, vars
-----------------------------------------------------------------------------
(* Types.                                                                  *)

\* Every initial state is well typed: readyChan starts as an ordering of the
\* tasks that depend on nothing, which its capacity has room for.
LEMMA InitType == Init => TypeOK
<1> SUFFICES ASSUME Init PROVE TypeOK
  OBVIOUS
<1>1. InitialReady \in SUBSET Tasks
  BY DEF InitialReady
<1>2. Cardinality(InitialReady) \in Nat /\ Cardinality(InitialReady) <= Cardinality(Tasks)
  BY <1>1, Finite
<1>3. ReadyType
  <2>1. readyChan \in [1..Cardinality(InitialReady) -> InitialReady]
    BY DEF Init, Orders, Bijection, Injection
  <2>2. readyChan \in Seq(Tasks) /\ Len(readyChan) = Cardinality(InitialReady)
    BY <1>1, <1>2, <2>1
  <2> QED
    BY <1>2, <2>2, FS_CardinalityType DEF ReadyCap, ReadyType
<1>4. NodeType
  BY Finite DEF Init, NodeType, Statuses, StateDependents, StreamDependents
<1>5. QueueType
  BY Finite DEF Init, QueueType
<1>6. LoopType
  <2>1. lastAccounted = -1 /\ -1 \in Int
    BY DEF Init
  <2>2. /\ dispatched = {} /\ spc = "select" /\ cur = NoTask /\ starget = NoTask
        /\ accounted = 0 /\ stallChecks = 0 /\ tickActive = 0
        /\ firstErr = "none" /\ outcome = "unset" /\ report = "unset"
    BY DEF Init
  <2> QED
    BY <2>1, <2>2 DEF LoopType
<1>7. WorkerType
  BY DEF Init, WorkerType, Results
<1>8. SharedType
  <2>1. fatalChan \in BOOLEAN /\ ctxDone \in BOOLEAN
    BY Zenon DEF Init
  <2>2. active \in Int /\ runningWg \in Int
    BY SMT DEF Init
  <2> QED
    BY <2>1, <2>2, Zenon DEF SharedType
<1> QED
  BY <1>3, <1>4, <1>5, <1>6, <1>7, <1>8 DEF TypeOK

\* What a task returned maps to a terminal status.
LEMMA StatusOfType == \A r \in Results : StatusOf[r] \in Terminal
  BY DEF StatusOf, Results, Terminal, Good

\* The statuses and counters of the nodes keep their types.
LEMMA NodeTypeStep == TypeOK /\ PcInv /\ [Next]_vars => NodeType'
<1> SUFFICES ASSUME TypeOK, PcInv, [Next]_vars PROVE NodeType'
  OBVIOUS
<1> USE DEF TypeOK, NodeType
<1>1. CASE UNCHANGED nodeVars
  BY <1>1
<1>2. CASE Dispatch
  BY <1>2 DEF Dispatch, StartTask, Statuses
<1>3. CASE AbortDispatch
  BY <1>3 DEF AbortDispatch, FailUnqueued, Statuses, Terminal
<1>4. CASE StoreAborted
  BY <1>4 DEF StoreAborted, Statuses, Terminal
<1>5. ASSUME NEW d \in Tasks, SignalStream(d) PROVE NodeType'
  <2>1. cur \in Tasks /\ streamTodo[cur] \ {d} \in SUBSET Tasks /\ streamRem[d] - 1 \in Int
    BY <1>5 DEF SignalStream, PcInv, Carrying
  <2> QED
    BY <1>5, <2>1 DEF SignalStream
<1>6. ASSUME NEW w \in Workers, Complete(w) PROVE NodeType'
  BY <1>6, StatusOfType DEF Complete, SetFinal, Statuses, WorkerType
<1>7. ASSUME NEW w \in Workers, WriteStatus(w) PROVE NodeType'
  BY <1>7, StatusOfType DEF WriteStatus, Statuses, WorkerType
<1>8. ASSUME NEW w \in Workers, NEW d \in Tasks, SignalState(w, d) PROVE NodeType'
  <2>1. /\ wtask[w] \in Tasks /\ stateTodo[wtask[w]] \ {d} \in SUBSET Tasks
        /\ stateRem[d] - 1 \in Int
    BY <1>8 DEF SignalState, PcInv, Holding
  <2> QED
    BY <1>8, <2>1 DEF SignalState
<1> QED
  BY <1>1, <1>2, <1>3, <1>4, <1>5, <1>6, <1>7, <1>8, NodeFrame

\* readyChan keeps its type and never exceeds its capacity.
LEMMA ReadyTypeStep == TypeOK /\ PcInv /\ [Next]_vars => ReadyType'
<1> SUFFICES ASSUME TypeOK, PcInv, [Next]_vars PROVE ReadyType'
  OBVIOUS
<1> USE Finite DEF TypeOK, ReadyType
<1>0. ReadyCap' = ReadyCap
  BY DEF ReadyCap
<1>1. CASE UNCHANGED readyChan
  BY <1>0, <1>1
<1>2. CASE DropReady
  BY <1>0, <1>2, Dequeue DEF DropReady
<1>3. CASE Dispatch
  BY <1>0, <1>3, Dequeue DEF Dispatch, StartTask
<1>4. CASE PushStream
  <2>1. starget \in Tasks
    BY <1>4 DEF PushStream, PcInv
  <2>2. \/ readyChan' = readyChan
        \/ Len(readyChan) < ReadyCap /\ readyChan' = Append(readyChan, starget)
    BY <1>4 DEF PushStream
  <2> QED
    BY <1>0, <2>1, <2>2, Enlarge
<1>5. ASSUME NEW w \in Workers, PushState(w) PROVE ReadyType'
  <2>1. wtarget[w] \in Tasks
    BY <1>5 DEF PushState, Goto, PcInv
  <2>2. \/ readyChan' = readyChan
        \/ Len(readyChan) < ReadyCap /\ readyChan' = Append(readyChan, wtarget[w])
    BY <1>5 DEF PushState, Goto
  <2> QED
    BY <1>0, <2>1, <2>2, Enlarge
<1> QED
  BY <1>1, <1>2, <1>3, <1>4, <1>5, ReadyFrame

\* workQueue keeps its type and never exceeds its capacity.
LEMMA QueueTypeStep == TypeOK /\ PcInv /\ [Next]_vars => QueueType'
<1> SUFFICES ASSUME TypeOK, PcInv, [Next]_vars PROVE QueueType'
  OBVIOUS
<1> USE Finite DEF TypeOK, QueueType
<1>0. WorkCap' = WorkCap
  BY DEF WorkCap
<1>1. CASE UNCHANGED workQueue
  BY <1>0, <1>1
<1>2. CASE Enqueue
  BY <1>0, <1>2, Enlarge DEF Enqueue, PcInv, Carrying
<1>3. ASSUME NEW w \in Workers, Pick(w) PROVE QueueType'
  BY <1>0, <1>3, Dequeue DEF Pick, Take
<1> QED
  BY <1>1, <1>2, <1>3, QueueFrame

\* The variables of the scheduling goroutine keep their types.
LEMMA LoopTypeStep == TypeOK /\ PcInv /\ [Next]_vars => LoopType'
<1> SUFFICES ASSUME TypeOK, PcInv, [Next]_vars PROVE LoopType'
  OBVIOUS
<1> USE DEF TypeOK, LoopType
<1>1. CASE UNCHANGED schedVars
  BY <1>1
<1>2. CASE DropReady
  BY <1>2 DEF DropReady
<1>3. CASE Dispatch
  BY <1>3, Dequeue DEF Dispatch, StartTask, ReadyType
<1>4. CASE PushStream
  BY <1>4 DEF PushStream
<1>5. CASE AddRunning \/ Enqueue
  BY <1>5 DEF AddRunning, Enqueue
<1>6. CASE AbortDispatch \/ StoreAborted
  BY <1>6 DEF AbortDispatch, FailUnqueued, StoreAborted
<1>7. CASE ReceiveFatal \/ LeaveOnDone
  BY <1>7 DEF ReceiveFatal, LeaveOnDone
<1>8. ASSUME NEW d \in Tasks, SignalStream(d) PROVE LoopType'
  BY <1>8 DEF SignalStream
<1>9. CASE TickStep
  <2>1. Cardinality({t \in Tasks : status[t] \in Terminal}) \in Int
    BY Finite
  <2> QED
    BY <1>9, <2>1 DEF TickStep, TickCount, TickActive, StableExit, StallExit, TickOver, SharedType
<1>10. CASE EndStep
  BY <1>10 DEF EndStep, WaitDone, WaitTimeout, WaitCanceled, WaitOver, FinalOutcome, Finish
<1> QED
  BY <1>1, <1>2, <1>3, <1>4, <1>5, <1>6, <1>7, <1>8, <1>9, <1>10, ProcessFrame
     DEF SchedulerStep, LoopStep

\* The shared counters and flags keep their types.
LEMMA SharedTypeStep == TypeOK /\ [Next]_vars => SharedType'
<1> SUFFICES ASSUME TypeOK, [Next]_vars PROVE SharedType'
  OBVIOUS
<1> USE DEF TypeOK, SharedType
<1>1. CASE UNCHANGED <<fatalChan, ctxDone, active, runningWg>>
  BY <1>1
<1>2. CASE AddRunning \/ AbortDispatch
  BY <1>2 DEF AddRunning, AbortDispatch, FailUnqueued
<1>3. CASE ReceiveFatal \/ StallExit \/ Finish \/ ParentCancel
  BY <1>3 DEF ReceiveFatal, StallExit, Finish, ParentCancel
<1>4. ASSUME NEW w \in Workers, CountActive(w) \/ UncountActive(w) \/ DoneRunning(w)
      PROVE  SharedType'
  BY <1>4 DEF CountActive, UncountActive, DoneRunning
<1>5. ASSUME NEW w \in Workers, OfferFatal(w) PROVE SharedType'
  BY <1>5 DEF OfferFatal
<1>6. SchedulerStep => \/ UNCHANGED <<fatalChan, ctxDone, active, runningWg>>
                       \/ AddRunning \/ AbortDispatch \/ ReceiveFatal \/ StallExit \/ Finish
  BY DEF SchedulerStep, LoopStep, TickStep, EndStep, DropReady, Dispatch, StartTask, SignalStream,
     PushStream, Enqueue, StoreAborted, LeaveOnDone, TickCount, TickActive, StableExit, TickOver,
     WaitDone, WaitTimeout, WaitCanceled, WaitOver
<1>7. ASSUME NEW w \in Workers, WorkerStep(w)
      PROVE  \/ UNCHANGED <<fatalChan, ctxDone, active, runningWg>>
             \/ CountActive(w) \/ UncountActive(w) \/ DoneRunning(w) \/ OfferFatal(w)
  BY <1>7 DEF WorkerStep, Pick, Take, WorkerExit, Leave, Refuse, Execute, Complete, SetFinal,
     WriteStatus, SignalState, PushState, SignalledAll, Return
<1>8. CASE UNCHANGED vars
  BY <1>1, <1>8 DEF vars
<1> QED
  BY <1>1, <1>2, <1>3, <1>4, <1>5, <1>6, <1>7, <1>8, SplitNext

\* The variables of the workers keep their types.
LEMMA WorkerTypeStep == TypeOK /\ [Next]_vars => WorkerType'
<1> SUFFICES ASSUME TypeOK, [Next]_vars PROVE WorkerType'
  OBVIOUS
<1> USE DEF TypeOK, WorkerType, Goto
<1>1. CASE UNCHANGED workerVars
  BY <1>1
<1>2. ASSUME NEW w \in Workers, Pick(w) PROVE WorkerType'
  BY <1>2, Dequeue DEF Pick, Take, QueueType
<1>3. ASSUME NEW w \in Workers, WorkerExit(w) \/ CountActive(w) \/ Execute(w) PROVE WorkerType'
  BY <1>3 DEF WorkerExit, Leave, CountActive, Execute
<1>4. ASSUME NEW w \in Workers, Refuse(w) PROVE WorkerType'
  BY <1>4 DEF Refuse, Results
<1>5. ASSUME NEW w \in Workers, NEW r \in Results, Return(w, r) PROVE WorkerType'
  BY <1>5 DEF Return
<1>6. ASSUME NEW w \in Workers, Complete(w) PROVE WorkerType'
  BY <1>6 DEF Complete, SetFinal
<1>7. ASSUME NEW w \in Workers, WriteStatus(w) PROVE WorkerType'
  BY <1>7 DEF WriteStatus, AfterWrite
<1>8. ASSUME NEW w \in Workers, NEW d \in Tasks, SignalState(w, d) PROVE WorkerType'
  BY <1>8 DEF SignalState
<1>9. ASSUME NEW w \in Workers, PushState(w) PROVE WorkerType'
  BY <1>9 DEF PushState
<1>10. ASSUME NEW w \in Workers, SignalledAll(w) \/ OfferFatal(w) \/ UncountActive(w)
       PROVE  WorkerType'
  BY <1>10 DEF SignalledAll, OfferFatal, UncountActive
<1>11. ASSUME NEW w \in Workers, DoneRunning(w) PROVE WorkerType'
  BY <1>11 DEF DoneRunning, Results
<1> QED
  BY <1>1, <1>2, <1>3, <1>4, <1>5, <1>6, <1>7, <1>8, <1>9, <1>10, <1>11, ProcessFrame
     DEF WorkerStep

\* TypeOK is inductive relative to PcInv.
LEMMA TypeStep == TypeOK /\ PcInv /\ [Next]_vars => TypeOK'
  BY NodeTypeStep, ReadyTypeStep, QueueTypeStep, LoopTypeStep, SharedTypeStep, WorkerTypeStep
     DEF TypeOK
-----------------------------------------------------------------------------
(* Control points.                                                         *)

\* Every control point that uses a task is reached with a task in hand.
LEMMA PcStep == TypeOK /\ PcInv /\ [Next]_vars => PcInv'
<1> SUFFICES ASSUME TypeOK, PcInv, [Next]_vars PROVE PcInv'
  OBVIOUS
<1> USE DEF TypeOK, PcInv, Carrying, Holding
<1>1. CASE UNCHANGED <<schedVars, workerVars>>
  BY <1>1
<1>2. CASE SchedulerStep /\ UNCHANGED workerVars
  <2>1. CASE DropReady \/ AddRunning \/ Enqueue \/ StoreAborted \/ ReceiveFatal \/ LeaveOnDone
    BY <1>2, <2>1 DEF DropReady, AddRunning, Enqueue, StoreAborted, ReceiveFatal, LeaveOnDone
  <2>2. CASE Dispatch
    BY <1>2, <2>2, Dequeue DEF Dispatch, StartTask, ReadyType
  <2>3. CASE PushStream
    BY <1>2, <2>3 DEF PushStream
  <2>4. CASE AbortDispatch
    BY <1>2, <2>4 DEF AbortDispatch, FailUnqueued
  <2>5. ASSUME NEW d \in Tasks, SignalStream(d) PROVE PcInv'
    BY <1>2, <2>5 DEF SignalStream
  <2>6. CASE TickStep
    BY <1>2, <2>6 DEF TickStep, TickCount, TickActive, StableExit, StallExit, TickOver
  <2>7. CASE EndStep
    BY <1>2, <2>7 DEF EndStep, WaitDone, WaitTimeout, WaitCanceled, WaitOver, Finish
  <2> QED
    BY <1>2, <2>1, <2>2, <2>3, <2>4, <2>5, <2>6, <2>7 DEF SchedulerStep, LoopStep
<1>3. ASSUME NEW w \in Workers, WorkerStep(w), UNCHANGED schedVars PROVE PcInv'
  <2> USE <1>3 DEF WorkerType, Goto
  <2>1. CASE Pick(w)
    BY <2>1, Dequeue DEF Pick, Take, QueueType
  <2>2. CASE WorkerExit(w) \/ CountActive(w) \/ Refuse(w) \/ Execute(w)
    BY <2>2 DEF WorkerExit, Leave, CountActive, Refuse, Execute
  <2>3. ASSUME NEW r \in Results, Return(w, r) PROVE PcInv'
    BY <2>3 DEF Return
  <2>4. CASE Complete(w)
    BY <2>4 DEF Complete, SetFinal
  <2>5. CASE WriteStatus(w)
    BY <2>5 DEF WriteStatus, AfterWrite
  <2>6. ASSUME NEW d \in Tasks, SignalState(w, d) PROVE PcInv'
    BY <2>6 DEF SignalState
  <2>7. CASE PushState(w)
    BY <2>7 DEF PushState
  <2>8. CASE SignalledAll(w) \/ OfferFatal(w) \/ UncountActive(w)
    BY <2>8 DEF SignalledAll, OfferFatal, UncountActive
  <2>9. CASE DoneRunning(w)
    BY <2>9 DEF DoneRunning
  <2> QED
    BY <2>1, <2>2, <2>3, <2>4, <2>5, <2>6, <2>7, <2>8, <2>9 DEF WorkerStep
<1> QED
  BY <1>1, <1>2, <1>3, ProcessFrame

\* TypeOK is an invariant of the scheduler: in particular the two channels of
\* the engine never exceed their capacity and no control point uses a task
\* variable that names no task.
THEOREM TypeCorrect == Spec => []TypeOK
<1>1. Init => TypeOK /\ PcInv
  BY InitType DEF Init, PcInv, Carrying, Holding
<1>2. TypeOK /\ PcInv /\ [Next]_vars => (TypeOK /\ PcInv)'
  BY TypeStep, PcStep
<1> QED
  BY <1>1, <1>2, PTL DEF Spec
-----------------------------------------------------------------------------
(* Signals and counters.                                                   *)

\* A producer signals its dependents only in the state the signal stands for.
LEMMA SignalStep == IInv /\ [Next]_vars => SignalInv'
<1> SUFFICES ASSUME IInv, [Next]_vars PROVE SignalInv'
  OBVIOUS
<1> USE DEF IInv, TypeOK, NodeType, SignalInv
<1>1. CASE UNCHANGED nodeVars
  BY <1>1 DEF StateDependents, StreamDependents
<1>2. CASE Dispatch
  <2>1. cur' \in Tasks /\ status[cur'] = "Pending"
    BY <1>2, Dequeue DEF Dispatch, StartTask, ReadyType
  <2>2. /\ status' = [status EXCEPT ![cur'] = "Running"] /\ store' = [store EXCEPT ![cur'] = "Running"]
        /\ UNCHANGED <<stateTodo, streamTodo>>
    BY <1>2 DEF Dispatch, StartTask
  <2> QED
    BY <2>1, <2>2 DEF StateDependents, StreamDependents, Good
<1>3. CASE AbortDispatch
  <2>1. cur \in Tasks /\ status[cur] = "Running"
    BY <1>3 DEF AbortDispatch, FailUnqueued, PcInv, HolderInv, Carried, Carrying
  <2> QED
    BY <1>3, <2>1 DEF AbortDispatch, FailUnqueued, StateDependents, StreamDependents, Good
<1>4. CASE StoreAborted
  <2>1. cur \in Tasks /\ status[cur] = "Failed"
    BY <1>4 DEF StoreAborted, PcInv, HolderInv
  <2> QED
    BY <1>4, <2>1 DEF StoreAborted, StateDependents, StreamDependents, Good
<1>5. ASSUME NEW d \in Tasks, SignalStream(d) PROVE SignalInv'
  <2>1. cur \in Tasks /\ status[cur] # "Pending"
    BY <1>5 DEF SignalStream, PcInv, HolderInv, Carried, Carrying
  <2> QED
    BY <1>5, <2>1 DEF SignalStream, StateDependents, StreamDependents
<1>6. ASSUME NEW w \in Workers, Complete(w) PROVE SignalInv'
  <2>1. wtask[w] \in Tasks /\ status[wtask[w]] = "Running"
    BY <1>6 DEF Complete, SetFinal, PcInv, HolderInv, Holding, BeforeCompletion
  <2>2. /\ status' = [status EXCEPT ![wtask[w]] = StatusOf[wres[w]]]
        /\ UNCHANGED <<store, stateTodo, streamTodo>>
    BY <1>6, <2>1 DEF Complete, SetFinal, Terminal, Good
  <2>3. StatusOf[wres[w]] # "Pending"
    BY StatusOfType DEF WorkerType, Terminal, Good
  <2> QED
    BY <2>1, <2>2, <2>3 DEF StateDependents, StreamDependents, Good
<1>7. ASSUME NEW w \in Workers, WriteStatus(w) PROVE SignalInv'
  <2>1. wtask[w] \in Tasks /\ status[wtask[w]] = StatusOf[wres[w]]
    BY <1>7 DEF WriteStatus, Goto, PcInv, HolderInv, Holding
  <2> QED
    BY <1>7, <2>1 DEF WriteStatus, StateDependents, StreamDependents
<1>8. ASSUME NEW w \in Workers, NEW d \in Tasks, SignalState(w, d) PROVE SignalInv'
  <2>1. wtask[w] \in Tasks /\ status[wtask[w]] \in Good /\ store[wtask[w]] = status[wtask[w]]
    BY <1>8 DEF SignalState, PcInv, HolderInv, Holding
  <2> QED
    BY <1>8, <2>1 DEF SignalState, StateDependents, StreamDependents
<1> QED
  BY <1>1, <1>2, <1>3, <1>4, <1>5, <1>6, <1>7, <1>8, NodeFrame

\* Each signal takes one from the counter and one producer from those that owe it.
LEMMA CounterStep == IInv /\ [Next]_vars => CounterInv'
<1> SUFFICES ASSUME IInv, [Next]_vars PROVE CounterInv'
  OBVIOUS
<1> USE DEF IInv, TypeOK, NodeType, CounterInv
<1>1. CASE UNCHANGED <<stateRem, streamRem, stateTodo, streamTodo>>
  BY <1>1 DEF StateOwed, StreamOwed
<1>2. ASSUME NEW d \in Tasks, SignalStream(d) PROVE CounterInv'
  <2>1. cur \in Tasks /\ d \in streamTodo[cur] /\ cur \in StreamDeps[d]
    BY <1>2 DEF SignalStream, PcInv, Carrying, SignalInv, StreamDependents
  <2>2. /\ streamTodo' = [streamTodo EXCEPT ![cur] = @ \ {d}]
        /\ streamRem' = [streamRem EXCEPT ![d] = @ - 1]
        /\ UNCHANGED <<stateRem, stateTodo>>
    BY <1>2 DEF SignalStream
  <2>3. streamTodo' \in [Tasks -> SUBSET Tasks]
    BY <2>1, <2>2
  <2>4. /\ \A t \in Tasks : t # d => StreamOwed(t)' = StreamOwed(t)
        /\ Cardinality(StreamOwed(d)') = Cardinality(StreamOwed(d)) - 1
    <3>1. \A t, q \in Tasks : t \in streamTodo'[q] <=> t \in streamTodo[q] /\ ~(q = cur /\ t = d)
      BY <2>1, <2>2
    <3>2. /\ \A t \in Tasks : t # d => StreamOwed(t)' = StreamOwed(t)
          /\ StreamOwed(d)' = StreamOwed(d) \ {cur} /\ cur \in StreamOwed(d)
      BY <2>1, <3>1 DEF StreamOwed
    <3>3. IsFiniteSet(StreamOwed(d))
      BY Finite DEF StreamOwed
    <3>4. Cardinality(StreamOwed(d) \ {cur}) = Cardinality(StreamOwed(d)) - 1
      BY <3>2, <3>3, FS_RemoveElement
    <3> QED
      BY <3>2, <3>4
  <2>5. \A t \in Tasks : StateOwed(t)' = StateOwed(t)
    BY <2>2 DEF StateOwed
  <2> QED
    BY <2>2, <2>4, <2>5
<1>3. ASSUME NEW w \in Workers, NEW d \in Tasks, SignalState(w, d) PROVE CounterInv'
  <2> DEFINE p == wtask[w]
  <2>1. p \in Tasks /\ d \in stateTodo[p] /\ p \in StateDeps[d]
    BY <1>3 DEF SignalState, PcInv, Holding, SignalInv, StateDependents
  <2>2. /\ stateTodo' = [stateTodo EXCEPT ![p] = @ \ {d}]
        /\ stateRem' = [stateRem EXCEPT ![d] = @ - 1]
        /\ UNCHANGED <<streamRem, streamTodo>>
    BY <1>3 DEF SignalState
  <2> HIDE DEF p
  <2>3. stateTodo' \in [Tasks -> SUBSET Tasks]
    BY <2>1, <2>2
  <2>4. /\ \A t \in Tasks : t # d => StateOwed(t)' = StateOwed(t)
        /\ Cardinality(StateOwed(d)') = Cardinality(StateOwed(d)) - 1
    <3>1. \A t, q \in Tasks : t \in stateTodo'[q] <=> t \in stateTodo[q] /\ ~(q = p /\ t = d)
      BY <2>1, <2>2
    <3>2. /\ \A t \in Tasks : t # d => StateOwed(t)' = StateOwed(t)
          /\ StateOwed(d)' = StateOwed(d) \ {p} /\ p \in StateOwed(d)
      BY <2>1, <3>1 DEF StateOwed
    <3>3. IsFiniteSet(StateOwed(d))
      BY Finite DEF StateOwed
    <3>4. Cardinality(StateOwed(d) \ {p}) = Cardinality(StateOwed(d)) - 1
      BY <3>2, <3>3, FS_RemoveElement
    <3> QED
      BY <3>2, <3>4
  <2>5. \A t \in Tasks : StreamOwed(t)' = StreamOwed(t)
    BY <2>2 DEF StreamOwed
  <2> QED
    BY <2>2, <2>4, <2>5
<1>4. \/ UNCHANGED <<stateRem, streamRem, stateTodo, streamTodo>>
      \/ \E d \in Tasks : SignalStream(d)
      \/ \E w \in Workers, d \in Tasks : SignalState(w, d)
  BY NodeFrame DEF Dispatch, StartTask, AbortDispatch, FailUnqueued, StoreAborted, Complete, SetFinal,
     WriteStatus
<1> QED
  BY <1>1, <1>2, <1>3, <1>4

\* Signals are never taken back.
LEMMA OwedShrinks ==
  ASSUME IInv, [Next]_vars, NEW t \in Tasks
  PROVE  StateOwed(t)' \subseteq StateOwed(t) /\ StreamOwed(t)' \subseteq StreamOwed(t)
<1> USE DEF IInv, TypeOK, NodeType, StateOwed, StreamOwed
<1>1. ASSUME NEW d \in Tasks, SignalStream(d)
      PROVE  StateOwed(t)' \subseteq StateOwed(t) /\ StreamOwed(t)' \subseteq StreamOwed(t)
  BY <1>1 DEF SignalStream
<1>2. ASSUME NEW w \in Workers, NEW d \in Tasks, SignalState(w, d)
      PROVE  StateOwed(t)' \subseteq StateOwed(t) /\ StreamOwed(t)' \subseteq StreamOwed(t)
  BY <1>2 DEF SignalState
<1>3. \/ UNCHANGED <<stateTodo, streamTodo>>
      \/ \E d \in Tasks : SignalStream(d)
      \/ \E w \in Workers, d \in Tasks : SignalState(w, d)
  BY NodeFrame DEF Dispatch, StartTask, AbortDispatch, FailUnqueued, StoreAborted, Complete, SetFinal,
     WriteStatus
<1> QED
  BY <1>1, <1>2, <1>3

\* Both counters at zero means that no signal is owed.
LEMMA ReadyOwesNothing ==
  ASSUME IInv, NEW t \in Tasks, IsReady(t)
  PROVE  StateOwed(t) = {} /\ StreamOwed(t) = {}
<1>1. IsFiniteSet(StateOwed(t)) /\ IsFiniteSet(StreamOwed(t))
  BY Finite DEF StateOwed, StreamOwed
<1>2. Cardinality(StateOwed(t)) = 0 /\ Cardinality(StreamOwed(t)) = 0
  BY DEF IsReady, IInv, CounterInv
<1> QED
  BY <1>1, <1>2, FS_EmptySet

\* A task enters readyChan, or is dispatched, only when nothing is owed to it.
LEMMA ReadyStep == IInv /\ [Next]_vars => ReadyInv'
<1> SUFFICES ASSUME IInv, [Next]_vars,
                    NEW t \in Tasks, t \in Ready' \/ status'[t] # "Pending"
             PROVE  StateOwed(t) = {} /\ StreamOwed(t) = {}
  BY OwedShrinks DEF ReadyInv
<1> USE DEF IInv, TypeOK, NodeType, ReadyType
<1>1. CASE t \in Ready \/ status[t] # "Pending"
  BY <1>1 DEF ReadyInv
<1>2. CASE t \in Ready' /\ t \notin Ready
  <2>1. CASE PushStream
    <3>1. \/ readyChan' = readyChan
          \/ IsReady(starget) /\ starget \in Tasks /\ readyChan' = Append(readyChan, starget)
      BY <2>1 DEF PushStream, PcInv
    <3>2. readyChan' # readyChan
      BY <1>2 DEF Ready
    <3>3. IsReady(starget) /\ Ready' = Ready \cup {starget}
      BY <3>1, <3>2, RangeAppend DEF Ready
    <3>4. t = starget
      BY <1>2, <3>3
    <3> QED
      BY <3>3, <3>4, ReadyOwesNothing
  <2>2. ASSUME NEW w \in Workers, PushState(w) PROVE StateOwed(t) = {} /\ StreamOwed(t) = {}
    <3>1. \/ readyChan' = readyChan
          \/ /\ IsReady(wtarget[w]) /\ wtarget[w] \in Tasks
             /\ readyChan' = Append(readyChan, wtarget[w])
      BY <2>2 DEF PushState, Goto, PcInv
    <3>2. readyChan' # readyChan
      BY <1>2 DEF Ready
    <3>3. IsReady(wtarget[w]) /\ Ready' = Ready \cup {wtarget[w]}
      BY <3>1, <3>2, RangeAppend DEF Ready
    <3>4. t = wtarget[w]
      BY <1>2, <3>3
    <3> QED
      BY <3>3, <3>4, ReadyOwesNothing
  <2>3. readyChan' # readyChan /\ ~(readyChan # <<>> /\ readyChan' = Tail(readyChan))
    <3>1. readyChan # <<>> => Range(Tail(readyChan)) \subseteq Ready
      BY RangeTail DEF Ready
    <3> QED
      BY <1>2, <3>1 DEF Ready
  <2>4. ~DropReady /\ ~Dispatch
    BY <2>3 DEF DropReady, Dispatch, StartTask
  <2> QED
    BY <2>1, <2>2, <2>3, <2>4, ReadyFrame
<1>3. CASE status[t] = "Pending" /\ status'[t] # "Pending"
  <2>1. CASE Dispatch
    <3>1. readyChan # <<>> /\ status' = [status EXCEPT ![Head(readyChan)] = "Running"]
      BY <2>1 DEF Dispatch, StartTask
    <3>2. t = Head(readyChan)
      BY <1>3, <3>1, Dequeue
    <3>3. t \in Ready
      BY <3>1, <3>2, RangeTail DEF Ready
    <3> QED
      BY <3>3 DEF ReadyInv
  <2>2. ~AbortDispatch
    BY <1>3 DEF AbortDispatch, FailUnqueued, PcInv, HolderInv, Carried, Carrying
  <2>3. ASSUME NEW w \in Workers, Complete(w) PROVE FALSE
    BY <1>3, <2>3 DEF Complete, SetFinal, PcInv, HolderInv, Holding, BeforeCompletion
  <2>4. UNCHANGED status \/ Dispatch \/ AbortDispatch \/ \E w \in Workers : Complete(w)
    BY NodeFrame DEF StoreAborted, WriteStatus, SignalStream, SignalState
  <2> QED
    BY <1>3, <2>1, <2>2, <2>3, <2>4
<1> QED
  BY <1>1, <1>2, <1>3
-----------------------------------------------------------------------------
(* Who is responsible for a task.                                          *)

\* Tasks in hand are tasks, and a pending one is in nobody's hands.
LEMMA InHand ==
  ASSUME IInv
  PROVE  /\ Queued \subseteq Tasks /\ Carried \subseteq Tasks
         /\ \A w \in Workers : wpc[w] \in Holding <=> wtask[w] \in Tasks
         /\ \A t \in Tasks : status[t] = "Pending" =>
              t \notin Queued \cup Carried /\ \A w \in Workers : wtask[w] # t
  BY DEF IInv, TypeOK, QueueType, PcInv, Carrying, Carried, Queued, Range, HolderInv

\* The scheduling goroutine hands a task on to the queue and keeps no copy.
LEMMA SchedulerHolderStep ==
  ASSUME IInv, SchedulerStep, UNCHANGED workerVars
  PROVE  HolderInv'
<1> USE InHand DEF HolderInv, SingleHolder, Held
<1>1. CASE /\ UNCHANGED <<status, store, workQueue>>
           /\ UNCHANGED Carried
           /\ spc' # "abort"
  BY <1>1 DEF IInv, Queued, BeforeCompletion, Holding
<1>2. CASE Dispatch
  <2>1. /\ cur' \in Tasks /\ status[cur'] = "Pending" /\ Carried = {} /\ Carried' = {cur'}
        /\ spc' = "signal" /\ Queued' = Queued
    BY <1>2, Dequeue DEF Dispatch, StartTask, IInv, TypeOK, ReadyType, Carried, Queued
  <2>2. /\ status' = [status EXCEPT ![cur'] = "Running"] /\ store' = [store EXCEPT ![cur'] = "Running"]
        /\ workQueue' = workQueue
    BY <1>2 DEF Dispatch, StartTask
  <2> QED
    BY <2>1, <2>2 DEF IInv, TypeOK, NodeType, Holding, BeforeCompletion
<1>3. CASE Enqueue
  <2>1. /\ Carried = {cur} /\ Carried' = {} /\ spc' = "select" /\ cur \in Tasks
        /\ workQueue' = Append(workQueue, cur) /\ workQueue \in Seq(Tasks)
        /\ UNCHANGED <<status, store>>
    BY <1>3 DEF Enqueue, Carried, IInv, PcInv, Carrying, TypeOK, QueueType
  <2>2. Queued' = Queued \cup {cur} /\ IsInjective(workQueue)'
    BY <2>1, RangeAppend DEF Queued, IInv
  <2> QED
    BY <2>1, <2>2 DEF IInv, Holding, BeforeCompletion
<1>4. CASE AbortDispatch
  <2>1. /\ Carried = {cur} /\ Carried' = {} /\ spc' = "abort" /\ cur \in Tasks /\ cur' = cur
        /\ Queued' = Queued /\ workQueue' = workQueue
        /\ status' = [status EXCEPT ![cur] = "Failed"] /\ store' = store
    BY <1>4 DEF AbortDispatch, FailUnqueued, Carried, Queued, IInv, PcInv, Carrying
  <2> QED
    BY <2>1 DEF IInv, TypeOK, NodeType, Holding, BeforeCompletion
<1>5. CASE StoreAborted
  <2>1. /\ Carried = {} /\ Carried' = {} /\ spc' = "select" /\ cur \in Tasks
        /\ Queued' = Queued /\ workQueue' = workQueue
        /\ store' = [store EXCEPT ![cur] = "Failed"] /\ status' = status /\ status[cur] = "Failed"
    BY <1>5 DEF StoreAborted, Carried, Queued, IInv, PcInv
  <2> QED
    BY <2>1 DEF IInv, TypeOK, NodeType, Holding, BeforeCompletion
<1>6. CASE DropReady \/ ReceiveFatal \/ LeaveOnDone \/ PushStream \/ AddRunning
  BY <1>1, <1>6 DEF DropReady, ReceiveFatal, LeaveOnDone, PushStream, AddRunning, Carried
<1>7. ASSUME NEW d \in Tasks, SignalStream(d) PROVE HolderInv'
  BY <1>1, <1>7 DEF SignalStream, Carried
<1>8. CASE TickStep
  BY <1>1, <1>8 DEF TickStep, TickCount, TickActive, StableExit, StallExit, TickOver, Carried
<1>9. CASE EndStep
  BY <1>1, <1>9 DEF EndStep, WaitDone, WaitTimeout, WaitCanceled, WaitOver, Finish, Carried
<1> QED
  BY <1>2, <1>3, <1>4, <1>5, <1>6, <1>7, <1>8, <1>9 DEF SchedulerStep, LoopStep

\* A worker takes a task out of the queue or lets go of the one it has.
LEMMA WorkerHolderStep ==
  ASSUME IInv, NEW w \in Workers, WorkerStep(w), UNCHANGED schedVars
  PROVE  HolderInv'
<1>0. Carried' = Carried
  BY DEF Carried
<1> USE <1>0, InHand DEF HolderInv, SingleHolder, Held
<1>1. ASSUME UNCHANGED <<status, store, workQueue, wtask>>,
             wpc' = [wpc EXCEPT ![w] = wpc'[w]],
             wpc'[w] \in BeforeCompletion => wpc[w] \in BeforeCompletion,
             wpc'[w] \in Holding => wpc[w] \in Holding,
             wpc'[w] # "write",
             wpc'[w] \in {"signal", "push"} => wpc[w] \in {"signal", "push"}
      PROVE  HolderInv'
  <2>1. Queued' = Queued
    BY <1>1 DEF Queued
  <2>2. \A v \in Workers : v # w => wpc'[v] = wpc[v] /\ (wpc[v] = "write" => wres'[v] = wres[v])
    BY <1>1 DEF WorkerStep, IInv, TypeOK, WorkerType, Pick, Take, WorkerExit, Leave, CountActive,
       Refuse, Execute, Return, Complete, SetFinal, WriteStatus, SignalState, PushState,
       SignalledAll, OfferFatal, DoneRunning, UncountActive
  <2> QED
    BY <1>1, <2>1, <2>2 DEF IInv
<1>2. CASE Pick(w)
  <2>1. /\ workQueue \in Seq(Tasks) /\ workQueue # <<>> /\ workQueue' = Tail(workQueue)
        /\ wtask' = [wtask EXCEPT ![w] = Head(workQueue)]
        /\ wpc' = [wpc EXCEPT ![w] = "picked"]
        /\ UNCHANGED <<status, store, wres>>
    BY <1>2 DEF Pick, Take, Goto, IInv, TypeOK, QueueType
  <2>2. /\ Head(workQueue) \in Queued /\ Queued' \subseteq Queued
        /\ Head(workQueue) \notin Queued' /\ IsInjective(workQueue)'
    BY <2>1, RangeTail DEF Queued, IInv
  <2> QED
    BY <2>1, <2>2 DEF IInv, TypeOK, WorkerType, Holding, BeforeCompletion
<1>3. CASE WorkerExit(w) \/ CountActive(w) \/ Refuse(w) \/ Execute(w) \/ SignalledAll(w)
             \/ OfferFatal(w) \/ UncountActive(w) \/ PushState(w)
  BY <1>1, <1>3 DEF WorkerExit, Leave, CountActive, Refuse, Execute, SignalledAll, OfferFatal,
     UncountActive, PushState, Goto, IInv, TypeOK, WorkerType, Holding, BeforeCompletion
<1>4. ASSUME NEW r \in Results, Return(w, r) PROVE HolderInv'
  BY <1>1, <1>4 DEF Return, Goto, IInv, TypeOK, WorkerType, Holding, BeforeCompletion
<1>5. ASSUME NEW d \in Tasks, SignalState(w, d) PROVE HolderInv'
  <2>1. \/ wpc' = wpc \/ wpc' = [wpc EXCEPT ![w] = "push"]
    BY <1>5 DEF SignalState, Goto
  <2> QED
    BY <1>1, <1>5, <2>1 DEF SignalState, IInv, TypeOK, WorkerType, Holding, BeforeCompletion
<1>6. CASE Complete(w)
  <2>1. /\ wtask[w] \in Tasks /\ status[wtask[w]] = "Running"
        /\ UNCHANGED <<store, workQueue, wtask, wres>> /\ Queued' = Queued
    BY <1>6 DEF Complete, SetFinal, IInv, Holding, BeforeCompletion, Queued
  <2>2. /\ status' = [status EXCEPT ![wtask[w]] = StatusOf[wres[w]]]
        /\ wpc' = [wpc EXCEPT ![w] = "write"]
    BY <1>6, <2>1 DEF Complete, SetFinal, Goto, Terminal, Good
  <2>3. StatusOf[wres[w]] # "Pending"
    BY StatusOfType DEF IInv, TypeOK, WorkerType, Terminal, Good
  <2>4. \A v \in Workers : v # w => wtask[v] # wtask[w]
    BY <2>1 DEF IInv
  <2>5. wtask[w] \notin Queued \cup Carried
    BY DEF IInv
  <2> QED
    BY <2>1, <2>2, <2>3, <2>4, <2>5
       DEF IInv, TypeOK, NodeType, WorkerType, Holding, BeforeCompletion, PcInv
<1>7. CASE WriteStatus(w)
  <2>1. /\ wtask[w] \in Tasks /\ status[wtask[w]] = StatusOf[wres[w]]
        /\ UNCHANGED <<status, workQueue, wtask, wres>> /\ Queued' = Queued
        /\ store' = [store EXCEPT ![wtask[w]] = StatusOf[wres[w]]]
    BY <1>7 DEF WriteStatus, Goto, IInv, Holding, Queued
  <2>2. \/ wpc' = [wpc EXCEPT ![w] = "signal"] /\ status[wtask[w]] \in Good
        \/ wpc' = [wpc EXCEPT ![w] = "halt"]
    BY <1>7, <2>1 DEF WriteStatus, Goto, AfterWrite
  <2>3. \A v \in Workers : v # w => wtask[v] # wtask[w]
    BY <2>1 DEF IInv
  <2> QED
    BY <2>1, <2>2, <2>3 DEF IInv, TypeOK, NodeType, WorkerType, Holding, BeforeCompletion, PcInv
<1>8. CASE DoneRunning(w)
  <2>1. /\ wtask' = [wtask EXCEPT ![w] = NoTask] /\ wpc' = [wpc EXCEPT ![w] = "left"]
        /\ wres' = [wres EXCEPT ![w] = "ok"]
        /\ UNCHANGED <<status, store, workQueue>> /\ Queued' = Queued
    BY <1>8 DEF DoneRunning, Goto, Queued
  <2> QED
    BY <2>1 DEF IInv, TypeOK, WorkerType, Holding, BeforeCompletion
<1> QED
  BY <1>2, <1>3, <1>4, <1>5, <1>6, <1>7, <1>8 DEF WorkerStep

\* Responsibility for a task keeps one holder.
LEMMA HolderStep == IInv /\ [Next]_vars => HolderInv'
<1> SUFFICES ASSUME IInv, [Next]_vars PROVE HolderInv'
  OBVIOUS
<1>1. CASE SchedulerStep /\ UNCHANGED workerVars
  BY <1>1, SchedulerHolderStep
<1>2. ASSUME NEW w \in Workers, WorkerStep(w), UNCHANGED schedVars PROVE HolderInv'
  BY <1>2, WorkerHolderStep
<1>3. CASE ParentCancel \/ UNCHANGED vars
  <2>1. UNCHANGED <<status, store, workQueue, spc, cur, workerVars>>
    BY <1>3 DEF ParentCancel, vars
  <2> QED
    BY <2>1 DEF IInv, HolderInv, SingleHolder, Held, Carried, Queued
<1> QED
  BY <1>1, <1>2, <1>3, ProcessFrame, SplitNext
-----------------------------------------------------------------------------
\* The engine is set up with the invariant.
LEMMA InitIInv == Init => IInv
<1> SUFFICES ASSUME Init PROVE IInv
  OBVIOUS
<1>1. TypeOK /\ PcInv
  BY InitType DEF Init, PcInv, Carrying, Holding
<1>2. HolderInv
  BY DEF Init, HolderInv, SingleHolder, Held, Queued, Carried, Range, IsInjective, Holding,
         BeforeCompletion
<1>3. SignalInv
  BY DEF Init, SignalInv, StateDependents, StreamDependents
<1>4. \A t \in Tasks : StateOwed(t) = StateDeps[t] /\ StreamOwed(t) = StreamDeps[t]
  BY DEF Init, StateOwed, StreamOwed, StateDependents, StreamDependents
<1>5. CounterInv
  BY <1>4 DEF Init, CounterInv
<1>6. ReadyInv
  <2>1. Ready \subseteq InitialReady
    BY DEF Init, Ready, Range, Orders, Bijection, Injection
  <2> QED
    BY <1>4, <2>1 DEF Init, ReadyInv, InitialReady, Deps
<1> QED
  BY <1>1, <1>2, <1>3, <1>5, <1>6 DEF IInv

\* Every step keeps the invariant.
LEMMA InductiveStep == IInv /\ [Next]_vars => IInv'
  BY TypeStep, PcStep, HolderStep, SignalStep, CounterStep, ReadyStep DEF IInv

\* The strengthening of the safety properties that every step preserves.
THEOREM Inductive == Spec => []IInv
  BY InitIInv, InductiveStep, PTL DEF Spec

\* At most one goroutine or queue slot is ever responsible for a task: no
\* interleaving of the stream and state signals makes a task run twice.
THEOREM RunsOnce == Spec => []SingleHolder
<1>1. IInv => SingleHolder
  BY DEF IInv, HolderInv
<1> QED
  BY <1>1, Inductive, PTL

\* A dispatched task is owed nothing, so all its producers have signalled.
LEMMA DependenciesEnded == IInv => NoEarlyDispatch
  BY DEF IInv, SignalInv, ReadyInv, StateOwed, StreamOwed, NoEarlyDispatch

\* No task is dispatched before the tasks it reads state from ended Completed
\* or Skipped, with that status in the store, and its producers were dispatched.
THEOREM DependenciesFirst == Spec => []NoEarlyDispatch
  BY DependenciesEnded, Inductive, PTL

-----------------------------------------------------------------------------
(* runningTasksWg.                                                         *)

\* The workers that hold a task can be counted.
LEMMA BusyFinite ==
  /\ IsFiniteSet(Busy) /\ Cardinality(Busy) \in Nat
  /\ \A w \in Workers :
       /\ w \notin Busy => Cardinality(Busy \cup {w}) = Cardinality(Busy) + 1
       /\ w \in Busy => Cardinality(Busy \ {w}) = Cardinality(Busy) - 1
<1>1. IsFiniteSet(Busy)
  BY FS_Subset DEF Busy
<1> QED
  BY <1>1, FS_CardinalityType, FS_AddElement, FS_RemoveElement

\* Every path a task takes tells runningTasksWg of it once and takes it back once.
LEMMA WgStep == IInv /\ WgInv /\ [Next]_vars => WgInv'
<1> SUFFICES ASSUME IInv, WgInv, [Next]_vars PROVE WgInv'
  OBVIOUS
<1> USE BusyFinite DEF IInv, TypeOK, SharedType, QueueType, WgInv
<1>1. CASE /\ UNCHANGED <<runningWg, workQueue, wtask>>
           /\ spc' = "enqueue" <=> spc = "enqueue"
  BY <1>1 DEF Busy, Held
<1>2. CASE AddRunning
  BY <1>2 DEF AddRunning, Busy, Held
<1>3. CASE Enqueue
  <2>1. Len(workQueue') = Len(workQueue) + 1
    BY <1>3, Enlarge DEF Enqueue, PcInv, Carrying
  <2> QED
    BY <1>3, <2>1 DEF Enqueue, Busy, Held
<1>4. CASE AbortDispatch
  BY <1>4 DEF AbortDispatch, FailUnqueued, Busy, Held
<1>5. ASSUME NEW w \in Workers, Pick(w) PROVE WgInv'
  <2>1. w \notin Busy /\ Busy' = Busy \cup {w}
    <3>1. wtask[w] = NoTask /\ Head(workQueue) \in Tasks
      BY <1>5, Dequeue DEF Pick, Take, Goto, PcInv, Holding, WorkerType
    <3>2. wtask' = [wtask EXCEPT ![w] = Head(workQueue)]
      BY <1>5 DEF Pick, Take
    <3> QED
      BY <3>1, <3>2 DEF Busy, Held, WorkerType
  <2>2. Len(workQueue') = Len(workQueue) - 1 /\ runningWg' = runningWg /\ spc' = spc
    BY <1>5, Dequeue DEF Pick, Take
  <2>3. Cardinality(Busy') = Cardinality(Busy) + 1
    BY <2>1
  <2> QED
    BY <2>2, <2>3
<1>6. ASSUME NEW w \in Workers, DoneRunning(w) PROVE WgInv'
  <2>1. w \in Busy /\ Busy' = Busy \ {w}
    BY <1>6 DEF DoneRunning, Goto, Busy, Held, PcInv, Holding, WorkerType
  <2>2. runningWg' = runningWg - 1 /\ workQueue' = workQueue /\ spc' = spc
    BY <1>6 DEF DoneRunning
  <2>3. Cardinality(Busy') = Cardinality(Busy) - 1
    BY <2>1
  <2> QED
    BY <2>2, <2>3
<1>7. ASSUME SchedulerStep
      PROVE  \/ AddRunning \/ Enqueue \/ AbortDispatch
             \/ /\ UNCHANGED <<runningWg, workQueue, wtask>>
                /\ spc' = "enqueue" <=> spc = "enqueue"
  BY <1>7 DEF SchedulerStep, LoopStep, TickStep, EndStep, DropReady, Dispatch, StartTask,
     SignalStream, PushStream, StoreAborted, ReceiveFatal, LeaveOnDone, TickCount, TickActive,
     StableExit, StallExit, TickOver, WaitDone, WaitTimeout, WaitCanceled, WaitOver, Finish
<1>8. ASSUME NEW w \in Workers, WorkerStep(w)
      PROVE  Pick(w) \/ DoneRunning(w) \/ UNCHANGED <<runningWg, workQueue, wtask, spc>>
  BY <1>8 DEF WorkerStep, WorkerExit, Leave, CountActive, Refuse, Execute, Complete, SetFinal,
     WriteStatus, SignalState, PushState, SignalledAll, OfferFatal, UncountActive, Return
<1> QED
  BY <1>1, <1>2, <1>3, <1>4, <1>5, <1>6, <1>7, <1>8, SplitNext DEF ParentCancel, vars

\* A Running task is in the queue or with a worker that has not completed it.
LEMMA RunningStep == IInv /\ RunningInv /\ [Next]_vars => RunningInv'
<1> SUFFICES ASSUME IInv, RunningInv, [Next]_vars,
                    NEW t \in Tasks, status'[t] = "Running"
             PROVE  \/ (t \in Queued \cup Carried)'
                    \/ \E w \in Workers : wpc'[w] \in BeforeCompletion /\ wtask'[w] = t
  BY DEF RunningInv
<1> USE DEF IInv, TypeOK
<1> DEFINE Covered == \/ (t \in Queued \cup Carried)'
                      \/ \E w \in Workers : wpc'[w] \in BeforeCompletion /\ wtask'[w] = t
<1>1. CASE status[t] # "Running"
  <2>1. Dispatch
    <3>1. StatusOf["ok"] # "Running" /\ \A r \in Results : StatusOf[r] # "Running"
      BY StatusOfType DEF Results, Terminal, Good
    <3>2. ~AbortDispatch
      BY <1>1 DEF AbortDispatch, FailUnqueued, NodeType
    <3>3. ASSUME NEW w \in Workers, Complete(w) PROVE FALSE
      BY <1>1, <3>1, <3>3 DEF Complete, SetFinal, NodeType, WorkerType
    <3>4. UNCHANGED status \/ Dispatch \/ AbortDispatch \/ \E w \in Workers : Complete(w)
      BY NodeFrame DEF StoreAborted, WriteStatus, SignalStream, SignalState
    <3> QED
      BY <1>1, <3>2, <3>3, <3>4
  <2>2. t = cur' /\ spc' = "signal"
    BY <1>1, <2>1 DEF Dispatch, StartTask, NodeType
  <2> QED
    BY <2>2 DEF Carried
<1>2. CASE status[t] = "Running"
  <2>1. CASE t \in Queued
    <3>1. CASE workQueue' = workQueue
      BY <2>1, <3>1 DEF Queued
    <3>2. CASE Enqueue
      BY <2>1, <3>2, RangeAppend DEF Enqueue, Queued, QueueType, PcInv, Carrying
    <3>3. ASSUME NEW w \in Workers, Pick(w), t \notin Queued' PROVE Covered
      <4>1. /\ workQueue \in Seq(Tasks) /\ workQueue # <<>> /\ workQueue' = Tail(workQueue)
            /\ wtask' = [wtask EXCEPT ![w] = Head(workQueue)]
            /\ wpc' = [wpc EXCEPT ![w] = "picked"]
        BY <3>3 DEF Pick, Take, Goto, QueueType
      <4>2. t = Head(workQueue)
        BY <2>1, <3>3, <4>1, RangeTail DEF Queued
      <4>3. wpc'[w] \in BeforeCompletion /\ wtask'[w] = t
        BY <4>1, <4>2 DEF WorkerType, BeforeCompletion
      <4> QED
        BY <4>3
    <3> QED
      BY <3>1, <3>2, <3>3, QueueFrame
  <2>2. CASE t \in Carried
    <3>1. CASE UNCHANGED schedVars
      BY <2>2, <3>1 DEF Carried
    <3>2. CASE SchedulerStep
      <4>1. CASE Enqueue
        BY <2>2, <4>1, RangeAppend DEF Enqueue, Carried, Queued, QueueType, PcInv, Carrying
      <4>2. ~AbortDispatch
        BY <2>2 DEF AbortDispatch, FailUnqueued, Carried, NodeType
      <4>3. CASE spc' \in Carrying /\ cur' = cur
        BY <2>2, <4>3 DEF Carried, Carrying
      <4> QED
        BY <2>2, <3>2, <4>1, <4>2, <4>3 DEF Carried, Carrying, SchedulerStep, LoopStep, TickStep,
           EndStep, DropReady, Dispatch, StartTask, SignalStream, PushStream, AddRunning,
           StoreAborted, ReceiveFatal, LeaveOnDone, TickCount, TickActive, StableExit, StallExit,
           TickOver, WaitDone, WaitTimeout, WaitCanceled, WaitOver, Finish
    <3> QED
      BY <3>1, <3>2, ProcessFrame
  <2>3. ASSUME NEW w \in Workers, wpc[w] \in BeforeCompletion, wtask[w] = t
        PROVE  wpc'[w] \in BeforeCompletion /\ wtask'[w] = t
    <3>1. ~Complete(w)
      <4>1. \A r \in Results : StatusOf[r] # "Running"
        BY StatusOfType DEF Terminal, Good
      <4> QED
        BY <1>2, <2>3, <4>1 DEF Complete, SetFinal, NodeType, WorkerType, Terminal, Good
    <3>2. ASSUME NEW v \in Workers, WorkerStep(v), v # w
          PROVE  wpc'[w] = wpc[w] /\ wtask'[w] = wtask[w]
      BY <3>2 DEF WorkerStep, Pick, Take, WorkerExit, Leave, CountActive, Refuse, Execute, Return,
         Complete, SetFinal, WriteStatus, SignalState, PushState, SignalledAll, OfferFatal,
         DoneRunning, UncountActive, Goto, WorkerType
    <3>3. CASE WorkerStep(w)
      BY <2>3, <3>1, <3>3 DEF WorkerStep, Pick, Take, WorkerExit, Leave, CountActive, Refuse,
         Execute, Return, WriteStatus, SignalState, PushState, SignalledAll, OfferFatal,
         DoneRunning, UncountActive, Goto, WorkerType, BeforeCompletion
    <3> QED
      BY <2>3, <3>2, <3>3, ProcessFrame
  <2> QED
    BY <1>2, <2>1, <2>2, <2>3 DEF RunningInv
<1> QED
  BY <1>1, <1>2

\* A task that ended well and still owes signals is with the worker that sends them.
LEMMA SignallingStep == IInv /\ SignallingInv /\ [Next]_vars => SignallingInv'
<1> SUFFICES ASSUME IInv, SignallingInv, [Next]_vars,
                    NEW p \in Tasks, status'[p] \in Good, stateTodo'[p] # {}
             PROVE  \E w \in Workers : wpc'[w] \in {"write", "signal", "push"} /\ wtask'[w] = p
  BY DEF SignallingInv
<1> USE DEF IInv, TypeOK
<1>1. CASE status[p] \notin Good
  <2>1. ~Dispatch /\ ~AbortDispatch
    BY <1>1, Dequeue DEF Dispatch, StartTask, AbortDispatch, FailUnqueued, NodeType, ReadyType, Good
  <2>2. UNCHANGED status \/ Dispatch \/ AbortDispatch \/ \E w \in Workers : Complete(w)
    BY NodeFrame DEF StoreAborted, WriteStatus, SignalStream, SignalState
  <2>3. PICK w \in Workers : Complete(w)
    BY <1>1, <2>1, <2>2
  <2>4. p = wtask[w] /\ wpc'[w] = "write" /\ wtask' = wtask
    BY <1>1, <2>3 DEF Complete, SetFinal, Goto, NodeType, WorkerType
  <2> QED
    BY <2>4
<1>2. CASE status[p] \in Good
  <2>1. stateTodo[p] # {}
    <3>1. UNCHANGED stateTodo \/ \E w \in Workers, d \in Tasks : SignalState(w, d)
      BY NodeFrame DEF Dispatch, StartTask, AbortDispatch, FailUnqueued, StoreAborted,
         SignalStream, Complete, SetFinal, WriteStatus
    <3>2. ASSUME NEW w \in Workers, NEW d \in Tasks, SignalState(w, d) PROVE stateTodo[p] # {}
      BY <3>2 DEF SignalState, NodeType
    <3> QED
      BY <3>1, <3>2
  <2>2. PICK w \in Workers : wpc[w] \in {"write", "signal", "push"} /\ wtask[w] = p
    BY <1>2, <2>1 DEF SignallingInv
  <2>3. ASSUME NEW v \in Workers, WorkerStep(v), v # w
        PROVE  wpc'[w] = wpc[w] /\ wtask'[w] = wtask[w]
    BY <2>3 DEF WorkerStep, Pick, Take, WorkerExit, Leave, CountActive, Refuse, Execute, Return,
       Complete, SetFinal, WriteStatus, SignalState, PushState, SignalledAll, OfferFatal,
       DoneRunning, UncountActive, Goto, WorkerType
  <2>4. ASSUME WorkerStep(w)
        PROVE  wpc'[w] \in {"write", "signal", "push"} /\ wtask'[w] = wtask[w]
    <3>1. wpc[w] = "write" => StatusOf[wres[w]] \in Good
      BY <1>2, <2>2 DEF HolderInv
    <3>2. ~SignalledAll(w)
      BY <2>2 DEF SignalledAll
    <3>3. WriteStatus(w) \/ PushState(w) \/ \E d \in Tasks : SignalState(w, d)
      BY <2>2, <2>4, <3>2 DEF WorkerStep, Pick, Take, WorkerExit, Leave, CountActive, Refuse,
         Execute, Return, Complete, SetFinal, OfferFatal, DoneRunning, UncountActive, Goto
    <3> QED
      BY <3>1, <3>3 DEF WriteStatus, AfterWrite, PushState, SignalState, Goto, WorkerType
  <2> QED
    BY <2>2, <2>3, <2>4, ProcessFrame
<1> QED
  BY <1>1, <1>2
-----------------------------------------------------------------------------
(* The outcome.                                                            *)

\* Statuses of tasks that ended are final.
LEMMA EndedStep ==
  ASSUME IInv, [Next]_vars, NEW t \in Tasks, status[t] \in Terminal
  PROVE  status'[t] = status[t]
<1> USE DEF IInv, TypeOK, NodeType, Terminal, Good
<1>1. CASE Dispatch
  <2>1. Head(readyChan) # t
    BY <1>1 DEF Dispatch
  <2> QED
    BY <1>1, <2>1 DEF Dispatch, StartTask
<1>2. CASE AbortDispatch
  <2>1. status[cur] = "Running"
    BY <1>2 DEF AbortDispatch, FailUnqueued, HolderInv, Carried
  <2> QED
    BY <1>2, <2>1 DEF AbortDispatch, FailUnqueued
<1>3. ASSUME NEW w \in Workers, Complete(w) PROVE status'[t] = status[t]
  BY <1>3 DEF Complete, SetFinal
<1>4. UNCHANGED status \/ Dispatch \/ AbortDispatch \/ \E w \in Workers : Complete(w)
  BY NodeFrame DEF StoreAborted, WriteStatus, SignalStream, SignalState
<1> QED
  BY <1>1, <1>2, <1>3, <1>4

\* When nothing is counted by runningTasksWg, the outcome is nil only if every
\* task ended well.  A pending task is let pass only while a state signal is
\* owed to it; the DAG being acyclic, some pending task is owed one by a task
\* that is not pending, hence ended well and still signalling, hence counted.
LEMMA NilOutcome ==
  ASSUME OInv, spc = "wait", runningWg = 0,
         ~ \E t \in PendingTasks : stateRem[t] <= 0,
         ~ \E t \in Tasks : status[t] = "Failed"
  PROVE  \A t \in Tasks : status[t] \in Good
<1> USE DEF OInv, IInv, TypeOK
<1>1. Busy = {} /\ Len(workQueue) = 0
  <2>1. Len(workQueue) \in Nat /\ Cardinality(Busy) \in Nat
    BY BusyFinite DEF QueueType
  <2>2. Cardinality(Busy) = 0 /\ Len(workQueue) = 0
    BY <2>1 DEF WgInv
  <2> QED
    BY <2>2, BusyFinite, FS_EmptySet
<1>2. Queued = {} /\ Carried = {}
  BY <1>1 DEF Queued, Carried, Range, QueueType
<1>3. \A w \in Workers : wtask[w] = NoTask
  BY <1>1 DEF Busy, Held
<1>4. \A t \in Tasks : status[t] # "Running"
  BY <1>2, <1>3 DEF RunningInv
<1>5. \A p \in Tasks : status[p] \in Good => stateTodo[p] = {}
  BY <1>3 DEF SignallingInv
<1>6. PendingTasks = {}
  <2> SUFFICES ASSUME PendingTasks # {} PROVE FALSE
    OBVIOUS
  <2>1. PendingTasks \in SUBSET Tasks
    BY DEF PendingTasks
  <2>2. PICK t \in PendingTasks : Deps(t) \cap PendingTasks = {}
    BY <2>1, AcyclicAssumption
  <2>3. t \in Tasks /\ StateOwed(t) # {}
    <3>1. t \in Tasks /\ stateRem[t] \in Int /\ ~(stateRem[t] <= 0)
      BY DEF PendingTasks, NodeType
    <3>2. stateRem[t] = Cardinality(StateOwed(t))
      BY <3>1 DEF CounterInv
    <3>3. Cardinality({}) = 0
      BY FS_EmptySet
    <3>4. ASSUME StateOwed(t) = {} PROVE FALSE
      <4>1. stateRem[t] = 0
        BY <3>2, <3>3, <3>4
      <4> QED
        BY <3>1, <4>1
    <3> QED
      BY <3>1, <3>4
  <2>4. PICK p \in StateDeps[t] : t \in stateTodo[p]
    BY <2>3 DEF StateOwed
  <2>5. p \in Tasks /\ status[p] # "Pending"
    BY <2>2, <2>3, <2>4 DEF Deps, PendingTasks
  <2>6. status[p] \in Good
    BY <1>4, <2>5 DEF NodeType, Statuses, Terminal
  <2> QED
    BY <1>5, <2>4, <2>5, <2>6
<1> QED
  BY <1>4, <1>6 DEF PendingTasks, NodeType, Statuses, Terminal

\* The result and the report are chosen once, from statuses that allow them.
LEMMA OutcomeStep == OInv /\ [Next]_vars => OutcomeInv'
<1> SUFFICES ASSUME OInv, [Next]_vars PROVE OutcomeInv'
  OBVIOUS
<1> USE DEF OInv, IInv, TypeOK, LoopType, OutcomeInv, OutcomeSound
<1>1. (\A t \in Tasks : status[t] \in Good) => \A t \in Tasks : status'[t] \in Good
  BY EndedStep DEF Terminal
<1>2. CASE UNCHANGED schedVars
  BY <1>1, <1>2
<1>3. CASE LoopStep \/ TickStep
  <2>1. /\ spc \notin {"join", "done"} /\ spc' \notin {"join", "done"}
        /\ UNCHANGED <<outcome, report>>
    BY <1>3 DEF LoopStep, TickStep, DropReady, Dispatch, StartTask, SignalStream, PushStream,
       AddRunning, Enqueue, AbortDispatch, FailUnqueued, StoreAborted, ReceiveFatal, LeaveOnDone,
       TickCount, TickActive, StableExit, StallExit, TickOver
  <2> QED
    BY <1>1, <2>1
<1>4. ASSUME NEW err \in {"none", "timeout", "canceled"}, WaitOver(err), err = "none" => runningWg = 0
      PROVE  OutcomeInv'
  <2>1. /\ spc = "wait" /\ spc' = "join" /\ report' = report /\ status' = status
        /\ outcome' = FinalOutcome(firstErr')
        /\ firstErr' = IF firstErr = "none" THEN err ELSE firstErr
    BY <1>4 DEF WaitOver
  <2>2. outcome' # "unset"
    BY <2>1 DEF FinalOutcome
  <2>3. ASSUME outcome' = "nil" PROVE \A t \in Tasks : status[t] \in Good
    <3>1. /\ firstErr' = "none" /\ ~ \E t \in PendingTasks : stateRem[t] <= 0
          /\ ~ \E t \in Tasks : status[t] = "Failed"
      BY <2>1, <2>3 DEF FinalOutcome
    <3>2. runningWg = 0
      BY <1>4, <2>1, <3>1
    <3> QED
      BY <2>1, <3>1, <3>2, NilOutcome
  <2> QED
    BY <2>1, <2>2, <2>3
<1>5. CASE Finish
  BY <1>5 DEF Finish
<1> QED
  BY <1>2, <1>3, <1>4, <1>5, ProcessFrame
     DEF SchedulerStep, EndStep, WaitDone, WaitTimeout, WaitCanceled

\* The invariant of the scheduler with what its outcome rests on.
LEMMA OutcomeInvariant == Spec => []OInv
<1>1. Init => OInv
  <2>1. ASSUME Init PROVE WgInv /\ RunningInv /\ SignallingInv /\ OutcomeInv
    <3>1. Busy = {} /\ Cardinality({}) = 0
      BY <2>1, FS_EmptySet DEF Init, Busy, Held
    <3> QED
      BY <2>1, <3>1 DEF Init, WgInv, RunningInv, SignallingInv, OutcomeInv, OutcomeSound, Good
  <2> QED
    BY <2>1, InitIInv DEF OInv
<1>2. OInv /\ [Next]_vars => OInv'
  BY InductiveStep, WgStep, RunningStep, SignallingStep, OutcomeStep DEF OInv
<1> QED
  BY <1>1, <1>2, PTL DEF Spec

\* RunPlaybook returns nil only when every task ended Completed or Skipped, and
\* the report computed after the workers are gone says the same.
THEOREM NilMeansAllEndedWell == Spec => []OutcomeSound
<1>1. OInv => OutcomeSound
  BY DEF OInv, OutcomeInv
<1> QED
  BY <1>1, OutcomeInvariant, PTL

\* No late or synthetic completion overwrites the status of a task that ended.
THEOREM EndedIsFinal == Spec => EndedStaysEnded
<1>1. IInv /\ [Next]_vars => [\A t \in Tasks : status[t] \in Terminal => status'[t] = status[t]]_status
  BY EndedStep
<1> QED
  BY <1>1, Inductive, PTL DEF Spec, EndedStaysEnded
-----------------------------------------------------------------------------
(* Refinement.                                                             *)

\* Each step of the scheduler is a step of PlaybookRun or changes nothing it shows.
LEMMA StepSimulated ==
  ASSUME OInv, OInv', [Next]_vars
  PROVE  [Promise!Next]_(Promise!vars)
<1> USE DEF OInv, IInv, TypeOK, NodeType, Promise!vars, Promise!Next
<1>1. CASE UNCHANGED <<status, outcome>>
  BY <1>1
<1>2. CASE Dispatch
  <2> DEFINE t == cur'
  <2>1. /\ t \in Tasks /\ status[t] = "Pending" /\ outcome = "unset" /\ outcome' = outcome
        /\ status' = [status EXCEPT ![t] = "Running"]
    BY <1>2, Dequeue DEF Dispatch, StartTask, ReadyType, OutcomeInv
  <2> HIDE DEF t
  <2>2. t \notin Deps(t)
    BY <2>1, AcyclicAssumption, {t} \in SUBSET Tasks
  <2>0. NoEarlyDispatch'
    BY DependenciesEnded, PTL
  <2>3. /\ \A p \in StateDeps[t] : status'[p] \in Good
        /\ \A p \in StreamDeps[t] : status'[p] # "Pending"
    BY <2>0, <2>1 DEF NoEarlyDispatch
  <2>4. /\ \A p \in StateDeps[t] : status[p] \in Good
        /\ \A p \in StreamDeps[t] : status[p] # "Pending"
    BY <2>1, <2>2, <2>3 DEF Deps
  <2>5. Promise!Start(t)
    BY <2>1, <2>4 DEF Promise!Start, Promise!Ended, Good
  <2> QED
    BY <2>1, <2>5
<1>3. CASE AbortDispatch
  <2>1. cur \in Tasks /\ status[cur] = "Running"
    BY <1>3 DEF AbortDispatch, FailUnqueued, PcInv, HolderInv, Carried, Carrying
  <2>2. Promise!End(cur, "Failed")
    BY <1>3, <2>1 DEF AbortDispatch, FailUnqueued, Promise!End
  <2> QED
    BY <2>1, <2>2
<1>4. ASSUME NEW w \in Workers, Complete(w) PROVE [Promise!Next]_(Promise!vars)
  <2>1. wtask[w] \in Tasks /\ status[wtask[w]] = "Running"
    BY <1>4 DEF Complete, SetFinal, PcInv, HolderInv, Holding, BeforeCompletion
  <2>2. /\ status' = [status EXCEPT ![wtask[w]] = StatusOf[wres[w]]] /\ outcome' = outcome
        /\ StatusOf[wres[w]] \in Terminal
    BY <1>4, <2>1, StatusOfType DEF Complete, SetFinal, WorkerType, Terminal, Good
  <2>3. Promise!End(wtask[w], StatusOf[wres[w]])
    BY <2>1, <2>2 DEF Promise!End
  <2> QED
    BY <2>1, <2>2, <2>3 DEF Terminal, Good, Promise!Ended
<1>5. ASSUME NEW err, WaitOver(err) PROVE [Promise!Next]_(Promise!vars)
  <2>1. status' = status /\ outcome = "unset" /\ outcome' # "unset"
    BY <1>5 DEF WaitOver, OutcomeInv
  <2>2. outcome' = "nil" => \A t \in Tasks : status[t] \in Good
    BY <2>1 DEF OutcomeInv, OutcomeSound
  <2>3. CASE outcome' = "nil"
    <3>1. Promise!Decide("nil")
      BY <2>1, <2>2, <2>3 DEF Promise!Decide, Promise!Ended, Good
    <3> QED
      BY <3>1
  <2>4. CASE outcome' # "nil"
    <3>1. Promise!Decide("error")
      BY <2>1, <2>4 DEF Promise!Decide
    <3> QED
      BY <3>1
  <2> QED
    BY <2>3, <2>4
<1>6. UNCHANGED status \/ Dispatch \/ AbortDispatch \/ \E w \in Workers : Complete(w)
  BY NodeFrame DEF StoreAborted, WriteStatus, SignalStream, SignalState
<1>7. UNCHANGED outcome \/ WaitOver("none") \/ WaitOver("timeout") \/ WaitOver("canceled")
  BY ProcessFrame DEF SchedulerStep, LoopStep, TickStep, EndStep, DropReady, Dispatch, StartTask,
     SignalStream, PushStream, AddRunning, Enqueue, AbortDispatch, FailUnqueued, StoreAborted,
     ReceiveFatal, LeaveOnDone, TickCount, TickActive, StableExit, StallExit, TickOver, WaitDone,
     WaitTimeout, WaitCanceled, Finish
<1> QED
  BY <1>1, <1>2, <1>3, <1>4, <1>5, <1>6, <1>7

\* The scheduler, its workers, channels and counters implement PlaybookRun:
\* tasks start after what they depend on, end once, nothing starts once the
\* result is chosen, and nil is chosen only when all ended well.
THEOREM Implements == Spec => ImplementsPlaybookRun
<1>1. Init => Promise!Init
  BY DEF Init, Promise!Init
<1>2. OInv /\ OInv' /\ [Next]_vars => [Promise!Next]_(Promise!vars)
  BY StepSimulated
<1> QED
  BY <1>1, <1>2, OutcomeInvariant, PTL DEF Spec, ImplementsPlaybookRun, Promise!Spec
-----------------------------------------------------------------------------
(* activeWorkers.                                                          *)

\* A worker counts itself in after it took a task and out when it is done with it.
LEMMA ActiveStep == IInv /\ ActiveInv /\ [Next]_vars => ActiveInv'
<1> SUFFICES ASSUME IInv, ActiveInv, [Next]_vars PROVE ActiveInv'
  OBVIOUS
<1> USE DEF IInv, TypeOK, SharedType, WorkerType, ActiveInv
<1>1. IsFiniteSet(Counted) /\ Cardinality(Counted) \in Nat
  BY FS_Subset, FS_CardinalityType DEF Counted
<1>2. CASE active' = active /\ Counted' = Counted
  BY <1>2
<1>3. ASSUME NEW w \in Workers, CountActive(w) PROVE ActiveInv'
  <2>1. w \notin Counted /\ Counted' = Counted \cup {w}
    BY <1>3 DEF CountActive, Goto, Counted
  <2>2. Cardinality(Counted') = Cardinality(Counted) + 1
    BY <1>1, <2>1, FS_AddElement
  <2> QED
    BY <1>3, <2>2 DEF CountActive
<1>4. ASSUME NEW w \in Workers, UncountActive(w) PROVE ActiveInv'
  <2>1. w \in Counted /\ Counted' = Counted \ {w}
    BY <1>4 DEF UncountActive, Goto, Counted
  <2>2. Cardinality(Counted') = Cardinality(Counted) - 1
    BY <1>1, <2>1, FS_RemoveElement
  <2> QED
    BY <1>1, <1>4, <2>2 DEF UncountActive
<1>5. ASSUME SchedulerStep PROVE active' = active /\ Counted' = Counted
  <2>1. UNCHANGED wpc
    BY <1>5 DEF SchedulerStep, LoopStep, TickStep, EndStep, DropReady, Dispatch, StartTask,
       SignalStream, PushStream, AddRunning, Enqueue, AbortDispatch, FailUnqueued, StoreAborted,
       ReceiveFatal, LeaveOnDone, TickCount, TickActive, StableExit, StallExit, TickOver, WaitDone,
       WaitTimeout, WaitCanceled, WaitOver, Finish
  <2>2. UNCHANGED active
    BY <1>5 DEF SchedulerStep, LoopStep, TickStep, EndStep, DropReady, Dispatch, StartTask,
       SignalStream, PushStream, AddRunning, Enqueue, AbortDispatch, FailUnqueued, StoreAborted,
       ReceiveFatal, LeaveOnDone, TickCount, TickActive, StableExit, StallExit, TickOver, WaitDone,
       WaitTimeout, WaitCanceled, WaitOver, Finish
  <2> QED
    BY <2>1, <2>2 DEF Counted
<1>6. ASSUME NEW w \in Workers, WorkerStep(w)
      PROVE  CountActive(w) \/ UncountActive(w) \/ (active' = active /\ Counted' = Counted)
  BY <1>6 DEF WorkerStep, Pick, Take, WorkerExit, Leave, Refuse, Execute, Return, Complete, SetFinal,
     WriteStatus, AfterWrite, SignalState, PushState, SignalledAll, OfferFatal, DoneRunning, Goto,
     Counted
<1> QED
  BY <1>2, <1>3, <1>4, <1>5, <1>6, SplitNext DEF ParentCancel, vars, Counted

\* runningTasksWg counts the tasks between dispatch and completion, and
\* activeWorkers the workers between taking a task and letting go of it, at
\* every moment and on every path: the shutdown and the stall detector read them.
LEMMA CountersOfInvariant == WgInv /\ ActiveInv => CountersBalance
  BY DEF WgInv, ActiveInv, CountersBalance, Busy, Counted
-----------------------------------------------------------------------------
(* Wake-ups.                                                               *)

\* What RunPlaybook remembers as dispatched is not Pending.
LEMMA DispatchedStep == IInv /\ DispatchedInv /\ [Next]_vars => DispatchedInv'
<1> SUFFICES ASSUME IInv, DispatchedInv, [Next]_vars,
                    NEW t \in dispatched'
             PROVE  status'[t] # "Pending"
  BY DEF DispatchedInv
<1> USE DEF IInv, TypeOK, NodeType, LoopType, DispatchedInv
<1>1. CASE Dispatch
  <2>1. Head(readyChan) \in Tasks
    BY <1>1, Dequeue DEF Dispatch, ReadyType
  <2> QED
    BY <1>1, <2>1 DEF Dispatch, StartTask
<1>2. CASE ~Dispatch
  <2>1. dispatched' = dispatched
    BY <1>2, ProcessFrame DEF SchedulerStep, LoopStep, TickStep, EndStep, DropReady, SignalStream,
       PushStream, AddRunning, Enqueue, AbortDispatch, FailUnqueued, StoreAborted, ReceiveFatal,
       LeaveOnDone, TickCount, TickActive, StableExit, StallExit, TickOver, WaitDone, WaitTimeout,
       WaitCanceled, WaitOver, Finish
  <2>2. UNCHANGED status \/ AbortDispatch \/ \E w \in Workers : Complete(w)
    BY <1>2, NodeFrame DEF StoreAborted, WriteStatus, SignalStream, SignalState
  <2>3. ASSUME NEW w \in Workers, Complete(w) PROVE status'[t] # "Pending"
    BY <2>1, <2>3, StatusOfType DEF Complete, SetFinal, WorkerType, Terminal, Good
  <2> QED
    BY <2>1, <2>2, <2>3 DEF AbortDispatch, FailUnqueued
<1> QED
  BY <1>1, <1>2

\* The last decrement of either counter is followed by a send of the task, and
\* what the loop takes from readyChan is dispatched or was.
LEMMA WakeupStep == IInv /\ DispatchedInv /\ NoLostWakeup /\ [Next]_vars => NoLostWakeup'
<1> SUFFICES ASSUME IInv, DispatchedInv, NoLostWakeup, [Next]_vars,
                    NEW t \in Tasks, status'[t] = "Pending", IsReady(t)'
             PROVE  \/ t \in Ready'
                    \/ spc' = "push" /\ starget' = t
                    \/ \E w \in Workers : wpc'[w] = "push" /\ wtarget'[w] = t
  BY DEF NoLostWakeup, PendingTasks
<1> USE DEF IInv, TypeOK, NodeType, WorkerType
<1> DEFINE Woken == \/ t \in Ready'
                    \/ spc' = "push" /\ starget' = t
                    \/ \E w \in Workers : wpc'[w] = "push" /\ wtarget'[w] = t
<1>1. status[t] = "Pending"
  <2>1. UNCHANGED status \/ Dispatch \/ AbortDispatch \/ \E w \in Workers : Complete(w)
    BY NodeFrame DEF StoreAborted, WriteStatus, SignalStream, SignalState
  <2>2. CASE Dispatch
    BY <2>2, Dequeue DEF Dispatch, StartTask, ReadyType
  <2>3. CASE AbortDispatch
    BY <2>3 DEF AbortDispatch, FailUnqueued, PcInv, Carrying
  <2>4. ASSUME NEW w \in Workers, Complete(w) PROVE status[t] = "Pending"
    BY <2>4, StatusOfType DEF Complete, SetFinal, Terminal, Good
  <2> QED
    BY <2>1, <2>2, <2>3, <2>4
<1>2. ASSUME NEW d \in Tasks, SignalStream(d) PROVE Woken
  <2>1. CASE streamRem'[d] = 0 /\ t = d
    BY <1>2, <2>1 DEF SignalStream
  <2>2. CASE t # d \/ streamRem'[d] # 0
    <3>1. IsReady(t)
      BY <1>2, <2>2 DEF SignalStream, IsReady
    <3>2. spc = "signal" /\ UNCHANGED <<readyChan, wpc, wtarget>>
      BY <1>2 DEF SignalStream, chanVars, workerVars
    <3>3. t \in Ready \/ \E w \in Workers : wpc[w] = "push" /\ wtarget[w] = t
      BY <1>1, <3>1, <3>2 DEF NoLostWakeup, PendingTasks
    <3> QED
      BY <3>2, <3>3 DEF Ready
  <2> QED
    BY <2>1, <2>2
<1>3. ASSUME NEW w \in Workers, NEW d \in Tasks, SignalState(w, d) PROVE Woken
  <2>1. CASE stateRem'[d] = 0 /\ t = d
    BY <1>3, <2>1 DEF SignalState, Goto
  <2>2. CASE t # d \/ stateRem'[d] # 0
    <3>1. IsReady(t)
      BY <1>3, <2>2 DEF SignalState, IsReady
    <3>2. \A v \in Workers : wpc[v] = "push" => wpc'[v] = "push" /\ wtarget'[v] = wtarget[v]
      BY <1>3 DEF SignalState, Goto
    <3>3. UNCHANGED <<readyChan, spc, starget>>
      BY <1>3 DEF SignalState
    <3> QED
      BY <1>1, <3>1, <3>2, <3>3 DEF NoLostWakeup, PendingTasks, Ready
  <2> QED
    BY <2>1, <2>2
<1>4. ASSUME ~ \E d \in Tasks : SignalStream(d),
             ~ \E w \in Workers, d \in Tasks : SignalState(w, d)
      PROVE  Woken
  <2>1. IsReady(t)
    BY <1>4, NodeFrame DEF IsReady, Dispatch, StartTask, AbortDispatch, FailUnqueued, StoreAborted,
       Complete, SetFinal, WriteStatus
  <2>2. CASE t \in Ready
    <3>1. CASE UNCHANGED readyChan
      BY <2>2, <3>1 DEF Ready
    <3>2. CASE DropReady
      <4>1. t # Head(readyChan)
        BY <1>1, <3>2 DEF DropReady, DispatchedInv
      <4> QED
        BY <2>2, <3>2, <4>1, RangeTail DEF DropReady, Ready, ReadyType
    <3>3. CASE Dispatch
      <4>1. t # Head(readyChan)
        BY <3>3 DEF Dispatch, StartTask
      <4> QED
        BY <2>2, <3>3, <4>1, RangeTail DEF Dispatch, StartTask, Ready, ReadyType
    <3>4. CASE PushStream
      <4>1. starget \in Tasks /\ readyChan \in Seq(Tasks)
        BY <3>4 DEF PushStream, ReadyType, PcInv
      <4>2. readyChan' = readyChan \/ readyChan' = Append(readyChan, starget)
        BY <3>4 DEF PushStream
      <4>3. Range(Append(readyChan, starget)) = Range(readyChan) \cup {starget}
        BY <4>1, RangeAppend
      <4> QED
        BY <2>2, <4>2, <4>3 DEF Ready
    <3>5. ASSUME NEW w \in Workers, PushState(w) PROVE t \in Ready'
      <4>1. wtarget[w] \in Tasks /\ readyChan \in Seq(Tasks)
        BY <3>5 DEF PushState, Goto, ReadyType, PcInv
      <4>2. readyChan' = readyChan \/ readyChan' = Append(readyChan, wtarget[w])
        BY <3>5 DEF PushState, Goto
      <4>3. Range(Append(readyChan, wtarget[w])) = Range(readyChan) \cup {wtarget[w]}
        BY <4>1, RangeAppend
      <4> QED
        BY <2>2, <4>2, <4>3 DEF Ready
    <3> QED
      BY <3>1, <3>2, <3>3, <3>4, <3>5, ReadyFrame
  <2>3. CASE spc = "push" /\ starget = t
    <3>1. CASE UNCHANGED schedVars
      BY <2>3, <3>1
    <3>2. CASE SchedulerStep
      <4>1. PushStream
        BY <1>4, <2>3, <3>2 DEF SchedulerStep, LoopStep, TickStep, EndStep, DropReady, Dispatch,
           StartTask, AddRunning, Enqueue, AbortDispatch, FailUnqueued, StoreAborted, ReceiveFatal,
           LeaveOnDone, TickCount, TickActive, StableExit, StallExit, TickOver, WaitDone,
           WaitTimeout, WaitCanceled, WaitOver, Finish
      <4>2. readyChan' = Append(readyChan, t)
        BY <2>1, <2>3, <4>1 DEF PushStream
      <4> QED
        BY <4>2, RangeAppend DEF Ready, ReadyType
    <3> QED
      BY <3>1, <3>2, ProcessFrame
  <2>4. ASSUME NEW w \in Workers, wpc[w] = "push", wtarget[w] = t PROVE Woken
    <3>1. CASE PushState(w)
      <4>1. readyChan' = Append(readyChan, t)
        BY <2>1, <2>4, <3>1 DEF PushState
      <4> QED
        BY <4>1, RangeAppend DEF Ready, ReadyType
    <3>2. CASE ~PushState(w)
      <4>1. ASSUME NEW v \in Workers, WorkerStep(v), v # w
            PROVE  wpc'[w] = "push" /\ wtarget'[w] = t
        BY <2>4, <4>1 DEF WorkerStep, Pick, Take, WorkerExit, Leave, CountActive, Refuse, Execute,
           Return, Complete, SetFinal, WriteStatus, SignalState, PushState, SignalledAll,
           OfferFatal, DoneRunning, UncountActive, Goto
      <4>2. ~WorkerStep(w)
        BY <1>4, <2>4, <3>2 DEF WorkerStep, Pick, Take, WorkerExit, Leave, CountActive, Refuse,
           Execute, Return, Complete, SetFinal, WriteStatus, SignalledAll, OfferFatal, DoneRunning,
           UncountActive, Goto
      <4> QED
        BY <2>4, <4>1, <4>2, ProcessFrame
    <3> QED
      BY <3>1, <3>2
  <2> QED
    BY <1>1, <2>1, <2>2, <2>3, <2>4 DEF NoLostWakeup, PendingTasks
<1> QED
  BY <1>2, <1>3, <1>4
-----------------------------------------------------------------------------
(* The end of the workers.                                                 *)

\* A worker leaves when the context is done, or the queue is closed and empty;
\* nothing is queued after the close, and a context never comes back.
LEMMA ExitStep == IInv /\ ExitInv /\ [Next]_vars => ExitInv'
<1> SUFFICES ASSUME IInv, ExitInv, [Next]_vars,
                    NEW w \in Workers, wpc'[w] = "exited", ~ctxDone'
             PROVE  QueueClosed' /\ workQueue' = <<>>
  BY DEF ExitInv
<1> USE DEF IInv, TypeOK, WorkerType
<1>1. ~ctxDone
  <2>1. SchedulerStep => UNCHANGED ctxDone \/ ctxDone'
    BY DEF SchedulerStep, LoopStep, TickStep, EndStep, DropReady, Dispatch, StartTask,
       SignalStream, PushStream, AddRunning, Enqueue, AbortDispatch, FailUnqueued, StoreAborted,
       ReceiveFatal, LeaveOnDone, TickCount, TickActive, StableExit, StallExit, TickOver, WaitDone,
       WaitTimeout, WaitCanceled, WaitOver, Finish
  <2>2. ASSUME NEW v \in Workers, WorkerStep(v) PROVE UNCHANGED ctxDone
    BY <2>2 DEF WorkerStep, Pick, Take, WorkerExit, Leave, CountActive, Refuse, Execute, Return,
       Complete, SetFinal, WriteStatus, SignalState, PushState, SignalledAll, OfferFatal,
       DoneRunning, UncountActive
  <2> QED
    BY <2>1, <2>2, SplitNext DEF ParentCancel, vars
<1>2. CASE wpc[w] = "exited"
  <2>1. QueueClosed /\ workQueue = <<>>
    BY <1>1, <1>2 DEF ExitInv
  <2>2. QueueClosed'
    BY <2>1, ProcessFrame DEF QueueClosed, SchedulerStep, LoopStep, TickStep, EndStep, DropReady,
       Dispatch, StartTask, SignalStream, PushStream, AddRunning, Enqueue, AbortDispatch,
       FailUnqueued, StoreAborted, ReceiveFatal, LeaveOnDone, TickCount, TickActive, StableExit,
       StallExit, TickOver, WaitDone, WaitTimeout, WaitCanceled, WaitOver, Finish
  <2>3. workQueue' = workQueue
    BY <2>1, QueueFrame DEF Enqueue, Pick, Take, QueueClosed
  <2> QED
    BY <2>1, <2>2, <2>3
<1>3. CASE wpc[w] # "exited"
  <2>1. WorkerExit(w)
    <3>1. PICK v \in Workers : WorkerStep(v)
      BY <1>3, ProcessFrame
    <3> QED
      BY <1>3, <3>1 DEF WorkerStep, Pick, Take, WorkerExit, Leave, CountActive, Refuse, Execute,
         Return, Complete, SetFinal, AfterWrite, WriteStatus, SignalState, PushState, SignalledAll,
         OfferFatal, DoneRunning, UncountActive, Goto
  <2> QED
    BY <1>1, <2>1 DEF WorkerExit, Leave, QueueClosed
<1> QED
  BY <1>2, <1>3

\* When every worker has left an uncancelled run, no task is queued, carried or
\* with a worker, and those are all the tasks that can be Running.
LEMMA NothingAbandonedOfInvariant == IInv /\ RunningInv /\ ExitInv => NothingAbandoned
<1> SUFFICES ASSUME RunningInv, ExitInv, spc = "join", ~ctxDone,
                    \A w \in Workers : wpc[w] = "exited",
                    NEW t \in Tasks
             PROVE  status[t] # "Running"
  BY DEF NothingAbandoned
<1>1. workQueue = <<>>
  BY DEF ExitInv
<1>2. Queued = {} /\ Carried = {}
  BY <1>1 DEF Queued, Carried, Range
<1> QED
  BY <1>2 DEF RunningInv, BeforeCompletion
-----------------------------------------------------------------------------
(* The order of workQueue.                                                 *)

\* The loop takes a task in hand only by dispatching it.
LEMMA CarriedFrame == [Next]_vars => Dispatch \/ Carried' \subseteq Carried
  BY ProcessFrame DEF Carried, SchedulerStep, LoopStep, TickStep, EndStep, DropReady, SignalStream,
     PushStream, AddRunning, Enqueue, AbortDispatch, FailUnqueued, StoreAborted, ReceiveFatal,
     LeaveOnDone, TickCount, TickActive, StableExit, StallExit, TickOver, WaitDone, WaitTimeout,
     WaitCanceled, WaitOver, Finish

\* A task that is dispatched now produces nothing for a task dispatched before.
LEMMA NewIsNoProducer ==
  ASSUME IInv, Dispatch, NEW u \in Tasks, status[u] # "Pending"
  PROVE  /\ Carried' = {cur'} /\ cur' \notin StreamDeps[u]
         /\ UNCHANGED <<workQueue, wtask>>
<1>1. Carried' = {cur'} /\ cur' = Head(readyChan) /\ UNCHANGED <<workQueue, wtask>>
  BY DEF Dispatch, StartTask, Carried
<1>2. status[Head(readyChan)] = "Pending"
  BY DEF Dispatch
<1> QED
  BY <1>1, <1>2, DependenciesEnded DEF NoEarlyDispatch

\* A task does not stream to itself.
LEMMA NoSelfStream == \A t \in Tasks : t \notin StreamDeps[t]
<1> TAKE t \in Tasks
<1>1. {t} \in SUBSET Tasks /\ {t} # {}
  OBVIOUS
<1>2. \E u \in {t} : Deps(u) \cap {t} = {}
  BY <1>1, AcyclicAssumption
<1> QED
  BY <1>2 DEF Deps

\* A task is dispatched after its producers, hence queued behind them.
LEMMA OrderStep == IInv /\ OrderInv /\ [Next]_vars => OrderInv'
<1> SUFFICES ASSUME IInv, OrderInv, [Next]_vars PROVE OrderInv'
  OBVIOUS
<1>0. ASSUME Dispatch, NEW u \in Tasks, status[u] # "Pending"
      PROVE  Carried' = {cur'} /\ cur' \notin StreamDeps[u] /\ UNCHANGED <<workQueue, wtask>>
  BY <1>0, NewIsNoProducer
<1> USE DEF IInv, TypeOK, QueueType, OrderInv
<1>1. /\ workQueue \in Seq(Tasks)
      /\ \A i \in 1..Len(workQueue) : workQueue[i] \in Tasks /\ status[workQueue[i]] # "Pending"
  BY DEF HolderInv, Queued, Range
<1>2. CASE Dispatch
  <2>1. workQueue' = workQueue
    BY <1>2 DEF Dispatch, StartTask
  <2> QED
    BY <1>0, <1>1, <1>2, <2>1
<1>3. CASE Enqueue
  <2>1. /\ cur \in Tasks /\ Carried = {cur} /\ Carried' = {}
        /\ workQueue' = Append(workQueue, cur)
    BY <1>3 DEF Enqueue, Carried, PcInv, Carrying
  <2>2. /\ Len(workQueue') = Len(workQueue) + 1 /\ workQueue'[Len(workQueue) + 1] = cur
        /\ \A i \in 1..Len(workQueue) : workQueue'[i] = workQueue[i]
    BY <1>1, <2>1
  <2>3. ASSUME NEW i \in 1..Len(workQueue'), NEW j \in i..Len(workQueue')
        PROVE  workQueue'[j] \notin StreamDeps[workQueue'[i]]
    <3>1. CASE i = Len(workQueue) + 1
      <4>1. j = i
        BY <2>2, <2>3, <3>1
      <4> QED
        BY <2>1, <2>2, <3>1, <4>1, NoSelfStream
    <3>2. CASE i # Len(workQueue) + 1 /\ j = Len(workQueue) + 1
      BY <1>1, <2>1, <2>2, <3>2
    <3>3. CASE i # Len(workQueue) + 1 /\ j # Len(workQueue) + 1
      <4>1. i \in 1..Len(workQueue) /\ j \in i..Len(workQueue) /\ j \in 1..Len(workQueue)
        BY <1>1, <2>2, <3>3
      <4> QED
        BY <2>2, <4>1
    <3> QED
      BY <3>1, <3>2, <3>3
  <2> QED
    BY <2>1, <2>3
<1>4. ASSUME NEW w \in Workers, Pick(w) PROVE OrderInv'
  <2>1. workQueue # <<>> /\ workQueue' = Tail(workQueue) /\ Carried' = Carried
    BY <1>4 DEF Pick, Take, Carried
  <2>2. /\ Len(workQueue') = Len(workQueue) - 1
        /\ \A i \in 1..Len(workQueue') :
             i + 1 \in 1..Len(workQueue) /\ workQueue'[i] = workQueue[i + 1]
    BY <1>1, <2>1
  <2> QED
    BY <1>1, <2>1, <2>2
<1>5. CASE UNCHANGED workQueue /\ ~Dispatch
  BY <1>5, CarriedFrame
<1> QED
  BY <1>2, <1>3, <1>4, <1>5, QueueFrame

\* Whatever a worker takes was ahead of all that is queued or carried.
LEMMA ProducersStep == IInv /\ OrderInv /\ ProducersFirst /\ [Next]_vars => ProducersFirst'
<1> SUFFICES ASSUME IInv, OrderInv, ProducersFirst, [Next]_vars,
                    NEW w \in Workers, wtask'[w] # NoTask
             PROVE  StreamDeps[wtask'[w]] \cap (Queued' \cup Carried') = {}
  BY DEF ProducersFirst, Held
<1>0. ASSUME Dispatch, NEW u \in Tasks, status[u] # "Pending"
      PROVE  Carried' = {cur'} /\ cur' \notin StreamDeps[u] /\ UNCHANGED <<workQueue, wtask>>
  BY <1>0, NewIsNoProducer
<1> USE DEF IInv, TypeOK, QueueType, WorkerType
<1>1. wtask[w] # NoTask =>
        /\ wtask[w] \in Tasks /\ status[wtask[w]] # "Pending"
        /\ StreamDeps[wtask[w]] \cap (Queued \cup Carried) = {}
  BY DEF ProducersFirst, Held, PcInv, HolderInv
<1>2. CASE Dispatch
  <2>1. workQueue' = workQueue /\ wtask' = wtask
    BY <1>2 DEF Dispatch, StartTask
  <2> QED
    BY <1>0, <1>1, <1>2, <2>1 DEF Queued
<1>3. CASE Enqueue
  <2>1. /\ cur \in Tasks /\ Carried = {cur} /\ Carried' = {} /\ wtask' = wtask
        /\ workQueue' = Append(workQueue, cur)
    BY <1>3 DEF Enqueue, Carried, PcInv, Carrying
  <2>2. Queued' = Queued \cup {cur}
    BY <2>1, RangeAppend DEF Queued
  <2> QED
    BY <1>1, <2>1, <2>2
<1>4. ASSUME NEW v \in Workers, Pick(v)
      PROVE  StreamDeps[wtask'[w]] \cap (Queued' \cup Carried') = {}
  <2>1. /\ workQueue # <<>> /\ workQueue' = Tail(workQueue) /\ Carried' = Carried
        /\ wtask' = [wtask EXCEPT ![v] = Head(workQueue)]
    BY <1>4 DEF Pick, Take, Carried
  <2>2. Queued' \subseteq Queued
    BY <2>1, RangeTail DEF Queued
  <2>3. CASE w # v
    BY <1>1, <2>1, <2>2, <2>3
  <2>4. CASE w = v
    <3>1. wtask'[w] = workQueue[1] /\ 1 \in 1..Len(workQueue)
      BY <2>1, <2>4
    <3>2. ASSUME NEW t \in Queued' PROVE \E j \in 1..Len(workQueue) : t = workQueue[j]
      BY <2>1, <3>2 DEF Queued, Range
    <3> QED
      BY <2>1, <3>1, <3>2 DEF OrderInv
  <2> QED
    BY <2>3, <2>4
<1>5. CASE UNCHANGED workQueue /\ ~Dispatch /\ ~ \E v \in Workers : Pick(v)
  <2>1. Queued' = Queued /\ Carried' \subseteq Carried
    BY <1>5, CarriedFrame DEF Queued
  <2>2. wtask'[w] = wtask[w]
    <3>1. ASSUME NEW v \in Workers, WorkerStep(v) PROVE wtask'[w] = wtask[w]
      BY <1>5, <3>1 DEF WorkerStep, WorkerExit, Leave, CountActive, Refuse, Execute, Return,
         Complete, SetFinal, WriteStatus, SignalState, PushState, SignalledAll, OfferFatal,
         DoneRunning, UncountActive, Goto
    <3> QED
      BY <3>1, ProcessFrame
  <2> QED
    BY <1>1, <2>1, <2>2
<1> QED
  BY <1>2, <1>3, <1>4, <1>5, QueueFrame
-----------------------------------------------------------------------------
(* The invariant and what follows from it.                                 *)

\* The tasks that depend on nothing are in readyChan before the run starts.
LEMMA InitWakeup == Init => NoLostWakeup
<1> SUFFICES ASSUME Init, NEW t \in Tasks, IsReady(t) PROVE t \in Ready
  BY DEF NoLostWakeup, PendingTasks
<1>1. Cardinality(StateDeps[t]) = 0 /\ Cardinality(StreamDeps[t]) = 0
  BY DEF Init, IsReady
<1>2. Deps(t) = {}
  BY <1>1, Finite, FS_EmptySet DEF Deps
<1>3. readyChan \in Orders(InitialReady) /\ t \in InitialReady
  BY <1>2 DEF Init, InitialReady
<1> QED
  BY <1>3 DEF Orders, Bijection, Surjection, Ready, Range

\* The inductive invariant of the queues.
LEMMA QueueInvariant == Spec => []QInv
<1>1. Init => QInv
  <2> SUFFICES ASSUME Init PROVE QInv
    OBVIOUS
  <2>1. Busy = {} /\ Counted = {} /\ Cardinality({}) = 0
    BY FS_EmptySet DEF Init, Busy, Held, Counted
  <2>2. WgInv /\ RunningInv /\ ActiveInv
    BY <2>1 DEF Init, WgInv, RunningInv, ActiveInv
  <2>3. DispatchedInv /\ ExitInv /\ OrderInv /\ ProducersFirst
    BY DEF Init, DispatchedInv, ExitInv, OrderInv, ProducersFirst, Held
  <2> QED
    BY <2>2, <2>3, InitIInv, InitWakeup DEF QInv
<1>2. QInv /\ [Next]_vars => QInv'
  BY InductiveStep, WgStep, RunningStep, ActiveStep, DispatchedStep, ExitStep, WakeupStep,
     OrderStep, ProducersStep DEF QInv
<1> QED
  BY <1>1, <1>2, PTL DEF Spec

\* While the loop runs, a pending task whose counters are both zero is in
\* readyChan or about to be sent by whoever made the last decrement
\* (signalStateDependents and signalStreamDependents of engine.go).
THEOREM NoWakeupLost == Spec => []NoLostWakeup
<1>1. QInv => NoLostWakeup
  BY DEF QInv
<1> QED
  BY <1>1, QueueInvariant, PTL

\* No worker of the pool holds a stream consumer while one of its producers is
\* still queued behind it or not queued yet.
THEOREM ProducersAhead == Spec => []ProducersFirst
<1>1. QInv => ProducersFirst
  BY DEF QInv
<1> QED
  BY <1>1, QueueInvariant, PTL

\* runningTasksWg and activeWorkers agree with the queue and the workers.
THEOREM CountersRight == Spec => []CountersBalance
<1>1. QInv => CountersBalance
  BY CountersOfInvariant DEF QInv
<1> QED
  BY <1>1, QueueInvariant, PTL

\* Unless the context is done, a pool that has shut down left no task Running.
THEOREM PoolDrains == Spec => []NothingAbandoned
<1>1. QInv => NothingAbandoned
  BY NothingAbandonedOfInvariant DEF QInv
<1> QED
  BY <1>1, QueueInvariant, PTL
=============================================================================
