----------------------------- MODULE Scheduler -----------------------------
(***************************************************************************)
(* The scheduling core of internal/engine/engine.go: the loop of           *)
(* RunPlaybook, the pool of worker goroutines, handleTaskCompletion, the   *)
(* signalling of dependents, the stall detector, the wait after the loop   *)
(* and the outcome that is returned.                                       *)
(*                                                                         *)
(* One process is the goroutine that called RunPlaybook (its control point *)
(* is spc), the others are the workers (wpc).  A step is what happens      *)
(* between two points at which another goroutine can observe a difference: *)
(* a section under statusMu, one operation on an atomic counter, one       *)
(* operation on a channel or a WaitGroup.  TaskRunner.ExecuteTask is       *)
(* abstracted to the kind of value it returns.                             *)
(***************************************************************************)
EXTENDS Integers, Sequences, FiniteSets, Functions

CONSTANTS
  Tasks,           \* the nodes of the DAG (internal task ids)
  Workers,         \* the worker goroutines, workerPoolSize of them
  StateDeps,       \* Node.StateDependsOn of each task
  StreamDeps,      \* Node.StreamDependsOn of each task
  IgnoreErrors,    \* the tasks declared with ignore_errors: true
  MayReturn,       \* what ExecuteTask may return for each task
  ParentMayCancel, \* may the caller's context be cancelled or time out?
  Tolerance,       \* StallPolicy.Tolerance
  NoTask           \* the value of a task variable that names no task

Results  == {"ok", "skip", "fail", "ctx"}
Good     == {"Completed", "Skipped"}
Terminal == Good \cup {"Failed"}
Statuses == Terminal \cup {"Pending", "Running"}

Deps(t)             == StateDeps[t] \cup StreamDeps[t]
StateDependents(p)  == {t \in Tasks : p \in StateDeps[t]}
StreamDependents(p) == {t \in Tasks : p \in StreamDeps[t]}

ASSUME TasksAssumption ==
  /\ Tasks # {} /\ IsFiniteSet(Tasks) /\ NoTask \notin Tasks
  /\ Workers # {} /\ IsFiniteSet(Workers)
  /\ Tolerance \in Nat \ {0}
  /\ ParentMayCancel \in BOOLEAN
  /\ IgnoreErrors \subseteq Tasks
  /\ MayReturn \in [Tasks -> SUBSET Results]
ASSUME DepsAssumption ==
  /\ StateDeps \in [Tasks -> SUBSET Tasks]
  /\ StreamDeps \in [Tasks -> SUBSET Tasks]

\* What detectCycle of dag.go establishes before the run starts.
ASSUME AcyclicAssumption ==
  \A S \in SUBSET Tasks : S # {} => \E t \in S : Deps(t) \cap S = {}

ReadyCap == Cardinality(Tasks) + Cardinality(Workers)
WorkCap  == 2 * Cardinality(Workers)

VARIABLES
  status,      \* e.taskStatuses
  store,       \* _gxo.tasks.<name>.status in the state store
  stateRem,    \* Node.StateDepsRemaining
  streamRem,   \* Node.StreamDepsRemaining
  stateTodo,   \* dependents signalStateDependents has not decremented yet
  streamTodo,  \* dependents signalStreamDependents has not decremented yet
  readyChan, workQueue,
  fatalChan,   \* does fatalErrChan (capacity 1) hold an error?
  ctxDone,     \* is runCtx done?
  active,      \* e.activeWorkers
  runningWg,   \* the counter of runningTasksWg
  dispatched,  \* dispatchedTasks
  spc,         \* control point of RunPlaybook
  cur,         \* taskID of the readyChan case
  starget,     \* the dependent RunPlaybook is signalling
  accounted, lastAccounted, stallChecks,
  tickActive,  \* activeWorkersCount, read earlier in the same tick
  firstErr,    \* firstFatalError
  outcome,     \* finalErr, as determineFinalOutcome classifies it
  report,      \* OverallStatus of the report
  wpc, wtask,  \* control point of each worker and the task it holds
  wres,        \* what ExecuteTask returned to it
  wtarget      \* the dependent it is signalling

nodeVars   == <<status, store, stateRem, streamRem, stateTodo, streamTodo>>
chanVars   == <<readyChan, workQueue, fatalChan, ctxDone>>
tickVars   == <<accounted, lastAccounted, stallChecks, tickActive>>
endVars    == <<firstErr, outcome, report>>
schedVars  == <<dispatched, spc, cur, starget, tickVars, endVars>>
workerVars == <<wpc, wtask, wres, wtarget>>
vars == <<nodeVars, chanVars, active, runningWg, schedVars, workerVars>>

IsReady(t) == streamRem[t] = 0 /\ stateRem[t] = 0

\* close(e.workQueue) is the first deferred call to run after the outcome.
QueueClosed == spc \in {"join", "done"}

\* BuildDAG fills readyChan in the order of a map iteration: any order.
InitialReady == {t \in Tasks : Deps(t) = {}}
Orders(S) == Bijection(1..Cardinality(S), S)

Init ==
  /\ status = [t \in Tasks |-> "Pending"]
  /\ store = [t \in Tasks |-> "Pending"]
  /\ stateRem = [t \in Tasks |-> Cardinality(StateDeps[t])]
  /\ streamRem = [t \in Tasks |-> Cardinality(StreamDeps[t])]
  /\ stateTodo = [p \in Tasks |-> StateDependents(p)]
  /\ streamTodo = [p \in Tasks |-> StreamDependents(p)]
  /\ readyChan \in Orders(InitialReady)
  /\ workQueue = <<>> /\ fatalChan = FALSE /\ ctxDone = FALSE
  /\ active = 0 /\ runningWg = 0
  /\ dispatched = {} /\ spc = "select" /\ cur = NoTask /\ starget = NoTask
  /\ accounted = 0 /\ lastAccounted = -1 /\ stallChecks = 0 /\ tickActive = 0
  /\ firstErr = "none" /\ outcome = "unset" /\ report = "unset"
  /\ wpc = [w \in Workers |-> "idle"]
  /\ wtask = [w \in Workers |-> NoTask]
  /\ wres = [w \in Workers |-> "ok"]
  /\ wtarget = [w \in Workers |-> NoTask]
-----------------------------------------------------------------------------
(* The scheduling loop.                                                    *)

\* A readyChan entry that names a task dispatched before is dropped.
DropReady ==
  /\ spc = "select" /\ readyChan # <<>>
  /\ Head(readyChan) \in dispatched \/ status[Head(readyChan)] # "Pending"
  /\ readyChan' = Tail(readyChan)
  /\ stallChecks' = 0
  /\ UNCHANGED <<nodeVars, workQueue, fatalChan, ctxDone, active, runningWg, dispatched,
                 spc, cur, starget, accounted, lastAccounted, tickActive, endVars, workerVars>>

StartTask(s) ==
  /\ spc = "select" /\ readyChan # <<>>
  /\ cur' = Head(readyChan)
  /\ readyChan' = Tail(readyChan)
  /\ stallChecks' = 0
  /\ dispatched' = dispatched \cup {cur'}
  /\ status' = [status EXCEPT ![cur'] = s]
  /\ store' = [store EXCEPT ![cur'] = s]
  /\ spc' = "signal"
  /\ UNCHANGED <<stateRem, streamRem, stateTodo, streamTodo, workQueue, fatalChan, ctxDone, active,
                 runningWg, starget, accounted, lastAccounted, tickActive, endVars, workerVars>>

\* Defects: no check for a duplicate; the internal status leaks.
DispatchAnything     == StartTask("Running")
DispatchMarkingReady == Head(readyChan) \notin dispatched /\ StartTask("Ready")

Dispatch ==
  /\ spc = "select" /\ readyChan # <<>>
  /\ Head(readyChan) \notin dispatched /\ status[Head(readyChan)] = "Pending"
  /\ StartTask("Running")

\* Defect: the stream signal leaves the wake-up to the state signal.
SignalStreamOnly(d) ==
  /\ spc = "signal" /\ d \in streamTodo[cur]
  /\ streamTodo' = [streamTodo EXCEPT ![cur] = @ \ {d}]
  /\ streamRem' = [streamRem EXCEPT ![d] = @ - 1]
  /\ UNCHANGED <<status, store, stateRem, stateTodo, chanVars, active, runningWg, schedVars,
                 workerVars>>

\* signalStreamDependents decrements one dependent ...
SignalStream(d) ==
  /\ spc = "signal" /\ d \in streamTodo[cur]
  /\ streamTodo' = [streamTodo EXCEPT ![cur] = @ \ {d}]
  /\ streamRem' = [streamRem EXCEPT ![d] = @ - 1]
  /\ IF streamRem'[d] = 0
     THEN spc' = "push" /\ starget' = d
     ELSE UNCHANGED <<spc, starget>>
  /\ UNCHANGED <<status, store, stateRem, stateTodo, chanVars, active, runningWg,
                 dispatched, cur, tickVars, endVars, workerVars>>

\* ... and, if that made it ready, sends it on readyChan: a plain send, which
\* blocks while the channel is full, in the goroutine that receives from it.
\* The two loads of isTaskReady are one step because counters only decrease.
PushStream ==
  /\ spc = "push"
  /\ IF IsReady(starget)
     THEN Len(readyChan) < ReadyCap /\ readyChan' = Append(readyChan, starget)
     ELSE UNCHANGED readyChan
  /\ spc' = "signal" /\ starget' = NoTask
  /\ UNCHANGED <<nodeVars, workQueue, fatalChan, ctxDone, active, runningWg, dispatched,
                 cur, tickVars, endVars, workerVars>>

AddRunning ==
  /\ spc = "signal" /\ streamTodo[cur] = {}
  /\ runningWg' = runningWg + 1
  /\ spc' = "enqueue"
  /\ UNCHANGED <<nodeVars, chanVars, active, dispatched, cur, starget, tickVars, endVars,
                 workerVars>>

Enqueue ==
  /\ spc = "enqueue" /\ Len(workQueue) < WorkCap
  /\ workQueue' = Append(workQueue, cur)
  /\ spc' = "select" /\ cur' = NoTask
  /\ UNCHANGED <<nodeVars, readyChan, fatalChan, ctxDone, active, runningWg, dispatched, starget,
                 tickVars, endVars, workerVars>>

\* The other case of the same select: the task fails without having run.  Its
\* completion is synthetic, so the status is set whatever it was.
FailUnqueued(n) ==
  /\ spc = "enqueue" /\ ctxDone
  /\ runningWg' = runningWg - n
  /\ status' = [status EXCEPT ![cur] = "Failed"]
  /\ spc' = "abort"
  /\ UNCHANGED <<store, stateRem, streamRem, stateTodo, streamTodo, chanVars, active, dispatched,
                 cur, starget, tickVars, endVars, workerVars>>

\* Defect: the WaitGroup still counts a task that was never queued.
AbortWithoutDone == FailUnqueued(0)

AbortDispatch == FailUnqueued(1)

StoreAborted ==
  /\ spc = "abort"
  /\ store' = [store EXCEPT ![cur] = "Failed"]
  /\ spc' = "select" /\ cur' = NoTask
  /\ UNCHANGED <<status, stateRem, streamRem, stateTodo, streamTodo, chanVars, active, runningWg,
                 dispatched, starget, tickVars, endVars, workerVars>>

ReceiveFatal ==
  /\ spc = "select" /\ fatalChan
  /\ fatalChan' = FALSE
  /\ stallChecks' = 0
  /\ firstErr' = IF firstErr = "none" THEN "fatal" ELSE firstErr
  /\ ctxDone' = TRUE
  /\ UNCHANGED <<nodeVars, readyChan, workQueue, active, runningWg, dispatched, spc, cur, starget,
                 accounted, lastAccounted, tickActive, outcome, report, workerVars>>

LeaveOnDone ==
  /\ spc = "select" /\ ctxDone
  /\ firstErr' = IF firstErr = "none" THEN "canceled" ELSE firstErr
  /\ spc' = "wait"
  /\ UNCHANGED <<nodeVars, chanVars, active, runningWg, dispatched, cur, starget, tickVars,
                 outcome, report, workerVars>>
-----------------------------------------------------------------------------
(* The ticker case: three reads that other goroutines run between.         *)

TickCount ==
  /\ spc = "select"
  /\ accounted' = Cardinality({t \in Tasks : status[t] \in Terminal})
  /\ spc' = IF accounted' >= Cardinality(Tasks) THEN "wait" ELSE "tickActive"
  /\ UNCHANGED <<nodeVars, chanVars, active, runningWg, dispatched, cur, starget, lastAccounted,
                 stallChecks, tickActive, endVars, workerVars>>

TickActive ==
  /\ spc = "tickActive"
  /\ tickActive' = active
  /\ spc' = "tickDecide"
  /\ UNCHANGED <<nodeVars, chanVars, active, runningWg, dispatched, cur, starget, accounted,
                 lastAccounted, stallChecks, endVars, workerVars>>

PendingTasks  == {t \in Tasks : status[t] = "Pending"}
RunnableTasks == {t \in PendingTasks : IsReady(t)}
Stable        == tickActive = 0 /\ RunnableTasks = {} /\ PendingTasks # {}
NoProgress    == accounted = lastAccounted

StableExit ==
  /\ spc = "tickDecide" /\ Stable
  /\ spc' = "wait"
  /\ UNCHANGED <<nodeVars, chanVars, active, runningWg, dispatched, cur, starget, tickVars,
                 endVars, workerVars>>

StallExit ==
  /\ spc = "tickDecide" /\ ~Stable /\ NoProgress /\ stallChecks + 1 >= Tolerance
  /\ stallChecks' = stallChecks + 1
  /\ firstErr' = IF firstErr = "none" THEN "stalled" ELSE firstErr
  /\ ctxDone' = TRUE
  /\ spc' = "wait"
  /\ UNCHANGED <<nodeVars, readyChan, workQueue, fatalChan, active, runningWg, dispatched, cur,
                 starget, accounted, lastAccounted, tickActive, outcome, report, workerVars>>

TickOver ==
  /\ spc = "tickDecide" /\ ~Stable /\ (NoProgress => stallChecks + 1 < Tolerance)
  /\ stallChecks' = IF NoProgress THEN stallChecks + 1 ELSE 0
  /\ lastAccounted' = accounted
  /\ spc' = "select"
  /\ UNCHANGED <<nodeVars, chanVars, active, runningWg, dispatched, cur, starget, accounted,
                 tickActive, endVars, workerVars>>

-----------------------------------------------------------------------------
(* After the loop: the wait for runningTasksWg, the outcome, the deferred  *)
(* calls.  The ten second timer may expire at any moment.                  *)

\* Defect: failed tasks are not looked for.
FinalOutcomeBlind(err) ==
  IF err # "none" THEN err
  ELSE IF \E t \in PendingTasks : stateRem[t] <= 0 THEN "pending" ELSE "nil"

\* determineFinalOutcome: a task blocked by its state dependencies is expected
\* to be pending, one blocked by a stream dependency is not.
FinalOutcome(err) ==
  IF err # "none" THEN IF err = "timeout" THEN "fatal" ELSE err
  ELSE IF \E t \in PendingTasks : stateRem[t] <= 0 THEN "pending"
  ELSE IF \E t \in Tasks : status[t] = "Failed" THEN "failed"
  ELSE "nil"

WaitOver(err) ==
  /\ spc = "wait"
  /\ firstErr' = IF firstErr = "none" THEN err ELSE firstErr
  /\ outcome' = FinalOutcome(firstErr')
  /\ spc' = "join"
  /\ UNCHANGED <<nodeVars, chanVars, active, runningWg, dispatched, cur, starget, tickVars, report,
                 workerVars>>

WaitDone     == runningWg = 0 /\ WaitOver("none")
WaitTimeout  == WaitOver("timeout")
WaitCanceled == ctxDone /\ WaitOver("canceled")

\* workerWg.Wait, then cancelRun, then generateReport and its status.
Finish ==
  /\ spc = "join" /\ \A w \in Workers : wpc[w] = "exited"
  /\ ctxDone' = TRUE
  /\ report' = IF outcome = "nil" /\ \A t \in Tasks : status[t] \in Good
               THEN "Completed" ELSE "Failed"
  /\ spc' = "done"
  /\ UNCHANGED <<nodeVars, readyChan, workQueue, fatalChan, active, runningWg, dispatched, cur,
                 starget, tickVars, firstErr, outcome, workerVars>>

\* The caller's context, of which runCtx is a child.
ParentCancel ==
  /\ ParentMayCancel /\ ~ctxDone
  /\ ctxDone' = TRUE
  /\ UNCHANGED <<nodeVars, readyChan, workQueue, fatalChan, active, runningWg, schedVars,
                 workerVars>>
-----------------------------------------------------------------------------
(* The workers.                                                            *)

Goto(w, from, to) == wpc[w] = from /\ wpc' = [wpc EXCEPT ![w] = to]

Take(w, t, rest) ==
  /\ Goto(w, "idle", "picked") /\ workQueue # <<>>
  /\ wtask' = [wtask EXCEPT ![w] = t]
  /\ workQueue' = rest
  /\ UNCHANGED <<nodeVars, readyChan, fatalChan, ctxDone, active, runningWg, schedVars, wres, wtarget>>

\* Defect: the queue is a stack.
PickNewest(w) == Take(w, workQueue[Len(workQueue)], SubSeq(workQueue, 1, Len(workQueue) - 1))

Pick(w) == Take(w, Head(workQueue), Tail(workQueue))

Leave(w, when) ==
  /\ Goto(w, "idle", "exited") /\ when
  /\ UNCHANGED <<nodeVars, chanVars, active, runningWg, schedVars, wtask, wres, wtarget>>

\* Defects: a closed queue is not drained; a closed queue is not noticed.
ExitUndrained(w)  == Leave(w, ctxDone \/ QueueClosed)
ExitOnCancelOnly(w) == Leave(w, ctxDone)

WorkerExit(w) == Leave(w, ctxDone \/ (QueueClosed /\ workQueue = <<>>))

CountActive(w) ==
  /\ Goto(w, "picked", "begun")
  /\ active' = active + 1
  /\ UNCHANGED <<nodeVars, chanVars, runningWg, schedVars, wtask, wres, wtarget>>

\* A worker that finds the context done does not call ExecuteTask.
Refuse(w) ==
  /\ Goto(w, "begun", "complete") /\ ctxDone
  /\ wres' = [wres EXCEPT ![w] = "ctx"]
  /\ UNCHANGED <<nodeVars, chanVars, active, runningWg, schedVars, wtask, wtarget>>

Execute(w) ==
  /\ Goto(w, "begun", "executing") /\ ~ctxDone
  /\ UNCHANGED <<nodeVars, chanVars, active, runningWg, schedVars, wtask, wres, wtarget>>

\* ExecuteTask returns.  "ctx" stands for an error that is Canceled or
\* DeadlineExceeded: the run's context, or the task's own timeout.
Return(w, r) ==
  /\ Goto(w, "executing", "complete")
  /\ r \in MayReturn[wtask[w]] \/ (r = "ctx" /\ ctxDone)
  /\ wres' = [wres EXCEPT ![w] = r]
  /\ UNCHANGED <<nodeVars, chanVars, active, runningWg, schedVars, wtask, wtarget>>

StatusOf == [ok |-> "Completed", skip |-> "Skipped", fail |-> "Failed", ctx |-> "Failed"]

\* handleTaskCompletion up to statusMu.Unlock; a second completion is ignored.
SetFinal(w, next) ==
  /\ wpc[w] = "complete"
  /\ IF status[wtask[w]] \in Terminal
     THEN Goto(w, "complete", "leave") /\ UNCHANGED status
     ELSE /\ Goto(w, "complete", next)
          /\ status' = [status EXCEPT ![wtask[w]] = StatusOf[wres[w]]]
  /\ UNCHANGED <<store, stateRem, streamRem, stateTodo, streamTodo, chanVars, active, runningWg,
                 schedVars, wtask, wres, wtarget>>

\* Defect: a failure signals the dependents too.
AlwaysSignal(w) == "signal"

AfterWrite(w) == IF StatusOf[wres[w]] \in Good THEN "signal" ELSE "halt"

\* Defect: the final status does not reach the state store.
CompleteUnwritten(w) == SetFinal(w, AfterWrite(w))

Complete(w) == SetFinal(w, "write")

WriteStatus(w) ==
  /\ Goto(w, "write", AfterWrite(w))
  /\ store' = [store EXCEPT ![wtask[w]] = StatusOf[wres[w]]]
  /\ UNCHANGED <<status, stateRem, streamRem, stateTodo, streamTodo, chanVars, active, runningWg,
                 schedVars, wtask, wres, wtarget>>

SignalState(w, d) ==
  /\ wpc[w] = "signal" /\ d \in stateTodo[wtask[w]]
  /\ stateTodo' = [stateTodo EXCEPT ![wtask[w]] = @ \ {d}]
  /\ stateRem' = [stateRem EXCEPT ![d] = @ - 1]
  /\ IF stateRem'[d] = 0
     THEN Goto(w, "signal", "push") /\ wtarget' = [wtarget EXCEPT ![w] = d]
     ELSE UNCHANGED <<wpc, wtarget>>
  /\ UNCHANGED <<status, store, streamRem, streamTodo, chanVars, active, runningWg, schedVars,
                 wtask, wres>>

PushState(w) ==
  /\ Goto(w, "push", "signal")
  /\ IF IsReady(wtarget[w])
     THEN Len(readyChan) < ReadyCap /\ readyChan' = Append(readyChan, wtarget[w])
     ELSE UNCHANGED readyChan
  /\ wtarget' = [wtarget EXCEPT ![w] = NoTask]
  /\ UNCHANGED <<nodeVars, workQueue, fatalChan, ctxDone, active, runningWg, schedVars, wtask, wres>>


SignalledAll(w) ==
  /\ Goto(w, "signal", "leave") /\ stateTodo[wtask[w]] = {}
  /\ UNCHANGED <<nodeVars, chanVars, active, runningWg, schedVars, wtask, wres, wtarget>>

\* A failure that is neither ignored nor a context error is offered to
\* fatalErrChan; the offer is dropped when the channel is full.
OfferFatal(w) ==
  /\ Goto(w, "halt", "leave")
  /\ fatalChan' = (fatalChan \/ (wres[w] = "fail" /\ wtask[w] \notin IgnoreErrors))
  /\ UNCHANGED <<nodeVars, readyChan, workQueue, ctxDone, active, runningWg, schedVars, wtask, wres,
                 wtarget>>

DoneRunning(w) ==
  /\ Goto(w, "leave", "left")
  /\ runningWg' = runningWg - 1
  /\ wtask' = [wtask EXCEPT ![w] = NoTask]
  /\ wres' = [wres EXCEPT ![w] = "ok"]
  /\ UNCHANGED <<nodeVars, chanVars, active, schedVars, wtarget>>

UncountActive(w) ==
  /\ Goto(w, "left", "idle")
  /\ active' = active - 1
  /\ UNCHANGED <<nodeVars, chanVars, runningWg, schedVars, wtask, wres, wtarget>>
-----------------------------------------------------------------------------
LoopStep ==
  \/ DropReady \/ Dispatch \/ PushStream \/ AddRunning \/ Enqueue \/ AbortDispatch
  \/ StoreAborted \/ ReceiveFatal \/ LeaveOnDone
  \/ \E d \in Tasks : SignalStream(d)

TickStep == TickCount \/ TickActive \/ StableExit \/ StallExit \/ TickOver

EndStep == WaitDone \/ WaitTimeout \/ WaitCanceled \/ Finish

SchedulerStep == LoopStep \/ TickStep \/ EndStep

WorkerStep(w) ==
  \/ Pick(w) \/ WorkerExit(w) \/ CountActive(w) \/ Refuse(w) \/ Execute(w)
  \/ Complete(w) \/ WriteStatus(w) \/ PushState(w) \/ SignalledAll(w) \/ OfferFatal(w)
  \/ DoneRunning(w) \/ UncountActive(w)
  \/ \E r \in Results : Return(w, r)
  \/ \E d \in Tasks : SignalState(w, d)

\* RunPlaybook has returned: nothing is left to happen.
Returned == spc = "done" /\ UNCHANGED vars

Next ==
  \/ SchedulerStep
  \/ \E w \in Workers : WorkerStep(w)
  \/ ParentCancel
  \/ Returned

Spec == Init /\ [][Next]_vars

\* Goroutines are scheduled, and every ExecuteTask call returns.
Fairness == WF_vars(SchedulerStep) /\ \A w \in Workers : WF_vars(WorkerStep(w))

FairSpec == Spec /\ Fairness
=============================================================================
