------------------------ MODULE SchedulerProperties ------------------------
(***************************************************************************)
(* What the scheduler must guarantee.  Each property says which behaviour  *)
(* of internal/engine/engine.go it is about.                               *)
(***************************************************************************)
EXTENDS Scheduler

\* A task is in hand while a goroutine or the work queue is responsible for it.
Queued  == Range(workQueue)
Ready   == Range(readyChan)
Carried == IF spc \in {"signal", "push", "enqueue"} THEN {cur} ELSE {}
Held(w) == wtask[w]

NodeType ==
  /\ status \in [Tasks -> Statuses] /\ store \in [Tasks -> Statuses]
  /\ stateRem \in [Tasks -> Int] /\ streamRem \in [Tasks -> Int]
  /\ stateTodo \in [Tasks -> SUBSET Tasks] /\ streamTodo \in [Tasks -> SUBSET Tasks]

ReadyType == readyChan \in Seq(Tasks) /\ Len(readyChan) <= ReadyCap
QueueType == workQueue \in Seq(Tasks) /\ Len(workQueue) <= WorkCap

LoopType ==
  /\ dispatched \in SUBSET Tasks
  /\ spc \in {"select", "signal", "push", "enqueue", "abort", "tickActive", "tickDecide",
              "wait", "join", "done"}
  /\ cur \in Tasks \cup {NoTask} /\ starget \in Tasks \cup {NoTask}
  /\ accounted \in Int /\ lastAccounted \in Int /\ stallChecks \in Int /\ tickActive \in Int
  /\ firstErr \in {"none", "fatal", "canceled", "stalled", "timeout"}
  /\ outcome \in {"unset", "nil", "fatal", "canceled", "stalled", "pending", "failed"}
  /\ report \in {"unset", "Completed", "Failed"}

SharedType == fatalChan \in BOOLEAN /\ ctxDone \in BOOLEAN /\ active \in Int /\ runningWg \in Int

WorkerType ==
  /\ wpc \in [Workers -> {"idle", "picked", "begun", "executing", "complete", "write", "signal",
                          "push", "halt", "leave", "left", "exited"}]
  /\ wtask \in [Workers -> Tasks \cup {NoTask}]
  /\ wres \in [Workers -> Results]
  /\ wtarget \in [Workers -> Tasks \cup {NoTask}]

\* The types of the variables, and the capacities of the two channels of the
\* engine.
TypeOK == NodeType /\ ReadyType /\ QueueType /\ LoopType /\ SharedType /\ WorkerType

\* A task is dispatched only when every task it reads state from has ended
\* Completed or Skipped, with that status already visible in the state store
\* (the task's `when` may read it), and every producer it streams from was
\* dispatched: the two lock-free counters and the order status, store, signal
\* of handleTaskCompletion must add up to this under every interleaving.
NoEarlyDispatch ==
  \A t \in Tasks : status[t] # "Pending" =>
    /\ \A p \in StateDeps[t] : status[p] \in Good /\ store[p] = status[p]
    /\ \A p \in StreamDeps[t] : status[p] # "Pending"

\* Although readyChan may carry a task twice (the last stream signal and the
\* last state signal may both see both counters at zero), at most one goroutine
\* or queue slot is ever responsible for a task: it cannot run twice.
SingleHolder ==
  /\ \A v, w \in Workers : Held(v) = Held(w) /\ v # w => Held(v) = NoTask
  /\ \A w \in Workers : Held(w) \notin Queued \cup Carried
  /\ Carried \cap Queued = {}
  /\ IsInjective(workQueue)

\* A wake-up is never lost: while the loop runs, a pending task whose counters
\* are both zero is in readyChan, or the goroutine that made the last
\* decrement is about to send it.
NoLostWakeup ==
  \A t \in PendingTasks : IsReady(t) =>
    \/ t \in Ready
    \/ spc = "push" /\ starget = t
    \/ \E w \in Workers : wpc[w] = "push" /\ wtarget[w] = t

\* The work queue is FIFO and a producer's consumers are signalled before the
\* producer is queued, yet no worker ever takes a stream consumer while one of
\* its producers still waits in the queue behind it: with fewer workers than
\* tasks a consumer could otherwise hold the worker its producer needs.
ProducersFirst ==
  \A w \in Workers : Held(w) # NoTask =>
    StreamDeps[Held(w)] \cap (Queued \cup Carried) = {}

\* The two counters the shutdown and the stall detector rely on agree with
\* what the goroutines do, whatever the path a task took (run, refused after a
\* cancellation, never queued).
CountersBalance ==
  /\ runningWg = Cardinality({w \in Workers : Held(w) # NoTask}) + Len(workQueue)
                 + (IF spc = "enqueue" THEN 1 ELSE 0)
  /\ active = Cardinality({w \in Workers : wpc[w] \notin {"idle", "picked", "exited"}})

\* RunPlaybook returns nil only when every task ended Completed or Skipped,
\* and the report, computed later from statuses that workers may have changed
\* since, then says Completed; otherwise both say Failed.
OutcomeSound ==
  /\ outcome = "nil" => \A t \in Tasks : status[t] \in Good
  /\ report # "unset" => (report = "Completed" <=> outcome = "nil")

\* A task that ended keeps its status: neither a late completion nor the
\* synthetic one of a cancelled dispatch overwrites it (the guard at the top
\* of handleTaskCompletion does not cover the synthetic one).
EndedStaysEnded ==
  [][\A t \in Tasks : status[t] \in Terminal => status'[t] = status[t]]_status

\* Closing workQueue lets the workers drain it: unless the context was
\* cancelled, no dispatched task is left Running when the pool has shut down,
\* not even after the wait for runningTasksWg timed out.
NothingAbandoned ==
  spc = "join" /\ ~ctxDone /\ (\A w \in Workers : wpc[w] = "exited") =>
    \A t \in Tasks : status[t] # "Running"

\* The whole machinery implements the promise of PlaybookRun.
Promise == INSTANCE PlaybookRun WITH
  result <- CASE outcome = "unset" -> "running" [] outcome = "nil" -> "nil" [] OTHER -> "error"
ImplementsPlaybookRun == Promise!Spec

\* readyChan is full and its only reader is the one that waits to send on it, or
\* has left the loop while a worker waits.  It has a place for every task and
\* worker, and a task whose two counters reach zero together is sent twice; the
\* sends (engine.go:792, 805) look at no context.
Clogged ==
  /\ Len(readyChan) = ReadyCap
  /\ \/ spc = "push" /\ IsReady(starget)
     \/ spc \in {"wait", "join"} /\ \E w \in Workers : wpc[w] = "push" /\ IsReady(wtarget[w])

\* RunPlaybook returns if every module does, unless readyChan is clogged: of all
\* the sends that may block, on a full workQueue and on a full readyChan, and
\* of the waits for WaitGroups and workers, nothing else keeps it from
\* returning.
Terminates == <>(spc = "done" \/ Clogged)

-----------------------------------------------------------------------------
(* What a document claims and the code does not do: checked by a run that  *)
(* finds it violated.                                                      *)

\* docs/gxo_architecture_design_specification_deprecated.md:137: "The playbook
\* ends when all tasks are in a terminal state or a fatal error occurs."  When
\* no error stopped the run, a task left Pending should have a dependency that
\* did not end well.
NoTaskForgotten ==
  outcome # "unset" /\ firstErr = "none" =>
    \A t \in PendingTasks : \E p \in Deps(t) : status[p] \notin Good
=============================================================================
