------------------------ MODULE SchedulerInvariant ------------------------
(***************************************************************************)
(* The inductive invariant behind the theorems of SchedulerProofs: what    *)
(* the control points imply about the variables, who holds which task,     *)
(* and how the counters relate to the signals still to be sent.            *)
(***************************************************************************)
EXTENDS SchedulerProperties

Carrying == {"signal", "push", "enqueue"}
Holding  == {"picked", "begun", "executing", "complete", "write", "signal", "push", "halt", "leave"}
BeforeCompletion == {"picked", "begun", "executing", "complete"}

\* A control point at which a task variable is used finds a task in it.
PcInv ==
  /\ spc \in Carrying \cup {"abort"} => cur \in Tasks
  /\ spc = "push" => starget \in Tasks
  /\ \A w \in Workers :
       /\ wtask[w] \in Tasks <=> wpc[w] \in Holding
       /\ wpc[w] = "push" => wtarget[w] \in Tasks

\* Responsibility for a task has one holder, and the status it left behind.
HolderInv ==
  /\ SingleHolder
  /\ \A t \in Queued \cup Carried : status[t] = "Running"
  /\ spc = "abort" => status[cur] = "Failed"
  /\ \A w \in Workers :
       /\ wpc[w] \in Holding => status[wtask[w]] # "Pending"
       /\ wpc[w] \in BeforeCompletion => status[wtask[w]] = "Running"
       /\ wpc[w] = "write" => status[wtask[w]] = StatusOf[wres[w]]
       /\ wpc[w] \in {"signal", "push"} =>
            status[wtask[w]] \in Good /\ store[wtask[w]] = status[wtask[w]]

\* A producer that has signalled a dependent is in the state the signal stands for.
SignalInv ==
  /\ \A p \in Tasks : stateTodo[p] \subseteq StateDependents(p)
  /\ \A p \in Tasks : streamTodo[p] \subseteq StreamDependents(p)
  /\ \A t \in Tasks : \A p \in StateDeps[t] :
       t \notin stateTodo[p] => status[p] \in Good /\ store[p] = status[p]
  /\ \A t \in Tasks : \A p \in StreamDeps[t] :
       t \notin streamTodo[p] => status[p] # "Pending"

\* The producers whose signal to t is still to come.
StateOwed(t)  == {p \in StateDeps[t] : t \in stateTodo[p]}
StreamOwed(t) == {p \in StreamDeps[t] : t \in streamTodo[p]}

\* The atomic counters count the signals to come.
CounterInv ==
  \A t \in Tasks :
    /\ stateRem[t] = Cardinality(StateOwed(t))
    /\ streamRem[t] = Cardinality(StreamOwed(t))

\* Whatever is in readyChan or was dispatched is owed no signal.
ReadyInv ==
  \A t \in Tasks : t \in Ready \/ status[t] # "Pending" =>
    StateOwed(t) = {} /\ StreamOwed(t) = {}

IInv == TypeOK /\ PcInv /\ HolderInv /\ SignalInv /\ CounterInv /\ ReadyInv
-----------------------------------------------------------------------------
(* What the outcome rests on: a task that was dispatched and has not ended, *)
(* or has ended well and not yet told its dependents, is counted by         *)
(* runningTasksWg.                                                          *)

Busy == {w \in Workers : Held(w) # NoTask}

\* The WaitGroup counts the tasks in the queue and with the workers.
WgInv ==
  runningWg = Cardinality(Busy) + Len(workQueue) + (IF spc = "enqueue" THEN 1 ELSE 0)

RunningInv ==
  \A t \in Tasks : status[t] = "Running" =>
    \/ t \in Queued \cup Carried
    \/ \E w \in Workers : wpc[w] \in BeforeCompletion /\ wtask[w] = t

SignallingInv ==
  \A p \in Tasks : status[p] \in Good /\ stateTodo[p] # {} =>
    \E w \in Workers : wpc[w] \in {"write", "signal", "push"} /\ wtask[w] = p

\* The outcome is chosen once the loop is over, the report at the very end.
OutcomeInv ==
  /\ outcome = "unset" <=> spc \notin {"join", "done"}
  /\ report = "unset" <=> spc # "done"
  /\ OutcomeSound

OInv == IInv /\ WgInv /\ RunningInv /\ SignallingInv /\ OutcomeInv
-----------------------------------------------------------------------------
(* What the queues rest on: wake-ups, the order of workQueue and the end of *)
(* the workers.                                                             *)

\* The workers counted by activeWorkers.
Counted == {w \in Workers : wpc[w] \notin {"idle", "picked", "exited"}}
ActiveInv == active = Cardinality(Counted)

\* A readyChan entry dropped as dispatched before was not a wake-up.
DispatchedInv == \A t \in dispatched : status[t] # "Pending"

\* A worker leaves an uncancelled run only when the closed queue is drained.
ExitInv == (\E w \in Workers : wpc[w] = "exited") /\ ~ctxDone => QueueClosed /\ workQueue = <<>>

\* No stream producer of a queued task is queued behind it or about to be.
OrderInv ==
  \A i \in 1..Len(workQueue) :
    /\ StreamDeps[workQueue[i]] \cap Carried = {}
    /\ \A j \in i..Len(workQueue) : workQueue[j] \notin StreamDeps[workQueue[i]]

QInv ==
  /\ IInv /\ WgInv /\ RunningInv
  /\ ActiveInv /\ DispatchedInv /\ ExitInv /\ NoLostWakeup /\ OrderInv /\ ProducersFirst
=============================================================================
