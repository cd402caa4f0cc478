# GXO in TLA+

Formal models of the automation kernel of this repository: how a playbook's
tasks are scheduled, run by a pool of workers and retried, how they stream
records to each other and join them, how they see the playbook's state, and the
engine and the command around it all.  The models are checked with TLC on small
instances; their safety properties, and that the scheduler implements the
abstract promise of a run, are proved with TLAPS for every value of the constants.

References like `engine.go:505` are to `internal/engine/` unless a path is given.

## 1. The system

### Components

| component | state | operations | modelled in |
|---|---|---|---|
| scheduling engine, `engine.go` | task statuses (`statusMu`), `readyChan`, `workQueue`, `fatalErrChan`, `activeWorkers`, `runningTasksWg`, `dispatchedTasks`, the ticker's counters, the run context | the loop of `RunPlaybook`, `worker`, `handleTaskCompletion`, the two signal functions, `determineFinalOutcome`, `generateReport` | `Scheduler` |
| engine over its lifetime, `engine.go`, `pkg/gxo/v1/api.go`, `internal/metrics` | what the engine, its task runner, retry helper and collectors each hold | options, `NewEngine`, setters, one run after the other | `EngineSetup` |
| DAG builder, `dag.go` | nodes, dependency sets and counters | `BuildDAG`, `detectCycle` | `DagBuild`; its result is what `Scheduler` assumes |
| task runner, `task_runner.go` | per task: iterations, semaphore, first error, task context | `ExecuteTask`, `executeSingleTaskInstance` | `Pipeline` with the streams, `TaskAttempts` with delays, record errors and results |
| channel manager, `channel_manager.go` | channels per producer and consumer, a WaitGroup per producer | `CreateChannels`, `CloseOutputChannels`, the deferred signals | `DagBuild`, `Pipeline` |
| modules `exec`, `generate:from_list`, `passthrough`, `stream:join` | goroutines per input, records in hand | `Perform` | `Pipeline`; what a join computes in `JoinTable` |
| retry helper, `internal/retry` | attempt, delay | `Do` | `TaskAttempts`; attempts on inputs already read in `Pipeline` |
| state store, `internal/state` | key/value map | `Load`, `Set`, `Delete`, `Get`, `GetAll` | `StateStore`; when a status becomes visible in `Scheduler` |
| event bus and listener, `internal/events` | bounded channel | `Emit`, `Close`, `Start` | `CommandLine` |
| command line, `cmd/gxo/main.go` | signal channel, contexts, exit code | the three commands, signal handler, deferred shutdown, exit code | `CommandLine` |
| playbook loading and validation, `internal/config` | none | parse, validate | references between tasks in `DagBuild`, settings of a task in `TaskAttempts`; the rest is not modelled |
| templates, redaction, secrets, logging, tracing, command runner, parameter helpers, registry | caches, output | | their effect on errors and mentions only: string processing, pure I/O or tables |

### How they interact

`BuildDAG` gives every task two atomic counters, one of stream dependencies and
one of state dependencies, and puts the tasks that have neither in `readyChan`.
The goroutine of `RunPlaybook` takes tasks from `readyChan`, marks them Running,
decrements the *stream* counter of their consumers and sends them on
`workQueue`.  A worker takes a task, runs it through `ExecuteTask`, sets its
final status, writes it to the state store and, if it ended well, decrements the
*state* counter of its dependents.  Whoever brings a counter to zero and sees
both at zero sends the dependent on `readyChan`.  A ticker in the same select
decides that the run is complete, stable or stalled.  After the loop
`RunPlaybook` waits (at most ten seconds) for the running tasks, chooses the
outcome, closes `workQueue`, joins the workers and writes the report.

Tasks that stream run at the same time.  Every producer/consumer pair has its
own bounded channel; modules read and write the raw channels.  Each instance of
a task closes the output channels when it is over, and each task, when it is
over, signals a WaitGroup of every producer it reads from.

### What is hard

* Two lock-free counters per task, decremented by different goroutines, and a
  duplicate entry in `readyChan` when both reach zero together.
* The loop goroutine is both the only receiver of `readyChan` and one of its
  senders.
* Status, store, counter, fatal error are published one after the other, and
  the ticker reads three of them at different moments.
* A cancellation (caller, fatal error, stall, task timeout) can fall between any
  two of these steps.
* Attempts of one `Perform` on channels the attempt before has read; delays that
  leave the range of a Duration; record errors nobody drains.
* A map that is nested while others write the store it was cloned from.
* Setters that must reach every copy of what they set; an engine used twice.
* A signal, a second signal, a handler that waits for main and main for it.
* Bounded channels between tasks that share a bounded pool; consumers that must
  drain what nobody closes; loops whose iterations share the channels.

`PROJECT.json` lists every hazard at its line with the properties that cover it,
or the reason why none does yet.

## 2. The modules

| module | content |
|---|---|
| `PlaybookRun` | the abstract promise: a task starts after what it depends on, ends once, and the call returns nil only when all tasks ended well |
| `Scheduler` | the scheduling loop, the workers, the ticker, the end of a run |
| `SchedulerProperties` | type invariant, safety, action and liveness properties, the refinement of `PlaybookRun`, and a documented claim |
| `SchedulerInvariant` | the inductive invariants `IInv`, `OInv` and `QInv` |
| `SchedulerProofs` | the three are invariant; types, single ownership, dispatch order; outcome, finality of statuses, refinement; wake-ups, queue order, counters, the end of the pool |
| `Pipeline` | task runner, channels, WaitGroups, attempts, the four modules |
| `PipelineProperties` | its properties, two documented claims |
| `PipelineInvariant` | the inductive invariants `ChannelInv`, `StreamInv` and `BuildInv`, and the two hypotheses of the theorems about whole streams |
| `PipelineProofs` | the three are invariant; types, what can panic, whole streams, build before probe |
| `TaskAttempts`, `TaskAttemptsProperties` | one call of `ExecuteTask`: loop, attempts, delays, record errors, the registered result |
| `TaskAttemptsProofs` | its types and its three safety properties |
| `JoinTable`, `JoinTableProperties` | one `Perform` of `stream:join`, and the join of relational algebra it must equal |
| `JoinTableProofs` | both of its properties |
| `DagBuild` | from the playbook to the DAG and the channels: validation of references, edges, counters, the search for a cycle, wiring |
| `DagBuildProperties` | its properties |
| `DagBuildProofs` | all of them: what is refused, counters, channels |
| `StateStore`, `StateStoreProperties` | the playbook's state, read while it is written |
| `StateStoreProofs` | what a template sees is what was stored |
| `EngineSetup`, `EngineSetupProperties` | an engine over its lifetime, and its properties |
| `EngineSetupProofs` | all three of its properties |
| `CommandLine`, `CommandLineProperties` | the gxo process, the event bus and its listener |
| `CommandLineProofs` | the exit code, the crashes and the counted secrets |
| `MC*` | instances for TLC |

`Pipeline` composes task runner, channel manager and modules; `Scheduler` stands
for everything that runs a task by the kind of value it returns, and implements
`PlaybookRun`.  `TaskAttempts` and `JoinTable` look into one task of
`Pipeline`, `EngineSetup` and `CommandLine` at what surrounds one run.

Definitions introduced by a comment `Defect:` are not part of the
specifications: each is a plausible wrong version of the definition after it,
and the table `mutants` of `PROJECT.json` says which property breaks when it is
put in its place.

### Scheduler

The variables carry the names of the code where it has them (`status` is
`taskStatuses`, `active` is `activeWorkers`, `runningWg` is `runningTasksWg`, and
so on).  `spc` is the control point of the goroutine of `RunPlaybook`, `wpc[w]`
that of worker `w`.  One action is what happens between two points at which
another goroutine can see a difference: a section under `statusMu`, one atomic
operation, one channel or WaitGroup operation.

| actions | code |
|---|---|
| `DropReady`, `Dispatch`, `SignalStream`, `PushStream`, `AddRunning`, `Enqueue`, `AbortDispatch`, `StoreAborted` | the `readyChan` case, `engine.go:437-476`, and `signalStreamDependents` |
| `ReceiveFatal`, `LeaveOnDone` | the other two cases |
| `TickCount`, `TickActive`, `StableExit`, `StallExit`, `TickOver` | the ticker case; three reads that other goroutines run between |
| `WaitDone`, `WaitTimeout`, `WaitCanceled`, `Finish` | the wait, `determineFinalOutcome`, the deferred calls, `generateReport` |
| `Pick`, `WorkerExit`, `CountActive`, `Refuse`, `Execute`, `Return`, `DoneRunning`, `UncountActive` | `worker`, `runTaskAndHandleCompletion` |
| `Complete`, `WriteStatus`, `SignalState`, `PushState`, `SignalledAll`, `OfferFatal` | `handleTaskCompletion`, `signalStateDependents` |
| `ParentCancel` | the caller's context |

Abstractions.  `ExecuteTask` is the kind of value it returns (`MayReturn` says
which are possible; a context error is always possible once the context is
done).  Time is not counted: the ticker, the stall tolerance in ticks and the
ten second timer may fire at any moment.  The order in which a map iteration
visits dependents or initial tasks is arbitrary.  The loads of both counters in
`isTaskReady` are one step: the counters only decrease, so two loads see
"both zero" only if one step at the later of them would.

### Pipeline

Tasks are started as `Scheduler` guarantees, by a pool of `PoolSize` (`Start` uses
just what `NoEarlyDispatch` and `ProducersFirst` state).  Every iteration
`<<t, i>>` of a task and every goroutine a module starts per input
(`reader[<<x, p>>]`) is a process of its own.

| actions | code |
|---|---|
| `Start`, `Refuse` | dispatch and the worker's check of the context |
| `Skip`, `EmptyLoop`, `BadLoop`, `Enter`, `Spawn`, `BreakLoop`, `Birth`, `EndTask`, `Expire` | `ExecuteTask` with its early returns, loop, semaphore and task timeout |
| `Prepare`, `Return`, `Retry`, `Close` | `executeSingleTaskInstance`, with `retryHelper.Do` and the deferred `CloseOutputChannels` |
| `Generate`, `Exhausted` | `from_list` |
| `Send`, `GiveUp` | the fan-out of every producing module: a send in a select with the context |
| `Receive`, `EndOfStream`, `StopReading`, `Merge`, `Passed` | fan-in of `passthrough` |
| `Receive`, `EndOfStream`, `Drained` | the drains of `exec` |
| `Receive`, `Build`, `StartProbe`, `ProbeRecord`, `EmitUnmatched`, `Joined` | `stream:join` |
| `CancelRun` | any reason for which the run's context is done |

Abstractions.  A record is an anonymous token: streams are FIFO, so counting
what was sent (`emitted`) and taken in (`got`) says what was delivered.  Whether
a probe record matches is nondeterministic.  `Attempts` says how
often a failing `Perform` is called again, on the channels as it left them; the
delay between is only "the context may end".  A failure of a hook, a template or the parameters is the
failure branch of `Prepare`.  There are no unbuffered channels (the default
buffer is 100).  `Orphans` are the drains and joins that wait, directly or
through each other, for a producer that ended without closing its outputs (see
the run `skipped`); `Finished` lets a run come to rest when only they remain, or
after a panic, so deadlock checking stays on for everything else.  A task names another as stream
input at most once (`NamedOnceAssumption`); a repeated input makes two channels of
which one is never read, and is left to `DagBuild`.

### TaskAttempts

One call of `ExecuteTask`, one process per iteration of its loop.

| actions | code |
|---|---|
| `Begin`, `Spawn`, `BreakLoop`, `LoopEnd`, `WaitAll`, `Register` | `ExecuteTask`, `task_runner.go:137-312` |
| `Birth`, `Prepare`, `Merge` | an iteration and what it does under `loopErrMu` |
| `Check`, `Succeed`, `Fail`, `DelayOver`, `DelayCancelled` | `retry.Do` |
| `Report`, `SendReport`, `AbandonReport` | a module's sends on `errChan` |
| `Flush`, `Flushed` | the drain of `moduleErrChan` into `aggregatedErrChan`, `task_runner.go:459-477` |
| `Expire`, `Cancel` | the task's timeout and the run's context |

Abstractions.  An error is its class (does `errors.Is` still find the context's
error?), which redaction may change.  A Duration has `MaxInt` for its largest
value; the conversion of a float that does not fit gives either extreme, as the
processor decides.  Jitter is counted in units of `1/Half`.  The streams are left
to `Pipeline`.

### JoinTable

One process per build stream, then the main goroutine.

| actions | code |
|---|---|
| `Parse` | `parseAndValidateParams` |
| `TakeBuild`, `ReportBuild`, `Insert`, `EndOfBuild`, `Built` | `runBuildPhase` |
| `TakeProbe`, `ReportProbe`, `Emit`, `EndOfProbe` | `runProbePhase`, `emitJoinedRecords` |
| `PostKey`, `PostOver` | `runPostProbePhase` |
| `NormalKey`, `Combinations` | `normalizeKey`, `getCombinations` |

A joined record is the combination it is made of.  The passage through
`mergedBuildChan` is one step with the insertion, since nothing reads the table
before the build phase is over.  `errChan` is not read meanwhile, as in the code.

### StateStore

`Load`, `RegisterResult`, `WriteTaskStatus` and `Delete` are the writes the engine
makes; `Clone`, `Place` and `Return` are `GetAll`, one step per key in any order.
A key is the sequence of its dotted parts and a value a function from the paths
in it, so that copying, whose only visible effect would be aliasing, is implicit.

### EngineSetup

`Set`, `SetRedactedKeywords`, `SetDefaultChannelPolicy` and
`SetMetricsRegistryProvider` are the setters, as options before `Build` (the rest
of `NewEngine`) and by callers after it; `Refuse` is an option that fails.
`LoadFails`, `VarsRefused`, `StartFails` and `Run` are `RunPlaybook` by how far it
gets: the playbook is invalid; the state store refuses its variables and stays
what it was (`engine.go:338-343`); the DAG or the channels are refused, or there
is no task; the tasks run.  `NoRegistry` are the providers whose registry is nil:
`initMetrics` logs that and keeps the collectors it has (`engine.go:191-195`).
Calls do not overlap.  The six setters with one body are one action over
`Fields`.

### CommandLine

| actions | code, `cmd/gxo/main.go` |
|---|---|
| `Validate`, `ParseFlags`, `MakeEngine`, `ReadPlaybook`, `StartListener`, `StartHandler` | up to the run |
| `Emit`, `RunReturns`, `DetermineExitCode` | the run, its events and the exit code |
| `AwaitHandler`, `CloseSignals`, `StopSignals`, `CancelRun`, `CloseBus`, `Exit` | the deferred calls in their order |
| `Wake`, `StoreSignal`, `CancelOnSignal` | the signal handler |
| `TakeEvent`, `StopListening` | `MetricsEventListener.Start` |
| `Signal` | what `os/signal` does with a signal |

`MakeEngine` may succeed, fail or panic.  As the code stands it always panics
(section 3, last list); the rest of the module is about `main` with an engine
that could be made.

### DagBuild

One goroutine does all of it; arbitrary are the playbook (`Playbooks`) and the
order of every iteration over a Go map.

| actions | code |
|---|---|
| `Validate` | the rules of `ValidatePlaybookStructure` about other tasks |
| `AddEdges`, `CountDeps` | passes 2 and 3 of `BuildDAG` |
| `Root`, `Explore`, `Retreat`, `NoCycle` | `detectCycle`; `stack` holds the recursive calls of `hasCycleDFS` |
| `Wire`, `Built` | `CreateChannels`, one consumer at a time |

A template is the set of things it mentions: a task's status, another entry of
the task table, a registered variable, a field of one.  A task is its name, so
names are unique by construction, and every task registers a variable.
`CycleFound` and `CountersMatchSignals` are what `Scheduler` takes for granted in
`AcyclicAssumption` and `Init`, `WiringBalanced` what `Pipeline` does in its `Init`.

## 3. The runs

Deadlock is checked in every run but `small_pool`, whose instance can really hang.

| run | instance | shows |
|---|---|---|
| `scheduler` | 4 tasks, 2 workers, stream and state edges into one task, failures, skips, cancellation | all properties of `SchedulerProperties`, the refinement, termination |
| `small_pool` | 6 tasks, 1 worker; four tasks that stream from one task and read the state of another | the run returns unless `readyChan` is full and nobody will read it |
| `pipeline` | a source to a looped sink directly and through a passthrough, then a looped source to a sink tried twice; 2 records, buffers of 1, pool of 3 for 5 tasks; skips, failures, cancellation | types, what panics, delivery, draining, end after cancellation |
| `join` | a source feeds both sides of a join, one through a passthrough, and a sink that also reads the join and the source's state; buffers as large as the stream; record limit, timeout, a skip, cancellation | delivery, nothing emitted from a partial build side, draining, end after cancellation |
| `dag` | every playbook of three tasks with up to four mentions out of 32, undefined names and repeated streams included | cycles are refused and nothing else; validation and building agree; counters and WaitGroups match the signals to come |
| `attempts` | eight tasks: loops of three, one or two at a time, and none; three attempts, backoff past the range of a Duration | when a result is registered, where reports are while the task runs, how long a wait is, what can keep a task from ending |
| `join_table` | two build streams and a probe stream, keys of all types, all join types, a limit, refused parameters, cancellation | the rows, each once, and nothing else whenever the join is cut |
| `command_line` | three signals at any moment, a bus of two and three events | exit codes, crashes, counted secrets, the end after a signal |
| `engine_setup` | one value per field beside the default, two metrics providers, one without a registry, four policies, three playbooks | copied fields, keywords and collectors stay in step, the run of a valid playbook reports its own tasks |
| `forgotten`, `skipped`, `loop_closes` | a chain on few workers; a source and a sink, the source skipped, or a loop | three documented claims that the code violates |

`StateStore` has no run: what would be checked, `ReadsAgree`, is proved for every
set of keys and values.

### Why the bounds suffice

*Scheduler.*  The hazards are between the loop, the ticker and at most two
workers: every one of them appears with two workers.  The instance has a task
with one stream and one state dependency (both counters reaching zero together),
a chain behind it, an ignored and an unignored failure, and a skip.  `Tolerance`
bounds `stallChecks`, nothing else grows.

In that instance nothing clogs: `workQueue` holds all four tasks and `readyChan`
more than are ever sent.  Sends on `readyChan` block only with more tasks than
workers that both stream and read a state, since it has a place for each task
and each worker and a task is sent at most twice.  `small_pool` is such an
instance: one worker, `workQueue` of 2, `readyChan` of 7, and four tasks that may
be sent twice.  TLC reaches both hangs that `Clogged` names: the loop waits to
send on the channel only it reads (`engine.go:792`); or it has left because the
run is stalled while the worker waits to send (`engine.go:805`), and then waits
for that worker (`engine.go:401`).  Without `Clogged` the property fails there.

*Pipeline.*  A buffer of one record with two records per source makes every
channel fill up and every sender wait; a longer stream repeats the same
situation.  Two paths from one source to one consumer are the smallest shape in
which a fan-out can block on itself.  Two iterations with `Parallel = 2` are the
smallest loop whose iterations overlap: those of the sink `d` share both inputs,
those of the source `g` share an output and close it twice.  The pool of 3 is as
large as the first stream and smaller than the playbook; `g` starts when `d` has
ended, `h` only when `a` or `b` has left its worker.  With a pool of 2 the first
stream itself deadlocks, since `a` and `b` wait for a consumer that has no worker
(TLC finds `Drains` violated).  `Records`, `BufferSize`, `PoolSize`, `Iterations`
and `Parallel` are the bounds.

An undisturbed `g` ends in a panic, as the code does, so in this instance `Drains`
speaks of the first stream and of how far the second gets; a playbook all of whose
tasks end well is that of `join`.

In `join` the buffer is exactly the stream: a fan-out to both sides of one join,
and to a task that waits for the end of its producer, blocks with one place less
(with `BufferSize = 1` TLC finds `Drains` violated), so that such playbooks drain
if, and only if, their buffers hold the stream.

*TaskAttempts.*  Error channels of one report with two reports per instance fill
up as the real ones do at the eleventh; three attempts with a factor of 4 leave
the range of a Duration of 31; three items with two at a time is the smallest
loop in which one ends, one runs and one has not started.  `MaxReports` bounds
reports, `MaxInt` and `Half` the arithmetic.

*JoinTable.*  Two build streams are what concurrency and partial matches need,
streams of two records what a second entry under one key needs.

*CommandLine.*  Three signals: one handled, one waiting in `sigChan`, one dropped
or sent after the close.  `MaxEvents` exceeds `BusSize`, so the bus overflows.

*EngineSetup.*  One custom value tells "set" from "default"; the default provider
and another one with a registry are the least with which collectors can move, a
third has none; nothing else is bounded.

*DagBuild.*  Three tasks give self-references, cycles of two and three, and
diamonds (a task reached along two paths), with streams and state mixed; four
mentions are enough for a cycle and an edge besides.

### Properties

*Scheduler.*  `NoEarlyDispatch` (dependencies ended and stored before a task
starts), `SingleHolder` (a task is never in two hands although `readyChan` may
hold it twice), `NoLostWakeup`, `ProducersFirst` (no worker is held by a consumer
whose producer is still queued), `CountersBalance`, `OutcomeSound`,
`NothingAbandoned`, `EndedStaysEnded`, `Terminates` (the run returns, or
`readyChan` is clogged), `ImplementsPlaybookRun`.

*Pipeline.*  `PanicsOnlyInLoops` (a panic takes two iterations of a looped task
with outputs), `Delivery` (a consumer that ends well has the whole
stream of a producer that ended well), `WholeBuildSide`, `Drains` (undisturbed
runs complete), `CancelEnds` (after a cancellation every started task ends,
unless its producer never closed).  That a task starts after what it depends on is
the guard of `Start`, so the refinement of `PlaybookRun` is stated for `Scheduler`,
whose counters implement it.

*DagBuild.*  `CycleFound`, `ValidatedBuilds`, `CountersMatchSignals`,
`WiringBalanced`.

*TaskAttempts.*  `RegisteredSound` (no result is registered over the failure of
an iteration), `ReportsAccounted` (until the task ends), `WaitInRange`, `EndsUnlessClogged` (only a full
error channel, and only while the context lives, keeps a task from ending).

*JoinTable.*  `MatchesReference` (a join that ends well emitted the rows of the
relational join, each once), `NothingInvented` (nothing else at any moment).

*StateStore.*  `ReadsAgree` (proved, not run).

*CommandLine.*  `SignalNamed`, `CrashExplained`, `EventsAccounted`,
`ExitsAfterSignal`.

*EngineSetup.*  `RunnerInStep` (fields and keywords; the channel manager only
while it is shared), `CollectorsInStep` (not that the runner's counter is the
engine's), `ReportsOwn`.

### Fairness

`Scheduler`: weak fairness of the loop goroutine and of each worker.  Go runs
every goroutine that can run, and every call of `ExecuteTask` is taken to return
(that is what `Pipeline` checks, with the exceptions it reports).  The caller's
cancellation is never forced.  Choices inside one select are not fair, and no
property needs them to be.

`Pipeline`: weak fairness of all work taken together, `WF_vars(~panicked /\ Work)`.
Every step but stuttering uses up something finite (records, iterations,
control points), so no process can be passed over for ever and one condition is
enough.  `CancelRun` and `Expire` are never forced.

`TaskAttempts`: weak fairness of the task's goroutine and of each iteration:
every `Perform` returns, every timer fires; cancellation is never forced.

`CommandLine`: weak fairness of main, the handler and the listener.  The return
of the run is not forced: `ExitsAfterSignal` starts from it.

`JoinTable`, `StateStore` and `EngineSetup` state safety only.

### Disagreements between code and documents

| run | what the code does | what is said |
|---|---|---|
| `forgotten` | the run can end "stable" while the only task that could make progress is in the queue, because `activeWorkers` is counted after the task is taken (`engine.go:505`) | a playbook ends when all tasks are terminal or on a fatal error (`docs/gxo_architecture_design_specification_deprecated.md:137`) |
| `skipped` | a skipped producer never closes its outputs; its consumer never ends (`task_runner.go:182`) | its dependents have their dependency satisfied (`docs/Flow Control.md:143`) |
| `loop_closes` | every iteration of a loop closes the outputs of the task, and the second close panics (`task_runner.go:328`, `channel_manager.go:276`) | close is called once per channel (`channel_manager.go:274`) |

Met while modelling, and part of the models, without a run of their own:

* The loop can leave on the status of a failed task and never read its error
  (`engine.go:772`).  Sends on `readyChan` look at no context and can block for
  ever (`engine.go:792`, `805`), see `small_pool`.
* A metrics provider given as an option gets its collectors from the option and
  again from `NewEngine`, which panics on the second registration
  (`engine.go:201`, `176`, `1073`).  The option is there to provide one
  (`pkg/gxo/v1/api.go:115`), and the command uses it (`cmd/gxo/main.go:201`), so
  at this commit it never starts.
* The stream dependents of a task are dispatched when it starts, so they run
  although it fails later; `docs/Flow Control.md:302` says that no dependents,
  "both state and stream", of an ignored failure are scheduled.
* The result registered for a loop is the summary of the one iteration that was
  last to succeed (`task_runner.go:256-262`), not the list of all summaries that
  `docs/Flow Control.md:187` promises.  `RegisteredSound` states what holds of the
  same paragraph, that no failed iteration is passed over.
* `aggregatedErrChan` is made for each task and never read (`engine.go:631`): no
  record error is logged, all are lost with the task, and the eleventh blocks it.
  `docs/Module Developer Guide.md:252` says that the kernel logs the error and the
  workload goes on.
* The three tasks of a stream of three need three workers: a smaller pool blocks
  for ever, since a producer keeps its worker while it waits for a consumer.
* A producer is Completed before its records are consumed (`task_runner.go:453`),
  against the comment in `channel_manager.go:28-31`.
* A loop cut off by the context can end Completed (`task_runner.go:248`); so can
  an inner join whose context ended in the build phase (`join.go:191`).
* A join retried after its limit error finds its build side already read, joins
  with an empty table and ends Completed (`task_runner.go:420`), though it should
  read the build side entirely into memory (`docs/Standard Library.md:506`): with
  `Attempts[j] = 2` TLC finds `WholeBuildSide` violated.
* A field of a registered variable makes no edge (`dag.go:149`), against the
  example in `docs/Flow Control.md:74`.
* After a run that no signal ended the process never exits (`main.go:255`).  A
  second signal can be swallowed, or panic between `close` and `Stop`.
* `SetDefaultChannelPolicy` on a built engine leaves the task runner with the old
  channel manager (`engine.go:1118`); `SetMetricsRegistryProvider` leaves it with
  the old counter, or with none at all if `NewEngine` had found no registry; the
  report of a playbook that does not load lists the tasks of the previous one, and
  a state store that refuses the variables keeps what the previous one left.
* A retry delay of `0s` means one second; `max_delay` is compared with the delay
  as written.  The jitter's `rand.Rand` is shared without a lock (`retry.go:111`).
* `overflow_strategy` has no effect: modules write to the raw channels.
* What `GetAll` shows under keys that collide depends on the order of a Go map.

## 4. The proofs

| theorem | property |
|---|---|
| `SchedulerProofs!TypeCorrect` | `TypeOK` |
| `SchedulerProofs!RunsOnce` | `SingleHolder` |
| `SchedulerProofs!DependenciesFirst` | `NoEarlyDispatch` |
| `SchedulerProofs!Inductive` | `IInv`, the invariant behind them |
| `SchedulerProofs!NilMeansAllEndedWell` | `OutcomeSound` |
| `SchedulerProofs!EndedIsFinal` | `EndedStaysEnded` |
| `SchedulerProofs!Implements` | `ImplementsPlaybookRun` |
| `SchedulerProofs!NoWakeupLost` | `NoLostWakeup` |
| `SchedulerProofs!ProducersAhead` | `ProducersFirst` |
| `SchedulerProofs!CountersRight` | `CountersBalance` |
| `SchedulerProofs!PoolDrains` | `NothingAbandoned` |
| `DagBuildProofs!Inductive` | `IInv` and `Wiring`, the invariants behind the next five |
| `DagBuildProofs!TypesKept` | `TypeOK` |
| `DagBuildProofs!CyclesRefused` | `CycleFound` |
| `DagBuildProofs!NamesResolve` | `ValidatedBuilds` |
| `DagBuildProofs!CountersRight` | `CountersMatchSignals` |
| `DagBuildProofs!ChannelsBalanced` | `WiringBalanced` |
| `PipelineProofs!TypesKept` | `TypeOK` |
| `PipelineProofs!PanicExplained` | `PanicsOnlyInLoops` |
| `PipelineProofs!WholeStreams` (1) | `Delivery` |
| `PipelineProofs!BuildsFirst` (1, 2) | `WholeBuildSide` |
| `EngineSetupProofs!TypesKept` | `TypeOK` |
| `EngineSetupProofs!CopiesInStep` | `RunnerInStep` |
| `EngineSetupProofs!CollectorsRegistered` | `CollectorsInStep` |
| `EngineSetupProofs!ReportsItsOwn` | `ReportsOwn` |
| `CommandLineProofs!Inductive` | `IInv`, the invariant behind the next two |
| `CommandLineProofs!FirstSignalNamed` | `SignalNamed` |
| `CommandLineProofs!OneSignalNeverCrashes` | `CrashExplained` |
| `CommandLineProofs!SecretsAccounted` | `EventsAccounted` |
| `TaskAttemptsProofs!TypesKept` | `TypeOK` |
| `TaskAttemptsProofs!RegistersOnlySuccess` | `RegisteredSound` |
| `TaskAttemptsProofs!ReportsKept` | `ReportsAccounted` |
| `TaskAttemptsProofs!WaitsInRange` (3) | `WaitInRange` |
| `JoinTableProofs!Inductive` | `IInv`, the invariant behind the next two |
| `JoinTableProofs!JoinsLikeTheReference` | `MatchesReference` |
| `JoinTableProofs!InventsNothing` | `NothingInvented` |
| `StateStoreProofs!SeesTheClone` (4) | `ReadsAgree` |

(1) under `SingleProducers`, (2) under `JoinsTryOnce`, see Pipeline below; (3) given
that a natural number to a natural power is one, which the prover does not know;
(4) given `StoreAssumption`, and without a run of its own.

### Scheduler

Assumptions: `TasksAssumption` (finite non-empty sets, types), `DepsAssumption`
(dependencies are tasks), `AcyclicAssumption` (every non-empty set of tasks has
one with no dependency in it, which is what `detectCycle` establishes).  The
last is used only for the outcome and the refinement.

The argument.  None of the properties is inductive.  `SingleHolder` needs to
know that a task in somebody's hands is not Pending any more, and that the
status is Running until its completion is handled (`HolderInv`), because the
check in `Dispatch` looks at the status.  `NoEarlyDispatch` needs the meaning of the
counters: `SignalInv` says that a producer which already signalled a dependent is
in the state the signal stands for, `CounterInv` that each counter is the number
of signals still owed, and `ReadyInv` that what is in `readyChan` is owed none.
`PcInv` ties the control points to the task variables.  Each conjunct has its
lemma, one case per action; `IInv` is their conjunction.

A nil outcome needs a second layer, `OInv`: `WgInv` says that `runningWg` counts
the tasks in the queue and with the workers, `RunningInv` and `SignallingInv` that a
Running task, or a task that ended well and still owes a signal, is one of
those.  When the loop's wait ends with the counter at zero no signal is owed, so
a task left Pending has a dependency that is Pending or Failed.
`determineFinalOutcome` returns nil only if nothing failed, and only Pending
tasks with state dependencies owed are tolerated; in an acyclic graph a set of
Pending tasks would contain one whose dependencies all ended well, which is owed
nothing: there is none.  `Implements` maps every action to a step of
`PlaybookRun` or to a stutter under `OInv`.

The queues need a third layer, `QInv`, beside `IInv` and the two statements about
Running tasks.  `NoLostWakeup` breaks if the entry that `DropReady` throws away
was the only one, hence `DispatchedInv` (what was dispatched is not Pending).
`ProducersFirst` is about workers, and what they take is at the head of
`workQueue`: `OrderInv` says that no producer of a queued task stands behind it or
is still with the loop goroutine, because a consumer's stream counter is zero
only after `SignalStream` of its producers and `Enqueue` goes to the end of the
queue.  `NothingAbandoned` needs `ExitInv`: in a run nobody cancelled a worker
leaves only when the closed queue is empty, so a Running task would be with a
worker, and all have left.

### DagBuild

Assumption: `PlaybooksAssumption` (finite tasks, at least one, lists of names and
sets of references; nothing is assumed of what they refer to, so every playbook
that gets past the schema is meant).

`CycleFound` is about a search that stops in the middle.  `PathInv` says that the
calls of `hasCycleDFS` are a path: each is a dependent of the one below it, each
node is there once, and a dependent that a call has looked at has returned or is the
node of the call above.  A dependent found on the path therefore closes a cycle
through the calls above it.  The other direction says that no cycle escapes:
the nodes that have returned (`Closed`) contain all their dependents, and no set
of them is a knot, that is a set in which every task waits for one of the set.  The
step that matters is a return: the node is new in `Closed`, a knot that it
completes would contain one of its producers, and that producer would have
returned before it with all its dependents, this node among them, which is still
on the path.  Once every node has returned there is no knot at all, which is the
`AcyclicAssumption` that the proofs about `Scheduler` start from.

`EdgeInv` says that `RequiredBy` is the converse of the two dependency sets, and
`CountInv` that the counters are their sizes; so those who decrement a counter
are as many as it says, and a task without dependencies exists since the set of
all tasks is not a knot.  `WireInv` relates the channels to the consumers already
visited: an output for each mention of a producer, and a counter that is their
number, because the new ones are as many as the positions (`PairsOf`) and are
disjoint from the old.

### Pipeline

Assumptions: `PipelineAssumption` (finite tasks, types, a source has no inputs, the
probe of a join is one of its inputs), `NamedOnceAssumption`, and two hypotheses
that only the theorems about whole streams have, since the code accepts playbooks
that violate them:

* `SingleProducers`: a task of several iterations feeds no stream.  With a looped
  producer the stream ends in a panic (run `loop_closes`), and what its consumers
  were given depends on how many iterations had come how far.  Loops over tasks
  without outputs are covered, and so is every other use of retries, skips,
  timeouts, cancellation, buffer and pool size.
* `JoinsTryOnce`: a join is not retried.  The second attempt would build from what
  the first left in the channels; TLC finds `WholeBuildSide` violated with
  `Attempts[j] = 2`.

`TypesKept` and `PanicExplained` need neither and hold of every playbook.
`ChannelInv` says which part of an instance's life each variable belongs to
(`InstanceInv`): an instance that has not called `Perform` has touched nothing, one
that reports success has served every output and read every input, and an ended
task has no instance under way.  A channel is closed when some instance of its
producer is over (`ClosedInv`).  So whoever finds it closed at a send or a close
is a second instance of the same task (`ClosedByFirst`), which is what
`PanicsOnlyInLoops` says of the step that panics (`PanicStep`).  With one instance
per producer what it still sends goes to each consumer once (`TodoInv`).  `WgInv`
says that a producer's WaitGroup is at least the number of its consumers that
have not ended, so the deferred signals never take it below zero.

`Delivery` relates what a consumer got to what a producer gave, over everything
that may have happened between.  `ReadInv` is the consumer's half: what was
emitted is in the buffer or was taken in, a reader that ended saw the end of its
stream unless the instance will not report success, and a join probes only after
it built.  `GivenInv` is the producer's half, by kind of module: what a source has
given each consumer, the record in hand included, is what it generated, what a
passthrough gave is what it took in less what its readers hold (the sum over its
inputs is a cardinality of pairs, `Taken`), and a join gives all its
consumers the same.  A stream is closed by an instance that is over, and one that
succeeded owes nothing, so both halves meet.

`WholeBuildSide` needs `BuildInv` in addition: as long as neither context nor
limit stops it the build phase loses no record, and a join that handed something
on had every build stream at its end by then.

### EngineSetup

Assumption: `SetupAssumption` (the callers' values are neither nil nor the
defaults).  `RunnerInStep` is inductive with the types.  `CollectorsInStep` needs
`NotBuiltYet`: before `NewEngine` nobody has used the default provider, and the
counter, if there is one, is in the registry of a provider given as an option.
`ReportsOwn` needs in addition that a built engine has a state store,
which is what `RunnerInStep` says of nil.

### CommandLine

`CommandLineAssumption` is not needed.  `HandlerInv` says where the first signal is
in each state of the handler: in `sigChan`, then in `sig`, then in
`receivedSignal`, and that the context is done only after that.  `MainInv` says
which handler states each section of main can meet.  So the exit code is computed
from the first signal or from none, `sigChan` is closed only after a signal has
been handled (the signal that meets the closed channel is at least the second),
and the bus is closed only when the run is over.

`EventsAccounted` counts the places of the queue that hold a secret.  `Emit` adds a
place behind the others; `TakeEvent` moves them all up by one, so the count is
carried over by a bijection (`SecretsTail`).

### TaskAttempts

Assumption: `AttemptsAssumption` (settings that validation accepts, capacities and
widths that are not zero).  `LoopInv` ties the control points of `ExecuteTask` to
its iterations: those before `next` have started, none is under way when the
result is registered, and `ExecuteTask` leaves its loop early only with an error.
`ResultInv` says that while there is no error, what ended succeeded and left a
summary: it is what makes the summary that `Register` stores one of an iteration
that ended well, and the absence of one a sign that all were cut.

`WaitInRange` is about arithmetic that overflows: `DelayRange` shows that the
conversion and the wrap-around sum of a Duration stay below `max_delay` whatever
they yield, `DelayExact` that nothing of it happens while twice the backoff is a
Duration.  `ReportsAccounted` counts reports as numbered pairs (`Numbered`), so that
a sum over iterations is a cardinality, and one report more is one element more.

### JoinTable

Assumption: `JoinAssumption` (finitely many streams, types of the parameters and of
what the streams carry).  Nothing is assumed of the keys, of how many streams or
records there are, or of which parameters `Accepted` lets pass.

`BuildInv` follows the goroutines of the build phase: unless the join was stopped,
a record with a key that was taken is in the table or in the hand of its
goroutine, and a goroutine that ended has read its stream.  When the last one has
ended the table is therefore complete, which is where the buildErr and the context
matter: `MatchInv` claims it of joins that are `Exact` only, neither cancelled nor
over the limit.  Of those it says too that the matched keys are the keys of the
probe records taken that the table has.

`Probed` and `Unmatched` are about `getCombinations`.  On a complete table the
combinations of a probe record are the rows of the relational join that contain
it, none if the join type does not want them; those of a key without a probe
record are its rows without one.  `DueInv` adds up what that makes: the rows with a
probe record taken so far and, once the probe stream is over, the rows without
one on the keys looked at, each either emitted or in `pending`.  Rows of different
keys differ (`Apart`), so no row is due twice and `joined` counts them.  At the end
all are due.  `SoundInv` says the same of joins that were stopped, as far as it is
true of them: what they emitted are rows.  `CountInv` counts records as pairs of
stream and place, so that the sum over the streams is a cardinality.

### StateStore

Hypothesis: `StoreAssumption` (keys are sequences of parts, not empty, and those of
registered results have one part; a value is a function from paths).  `GetAll` is
seen between two placements, when others have written the store, so the
invariant speaks of the clone only: every path of the nested map comes from a key
already placed (`From`), and a key that collides with no other keeps all it gave.
The step is about prefixes: what `Assign` removes to place a key begins with that
key or is begun by it, so a key whose paths are hit collides with it
(`Beginnings`), and a path is in one way its key and the rest (`Extended`, `Split`).

### Only model-checked

Liveness: `Terminates`, `Drains`, `CancelEnds`, `EndsUnlessClogged` and
`ExitsAfterSignal`, which the prover cannot do under fairness.  Every safety
property of a passing run is a theorem, `Delivery` and `WholeBuildSide` under the
hypotheses named at Pipeline.

## 5. Not modelled, and the plan

What is left, in this order:

1. Repeated stream inputs in `Pipeline`: two channels between one pair of tasks,
   of which the consumer reads one.
2. Two concurrent calls of `RunPlaybook` on one engine, if a document ever
   promises something about them.

Left out for a reason:

* The maps that the modules of a fan-out share and `passthrough` writes to, and the
  deep copies of `internal/util`: aliasing has no notion in a model of values.
* The overflow policies of `managedChannel.Write`: no module calls it.
* Templates, redaction of texts, secrets, logging, tracing, parameter helpers, the
  registry, the command runner, the schema and the decoding of playbooks: string
  processing, tables or I/O whose only effect on a run is that a task or a
  playbook may fail, which the models allow.
* Real time: delays and timeouts may fire at any moment, so nothing is said of
  how long a stall, a shutdown or a backoff takes, but for the length the retry
  helper computes.
