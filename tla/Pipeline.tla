------------------------------ MODULE Pipeline ------------------------------
(***************************************************************************)
(* The streaming side of a run: TaskRunner.ExecuteTask and                 *)
(* executeSingleTaskInstance (internal/engine/task_runner.go), the channels *)
(* and WaitGroups of ChannelManager (internal/engine/channel_manager.go)   *)
(* and the modules that read and write streams (modules/).                 *)
(*                                                                         *)
(* Tasks are started as Scheduler starts them: at most PoolSize at a time,  *)
(* each after the tasks it reads state from ended well and after its        *)
(* producers were started (NoEarlyDispatch, ProducersFirst).  Every        *)
(* iteration of a loop, and every goroutine a module starts per input, is a *)
(* process of its own.  A record is an anonymous token: streams are FIFO    *)
(* and the properties count records.  The records of a source, the buffers  *)
(* and the loops are the bounds of the model; no channel is unbuffered.    *)
(***************************************************************************)
EXTENDS Integers, Sequences, FiniteSets

CONSTANTS
  Tasks,
  StateDeps,    \* the tasks each task reads state from
  Outputs,      \* the consumers of each task, in the order of producerChannels
  Kind,         \* "source", "passthrough", "join" or "sink": what Perform does
  Probe,        \* the task whose stream each join probes; it builds from the others
  Records,      \* how many records a source generates
  BufferSize,   \* capacity of every channel
  PoolSize,     \* number of workers
  Loops,        \* the tasks declared with a loop
  Iterations,   \* the number of loop items of each (1 without a loop)
  Parallel,     \* loop_control.parallel
  MaySkip,      \* tasks whose `when` may be false, or whose loop may have no items
  MayFail,      \* tasks whose loop, parameters, hooks, command or record limit may fail
  Attempts,     \* how often the retry settings of each task allow Perform to be called
  MayTimeOut,   \* tasks with a timeout
  MayCancel     \* may the run's context be cancelled?

Consumers(p) == {Outputs[p][i] : i \in 1..Len(Outputs[p])}
Producers(c) == {p \in Tasks : c \in Consumers(p)}
Probing(x, p)  == Kind[x[1]] = "join" /\ p = Probe[x[1]]
Building(x, p) == Kind[x[1]] = "join" /\ p # Probe[x[1]]
BuildSide(c) == Producers(c) \ {Probe[c]}
Links        == UNION {{<<p, c>> : c \in Consumers(p)} : p \in Tasks}
Instances    == UNION {{<<t, i>> : i \in 1..Iterations[t]} : t \in Tasks}
Readers      == UNION {{<<x, p>> : p \in Producers(x[1])} : x \in Instances}

ASSUME PipelineAssumption ==
  /\ IsFiniteSet(Tasks)
  /\ StateDeps \in [Tasks -> SUBSET Tasks]
  /\ Outputs \in [Tasks -> Seq(Tasks)]
  /\ Kind \in [Tasks -> {"source", "passthrough", "join", "sink"}]
  /\ Records \in Nat /\ BufferSize \in Nat \ {0} /\ PoolSize \in Nat \ {0}
  /\ Iterations \in [Tasks -> Nat \ {0}] /\ Parallel \in Nat \ {0}
  /\ Loops \subseteq Tasks /\ \A t \in Tasks \ Loops : Iterations[t] = 1
  /\ \A t \in Tasks : Kind[t] = "source" => Producers(t) = {}
  /\ \A t \in Tasks : Kind[t] = "join" => Probe[t] \in Producers(t)
  /\ MaySkip \subseteq Tasks /\ MayFail \subseteq Tasks /\ MayTimeOut \subseteq Tasks
  /\ Attempts \in [Tasks -> Nat \ {0}] /\ MayCancel \in BOOLEAN

\* Every channel joins a different pair of tasks; DagBuild has the producer that
\* a task names twice.
ASSUME NamedOnceAssumption ==
  \A p \in Tasks : \A i, j \in 1..Len(Outputs[p]) : Outputs[p][i] = Outputs[p][j] => i = j

VARIABLES
  phase,    \* of ExecuteTask: "waiting", "begin", "instances", "ended"
  result,   \* what it returned: "none", "ok", "skip", "fail" or "ctx"
  expired,  \* did the task's own timeout expire?
  runDone,  \* is the run's context done?
  spawned,  \* loop iterations started so far
  broken,   \* did the loop stop early because the context was done?
  taskErr,  \* finalInstanceErr
  ipc,      \* control point of each instance: "idle", "born", "setup", "perform", "close",
            \* "done", or "dropped" when an iteration found the context done
  ierr,     \* the error of each instance
  sent,     \* records a source has generated, or unmatched ones a join has emitted
  todo,     \* outputs the current record has not been sent to yet
  reader,   \* state of each fan-in goroutine: "idle", "read", "hold", "done"
  buffer,   \* number of records in each channel
  closed,   \* is the channel closed?
  emitted,  \* records written to each channel, ever
  got,      \* records each consumer took in (a join may read a record and drop it; its
            \* table starts empty in each attempt)
  wg,       \* producerWaitGroups
  attempt,  \* the attempt of Perform each instance is in or has ended, 0 before the first
  panicked  \* did the process panic?

taskVars   == <<phase, result, expired, spawned, broken, taskErr>>
moduleVars == <<sent, todo, reader>>
streamVars == <<buffer, closed, emitted, got>>
vars == <<taskVars, runDone, ipc, ierr, moduleVars, streamVars, wg, attempt, panicked>>

Init ==
  /\ phase = [t \in Tasks |-> "waiting"]
  /\ result = [t \in Tasks |-> "none"]
  /\ expired = [t \in Tasks |-> FALSE]
  /\ runDone = FALSE
  /\ spawned = [t \in Tasks |-> 0]
  /\ broken = [t \in Tasks |-> FALSE]
  /\ taskErr = [t \in Tasks |-> "none"]
  /\ ipc = [x \in Instances |-> "idle"]
  /\ ierr = [x \in Instances |-> "none"]
  /\ sent = [x \in Instances |-> 0]
  /\ todo = [x \in Instances |-> <<>>]
  /\ reader = [r \in Readers |-> "idle"]
  /\ buffer = [l \in Links |-> 0]
  /\ closed = [l \in Links |-> FALSE]
  /\ emitted = [l \in Links |-> 0]
  /\ got = [l \in Links |-> 0]
  /\ wg = [p \in Tasks |-> Cardinality(Consumers(p))]
  /\ attempt = [x \in Instances |-> 0]
  /\ panicked = FALSE

Good      == {"ok", "skip"}
CtxDone(t) == runDone \/ expired[t]
Running   == {t \in Tasks : phase[t] \notin {"waiting", "ended"}}
-----------------------------------------------------------------------------
(* ExecuteTask.                                                            *)

Start(t) ==
  /\ phase[t] = "waiting" /\ Cardinality(Running) < PoolSize
  /\ \A p \in StateDeps[t] : result[p] \in Good
  /\ \A p \in Producers(t) : phase[p] # "waiting"
  /\ phase' = [phase EXCEPT ![t] = "begin"]
  /\ UNCHANGED <<result, expired, spawned, broken, taskErr, runDone, ipc, ierr, moduleVars,
                 streamVars, wg, attempt, panicked>>

\* The worker fails a task it picked after the context was done, without
\* calling ExecuteTask: no channel is closed and no WaitGroup told.
Refuse(t) ==
  /\ phase[t] = "begin" /\ runDone
  /\ phase' = [phase EXCEPT ![t] = "ended"]
  /\ result' = [result EXCEPT ![t] = "ctx"]
  /\ UNCHANGED <<expired, spawned, broken, taskErr, runDone, ipc, ierr, moduleVars, streamVars, wg, attempt,
                 panicked>>

\* The deferred call of ExecuteTask tells every producer that t is finished.
Leave(t, r) ==
  /\ phase' = [phase EXCEPT ![t] = "ended"]
  /\ result' = [result EXCEPT ![t] = r]
  /\ wg' = [p \in Tasks |-> IF p \in Producers(t) THEN wg[p] - 1 ELSE wg[p]]
  /\ UNCHANGED <<expired, spawned, broken, taskErr, runDone, ipc, ierr, moduleVars, streamVars,
                 attempt, panicked>>

\* The early returns run no instance, so they close no output channel.
Skip(t)      == phase[t] = "begin" /\ t \in MaySkip /\ Leave(t, "skip")
EmptyLoop(t) == phase[t] = "begin" /\ t \in MaySkip \cap Loops /\ Leave(t, "ok")
BadLoop(t)   == phase[t] = "begin" /\ t \in MayFail \cap Loops /\ Leave(t, "fail")

\* Without a loop the only instance runs at once; a loop starts none yet.
Enter(t) ==
  /\ phase[t] = "begin"
  /\ phase' = [phase EXCEPT ![t] = "instances"]
  /\ IF t \in Loops
     THEN UNCHANGED <<spawned, ipc>>
     ELSE /\ spawned' = [spawned EXCEPT ![t] = 1]
          /\ ipc' = [ipc EXCEPT ![<<t, 1>>] = "setup"]
  /\ UNCHANGED <<result, expired, broken, taskErr, runDone, ierr, moduleVars, streamVars, wg, attempt,
                 panicked>>

Looping(t) == phase[t] = "instances" /\ spawned[t] < Iterations[t] /\ ~broken[t]
Live(t)    == {x \in Instances : x[1] = t /\ ipc[x] \notin {"idle", "done", "dropped"}}

Spawn(t) ==
  /\ Looping(t) /\ Cardinality(Live(t)) < Parallel
  /\ spawned' = [spawned EXCEPT ![t] = @ + 1]
  /\ ipc' = [ipc EXCEPT ![<<t, spawned[t] + 1>>] = "born"]
  /\ UNCHANGED <<phase, result, expired, broken, taskErr, runDone, ierr, moduleVars, streamVars, wg, attempt,
                 panicked>>

BreakLoop(t) ==
  /\ Looping(t) /\ CtxDone(t)
  /\ broken' = [broken EXCEPT ![t] = TRUE]
  /\ taskErr' = [taskErr EXCEPT ![t] = IF @ = "none" THEN "ctx" ELSE @]
  /\ UNCHANGED <<phase, result, expired, spawned, runDone, ipc, ierr, moduleVars, streamVars, wg, attempt,
                 panicked>>

\* An iteration that finds the context done returns and leaves no error.
Birth(x) ==
  /\ ipc[x] = "born"
  /\ ipc' = [ipc EXCEPT ![x] = IF CtxDone(x[1]) THEN "dropped" ELSE "setup"]
  /\ UNCHANGED <<taskVars, runDone, ierr, moduleVars, streamVars, wg, attempt, panicked>>

\* Defect: ExecuteTask closes the outputs too, for the paths that ran nothing.
EndTaskClosing(t) ==
  /\ phase[t] = "instances" /\ ~Looping(t) /\ Live(t) = {}
  /\ phase' = [phase EXCEPT ![t] = "ended"]
  /\ result' = [result EXCEPT ![t] = IF taskErr[t] = "none" THEN "ok" ELSE taskErr[t]]
  /\ panicked' = (panicked \/ \E l \in Links : l[1] = t /\ closed[l])
  /\ UNCHANGED <<expired, spawned, broken, taskErr, runDone, ipc, ierr, moduleVars, streamVars, wg, attempt>>

EndTask(t) ==
  /\ phase[t] = "instances" /\ ~Looping(t) /\ Live(t) = {}
  /\ Leave(t, IF taskErr[t] = "none" THEN "ok" ELSE taskErr[t])

Return(x, err) ==
  /\ ipc' = [ipc EXCEPT ![x] = "close"]
  /\ ierr' = [ierr EXCEPT ![x] = err]
  /\ UNCHANGED <<taskVars, runDone, moduleVars, streamVars, wg, attempt, panicked>>

\* The hooks and the parameters may fail; the retry helper does not try once
\* the context is done.
Prepare(x) ==
  /\ ipc[x] = "setup"
  /\ \/ x[1] \in MayFail /\ Return(x, "fail")
     \/ CtxDone(x[1]) /\ Return(x, "ctx")
     \/ /\ ~CtxDone(x[1])
        /\ ipc' = [ipc EXCEPT ![x] = "perform"]
        /\ reader' = [r \in Readers |->
                        IF r[1] = x /\ ~Probing(x, r[2]) THEN "read" ELSE reader[r]]
        /\ attempt' = [attempt EXCEPT ![x] = 1]
        /\ UNCHANGED <<taskVars, runDone, ierr, sent, todo, streamVars, wg, panicked>>

\* What Perform returned is an error and not the last attempt's.
MayRetry(x) == ierr[x] = "fail" /\ attempt[x] \in 1..(Attempts[x[1]] - 1)

\* The next attempt gets the channels as the one before left them.
Retry(x) ==
  /\ ipc[x] = "close" /\ MayRetry(x) /\ ~CtxDone(x[1])
  /\ ipc' = [ipc EXCEPT ![x] = "perform"]
  /\ ierr' = [ierr EXCEPT ![x] = "none"]
  /\ attempt' = [attempt EXCEPT ![x] = @ + 1]
  /\ reader' = [r \in Readers |->
                  IF r[1] # x THEN reader[r] ELSE IF Probing(x, r[2]) THEN "idle" ELSE "read"]
  /\ got' = [l \in Links |-> IF l[2] = x[1] /\ Building(x, l[1]) THEN 0 ELSE got[l]]
  /\ UNCHANGED <<taskVars, runDone, sent, todo, buffer, closed, emitted, wg, panicked>>

\* Defect: each instance signals the producers, besides the task.
CloseSignalling(x) ==
  LET t == x[1]
      mine == {l \in Links : l[1] = t} IN
  /\ ipc[x] = "close" /\ (MayRetry(x) => CtxDone(t))
  /\ ipc' = [ipc EXCEPT ![x] = "done"]
  /\ taskErr' = [taskErr EXCEPT ![t] = IF @ = "none" THEN ierr[x] ELSE @]
  /\ closed' = [l \in Links |-> closed[l] \/ l \in mine]
  /\ panicked' = (panicked \/ \E l \in mine : closed[l])
  /\ wg' = [p \in Tasks |-> IF p \in Producers(t) THEN wg[p] - 1 ELSE wg[p]]
  /\ UNCHANGED <<phase, result, expired, spawned, broken, runDone, ierr, moduleVars, buffer,
                 emitted, got, attempt>>

\* CloseOutputChannels, a deferred call of every instance; closing a closed
\* channel panics.
Close(x) ==
  LET t == x[1]
      mine == {l \in Links : l[1] = t} IN
  /\ ipc[x] = "close" /\ (MayRetry(x) => CtxDone(t))
  /\ ipc' = [ipc EXCEPT ![x] = "done"]
  /\ taskErr' = [taskErr EXCEPT ![t] = IF @ = "none" THEN ierr[x] ELSE @]
  /\ closed' = [l \in Links |-> closed[l] \/ l \in mine]
  /\ panicked' = (panicked \/ \E l \in mine : closed[l])
  /\ UNCHANGED <<phase, result, expired, spawned, broken, runDone, ierr, moduleVars, buffer,
                 emitted, got, wg, attempt>>

Expire(t) ==
  /\ t \in MayTimeOut /\ phase[t] = "instances" /\ ~expired[t]
  /\ expired' = [expired EXCEPT ![t] = TRUE]
  /\ UNCHANGED <<phase, result, spawned, broken, taskErr, runDone, ipc, ierr, moduleVars,
                 streamVars, wg, attempt, panicked>>

\* The caller, a fatal failure or the stall detector cancels the run.
CancelRun ==
  /\ MayCancel /\ ~runDone
  /\ runDone' = TRUE
  /\ UNCHANGED <<taskVars, ipc, ierr, moduleVars, streamVars, wg, attempt, panicked>>
-----------------------------------------------------------------------------
(* Perform.                                                                *)

At(x, kind) == ipc[x] = "perform" /\ Kind[x[1]] = kind

\* generate:from_list turns to its next item.
Generate(x) ==
  /\ At(x, "source") /\ sent[x] < Records /\ todo[x] = <<>>
  /\ sent' = [sent EXCEPT ![x] = @ + 1]
  /\ todo' = [todo EXCEPT ![x] = Outputs[x[1]]]
  /\ UNCHANGED <<taskVars, runDone, ipc, ierr, reader, streamVars, wg, attempt, panicked>>

Exhausted(x) == At(x, "source") /\ sent[x] = Records /\ todo[x] = <<>> /\ Return(x, "none")

\* Defect: one place of every buffer stays empty.
SendShort(x) ==
  /\ ipc[x] = "perform" /\ todo[x] # <<>>
  /\ LET l == <<x[1], Head(todo[x])>> IN
     \/ /\ ~closed[l] /\ buffer[l] < BufferSize - 1
        /\ buffer' = [buffer EXCEPT ![l] = @ + 1]
        /\ emitted' = [emitted EXCEPT ![l] = @ + 1]
        /\ todo' = [todo EXCEPT ![x] = Tail(@)]
        /\ UNCHANGED panicked
     \/ closed[l] /\ panicked' = TRUE /\ UNCHANGED <<todo, buffer, emitted>>
  /\ UNCHANGED <<taskVars, runDone, ipc, ierr, sent, reader, closed, got, wg, attempt>>

\* One send of the fan-out: it waits for room, and panics on a closed channel.
Send(x) ==
  /\ ipc[x] = "perform" /\ todo[x] # <<>>
  /\ LET l == <<x[1], Head(todo[x])>> IN
     \/ /\ ~closed[l] /\ buffer[l] < BufferSize
        /\ buffer' = [buffer EXCEPT ![l] = @ + 1]
        /\ emitted' = [emitted EXCEPT ![l] = @ + 1]
        /\ todo' = [todo EXCEPT ![x] = Tail(@)]
        /\ UNCHANGED panicked
     \/ closed[l] /\ panicked' = TRUE /\ UNCHANGED <<todo, buffer, emitted>>
  /\ UNCHANGED <<taskVars, runDone, ipc, ierr, sent, reader, closed, got, wg, attempt>>

\* Defect: the module watches its task's timeout and not the run.
GiveUpOnTimeout(x) ==
  ipc[x] = "perform" /\ todo[x] # <<>> /\ expired[x[1]] /\ Return(x, "ctx")

\* The other case of the select around each send.
GiveUp(x) == ipc[x] = "perform" /\ todo[x] # <<>> /\ CtxDone(x[1]) /\ Return(x, "ctx")

\* A goroutine per input takes a record: passthrough and join hold it until
\* their main goroutine takes it (a join drops it once the context is done or a
\* limit was hit), exec and the other drains drop it.  The goroutines may
\* outlive the Perform that started them.
Pull(x, p, next) ==
  /\ reader[<<x, p>>] = "read" /\ buffer[<<p, x[1]>>] > 0
  /\ buffer' = [buffer EXCEPT ![<<p, x[1]>>] = @ - 1]
  /\ reader' = [reader EXCEPT ![<<x, p>>] = next]

TakeIn(x, p) == got' = [got EXCEPT ![<<p, x[1]>>] = @ + 1]

\* Defect: a module that does not use its inputs does not drain them.
ReceiveIfUsed(x, p) ==
  /\ Kind[x[1]] = "passthrough"
  /\ Pull(x, p, "hold") /\ TakeIn(x, p)
  /\ UNCHANGED <<taskVars, runDone, ipc, ierr, sent, todo, closed, emitted, wg, attempt, panicked>>

Receive(x, p) ==
  /\ ~Probing(x, p)
  /\ Pull(x, p, IF Kind[x[1]] = "passthrough" \/ (Building(x, p) /\ ~CtxDone(x[1]) /\ ierr[x] = "none")
                THEN "hold" ELSE "read")
  /\ IF Building(x, p) THEN UNCHANGED got ELSE TakeIn(x, p)
  /\ UNCHANGED <<taskVars, runDone, ipc, ierr, sent, todo, closed, emitted, wg, attempt, panicked>>

EndRead(x, p, when) ==
  /\ reader[<<x, p>>] \in {"read", "hold"} /\ when
  /\ reader' = [reader EXCEPT ![<<x, p>>] = "done"]
  /\ UNCHANGED <<taskVars, runDone, ipc, ierr, sent, todo, streamVars, wg, attempt, panicked>>

EndOfStream(x, p) ==
  EndRead(x, p, /\ reader[<<x, p>>] = "read"
                /\ Probing(x, p) => ipc[x] = "perform" /\ todo[x] = <<>>
                /\ closed[<<p, x[1]>>] /\ buffer[<<p, x[1]>>] = 0)

\* passthrough watches the context while it reads; a join only while it hands
\* a record over, and there also the context it cancels when a limit is hit.
StopReading(x, p) ==
  EndRead(x, p, \/ Kind[x[1]] = "passthrough" /\ CtxDone(x[1])
                \/ Building(x, p) /\ reader[<<x, p>>] = "hold" /\ (CtxDone(x[1]) \/ ierr[x] # "none"))

\* The unbuffered hand-over from a reader to the fan-out.
Merge(x, p) ==
  /\ At(x, "passthrough") /\ reader[<<x, p>>] = "hold" /\ todo[x] = <<>>
  /\ reader' = [reader EXCEPT ![<<x, p>>] = "read"]
  /\ todo' = [todo EXCEPT ![x] = Outputs[x[1]]]
  /\ UNCHANGED <<taskVars, runDone, ipc, ierr, sent, streamVars, wg, attempt, panicked>>

AllRead(x) == \A p \in Producers(x[1]) : reader[<<x, p>>] = "done"

\* The build phase of a join: a record goes into the hash table, or is one too
\* many for max_build_records, which ends the phase with an error.
Build(x, p) ==
  /\ Building(x, p) /\ reader[<<x, p>>] = "hold"
  /\ reader' = [reader EXCEPT ![<<x, p>>] = "read"]
  /\ \/ TakeIn(x, p) /\ UNCHANGED ierr
     \/ x[1] \in MayFail /\ ierr' = [ierr EXCEPT ![x] = "fail"] /\ UNCHANGED got
  /\ UNCHANGED <<taskVars, runDone, ipc, sent, todo, buffer, closed, emitted, wg, attempt, panicked>>

Built(x) == \A p \in BuildSide(x[1]) : reader[<<x, p>>] = "done"

\* The error of the build phase is returned; a context that is done is not one.
StartProbe(x) ==
  /\ At(x, "join") /\ Built(x) /\ reader[<<x, Probe[x[1]]>>] = "idle"
  /\ \/ ierr[x] # "none" /\ Return(x, ierr[x])
     \/ /\ ierr[x] = "none"
        /\ reader' = [reader EXCEPT ![<<x, Probe[x[1]]>>] = "read"]
        /\ UNCHANGED <<taskVars, runDone, ipc, ierr, sent, todo, streamVars, wg, attempt, panicked>>

\* Defect: the probe phase does not look at the context.
ProbeRecordBlind(x) ==
  LET t == x[1] IN
  /\ At(x, "join") /\ todo[x] = <<>>
  /\ Pull(x, Probe[t], "read") /\ TakeIn(x, Probe[t])
  /\ \E out \in {<<>>, Outputs[t]} : todo' = [todo EXCEPT ![x] = out]
  /\ UNCHANGED <<taskVars, runDone, ipc, ierr, sent, closed, emitted, wg, attempt, panicked>>

\* The probe phase, in the main goroutine: the context is looked at after each
\* record, which then matches or not.
ProbeRecord(x) ==
  LET t == x[1] IN
  /\ At(x, "join") /\ todo[x] = <<>>
  /\ Pull(x, Probe[t], IF CtxDone(t) THEN "done" ELSE "read") /\ TakeIn(x, Probe[t])
  /\ IF CtxDone(t)
     THEN /\ ipc' = [ipc EXCEPT ![x] = "close"]
          /\ ierr' = [ierr EXCEPT ![x] = "ctx"]
          /\ UNCHANGED todo
     ELSE /\ \E out \in {<<>>, Outputs[t]} : todo' = [todo EXCEPT ![x] = out]
          /\ UNCHANGED <<ipc, ierr>>
  /\ UNCHANGED <<taskVars, runDone, sent, closed, emitted, wg, attempt, panicked>>

\* A right or outer join then emits the build records nothing matched (one of
\* them here), unless the context is done.
EmitUnmatched(x) ==
  /\ At(x, "join") /\ todo[x] = <<>> /\ AllRead(x) /\ sent[x] = 0 /\ ~CtxDone(x[1])
  /\ sent' = [sent EXCEPT ![x] = 1]
  /\ todo' = [todo EXCEPT ![x] = Outputs[x[1]]]
  /\ UNCHANGED <<taskVars, runDone, ipc, ierr, reader, streamVars, wg, attempt, panicked>>

\* Defect: the join returns once its build side is complete.
JoinedEarly(x) == At(x, "join") /\ todo[x] = <<>> /\ Built(x) /\ Return(x, "none")

\* An inner or left join does not look at the context again.
Joined(x) ==
  /\ At(x, "join") /\ todo[x] = <<>> /\ AllRead(x)
  /\ \E err \in {"none"} \cup (IF CtxDone(x[1]) THEN {"ctx"} ELSE {}) : Return(x, err)

Passed(x) ==
  /\ At(x, "passthrough") /\ todo[x] = <<>> /\ AllRead(x)
  /\ Return(x, IF CtxDone(x[1]) /\ Producers(x[1]) # {} THEN "ctx" ELSE "none")

\* Defect: exec returns without waiting for its drains.
DrainedEarly(x) == At(x, "sink") /\ Return(x, "none")

\* exec waits for its drains before it returns what the command came to.
Drained(x) ==
  /\ At(x, "sink") /\ AllRead(x)
  /\ \E err \in {"none"} \cup (IF x[1] \in MayFail THEN {"fail"} ELSE {})
                         \cup (IF CtxDone(x[1]) THEN {"ctx"} ELSE {}) : Return(x, err)
-----------------------------------------------------------------------------
TaskStep(t) ==
  \/ Start(t) \/ Refuse(t) \/ Skip(t) \/ EmptyLoop(t) \/ BadLoop(t) \/ Enter(t) \/ Spawn(t) \/ BreakLoop(t)
  \/ EndTask(t)

InstanceStep(x) ==
  \/ Birth(x) \/ Prepare(x) \/ Retry(x) \/ Close(x) \/ Generate(x) \/ Exhausted(x) \/ Send(x) \/ GiveUp(x) \/ Passed(x)
  \/ Drained(x) \/ StartProbe(x) \/ ProbeRecord(x) \/ EmitUnmatched(x) \/ Joined(x)
  \/ \E p \in Producers(x[1]) :
       Receive(x, p) \/ EndOfStream(x, p) \/ StopReading(x, p) \/ Merge(x, p) \/ Build(x, p)

\* A drain or a join reads until its channels are closed: it waits for ever
\* for a producer that ended without closing, or waits so itself.
Draining == {t \in Tasks : Kind[t] \in {"sink", "join"}}
Orphans ==
  UNION {S \in SUBSET Draining :
           \A t \in S : \E p \in Producers(t) :
             ~closed[<<p, t>>] /\ (phase[p] = "ended" \/ p \in S)}

\* Where a run may stop: no task is left that can end, or the process is gone.
Settled  == Running \subseteq Draining /\ Running \subseteq Orphans
Finished == (Settled \/ panicked) /\ UNCHANGED vars

Work == (\E t \in Tasks : TaskStep(t)) \/ (\E x \in Instances : InstanceStep(x))

\* A panic ends the process: nothing recovers it.
Next ==
  \/ ~panicked /\ (Work \/ CancelRun \/ \E t \in Tasks : Expire(t))
  \/ Finished

Spec == Init /\ [][Next]_vars

\* Goroutines that can run do run.  No step can be taken for ever, so weak
\* fairness of all of them together lets none be passed over.
FairSpec == Spec /\ WF_vars(~panicked /\ Work)
=============================================================================
