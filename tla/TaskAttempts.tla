----------------------------- MODULE TaskAttempts -----------------------------
(***************************************************************************)
(* One call of ExecuteTask seen from inside: the iterations of its loop,   *)
(* the attempts retry.Do makes of each one's Perform, the wait between two *)
(* attempts, the record errors a module reports and what is registered at  *)
(* the end (internal/engine/task_runner.go, internal/retry/retry.go).      *)
(*                                                                         *)
(* Pipeline has the same loop with the streams and folds the attempts;     *)
(* here the streams are folded and Perform is what it reports and returns. *)
(* An error is its class: does errors.Is still find the context's error?   *)
(***************************************************************************)
EXTENDS Integers, FiniteSets

CONSTANTS
  Tasks,      \* the task definitions tried, see Configured
  Iterations, \* number of items of a loop that has some
  DefaultTimeout, \* the engine's default timeout, 0 for none
  Second,     \* the Duration "1s"
  Half,       \* the jitter factor 1.0: jitter is in units of 1/Half
  MaxInt,     \* the largest Duration
  ErrCap,     \* capacity of moduleErrChan (10 in the code)
  AggCap,     \* capacity of aggregatedErrChan (10 in the code)
  MaxReports, \* bound: record errors one instance reports
  Revealing   \* errors may contain a keyword that redaction removes

\* What a task may say of its loop and its retries; 0 stands for a duration
\* left out, a negative factor or jitter for one left out.
Configured == [when : BOOLEAN, loop : {"none", "bad", "empty", "items"}, parallel : Nat, timeout : Nat,
               attempts : Nat \ {0}, delay : Nat, maxDelay : Nat, factor : Int, jitter : Int,
               onError : BOOLEAN]

\* ValidatePlaybookStructure compares max_delay with the delay as written.
Valid(t) == t.maxDelay > 0 => t.maxDelay >= t.delay

ASSUME AttemptsAssumption ==
  /\ \A t \in Tasks : t \in Configured /\ Valid(t)
  /\ Iterations \in Nat \ {0} /\ DefaultTimeout \in Nat
  /\ MaxInt \in Nat /\ Second \in 1..MaxInt /\ Half \in Nat \ {0}
  /\ ErrCap \in Nat \ {0} /\ AggCap \in Nat \ {0} /\ MaxReports \in Nat /\ Revealing \in BOOLEAN

Items == 1..Iterations
CtxErrors == {"canceled", "expired"}
Errors == {"plain"} \cup CtxErrors

VARIABLES
  task,       \* the task definition
  ctx,        \* instanceCtx: "live", "canceled" or "expired"
  tpc,        \* the goroutine of ExecuteTask: "start", "loop", "wait", "register" or "done"
  next,       \* the next item of the loop
  pc,         \* the goroutine of each iteration
  attempt, err, wait, \* of its retry.Do: number of the attempt, lastErr, the delay
  errs,       \* reports in its moduleErrChan
  agg,        \* reports in aggregatedErrChan
  firstErr,   \* finalInstanceErr
  summary,    \* finalInstanceSummary: the iteration it comes from, 0 for nil
  registered, \* what is stored under task.Register, -1 for nothing
  reports, lost \* history: reports made per iteration, reports nobody can read

instVars == <<pc, attempt, err, wait>>
errVars  == <<errs, agg, reports, lost>>
taskVars == <<tpc, next, firstErr, summary, registered>>
vars == <<task, ctx, taskVars, instVars, errVars>>

Init ==
  /\ task \in Tasks
  /\ ctx = "live" /\ tpc = "start" /\ next = 1
  /\ pc = [i \in Items |-> "idle"]
  /\ attempt = [i \in Items |-> 1] /\ err = [i \in Items |-> "none"] /\ wait = [i \in Items |-> 0]
  /\ errs = [i \in Items |-> 0] /\ agg = 0
  /\ firstErr = "none" /\ summary = 0 /\ registered = -1
  /\ reports = [i \in Items |-> 0] /\ lost = 0

CtxDone == ctx # "live"
-----------------------------------------------------------------------------
(* The settings as ExecuteTask and retry.Do understand them.               *)

GetLoopParallel == IF task.parallel > 1 THEN task.parallel ELSE 1
GetTimeout == IF task.timeout > 0 THEN task.timeout ELSE DefaultTimeout
GetRetryDelay == IF task.delay > 0 THEN task.delay ELSE Second
GetRetryBackoffFactor == IF task.factor >= 1 THEN task.factor ELSE 1
GetRetryJitter == CASE task.jitter < 0 -> 0 [] task.jitter > Half -> Half [] OTHER -> task.jitter

\* jitter * (2r - 1) for the random r in [0, 1).
Shares == IF GetRetryJitter = 0 THEN {} ELSE -GetRetryJitter..(GetRetryJitter - 1)
-----------------------------------------------------------------------------
(* The delay before the next attempt.  A Duration has the width of MaxInt; *)
(* float64(MaxInt64) is MaxInt + 1, which no Duration holds, and what its  *)
(* conversion gives depends on the processor.                              *)

Duration(x) ==
  IF x \in -(MaxInt + 1)..MaxInt THEN {x} ELSE IF x > 0 THEN {MaxInt, -(MaxInt + 1)} ELSE {-(MaxInt + 1)}
Wrap(x) == ((x + MaxInt + 1) % (2 * (MaxInt + 1))) - (MaxInt + 1)
Truncate(x) == IF x >= 0 THEN x \div Half ELSE -((-x) \div Half)
AtLeastZero(x) == IF x < 0 THEN 0 ELSE x

Backoff(n) == LET base == GetRetryDelay * GetRetryBackoffFactor^(n - 1) IN IF base > MaxInt + 1 THEN MaxInt + 1 ELSE base

Jittered(d) ==
  IF Shares = {} THEN {d}
  ELSE UNION {{AtLeastZero(Wrap(d + amount)) : amount \in Duration(Truncate(d * share))} : share \in Shares}

Capped(d) == IF task.maxDelay > 0 /\ d > task.maxDelay THEN task.maxDelay ELSE d

\* Defect: the cap is applied before the jitter.
CappedThenJittered(n) == UNION {Jittered(Capped(d)) : d \in Duration(Backoff(n))}

Delays(n) == {Capped(d) : d \in UNION {Jittered(d) : d \in Duration(Backoff(n))}}
-----------------------------------------------------------------------------
(* The loop of ExecuteTask.                                                *)

Looped == task.loop = "items"
Todo == IF Looped THEN Items ELSE {1}
Live == {i \in Items : pc[i] \notin {"idle", "cut", "ended"}}

\* ExecuteTask returns at once when its condition is false or fails, when the
\* loop expression has no value, and when it has no items: the last is a
\* success that registers nothing.
Stop(e) == tpc' = "done" /\ firstErr' = e

Begin ==
  /\ tpc = "start"
  /\ \/ task.when /\ Stop("skipped")
     \/ task.loop = "bad" /\ Stop("plain")
     \/ task.loop = "empty" /\ Stop("none")
     \/ task.loop \in {"none", "items"} /\ tpc' = "loop" /\ UNCHANGED firstErr
  /\ UNCHANGED <<task, ctx, next, summary, registered, instVars, errVars>>

\* A task without a loop runs its instance in the goroutine of ExecuteTask,
\* without the look at the context an iteration begins with.
Spawn ==
  /\ tpc = "loop" /\ next \in Todo
  /\ Cardinality(Live) < GetLoopParallel
  /\ pc' = [pc EXCEPT ![next] = IF Looped THEN "born" ELSE "prepare"]
  /\ next' = next + 1
  /\ UNCHANGED <<task, ctx, tpc, firstErr, summary, registered, attempt, err, wait, errVars>>

FirstErr(e) == IF firstErr = "none" THEN e ELSE firstErr

BreakLoop ==
  /\ tpc = "loop" /\ next \in Todo /\ Looped /\ CtxDone
  /\ firstErr' = FirstErr(ctx) /\ tpc' = "wait"
  /\ UNCHANGED <<task, ctx, next, summary, registered, instVars, errVars>>

LoopEnd ==
  /\ tpc = "loop" /\ next \notin Todo
  /\ tpc' = "wait"
  /\ UNCHANGED <<task, ctx, next, firstErr, summary, registered, instVars, errVars>>

\* An iteration that finds the context done leaves neither error nor summary.
Birth(i) ==
  /\ pc[i] = "born"
  /\ pc' = [pc EXCEPT ![i] = IF CtxDone THEN "cut" ELSE "prepare"]
  /\ UNCHANGED <<task, ctx, taskVars, attempt, err, wait, errVars>>

\* Registry, parameters and templates: a failure returns before any attempt.
Prepare(i) ==
  /\ pc[i] = "prepare"
  /\ \/ pc' = [pc EXCEPT ![i] = "check"] /\ UNCHANGED err
     \/ pc' = [pc EXCEPT ![i] = "merge"] /\ err' = [err EXCEPT ![i] = "plain"]
  /\ UNCHANGED <<task, ctx, taskVars, attempt, wait, errVars>>
-----------------------------------------------------------------------------
(* retry.Do.                                                               *)

\* RedactSecretsInError replaces an error whose text it changes by a new one.
Redacted(e) == {e} \cup IF Revealing THEN {"plain"} ELSE {}

GiveUp(i) ==
  /\ pc' = [pc EXCEPT ![i] = "flush"]
  /\ wait' = [wait EXCEPT ![i] = 0]
  /\ IF err[i] = "none" THEN err' = [err EXCEPT ![i] = ctx]
     ELSE \E e \in Redacted(err[i]) : err' = [err EXCEPT ![i] = e]

Check(i) ==
  /\ pc[i] = "check"
  /\ \/ CtxDone /\ GiveUp(i)
     \/ ~CtxDone /\ pc' = [pc EXCEPT ![i] = "perform"] /\ UNCHANGED <<err, wait>>
  /\ UNCHANGED <<task, ctx, taskVars, attempt, errVars>>

Succeed(i) ==
  /\ pc[i] = "perform"
  /\ pc' = [pc EXCEPT ![i] = "flush"] /\ err' = [err EXCEPT ![i] = "none"]
  /\ UNCHANGED <<task, ctx, taskVars, attempt, wait, errVars>>

\* Perform returns the error e: the last one, or one to try again after.
Failed(i, e) ==
  IF attempt[i] = task.attempts \/ ~task.onError
  THEN /\ \E r \in Redacted(e) : err' = [err EXCEPT ![i] = r]
       /\ pc' = [pc EXCEPT ![i] = "flush"] /\ UNCHANGED wait
  ELSE /\ err' = [err EXCEPT ![i] = e]
       /\ pc' = [pc EXCEPT ![i] = "delay"]
       /\ \E d \in Delays(attempt[i]) : wait' = [wait EXCEPT ![i] = d]

Fail(i) ==
  /\ pc[i] = "perform"
  /\ \E e \in {"plain"} \cup {c \in CtxErrors : c = ctx} : Failed(i, e)
  /\ UNCHANGED <<task, ctx, taskVars, attempt, errVars>>

DelayOver(i) ==
  /\ pc[i] = "delay"
  /\ pc' = [pc EXCEPT ![i] = "check"] /\ wait' = [wait EXCEPT ![i] = 0]
  /\ attempt' = [attempt EXCEPT ![i] = @ + 1]
  /\ UNCHANGED <<task, ctx, taskVars, err, errVars>>

DelayCancelled(i) ==
  /\ pc[i] = "delay" /\ CtxDone
  /\ GiveUp(i)
  /\ UNCHANGED <<task, ctx, taskVars, attempt, errVars>>
-----------------------------------------------------------------------------
(* Record errors: the module's channel lives as long as the instance, so   *)
(* all attempts share it, and nobody reads it before retry.Do returned.    *)

Report(i) ==
  /\ pc[i] = "perform" /\ reports[i] < MaxReports
  /\ pc' = [pc EXCEPT ![i] = "report"]
  /\ UNCHANGED <<task, ctx, taskVars, attempt, err, wait, errVars>>

SendReport(i) ==
  /\ pc[i] = "report" /\ errs[i] < ErrCap
  /\ errs' = [errs EXCEPT ![i] = @ + 1] /\ reports' = [reports EXCEPT ![i] = @ + 1]
  /\ pc' = [pc EXCEPT ![i] = "perform"]
  /\ UNCHANGED <<task, ctx, taskVars, attempt, err, wait, agg, lost>>

\* Defect: the send does not watch the context.
AbandonNever(i) == FALSE /\ UNCHANGED vars

AbandonReport(i) ==
  /\ pc[i] = "report" /\ CtxDone
  /\ Failed(i, ctx)
  /\ UNCHANGED <<task, ctx, taskVars, attempt, errVars>>

\* Defect: a report that does not fit is dropped.
FlushOrDrop(i) ==
  /\ pc[i] = "flush" /\ errs[i] > 0
  /\ errs' = [errs EXCEPT ![i] = @ - 1]
  /\ IF agg < AggCap THEN agg' = agg + 1 /\ UNCHANGED lost ELSE lost' = lost + 1 /\ UNCHANGED agg
  /\ UNCHANGED <<task, ctx, taskVars, instVars, reports>>

\* The engine makes aggregatedErrChan and never reads it.
Flush(i) ==
  /\ pc[i] = "flush" /\ errs[i] > 0
  /\ errs' = [errs EXCEPT ![i] = @ - 1]
  /\ \/ agg < AggCap /\ agg' = agg + 1 /\ UNCHANGED lost
     \/ CtxDone /\ lost' = lost + 1 /\ UNCHANGED agg
  /\ UNCHANGED <<task, ctx, taskVars, instVars, reports>>

Flushed(i) ==
  /\ pc[i] = "flush" /\ errs[i] = 0
  /\ pc' = [pc EXCEPT ![i] = "merge"]
  /\ UNCHANGED <<task, ctx, taskVars, attempt, err, wait, errVars>>
-----------------------------------------------------------------------------
(* The end of an iteration, under loopErrMu, and of the task.              *)

Merge(i) ==
  /\ pc[i] = "merge"
  /\ pc' = [pc EXCEPT ![i] = "ended"]
  /\ IF err[i] # "none" THEN firstErr' = FirstErr(err[i]) /\ UNCHANGED summary
     ELSE summary' = (IF firstErr = "none" THEN i ELSE summary) /\ UNCHANGED firstErr
  /\ UNCHANGED <<task, ctx, tpc, next, registered, attempt, err, wait, errVars>>

\* Defect: the task goes on when its first iterations are over.
WaitFirst ==
  /\ tpc = "wait" /\ Live # Items
  /\ tpc' = "register"
  /\ UNCHANGED <<task, ctx, next, firstErr, summary, registered, instVars, errVars>>

WaitAll ==
  /\ tpc = "wait" /\ Live = {}
  /\ tpc' = "register"
  /\ UNCHANGED <<task, ctx, next, firstErr, summary, registered, instVars, errVars>>

\* The task's aggregatedErrChan goes with it, whatever it holds.
Register ==
  /\ tpc = "register"
  /\ tpc' = "done"
  /\ registered' = IF firstErr = "none" THEN summary ELSE registered
  /\ agg' = 0 /\ lost' = lost + agg
  /\ UNCHANGED <<task, ctx, next, firstErr, summary, instVars, errs, reports>>

Expire == GetTimeout > 0 /\ tpc # "start" /\ ctx = "live" /\ ctx' = "expired" /\ UNCHANGED <<task, taskVars, instVars, errVars>>
Cancel == ctx = "live" /\ ctx' = "canceled" /\ UNCHANGED <<task, taskVars, instVars, errVars>>
-----------------------------------------------------------------------------
Task == Begin \/ Spawn \/ BreakLoop \/ LoopEnd \/ WaitAll \/ Register
Attempt(i) == Check(i) \/ Succeed(i) \/ Fail(i) \/ DelayOver(i) \/ DelayCancelled(i)
Reporting(i) == Report(i) \/ SendReport(i) \/ AbandonReport(i) \/ Flush(i) \/ Flushed(i)
Instance(i) == Birth(i) \/ Prepare(i) \/ Attempt(i) \/ Reporting(i) \/ Merge(i)
Ended == tpc = "done" /\ UNCHANGED vars

Next == Task \/ (\E i \in Items : Instance(i)) \/ Expire \/ Cancel \/ Ended

\* Every Perform returns, every timer fires; the caller need not cancel.
Fairness == WF_vars(Task) /\ (\A i \in Items : WF_vars(Instance(i)))

Spec == Init /\ [][Next]_vars /\ Fairness
=============================================================================
