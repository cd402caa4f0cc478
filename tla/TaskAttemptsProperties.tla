------------------------ MODULE TaskAttemptsProperties ------------------------
(* What one call of ExecuteTask promises.                                  *)
EXTENDS TaskAttempts

\* Types, and the two channels within their capacities.
TypeOK ==
  /\ task \in Tasks /\ ctx \in {"live"} \cup CtxErrors
  /\ tpc \in {"start", "loop", "wait", "register", "done"} /\ next \in 1..(Iterations + 1)
  /\ pc \in [Items -> {"idle", "born", "cut", "prepare", "check", "perform", "report", "delay",
                       "flush", "merge", "ended"}]
  /\ attempt \in [Items -> 1..task.attempts] /\ err \in [Items -> {"none"} \cup Errors]
  /\ wait \in [Items -> -(MaxInt + 1)..MaxInt]
  /\ errs \in [Items -> 0..ErrCap] /\ agg \in 0..AggCap
  /\ firstErr \in {"none", "skipped"} \cup Errors /\ summary \in 0..Iterations /\ registered \in -1..Iterations
  /\ reports \in [Items -> 0..MaxReports] /\ lost \in Nat

\* No result is registered when an iteration failed, as docs/Flow Control.md:187
\* says; one that did not run had its context ended, and only when none ran is
\* the result empty; else it comes from an iteration that succeeded
\* (task_runner.go:248, 256-262, 297).  It is the summary of that one alone: the
\* list of all summaries the same line promises is never made.
RegisteredSound ==
  registered # -1 =>
    /\ \A i \in Todo : \/ pc[i] = "ended" /\ err[i] = "none"
                       \/ pc[i] = "cut" /\ CtxDone
    /\ IF registered = 0 THEN \A i \in Todo : pc[i] = "cut" ELSE pc[registered] = "ended"

\* The reports of all iterations, each with its number: as many as their sum.
Numbered(count) == UNION {{i} \X (1..count[i]) : i \in Items}

\* As long as the task runs and its context lives, each record error reported is
\* in the instance's channel or the task's (task_runner.go:466-475).  No further:
\* nobody reads aggregatedErrChan (engine.go:631), and with the end of the task
\* all it holds is lost, where docs/Module Developer Guide.md:252 has it logged.
ReportsAccounted ==
  /\ Cardinality(Numbered(reports)) = Cardinality(Numbered(errs)) + agg + lost
  /\ lost > 0 => CtxDone \/ tpc = "done"

\* The wait before another attempt never exceeds max_delay, and as long as the
\* arithmetic stays within a Duration it is the backoff up to the jitter
\* (retry.go:99-125); past that range it may be no wait at all.
WaitInRange ==
  \A i \in Items : pc[i] = "delay" =>
    LET base == GetRetryDelay * GetRetryBackoffFactor^(attempt[i] - 1) IN
    /\ task.maxDelay > 0 => wait[i] <= task.maxDelay
    /\ 2 * base <= MaxInt =>
         \E share \in Shares \cup {0} : wait[i] = Capped(base + Truncate(base * share))

\* A send of a record error that only the end of the context can release.
Clogged ==
  /\ ~CtxDone
  /\ \E i \in Items : \/ pc[i] = "report" /\ errs[i] = ErrCap
                      \/ pc[i] = "flush" /\ errs[i] > 0 /\ agg = AggCap

\* Nothing but a full error channel keeps a task from ending, and that only
\* until its context is done (task_runner.go:416, 471, engine.go:631).  The full
\* channel is a disagreement: docs/Module Developer Guide.md:252 has the workload
\* continue after a record error.
EndsUnlessClogged == <>[](tpc = "done" \/ Clogged)
=============================================================================
