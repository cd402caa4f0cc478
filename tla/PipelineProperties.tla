------------------------- MODULE PipelineProperties -------------------------
(***************************************************************************)
(* What streaming between tasks must guarantee, and what is claimed of it. *)
(***************************************************************************)
EXTENDS Pipeline

Errors == {"none", "fail", "ctx"}

\* The types of the variables; a WaitGroup counter below zero would panic.
TypeOK ==
  /\ phase \in [Tasks -> {"waiting", "begin", "instances", "ended"}]
  /\ result \in [Tasks -> {"none", "ok", "skip", "fail", "ctx"}]
  /\ expired \in [Tasks -> BOOLEAN] /\ broken \in [Tasks -> BOOLEAN]
  /\ spawned \in [Tasks -> Nat] /\ taskErr \in [Tasks -> Errors]
  /\ runDone \in BOOLEAN /\ panicked \in BOOLEAN
  /\ ipc \in [Instances -> {"idle", "born", "setup", "perform", "close", "done", "dropped"}]
  /\ ierr \in [Instances -> Errors]
  /\ sent \in [Instances -> Nat] /\ todo \in [Instances -> Seq(Tasks)]
  /\ reader \in [Readers -> {"idle", "read", "hold", "done"}]
  /\ buffer \in [Links -> 0..BufferSize] /\ closed \in [Links -> BOOLEAN]
  /\ emitted \in [Links -> Nat] /\ got \in [Links -> Nat]
  /\ wg \in [Tasks -> Nat] /\ attempt \in [Instances -> Nat]

\* The outputs of a task are closed by each of its instances and the process
\* does not survive a second close, or a send after the first: whatever is
\* skipped, retried, timed out or cancelled, that takes two iterations of one
\* loop that has outputs, one of which has ended.
PanicsOnlyInLoops ==
  panicked =>
    \E x, y \in Instances :
      /\ x # y /\ x[1] = y[1] /\ Consumers(x[1]) # {}
      /\ ipc[x] = "done" /\ ipc[y] \in {"perform", "done"}

\* What a producer that ends well has sent to each of its consumers: a source its
\* records, a passthrough what it took from its inputs, a sink nothing.  What a join
\* emits depends on the keys: every consumer gets the same.
Taken(p) == UNION {{q} \X (1..got[<<q, p>>]) : q \in Producers(p)}

Volume(p) ==
  CASE Kind[p] = "source"      -> Records
    [] Kind[p] = "passthrough" -> Cardinality(Taken(p))
    [] Kind[p] = "join"        -> emitted[<<p, Outputs[p][1]>>]
    [] Kind[p] = "sink"        -> 0

Ran(t) == \E x \in Instances : x[1] = t /\ ipc[x] = "done"

\* A consumer that reports success has the whole stream of a producer that does,
\* although the consumer may have been started before the first record, may be a
\* loop whose iterations share the input, and although each record crosses up to
\* three goroutines and any of them may see the context done in between.
Delivery ==
  \A p \in Tasks \ Loops : \A c \in Consumers(p) :
    (Kind[c] # "join" \/ p = Probe[c]) /\ (\A t \in {p, c} : result[t] = "ok" /\ Ran(t)) =>
      got[<<p, c>>] = Volume(p) /\ emitted[<<p, c>>] = Volume(p)

\* A join emits nothing before it has all of every build stream, and nothing at
\* all when the context or a limit kept it from reading one to the end: its
\* build phase does not report a context that is done, so this rests on what
\* the later phases look at.
WholeBuildSide ==
  \A c \in Tasks : \A k \in Consumers(c) : Kind[c] = "join" /\ emitted[<<c, k>>] > 0 =>
    \A p \in BuildSide(c) : closed[<<p, c>>] /\ got[<<p, c>>] = emitted[<<p, c>>]

\* Left alone (nothing skipped, failed, timed out or cancelled) every task
\* ends well: bounded channels, a fan-out that serves its consumers in turn,
\* iterations that share their inputs and a pool in which tasks wait for others
\* to end do not block each other, also when two paths lead from one source to
\* one consumer.  The pool must hold the tasks of a stream at the same time: a
\* producer keeps its worker while it waits for a consumer that has none.
Disturbed ==
  \/ runDone \/ panicked
  \/ \E t \in Tasks : expired[t] \/ result[t] \in {"skip", "fail"} \/ (phase[t] = "ended" /\ ~Ran(t))
  \/ \E x \in Instances : ierr[x] # "none"

Drains == <>(Disturbed \/ \A t \in Tasks : result[t] = "ok")

\* Once the run's context is done every task that was started ends, however
\* full or empty its channels are; only a drain whose producer never closed
\* its outputs stays.
CancelEnds == runDone ~> Settled \/ panicked

-----------------------------------------------------------------------------
(* What a document claims and the code does not do: checked by a run that  *)
(* finds it violated.                                                      *)

\* docs/Flow Control.md:143: workloads that stream from a skipped workload
\* "have their dependency satisfied and will become eligible for execution".
\* Such a consumer should then end, at the latest when the run is cancelled,
\* but nobody closes its input.
SkipSatisfies ==
  \A t \in Tasks : phase[t] = "instances" /\ runDone ~> phase[t] = "ended"

\* channel_manager.go:274: "Here, the logic ensures Close is only called once
\* per channel by the TaskRunner."  Every instance that ends its work calls it,
\* so no two instances of a task that feeds a stream should get there.
ClosedOnce ==
  \A x, y \in Instances :
    x[1] = y[1] /\ Consumers(x[1]) # {} /\ ipc[x] = "done" /\ ipc[y] = "done" => x = y
=============================================================================
