------------------------- MODULE PipelineInvariant -------------------------
(***************************************************************************)
(* The inductive invariant behind the theorems of PipelineProofs: where    *)
(* tasks and instances are, who may still use a channel, and where the     *)
(* records of a stream are.                                                *)
(***************************************************************************)
EXTENDS PipelineProperties

\* What the theorems about whole streams ask of a playbook: a task of several
\* iterations feeds no stream (each iteration closes the outputs of the task,
\* so the second close or a send after the first panics), and a join is not
\* tried again (the next attempt would build from what the one before left in
\* the channels).  The types and what can panic hold of every playbook.
SingleProducers == \A t \in Tasks : Iterations[t] > 1 => Consumers(t) = {}
JoinsTryOnce    == \A t \in Tasks : Kind[t] = "join" => Attempts[t] = 1

First(t) == <<t, 1>>
Fresh    == {"idle", "born", "setup", "dropped"}
Over     == {"close", "done"}

\* A task has no result before it ended, and nothing of it runs afterwards.
PhaseInv ==
  \A t \in Tasks :
    /\ phase[t] = "ended" <=> result[t] # "none"
    /\ phase[t] \in {"waiting", "begin"} => spawned[t] = 0 /\ taskErr[t] = "none"
    /\ result[t] = "ok" => taskErr[t] = "none"

\* An instance is idle until its iteration is started, and over when its task is.
Started(x) == ipc[x] = "idle" <=> x[2] > spawned[x[1]]
Calm(x)    == phase[x[1]] = "ended" => ipc[x] \in {"idle", "done", "dropped"}

\* An instance that has not called Perform has touched nothing.
Clean(x) ==
  ipc[x] \in Fresh =>
    /\ attempt[x] = 0 /\ todo[x] = <<>> /\ sent[x] = 0 /\ ierr[x] = "none"
    /\ \A p \in Producers(x[1]) : reader[<<x, p>>] = "idle"

\* One that reports success has served its outputs and read its inputs, and only
\* some modules fail after they were called.
Complete(x) == ipc[x] \in Over /\ ierr[x] = "none" => todo[x] = <<>> /\ AllRead(x)
Known(x) ==
  /\ ierr[x] = "fail" /\ attempt[x] # 0 => Kind[x[1]] \in {"join", "sink"}
  /\ Kind[x[1]] = "sink" => todo[x] = <<>>

\* The task knows of every error.
Noted(x) == ipc[x] = "done" /\ taskErr[x[1]] = "none" => ierr[x] = "none"

InstanceInv ==
  \A x \in Instances :
    Started(x) /\ Calm(x) /\ Clean(x) /\ Complete(x) /\ Known(x) /\ Noted(x)

\* The outputs still to be served are consumers of the task, each once.
TodoInv ==
  \A x \in Instances :
    /\ todo[x] \in Seq(Consumers(x[1]))
    /\ \A i, j \in 1..Len(todo[x]) : todo[x][i] = todo[x][j] => i = j

\* A channel is closed by an instance of its producer, as its last act.
ClosedInv ==
  \A p \in Tasks : \A c \in Consumers(p) :
    closed[<<p, c>>] => \E x \in Instances : x[1] = p /\ ipc[x] = "done"

\* Every consumer that has not ended still owes its producers a signal.
WgInv == \A p \in Tasks : wg[p] >= Cardinality({c \in Consumers(p) : phase[c] # "ended"})

ChannelInv ==
  TypeOK /\ PhaseInv /\ InstanceInv /\ TodoInv /\ ClosedInv /\ WgInv /\ PanicsOnlyInLoops
-----------------------------------------------------------------------------
(* Consumers.                                                              *)

Spent(p, c) == closed[<<p, c>>] /\ buffer[<<p, c>>] = 0

\* A reader that ended has seen the end of its stream, or its instance will not
\* report success.
ReaderInv ==
  \A x \in Instances : \A p \in Producers(x[1]) : reader[<<x, p>>] = "done" =>
    \/ Spent(p, x[1])
    \/ Kind[x[1]] = "passthrough" /\ CtxDone(x[1])
    \/ Building(x, p) /\ (CtxDone(x[1]) \/ ierr[x] # "none")
    \/ Probing(x, p) /\ ipc[x] \in Over /\ ierr[x] = "ctx"

\* The probe phase comes after the build phase.
ProbeInv ==
  \A x \in Instances : Kind[x[1]] = "join" /\ reader[<<x, Probe[x[1]]>>] # "idle" =>
    Built(x) /\ (ipc[x] = "perform" => ierr[x] = "none")

\* Whatever an instance that reports success reads has come to its end.
SuccessInv ==
  \A x \in Instances : ipc[x] \in Over /\ ierr[x] = "none" =>
    /\ \A p \in Producers(x[1]) : ~Building(x, p) => Spent(p, x[1])
    /\ Kind[x[1]] = "source" => sent[x] = Records

\* What left a producer was taken in or is in the buffer.
BalanceInv ==
  \A p \in Tasks : \A c \in Consumers(p) :
    Kind[c] # "join" \/ p = Probe[c] =>
      emitted[<<p, c>>] = got[<<p, c>>] + buffer[<<p, c>>]

ReadInv == ReaderInv /\ ProbeInv /\ SuccessInv /\ BalanceInv
-----------------------------------------------------------------------------
(* Producers.                                                              *)

\* Is the record in hand still to be sent to c?
Owed(x, c)  == IF \E i \in 1..Len(todo[x]) : todo[x][i] = c THEN 1 ELSE 0
Given(p, c) == emitted[<<p, c>>] + Owed(First(p), c)
Holders(x)  == {p \in Producers(x[1]) : reader[<<x, p>>] = "hold"}

\* What each kind of producer has given each consumer, the record in hand
\* included.
GivenInv ==
  \A p \in Tasks : \A c \in Consumers(p) :
    /\ ipc[First(p)] \in Fresh => emitted[<<p, c>>] = 0
    /\ Kind[p] = "source" => Given(p, c) = sent[First(p)]
    /\ Kind[p] = "sink" => Given(p, c) = 0
    /\ Kind[p] = "join" => \A k \in Consumers(p) : Given(p, c) = Given(p, k)
    /\ Kind[p] = "passthrough" =>
         /\ IsFiniteSet(Taken(p))
         /\ ~CtxDone(p) \/ Producers(p) = {} =>
              Given(p, c) + Cardinality(Holders(First(p))) = Cardinality(Taken(p))
         /\ ipc[First(p)] \in Over /\ ierr[First(p)] = "none" =>
              Given(p, c) = Cardinality(Taken(p))

\* While nothing stops it, the build phase of a join loses no record; and the
\* join hands nothing on before it has them all.
BuildInv ==
  \A j \in Tasks : Kind[j] = "join" /\ Consumers(j) # {} =>
    LET x == First(j) IN
    /\ ~CtxDone(j) /\ ierr[x] = "none" =>
         \A p \in BuildSide(j) :
           emitted[<<p, j>>] = got[<<p, j>>] + buffer[<<p, j>>]
                               + (IF reader[<<x, p>>] = "hold" THEN 1 ELSE 0)
    /\ \A k \in Consumers(j) : Given(j, k) > 0 =>
         Built(x) /\ \A p \in BuildSide(j) : Spent(p, j) /\ got[<<p, j>>] = emitted[<<p, j>>]

StreamInv == ChannelInv /\ ReadInv /\ GivenInv
=============================================================================
