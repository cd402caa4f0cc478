---------------------------- MODULE MCSmallPool ----------------------------
(* An instance of Scheduler whose pool is too small for its channels. *)
EXTENDS SchedulerProperties, TLC
CONSTANTS p, q, t1, t2, t3, t4, w1

\* One worker, and four tasks that stream from p and read the state of q: both
\* counters of each can reach zero at the same time, so that each is sent on
\* readyChan twice, and four of them do not fit in workQueue.
Fan           == {t1, t2, t3, t4}
FanTasks      == {p, q} \cup Fan
FanStateDeps  == [t \in FanTasks |-> IF t \in Fan THEN {q} ELSE {}]
FanStreamDeps == [t \in FanTasks |-> IF t \in Fan THEN {p} ELSE {}]
FanReturns    == [t \in FanTasks |-> {"ok"}]
=============================================================================
