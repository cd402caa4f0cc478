---------------------------- MODULE MCScheduler ----------------------------
(* Small instances of Scheduler. *)
EXTENDS SchedulerProperties, TLC
CONSTANTS a, b, c, d, w1, w2

\* a streams to c and c also reads b's result: both counters of c can reach
\* zero at the same time.  d follows c.
DiamondStateDeps  == a :> {} @@ b :> {} @@ c :> {b} @@ d :> {c}
DiamondStreamDeps == a :> {} @@ b :> {} @@ c :> {a} @@ d :> {}
DiamondReturns    == a :> {"ok", "fail"} @@ b :> {"skip"} @@ c :> {"ok", "fail"} @@ d :> {"ok"}

\* A two-step chain in which nothing fails.
ChainStateDeps  == a :> {} @@ b :> {a}
ChainStreamDeps == a :> {} @@ b :> {}
ChainReturns    == a :> {"ok"} @@ b :> {"ok"}
=============================================================================
