----------------------------- MODULE MCPipeline -----------------------------
(* Small instances of Pipeline. *)
EXTENDS PipelineProperties, TLC
CONSTANTS a, b, d, g, h, j

\* A source a feeds a sink d directly and through the passthrough b; the
\* iterations of d share both inputs.  When d has ended, a second stream runs:
\* the source g, a loop with outputs, and the sink h, which retries.  a, b and d
\* fill the pool, and of the second stream only g may start while a and b still
\* hold their workers.
KiteTasks      == {a, b, d, g, h}
KiteStateDeps  == [t \in KiteTasks |-> IF t = g THEN {d} ELSE {}]
KiteOutputs    == a :> <<d, b>> @@ b :> <<d>> @@ d :> <<>> @@ g :> <<h>> @@ h :> <<>>
KiteKind       == a :> "source" @@ b :> "passthrough" @@ d :> "sink" @@ g :> "source" @@ h :> "sink"
KiteAttempts   == [t \in KiteTasks |-> IF t = h THEN 2 ELSE 1]
KiteIterations == [t \in KiteTasks |-> IF t \in {d, g} THEN 2 ELSE 1]

\* A source a feeds both sides of a join j, the build side through the
\* passthrough b, and a sink d, which also reads the stream of the join and the
\* state of a.
DiamondStateDeps  == a :> {} @@ b :> {} @@ d :> {a} @@ j :> {}
DiamondOutputs    == a :> <<b, j, d>> @@ b :> <<j>> @@ d :> <<>> @@ j :> <<d>>
DiamondKind       == a :> "source" @@ b :> "passthrough" @@ d :> "sink" @@ j :> "join"
DiamondProbe      == j :> a
DiamondAttempts   == [t \in {a, b, d, j} |-> 1]
DiamondIterations == [t \in {a, b, d, j} |-> 1]

\* A source a feeds a sink d; a may be a loop.
PairStateDeps  == a :> {} @@ d :> {}
PairOutputs    == a :> <<d>> @@ d :> <<>>
PairKind       == a :> "source" @@ d :> "sink"
PairAttempts   == a :> 1 @@ d :> 1
PairIterations == a :> 1 @@ d :> 1
LoopIterations == a :> 2 @@ d :> 1
=============================================================================
