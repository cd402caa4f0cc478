SPECIFICATION FairSpec
CONSTANTS
  a = a
  b = b
  d = d
  g = g
  h = h
  j = j
  Tasks = {a, b, d, j}
  StateDeps <- DiamondStateDeps
  Outputs <- DiamondOutputs
  Kind <- DiamondKind
  Probe <- DiamondProbe
  Records = 2
  BufferSize = 2
  PoolSize = 3
  Loops = {}
  Iterations <- DiamondIterations
  Parallel = 2
  MaySkip = {b}
  MayFail = {j}
  Attempts <- DiamondAttempts
  MayTimeOut = {j}
  MayCancel = TRUE
INVARIANTS
  Delivery WholeBuildSide
PROPERTIES
  Drains CancelEnds
