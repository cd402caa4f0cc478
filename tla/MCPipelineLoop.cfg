SPECIFICATION Spec
CONSTANTS
  a = a
  b = b
  d = d
  g = g
  h = h
  j = j
  Tasks = {a, d}
  StateDeps <- PairStateDeps
  Outputs <- PairOutputs
  Kind <- PairKind
  Probe = {}
  Records = 2
  BufferSize = 1
  PoolSize = 2
  Loops = {a}
  Iterations <- LoopIterations
  Parallel = 2
  MaySkip = {}
  MayFail = {}
  Attempts <- PairAttempts
  MayTimeOut = {}
  MayCancel = FALSE
INVARIANT ClosedOnce
