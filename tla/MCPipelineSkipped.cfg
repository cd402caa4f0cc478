SPECIFICATION FairSpec
CONSTANTS
  a = a
  b = b
  d = d
  g = g
  h = h
  j = j
  Tasks = {a, d}
  StateDeps <- PairStateDeps
  Outputs <- PairOutputs
  Kind <- PairKind
  Probe = {}
  Records = 2
  BufferSize = 1
  PoolSize = 2
  Loops = {}
  Iterations <- PairIterations
  Parallel = 2
  MaySkip = {a}
  MayFail = {}
  Attempts <- PairAttempts
  MayTimeOut = {}
  MayCancel = TRUE
PROPERTY SkipSatisfies
