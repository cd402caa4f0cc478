SPECIFICATION FairSpec
CONSTANTS
  a = a
  b = b
  d = d
  g = g
  h = h
  j = j
  Tasks <- KiteTasks
  StateDeps <- KiteStateDeps
  Outputs <- KiteOutputs
  Kind <- KiteKind
  Probe = {}
  Records = 2
  BufferSize = 1
  PoolSize = 3
  Loops = {d, g}
  Iterations <- KiteIterations
  Parallel = 2
  MaySkip = {g}
  MayFail = {g, h}
  Attempts <- KiteAttempts
  MayTimeOut = {}
  MayCancel = TRUE
INVARIANTS
  TypeOK PanicsOnlyInLoops Delivery
PROPERTIES
  Drains CancelEnds
