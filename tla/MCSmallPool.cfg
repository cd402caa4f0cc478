SPECIFICATION FairSpec
CONSTANTS
  p = p
  q = q
  t1 = t1
  t2 = t2
  t3 = t3
  t4 = t4
  w1 = w1
  NoTask = NoTask
  Tasks <- FanTasks
  Workers = {w1}
  StateDeps <- FanStateDeps
  StreamDeps <- FanStreamDeps
  IgnoreErrors = {}
  MayReturn <- FanReturns
  ParentMayCancel = FALSE
  Tolerance = 1
PROPERTY Terminates
CHECK_DEADLOCK FALSE
