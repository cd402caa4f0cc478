SPECIFICATION Spec
CONSTANTS
  a = a
  b = b
  c = c
  d = d
  w1 = w1
  w2 = w2
  NoTask = NoTask
  Tasks = {a, b}
  Workers = {w1}
  StateDeps <- ChainStateDeps
  StreamDeps <- ChainStreamDeps
  IgnoreErrors = {}
  MayReturn <- ChainReturns
  ParentMayCancel = FALSE
  Tolerance = 3
INVARIANTS
  NoTaskForgotten
