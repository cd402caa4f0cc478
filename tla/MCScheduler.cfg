SPECIFICATION FairSpec
CONSTANTS
  a = a
  b = b
  c = c
  d = d
  w1 = w1
  w2 = w2
  NoTask = NoTask
  Tasks = {a, b, c, d}
  Workers = {w1, w2}
  StateDeps <- DiamondStateDeps
  StreamDeps <- DiamondStreamDeps
  IgnoreErrors = {c}
  MayReturn <- DiamondReturns
  ParentMayCancel = TRUE
  Tolerance = 1
INVARIANTS
  TypeOK NoEarlyDispatch SingleHolder NoLostWakeup ProducersFirst CountersBalance OutcomeSound
  NothingAbandoned
PROPERTIES
  EndedStaysEnded ImplementsPlaybookRun Terminates
