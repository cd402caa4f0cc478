SPECIFICATION Spec
CONSTANTS
  Tasks <- MCTasks
  Iterations = 3
  DefaultTimeout = 0
  Second = 5
  Half = 2
  MaxInt = 31
  ErrCap = 1
  AggCap = 1
  MaxReports = 2
  Revealing = TRUE
INVARIANTS
  RegisteredSound ReportsAccounted WaitInRange
PROPERTY
  EndsUnlessClogged
