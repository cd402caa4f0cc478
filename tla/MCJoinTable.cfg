SPECIFICATION Spec
CONSTANTS
  Streams = {"users", "orders", "events"}
  AllParams <- MCParams
  Inputs <- MCInputs
  ErrCap = 1
INVARIANTS
  MatchesReference NothingInvented
