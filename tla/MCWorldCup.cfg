CONSTANTS
  N = 3
  BALLS = 2
  WICKETS = 2
  Files <- SmallFiles
  Leftover <- SmallLeftover
SPECIFICATION Spec
INVARIANTS
  InStep
  ResultExact
PROPERTY EveryoneEnds
CHECK_DEADLOCK FALSE
