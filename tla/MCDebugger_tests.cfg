\* The test programs but the six the code does not pass.
CONSTANTS
  Fns <- TestFns
  Sites = {1, 2}
  MAX_BREAKPOINTS = 8
  MAX_BACKTRACE = 64
  MaxDepth = 64
  MaxCalls = 8
  MaxNum = 8
  TestSet <- OtherTests
SPECIFICATION TSpec
INVARIANTS ResultsAsExpected
PROPERTIES TestsEnd
CHECK_DEADLOCK FALSE
