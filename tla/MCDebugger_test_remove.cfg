\* A test program the code does not pass.
CONSTANTS
  Fns <- TestFns
  Sites = {1, 2}
  MAX_BREAKPOINTS = 8
  MAX_BACKTRACE = 64
  MaxDepth = 64
  MaxCalls = 8
  MaxNum = 8
  TestSet <- RemoveTest
SPECIFICATION TSpec
INVARIANTS ResultsAsExpected
CHECK_DEADLOCK FALSE
