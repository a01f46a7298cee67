\* A careful debugger against every program of two functions, four calls and an array of four words.
CONSTANTS
  Fns = {"f", "g"}
  Sites = {1}
  MAX_BREAKPOINTS = 2
  MAX_BACKTRACE = 4
  MaxDepth = 14
  MaxCalls = 4
  MaxNum = 3
SPECIFICATION CarefulSpec
INVARIANTS TypeOK OneRuns ArmedIffListed BacktraceExact  StackNotBelowEmpty RdxChangeCounts
PROPERTIES Transparent WaitReturns
CHECK_DEADLOCK FALSE
