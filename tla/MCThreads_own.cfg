CONSTANTS
  NPid = 3
  MaxSleep = 1
  MAX_THREADS = 2
  MAX_PRIVATE_AREAS = 1
  Areas = {}
  AreaPages = 0
  MaxCreate = 2
SPECIFICATION Spec
INVARIANT JoinReturnsOwn
CHECK_DEADLOCK FALSE
