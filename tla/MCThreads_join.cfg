CONSTANTS
  NPid = 3
  MaxSleep = 1
  MAX_THREADS = 2
  MAX_PRIVATE_AREAS = 1
  Areas = {}
  AreaPages = 0
  MaxCreate = 3
SPECIFICATION Spec
INVARIANTS
  TypeOK
  JoinAfterDeath
  FreshResult
  CanCreate
PROPERTY JoinReturns
CHECK_DEADLOCK FALSE
