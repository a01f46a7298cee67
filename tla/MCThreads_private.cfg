CONSTANTS
  NPid = 3
  MaxSleep = 0
  MAX_THREADS = 2
  MAX_PRIVATE_AREAS = 1
  Areas = {1, 2}
  AreaPages = 2
  MaxCreate = 3
SPECIFICATION Spec
INVARIANTS
  Protected
  TablesAgree
  NoOrphanArea
CHECK_DEADLOCK FALSE
