\* Fewer slots than processes: the failures of fork and close.
CONSTANTS
  MAX_PROCESSES = 4
  MAX_PPIPE_PROC = 2
  MAX_PPIPE_SIZE = 1
  MAX_COUNT = 0
  MAX_REFS = 5
  a = a b = b
  Bytes = {a}
SPECIFICATION Spec
INVARIANTS RefCountCovers
CHECK_DEADLOCK FALSE
