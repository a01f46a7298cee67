\* Two processes with data: cursors, wrap-around, flush against slow readers.
CONSTANTS
  MAX_PROCESSES = 3
  MAX_PPIPE_PROC = 2
  MAX_PPIPE_SIZE = 2
  MAX_COUNT = 3
  MAX_REFS = 5
  a = a b = b
  Bytes = {a, b}
SPECIFICATION Spec
INVARIANTS TypeOK CursorsConsistent RefCountExact SlotsMatchDescriptors
PROPERTIES ImplementsLog
CHECK_DEADLOCK FALSE
