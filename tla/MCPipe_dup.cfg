\* Programs that duplicate descriptors.
CONSTANTS
  MAX_PROCESSES = 3
  MAX_PIPE_PROC = 2
  MAX_PIPE_SIZE = 1
  MAX_COUNT = 0
  MAX_REFS = 3
  Fds <- Fds3
  f1 = f1 f2 = f2 f3 = f3 f4 = f4
  x1 = x1 x2 = x2 a = a b = b
  FileIds = {f1, f2, f3}
  PipeIds = {x1}
  Bytes = {a}
  NULL = NULL
SPECIFICATION SpecDup
SYMMETRY Pages
INVARIANTS RefCountCovers NoDanglingFile
CHECK_DEADLOCK FALSE
