\* One pipe with data: wrap-around, partial transfers, full and empty buffers.
CONSTANTS
  MAX_PROCESSES = 3
  MAX_PIPE_PROC = 2
  MAX_PIPE_SIZE = 2
  MAX_COUNT = 3
  MAX_REFS = 9
  Fds <- Fds3
  f1 = f1 f2 = f2 f3 = f3 f4 = f4
  x1 = x1 x2 = x2 a = a b = b
  FileIds = {f1, f2}
  PipeIds = {x1}
  Bytes = {a, b}
  NULL = NULL
SPECIFICATION Spec
INVARIANTS TypeOK BufferConsistent
PROPERTIES ImplementsChannel
CHECK_DEADLOCK FALSE
