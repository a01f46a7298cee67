\* Two pipes, three processes, two descriptors: tables run out, pids and pages are reused.
CONSTANTS
  MAX_PROCESSES = 4
  MAX_PIPE_PROC = 3
  MAX_PIPE_SIZE = 1
  MAX_COUNT = 0
  MAX_REFS = 9
  Fds <- Fds2
  f1 = f1 f2 = f2 f3 = f3 f4 = f4
  x1 = x1 x2 = x2 a = a b = b
  FileIds = {f1, f2, f3, f4}
  PipeIds = {x1, x2}
  Bytes = {a}
  NULL = NULL
SPECIFICATION Spec
SYMMETRY Pages
INVARIANTS RefCountExact PipeOutlivesDescriptors SlotHasDescriptor DescriptorEndOpen OneSlotPerProcess ForkNeverFails
PROPERTIES OnlyCreateLeaks
CHECK_DEADLOCK FALSE
