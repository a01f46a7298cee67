--------------------------- MODULE PipeProperties ---------------------------
(***************************************************************************)
(* What is checked and proved of module Pipe, and the refinement mapping   *)
(* that shows it to implement FifoChannel.                                 *)
(***************************************************************************)
EXTENDS Pipe

\* Types of the variables.
TypeOK ==
  /\ alive \subseteq Pids
  /\ files \in [Pids -> [Fds -> FileIds \cup {NULL}]]
  /\ filep \in [FileIds -> File]
  /\ allocated \subseteq PipeIds
  /\ pipe_per_proc \in [PipeIds -> [Slots -> PipeSlot]]
  /\ pipe_global \in [PipeIds -> PipeGlobal]
  /\ kernel \in LoopState

-----------------------------------------------------------------------------
\* The cyclic buffer.

\* buff_len counts the bytes between read_pos and write_pos around the buffer:
\* the three fields that pipe_read and pipe_write each update only in part
\* always agree, also when the buffer is full and the positions coincide.
RingInv(g) ==
  /\ g.buff_len \in 0..MAX_PIPE_SIZE
  /\ g.read_pos \in 0..(MAX_PIPE_SIZE - 1)
  /\ g.write_pos = Advance(g.read_pos, g.buff_len, MAX_PIPE_SIZE)

BufferConsistent == \A x \in PipeIds : RingInv(pipe_global[x])

-----------------------------------------------------------------------------
\* Descriptors, file objects, slots.

\* The descriptors do_file_fork has copied and not yet counted.
Pending(p, d) == kernel.op = "fork" /\ p = kernel.proc /\ d \in kernel.todo

\* The counted references to file object f.
Holders(f) == {h \in Pids \X Fds : files[h[1]][h[2]] = f /\ ~Pending(h[1], h[2])}

Held(f) == \E p \in Pids, d \in Fds : files[p][d] = f

\* A file object that is allocated and in no descriptor table: what a
\* create_pipe that ran out of descriptors leaves behind.
Orphan(f) == filep[f] # FreeFile /\ ~Held(f)

\* The ref_count of a file object is the number of descriptors that refer to
\* it, over all processes, through every fork, exit and close (an orphan's is
\* the 1 of its creation), so a close that reaches zero was the last one.
RefCountExact ==
  \A f \in FileIds :
    filep[f] # FreeFile =>
      filep[f].ref_count = IF Orphan(f) THEN 1 ELSE Cardinality(Holders(f))

\* With dup, dup2 and the early return of pipe_close a reference may be lost
\* but never one too few: ref_count covers the descriptors, ...
RefCountCovers ==
  \A f \in FileIds : filep[f].ref_count >= Cardinality(Holders(f))

\* ... and no descriptor refers to a file object that delete_file has freed.
NoDanglingFile ==
  \A p \in Pids, d \in Fds : files[p][d] # NULL => filep[files[p][d]] # FreeFile

\* A descriptor's pipe is not freed while the descriptor is open.
\* (pipe.c:209: the pipe is removed once all ends are closed.)
PipeOutlivesDescriptors ==
  \A p \in Pids, d \in Fds :
    files[p][d] # NULL => filep[files[p][d]].pipe \in allocated

\* The end that an open descriptor stands for is open in its process's slot,
\* so that a read or write through it is not refused and pipe_close never
\* meets an end that is closed already (pipe.c:189).
DescriptorEndOpen ==
  \A p \in alive, d \in Fds :
    (files[p][d] # NULL /\ ~Pending(p, d)) =>
      \E i \in Slots :
        LET f == filep[files[p][d]] IN
        /\ IsSlotOf(i, f.pipe, p)
        /\ EndOpen(pipe_per_proc[f.pipe][i], f.mode)

\* The other direction: an open end in a slot belongs to a live process with
\* a descriptor for it, unless create_pipe lost the file object of that end.
SlotHasDescriptor ==
  \A x \in allocated, i \in Slots, m \in {O_READ, O_WRITE} :
    EndOpen(pipe_per_proc[x][i], m) =>
      \/ \E f \in FileIds : Orphan(f) /\ filep[f].pipe = x /\ filep[f].mode = m
      \/ \E d \in Fds :
           LET p == pipe_per_proc[x][i].pid IN
           /\ files[p][d] # NULL
           /\ filep[files[p][d]].pipe = x /\ filep[files[p][d]].mode = m

\* A process has at most one slot in a pipe, though do_pipe_fork runs once for
\* each of its two file objects and pids are reused.
OneSlotPerProcess ==
  \A x \in PipeIds, i, j \in Slots :
    (i # j /\ pipe_per_proc[x][i].pid = pipe_per_proc[x][j].pid) =>
      pipe_per_proc[x][i].pid = NoPid

\* do_pipe_fork finds a slot for the child and the parent's slot: no fork of a
\* process that holds pipe ends fails (the child would stay READY all the same).
ForkNeverFails == kernel.ret = 0

\* A file object is left without a descriptor by a create_pipe that found fewer
\* than two free descriptors, and by no other step: no close, exit or fork, in
\* whatever order the processes make them, loses one (pipe.c:536).
OnlyCreateLeaks ==
  [][\A f \in FileIds : Orphan(f)' /\ ~Orphan(f) =>
        \E p \in Pids : create_pipe(p) /\ Cardinality(FreeFds(p)) < 2]_vars

-----------------------------------------------------------------------------
\* The abstract channel that the state of pipe x stands for.

Contents(x) == CyclicRead(pipe_global[x].buff, pipe_global[x].read_pos,
                          pipe_global[x].buff_len, MAX_PIPE_SIZE)

OpenEnds(x) == {e \in Pids \X {O_READ, O_WRITE} :
                  \E i \in Slots : /\ pipe_per_proc[x][i].pid = e[1]
                                   /\ EndOpen(pipe_per_proc[x][i], e[2])}

Channel == INSTANCE FifoChannel WITH
  Channels <- PipeIds, Procs <- Pids, Modes <- {O_READ, O_WRITE},
  Byte <- Bytes, Capacity <- MAX_PIPE_SIZE, MaxCount <- MAX_COUNT,
  live <- allocated,
  ends <- [x \in PipeIds |-> OpenEnds(x)],
  chan <- [x \in PipeIds |-> IF x \in allocated THEN Contents(x) ELSE << >>],
  moved <- user

\* Pipes implement bounded FIFO channels that live exactly as long as an end
\* of theirs is open in some process.
ImplementsChannel == Channel!Spec
=============================================================================
