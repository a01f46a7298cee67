----------------------------- MODULE Pipe_proofs -----------------------------
(***************************************************************************)
(* Proofs about Pipe for every number of processes, slots, descriptors,    *)
(* pages and bytes, and for programs with and without dup and dup2.        *)
(***************************************************************************)
EXTENDS PipeProperties, RingBuffer_proofs, FiniteSetTheorems

-----------------------------------------------------------------------------
\* The operators that compute one record, file table or slot.

\* Dropping or adding a reference keeps the file table well formed, whatever
\* it is asked to change.
LEMMA FileTableType ==
  ASSUME NEW fs \in [FileIds -> File], NEW f
  PROVE  /\ file_close(fs, f) \in [FileIds -> File]
         /\ add_ref(fs, f) \in [FileIds -> File]
<1>1. FreeFile \in File
  BY DEF FreeFile, File, O_READ
<1>2. ASSUME NEW file \in File, NEW n \in Int
      PROVE  [file EXCEPT !.ref_count = n] \in File
  BY DEF File
<1>3. \A file \in File : file.ref_count - 1 \in Int /\ file.ref_count + 1 \in Int
  BY DEF File
<1>4. \A file \in File : /\ [file EXCEPT !.ref_count = @ - 1] \in File
                         /\ [file EXCEPT !.ref_count = @ + 1] \in File
  BY <1>2, <1>3
<1>5. file_close(fs, f) \in [FileIds -> File]
  BY <1>1, <1>4 DEF file_close
<1>6. add_ref(fs, f) \in [FileIds -> File]
  BY <1>4 DEF add_ref
<1> QED BY <1>5, <1>6

\* Slots stay well formed when an end is closed and when a child inherits them.
LEMMA SlotType ==
  /\ FreeSlot \in PipeSlot
  /\ \A p \in Pids : [pid |-> p, read_open |-> 1, write_open |-> 1] \in PipeSlot
  /\ \A slot \in PipeSlot : \A mode : ClosedSlot(slot, mode) \in PipeSlot
  /\ \A slot \in PipeSlot, c \in Pids : InheritedSlot(c, slot) \in PipeSlot
  BY DEF PipeSlot, FreeSlot, ClosedSlot, InheritedSlot

\* A read leaves a well formed global record: it takes no more than there is.
LEMMA ReadType ==
  ASSUME NEW g \in PipeGlobal, NEW count \in Nat
  PROVE  AfterRead(g, Clamp(g.buff_len, count)) \in PipeGlobal
<1> DEFINE n == Clamp(g.buff_len, count)
<1>1. /\ g.buff_len \in 0..MAX_PIPE_SIZE /\ g.buff_len \in Nat
      /\ MAX_PIPE_SIZE \in Nat \ {0}
  BY SizesAssumption DEF PipeGlobal
<1>2. n \in 0..g.buff_len /\ n \in Nat
  BY <1>1, ClampBounds
<1> SUFFICES AfterRead(g, n) \in PipeGlobal
  OBVIOUS
<1> HIDE DEF n
<1>3. Advance(g.read_pos, n, MAX_PIPE_SIZE) \in 0..(MAX_PIPE_SIZE - 1)
  BY <1>1, <1>2, AdvanceType DEF PipeGlobal
<1>4. g.buff_len - n \in 0..MAX_PIPE_SIZE
  BY <1>1, <1>2
<1> QED BY <1>3, <1>4 DEF AfterRead, PipeGlobal

\* A write leaves a well formed global record: it adds no more than fits.
LEMMA WriteType ==
  ASSUME NEW g \in PipeGlobal, NEW count \in Nat, NEW data \in [1..MAX_PIPE_SIZE -> Bytes]
  PROVE  AfterWrite(g, data, Clamp(MAX_PIPE_SIZE - g.buff_len, count)) \in PipeGlobal
<1> DEFINE n == Clamp(MAX_PIPE_SIZE - g.buff_len, count)
<1>1. /\ g.buff_len \in 0..MAX_PIPE_SIZE /\ MAX_PIPE_SIZE \in Nat \ {0}
      /\ g.write_pos \in 0..(MAX_PIPE_SIZE - 1) /\ g.write_pos \in Nat
      /\ g.buff \in Memory(MAX_PIPE_SIZE, Bytes)
  BY SizesAssumption DEF PipeGlobal
<1>2. n \in 0..(MAX_PIPE_SIZE - g.buff_len) /\ n \in Nat
  <2>1. MAX_PIPE_SIZE - g.buff_len \in Nat
    BY <1>1
  <2> QED BY <2>1, ClampBounds
<1> SUFFICES AfterWrite(g, data, n) \in PipeGlobal
  OBVIOUS
<1> HIDE DEF n
<1>3. n \in 0..MAX_PIPE_SIZE /\ g.buff_len + n \in 0..MAX_PIPE_SIZE
  BY <1>1, <1>2
<1>4. Advance(g.write_pos, n, MAX_PIPE_SIZE) \in 0..(MAX_PIPE_SIZE - 1)
  BY <1>1, <1>2, AdvanceType
<1>5. CyclicWrite(g.buff, g.write_pos, data, n, MAX_PIPE_SIZE) \in Memory(MAX_PIPE_SIZE, Bytes)
  BY <1>1, <1>3, CyclicWriteType
<1> QED BY <1>3, <1>4, <1>5 DEF AfterWrite, PipeGlobal

-----------------------------------------------------------------------------
\* The handlers.

\* pipe_close keeps the file table, the slots and the pages well formed.
LEMMA CloseType ==
  ASSUME TypeOK, NEW p, NEW f, NEW fs, pipe_close(p, f, fs)
  PROVE  /\ fs \in [FileIds -> File]
         /\ pipe_per_proc' \in [PipeIds -> [Slots -> PipeSlot]]
         /\ allocated' \subseteq PipeIds
<1>1. CASE fs = filep /\ UNCHANGED <<pipe_per_proc, allocated>>
  BY <1>1 DEF TypeOK
<1>2. ASSUME NEW i \in Slots,
             fs = file_close(filep, f),
             pipe_per_proc' = [pipe_per_proc EXCEPT
                                 ![filep[f].pipe][i] = ClosedSlot(@, filep[f].mode)],
             allocated' = IF \A j \in Slots : pipe_per_proc'[filep[f].pipe][j].pid = NoPid
                          THEN allocated \ {filep[f].pipe} ELSE allocated
      PROVE  /\ fs \in [FileIds -> File]
             /\ pipe_per_proc' \in [PipeIds -> [Slots -> PipeSlot]]
             /\ allocated' \subseteq PipeIds
  <2>1. fs \in [FileIds -> File]
    BY <1>2, FileTableType DEF TypeOK
  <2>2. pipe_per_proc' \in [PipeIds -> [Slots -> PipeSlot]]
    BY <1>2, SlotType DEF TypeOK
  <2>3. allocated' \subseteq PipeIds
    BY <1>2 DEF TypeOK
  <2> QED BY <2>1, <2>2, <2>3
<1> QED BY <1>1, <1>2 DEF pipe_close

\* The fork handler keeps the slots well formed.
LEMMA ForkType ==
  ASSUME TypeOK, NEW x, NEW c \in Pids, NEW p, NEW ret, do_pipe_fork(x, c, p, ret)
  PROVE  pipe_per_proc' \in [PipeIds -> [Slots -> PipeSlot]]
<1>1. CASE UNCHANGED pipe_per_proc
  BY <1>1 DEF TypeOK
<1>2. ASSUME NEW i \in Slots, NEW j \in Slots,
             pipe_per_proc' = [pipe_per_proc EXCEPT
                                 ![x][i] = InheritedSlot(c, pipe_per_proc[x][j])]
      PROVE  pipe_per_proc' \in [PipeIds -> [Slots -> PipeSlot]]
  <2>1. CASE x \in PipeIds
    BY <1>2, <2>1, SlotType DEF TypeOK
  <2>2. CASE x \notin PipeIds
    BY <1>2, <2>2 DEF TypeOK
  <2> QED BY <2>1, <2>2
<1> QED BY <1>1, <1>2 DEF do_pipe_fork

-----------------------------------------------------------------------------
\* The state between two system calls is one of the kernel's states.
LEMMA IdleType == Idle \in LoopState
<1>1. 1 \in Pids
  BY SizesAssumption DEF Pids
<1> QED BY <1>1 DEF Idle, LoopState

\* The tables the system boots with are well formed.
LEMMA InitTypeOK == Init => TypeOK
<1> SUFFICES ASSUME Init PROVE TypeOK
  OBVIOUS
<1>1. 1 \in Pids
  BY SizesAssumption DEF Pids
<1>2. FreeFile \in File
  BY DEF FreeFile, File, O_READ
<1>3. \A b \in Bytes :
        [buff |-> [j \in 0..(MAX_PIPE_SIZE - 1) |-> b],
         buff_len |-> 0, read_pos |-> 0, write_pos |-> 0] \in PipeGlobal
  BY SizesAssumption DEF PipeGlobal, Memory
<1>4. pipe_global \in [PipeIds -> PipeGlobal]
  <2> DEFINE Fresh == {[buff |-> [j \in 0..(MAX_PIPE_SIZE - 1) |-> b],
                        buff_len |-> 0, read_pos |-> 0, write_pos |-> 0] : b \in Bytes}
  <2>1. Fresh \subseteq PipeGlobal
    BY <1>3
  <2>2. pipe_global \in [PipeIds -> Fresh]
    BY DEF Init
  <2> HIDE DEF Fresh
  <2> QED BY <2>1, <2>2
<1> QED BY <1>1, <1>2, <1>4, IdleType, SlotType DEF Init, TypeOK

\* Every step of every program keeps the types, in particular the positions
\* and the length of each buffer in range.
LEMMA NextTypeOK == TypeOK /\ [Next \/ Duplicate]_vars => TypeOK'
<1> SUFFICES ASSUME TypeOK, [Next \/ Duplicate]_vars PROVE TypeOK'
  OBVIOUS
<1>1. CASE UNCHANGED vars
  BY <1>1 DEF vars, TypeOK
<1>2. ASSUME NEW p \in Pids, create_pipe(p) PROVE TypeOK'
  <2> PICK f0 \in FileIds, f1 \in FileIds, x \in PipeIds \ allocated :
         /\ filep' = [filep EXCEPT ![f0] = PipeFile(O_READ, x), ![f1] = PipeFile(O_WRITE, x)]
         /\ AllocPipe(p, x)
         /\ InstallEnds(p, f0, f1)
    BY <1>2 DEF create_pipe
  <2>1. PipeFile(O_READ, x) \in File /\ PipeFile(O_WRITE, x) \in File
    BY DEF PipeFile, File
  <2>2. filep' \in [FileIds -> File]
    BY <2>1 DEF TypeOK
  <2>3. files' \in [Pids -> [Fds -> FileIds \cup {NULL}]]
    <3>1. CASE UNCHANGED files
      BY <3>1 DEF TypeOK
    <3>2. ASSUME NEW d0 \in Fds, files' = [files EXCEPT ![p][d0] = f0]
          PROVE  files' \in [Pids -> [Fds -> FileIds \cup {NULL}]]
      BY <3>2 DEF TypeOK
    <3>3. ASSUME NEW d0 \in Fds, NEW d1 \in Fds,
                 files' = [files EXCEPT ![p][d0] = f0, ![p][d1] = f1]
          PROVE  files' \in [Pids -> [Fds -> FileIds \cup {NULL}]]
      BY <3>3 DEF TypeOK
    <3> QED BY <3>1, <3>2, <3>3 DEF InstallEnds, FreeFds
  <2>4. pipe_per_proc' \in [PipeIds -> [Slots -> PipeSlot]]
    BY SlotType DEF AllocPipe, TypeOK
  <2>5. pipe_global' \in [PipeIds -> PipeGlobal]
    <3>1. \A g \in PipeGlobal :
            [g EXCEPT !.buff_len = 0, !.read_pos = 0, !.write_pos = 0] \in PipeGlobal
      <4>1. 0 \in 0..MAX_PIPE_SIZE /\ 0 \in 0..(MAX_PIPE_SIZE - 1)
        BY SizesAssumption
      <4> QED BY <4>1 DEF PipeGlobal
    <3>2. pipe_global' = [pipe_global EXCEPT ![x] =
            [pipe_global[x] EXCEPT !.buff_len = 0, !.read_pos = 0, !.write_pos = 0]]
      BY DEF AllocPipe, TypeOK
    <3> QED BY <3>1, <3>2 DEF TypeOK
  <2> QED BY <1>2, <2>2, <2>3, <2>4, <2>5 DEF TypeOK, create_pipe, AllocPipe
<1>3. ASSUME NEW p \in Pids, NEW d \in Fds, NEW count \in 0..MAX_COUNT, pipe_read(p, d, count)
      PROVE  TypeOK'
  <2> DEFINE x == filep[files[p][d]].pipe
  <2>1. x \in PipeIds =>
          AfterRead(pipe_global[x], Clamp(pipe_global[x].buff_len, count)) \in PipeGlobal
    BY ReadType, SizesAssumption DEF TypeOK
  <2>2. pipe_global' = [pipe_global EXCEPT
                          ![x] = AfterRead(@, Clamp(pipe_global[x].buff_len, count))]
    BY <1>3 DEF pipe_read
  <2>3. pipe_global' \in [PipeIds -> PipeGlobal]
    BY <2>1, <2>2 DEF TypeOK
  <2> QED BY <1>3, <2>3 DEF TypeOK, pipe_read
<1>4. ASSUME NEW p \in Pids, NEW d \in Fds, NEW count \in 0..MAX_COUNT,
             NEW data \in [1..MAX_PIPE_SIZE -> Bytes], pipe_write(p, d, data, count)
      PROVE  TypeOK'
  <2> DEFINE x == filep[files[p][d]].pipe
             n == Clamp(MAX_PIPE_SIZE - pipe_global[x].buff_len, count)
  <2>1. x \in PipeIds => AfterWrite(pipe_global[x], data, n) \in PipeGlobal
    <3>1. count \in Nat /\ (x \in PipeIds => pipe_global[x] \in PipeGlobal)
      BY SizesAssumption DEF TypeOK
    <3> QED BY <3>1, WriteType
  <2>2. pipe_global' = [pipe_global EXCEPT ![x] = AfterWrite(@, data, n)]
    BY <1>4 DEF pipe_write
  <2>3. pipe_global' \in [PipeIds -> PipeGlobal]
    <3> HIDE DEF n
    <3> QED BY <2>1, <2>2 DEF TypeOK
  <2> QED BY <1>4, <2>3 DEF TypeOK, pipe_write
<1>5. ASSUME NEW p \in Pids, NEW d \in Fds, do_close(p, d) PROVE TypeOK'
  <2>1. /\ filep' \in [FileIds -> File]
        /\ pipe_per_proc' \in [PipeIds -> [Slots -> PipeSlot]]
        /\ allocated' \subseteq PipeIds
    BY <1>5, CloseType DEF do_close
  <2> QED BY <1>5, <2>1 DEF TypeOK, do_close
<1>6. ASSUME NEW p \in Pids, do_exit(p) PROVE TypeOK'
  BY <1>6 DEF do_exit, TypeOK, Loop, LoopState, OpenFds
<1>7. CASE do_file_exit
  <2> PICK d \in Fds :
         /\ pipe_close(kernel.proc, files[kernel.proc][d], filep')
         /\ files' = [files EXCEPT ![kernel.proc][d] = NULL]
         /\ kernel' = [kernel EXCEPT !.todo = @ \ {d}]
    BY <1>7 DEF do_file_exit
  <2>1. /\ filep' \in [FileIds -> File]
        /\ pipe_per_proc' \in [PipeIds -> [Slots -> PipeSlot]]
        /\ allocated' \subseteq PipeIds
    BY CloseType
  <2>2. kernel' \in LoopState
    BY DEF TypeOK, LoopState
  <2> QED BY <1>7, <2>1, <2>2 DEF TypeOK, do_file_exit
<1>8. CASE ExitReturn
  BY <1>8, IdleType DEF ExitReturn, TypeOK
<1>9. ASSUME NEW p \in Pids, do_fork(p) PROVE TypeOK'
  <2> PICK c \in Pids :
         /\ alive' = alive \cup {c}
         /\ files' = [files EXCEPT ![c] = files[p]]
         /\ kernel' = Loop("fork", c, p, OpenFds(p))
    BY <1>9 DEF do_fork, IsLowest
  <2>1. kernel' \in LoopState
    BY DEF Loop, LoopState, OpenFds
  <2> QED BY <1>9, <2>1 DEF TypeOK, do_fork
<1>10. CASE do_file_fork
  <2> PICK d \in Fds, ret \in {0, EOTHERS} :
         /\ filep' = add_ref(filep, files[kernel.proc][d])
         /\ do_pipe_fork(filep[files[kernel.proc][d]].pipe, kernel.proc, kernel.parent, ret)
         /\ kernel' = [kernel EXCEPT !.todo = @ \ {d}, !.ret = ret]
    BY <1>10 DEF do_file_fork
  <2>1. kernel.proc \in Pids
    BY DEF TypeOK, LoopState
  <2>2. filep' \in [FileIds -> File]
    BY FileTableType DEF TypeOK
  <2>3. pipe_per_proc' \in [PipeIds -> [Slots -> PipeSlot]]
    BY <2>1, ForkType
  <2>4. kernel' \in LoopState
    BY DEF TypeOK, LoopState
  <2> QED BY <1>10, <2>2, <2>3, <2>4 DEF TypeOK, do_file_fork
<1>11. CASE ForkReturn
  BY <1>11, IdleType DEF ForkReturn, TypeOK
<1>12. ASSUME NEW p \in Pids, NEW d \in Fds, fd_dup(p, d) PROVE TypeOK'
  <2>1. filep' \in [FileIds -> File]
    BY <1>12, FileTableType DEF fd_dup, TypeOK
  <2> QED BY <1>12, <2>1 DEF TypeOK, fd_dup
<1>13. ASSUME NEW p \in Pids, NEW d \in Fds, NEW e \in Fds, fd_dup2(p, d, e) PROVE TypeOK'
  <2>1. files' \in [Pids -> [Fds -> FileIds \cup {NULL}]]
    BY <1>13 DEF fd_dup2, TypeOK
  <2>2. CASE /\ filep' = add_ref(filep, files[p][d])
             /\ UNCHANGED <<allocated, pipe_per_proc>>
    BY <1>13, <2>1, <2>2, FileTableType DEF fd_dup2, TypeOK
  <2>3. ASSUME NEW fs, pipe_close(p, files[p][e], fs), filep' = add_ref(fs, files[p][d])
        PROVE  TypeOK'
    <3>1. /\ fs \in [FileIds -> File]
          /\ pipe_per_proc' \in [PipeIds -> [Slots -> PipeSlot]]
          /\ allocated' \subseteq PipeIds
      BY <2>3, CloseType
    <3>2. filep' \in [FileIds -> File]
      BY <2>3, <3>1, FileTableType
    <3> QED BY <1>13, <2>1, <3>1, <3>2 DEF fd_dup2, TypeOK
  <2> QED BY <1>13, <2>2, <2>3 DEF fd_dup2
<1> QED
  BY <1>1, <1>2, <1>3, <1>4, <1>5, <1>6, <1>7, <1>8, <1>9, <1>10, <1>11, <1>12, <1>13
  DEF Next, KernelLoop, Transfer, Rejected, BadBuffer, Duplicate

\* Type correctness of programs that do not duplicate descriptors.
THEOREM TypeCorrect == Spec => []TypeOK
<1>1. TypeOK /\ [Next]_vars => TypeOK'
  BY NextTypeOK
<1> QED BY <1>1, InitTypeOK, PTL DEF Spec

\* Type correctness of all programs, dup and dup2 included: even when the ends
\* of a pipe and its descriptors fall out of step, no handler leaves the tables,
\* slots and buffers it works on.
THEOREM TypeCorrectDup == SpecDup => []TypeOK
  BY InitTypeOK, NextTypeOK, PTL DEF SpecDup

-----------------------------------------------------------------------------
\* The cyclic buffer.  BufferConsistent is inductive on top of TypeOK.

\* Reading keeps the length and the two positions of a buffer consistent.
LEMMA ReadRing ==
  ASSUME NEW g \in PipeGlobal, RingInv(g), NEW count \in Nat
  PROVE  RingInv(AfterRead(g, Clamp(g.buff_len, count)))
<1> DEFINE n == Clamp(g.buff_len, count)
           h == AfterRead(g, n)
<1>1. /\ g.buff_len \in 0..MAX_PIPE_SIZE /\ g.buff_len \in Nat
      /\ MAX_PIPE_SIZE \in Nat \ {0}
      /\ g.read_pos \in 0..(MAX_PIPE_SIZE - 1) /\ g.read_pos \in Nat
  BY SizesAssumption DEF PipeGlobal
<1>2. n \in 0..g.buff_len /\ n \in Nat
  BY <1>1, ClampBounds
<1>3. /\ h.buff_len = g.buff_len - n
      /\ h.read_pos = Advance(g.read_pos, n, MAX_PIPE_SIZE)
      /\ h.write_pos = g.write_pos
  BY DEF AfterRead, PipeGlobal
<1> SUFFICES RingInv(h)
  OBVIOUS
<1> HIDE DEF n, h
<1>4. n \in 0..MAX_PIPE_SIZE /\ g.buff_len - n \in 0..MAX_PIPE_SIZE
      /\ n + (g.buff_len - n) = g.buff_len
  BY <1>1, <1>2
<1>5. Advance(g.read_pos, n, MAX_PIPE_SIZE) \in 0..(MAX_PIPE_SIZE - 1)
  BY <1>1, <1>2, AdvanceType
<1>6. Advance(Advance(g.read_pos, n, MAX_PIPE_SIZE), g.buff_len - n, MAX_PIPE_SIZE)
        = Advance(g.read_pos, n + (g.buff_len - n), MAX_PIPE_SIZE)
  BY <1>1, <1>4, AdvanceTwice
<1>7. g.write_pos = Advance(g.read_pos, g.buff_len, MAX_PIPE_SIZE)
  BY DEF RingInv
<1> QED BY <1>3, <1>4, <1>5, <1>6, <1>7 DEF RingInv

\* Writing keeps them consistent.
LEMMA WriteRing ==
  ASSUME NEW g \in PipeGlobal, RingInv(g), NEW count \in Nat, NEW data
  PROVE  RingInv(AfterWrite(g, data, Clamp(MAX_PIPE_SIZE - g.buff_len, count)))
<1> DEFINE n == Clamp(MAX_PIPE_SIZE - g.buff_len, count)
           h == AfterWrite(g, data, n)
<1>1. /\ g.buff_len \in 0..MAX_PIPE_SIZE /\ MAX_PIPE_SIZE - g.buff_len \in Nat
      /\ MAX_PIPE_SIZE \in Nat \ {0}
      /\ g.read_pos \in 0..(MAX_PIPE_SIZE - 1)
  BY SizesAssumption DEF PipeGlobal
<1>2. n \in 0..(MAX_PIPE_SIZE - g.buff_len)
  BY <1>1, ClampBounds
<1>3. /\ h.buff_len = g.buff_len + n
      /\ h.read_pos = g.read_pos
      /\ h.write_pos = Advance(g.write_pos, n, MAX_PIPE_SIZE)
  BY DEF AfterWrite, PipeGlobal
<1> SUFFICES RingInv(h)
  OBVIOUS
<1> HIDE DEF n, h
<1>4. n \in 0..MAX_PIPE_SIZE /\ g.buff_len + n \in 0..MAX_PIPE_SIZE
  BY <1>1, <1>2
<1>5. Advance(Advance(g.read_pos, g.buff_len, MAX_PIPE_SIZE), n, MAX_PIPE_SIZE)
        = Advance(g.read_pos, g.buff_len + n, MAX_PIPE_SIZE)
  BY <1>1, <1>4, AdvanceTwice
<1>6. g.write_pos = Advance(g.read_pos, g.buff_len, MAX_PIPE_SIZE)
  BY DEF RingInv
<1> QED BY <1>1, <1>3, <1>4, <1>5, <1>6 DEF RingInv

\* Every step of every program keeps every buffer consistent.
LEMMA NextBuffer ==
  TypeOK /\ BufferConsistent /\ [Next \/ Duplicate]_vars => BufferConsistent'
<1> SUFFICES ASSUME TypeOK, BufferConsistent, [Next \/ Duplicate]_vars
             PROVE  BufferConsistent'
  OBVIOUS
<1>1. ASSUME UNCHANGED pipe_global PROVE BufferConsistent'
  BY <1>1 DEF BufferConsistent
<1>2. ASSUME NEW x, NEW h, pipe_global' = [pipe_global EXCEPT ![x] = h],
             x \in PipeIds => RingInv(h)
      PROVE  BufferConsistent'
  BY <1>2 DEF BufferConsistent, TypeOK
<1>3. ASSUME NEW p \in Pids, create_pipe(p) PROVE BufferConsistent'
  <2> PICK x \in PipeIds : AllocPipe(p, x)
    BY <1>3 DEF create_pipe
  <2> DEFINE h == [pipe_global[x] EXCEPT !.buff_len = 0, !.read_pos = 0, !.write_pos = 0]
  <2>1. pipe_global' = [pipe_global EXCEPT ![x] = h]
    BY DEF AllocPipe, TypeOK
  <2>2. h.buff_len = 0 /\ h.read_pos = 0 /\ h.write_pos = 0
    BY DEF TypeOK, PipeGlobal
  <2>3. Advance(0, 0, MAX_PIPE_SIZE) = 0
    BY SizesAssumption, AdvanceOnce
  <2>4. RingInv(h)
    <3> HIDE DEF h
    <3> QED BY <2>2, <2>3, SizesAssumption DEF RingInv
  <2> QED BY <1>2, <2>1, <2>4
<1>4. ASSUME NEW p \in Pids, NEW d \in Fds, NEW count \in 0..MAX_COUNT, pipe_read(p, d, count)
      PROVE  BufferConsistent'
  <2> DEFINE x == filep[files[p][d]].pipe
             h == AfterRead(pipe_global[x], Clamp(pipe_global[x].buff_len, count))
  <2>1. pipe_global' = [pipe_global EXCEPT ![x] = h]
    BY <1>4 DEF pipe_read
  <2>2. count \in Nat
    BY SizesAssumption
  <2>3. x \in PipeIds => RingInv(h)
    BY <2>2, ReadRing DEF TypeOK, BufferConsistent
  <2> QED BY <1>2, <2>1, <2>3
<1>5. ASSUME NEW p \in Pids, NEW d \in Fds, NEW count \in 0..MAX_COUNT,
             NEW data \in [1..MAX_PIPE_SIZE -> Bytes], pipe_write(p, d, data, count)
      PROVE  BufferConsistent'
  <2> DEFINE x == filep[files[p][d]].pipe
             h == AfterWrite(pipe_global[x], data,
                             Clamp(MAX_PIPE_SIZE - pipe_global[x].buff_len, count))
  <2>1. pipe_global' = [pipe_global EXCEPT ![x] = h]
    BY <1>5 DEF pipe_write
  <2>2. count \in Nat
    BY SizesAssumption
  <2>3. x \in PipeIds => RingInv(h)
    BY <2>2, WriteRing DEF TypeOK, BufferConsistent
  <2> QED BY <1>2, <2>1, <2>3
<1>6. CASE UNCHANGED vars \/ KernelLoop
  BY <1>1, <1>6 DEF vars, KernelLoop, do_file_exit, ExitReturn, do_file_fork, ForkReturn
<1>7. ASSUME NEW p \in Pids, NEW d \in Fds, do_close(p, d) PROVE BufferConsistent'
  BY <1>1, <1>7 DEF do_close
<1>8. CASE Duplicate
  BY <1>1, <1>8 DEF Duplicate, fd_dup, fd_dup2
<1>9. ASSUME NEW p \in Pids, do_fork(p) \/ do_exit(p) PROVE BufferConsistent'
  BY <1>1, <1>9 DEF do_fork, do_exit
<1> QED
  BY <1>3, <1>4, <1>5, <1>6, <1>7, <1>8, <1>9
  DEF Next, Transfer, Rejected, BadBuffer, vars

LEMMA InitBuffer == Init => BufferConsistent
<1> SUFFICES ASSUME Init, NEW x \in PipeIds PROVE RingInv(pipe_global[x])
  BY DEF BufferConsistent
<1>1. /\ pipe_global[x].buff_len = 0 /\ pipe_global[x].read_pos = 0
      /\ pipe_global[x].write_pos = 0
  BY DEF Init
<1>2. Advance(0, 0, MAX_PIPE_SIZE) = 0
  BY SizesAssumption, AdvanceOnce
<1> QED BY <1>1, <1>2, SizesAssumption DEF RingInv

\* In every program the bytes between the positions of a pipe are exactly the
\* buff_len bytes that are written and not yet read, after every transfer,
\* clamped or whole, across the end of the buffer or not.
THEOREM BufferCorrect == SpecDup => []BufferConsistent
  BY InitTypeOK, InitBuffer, NextTypeOK, NextBuffer, PTL DEF SpecDup

-----------------------------------------------------------------------------
(***************************************************************************)
(* That reference counts never fall short: in every program, dup, dup2,    *)
(* failed forks and failed closes included, ref_count covers the           *)
(* descriptors, so no descriptor refers to a freed file object.            *)
(*                                                                         *)
(* RefCountCovers is not inductive by itself.  While do_file_fork runs,    *)
(* descriptors of the child are not counted yet, and that they refer to    *)
(* live file objects is known only because the parent's do: PendingShared  *)
(* says so.                                                                *)
(***************************************************************************)

\* The descriptors that a loop has still to visit are open, and those the fork
\* loop has still to count are shared with the parent.
PendingShared ==
  /\ \A d \in kernel.todo : files[kernel.proc][d] # NULL
  /\ kernel.op = "fork" =>
       /\ kernel.parent \in Pids \ {kernel.proc}
       /\ \A d \in kernel.todo : files[kernel.parent][d] = files[kernel.proc][d]

RefInv == TypeOK /\ RefCountCovers /\ PendingShared

-----------------------------------------------------------------------------
\* Counting sets of descriptors: what one descriptor more or less amounts to.
LEMMA PairsCount ==
  ASSUME NEW S \in SUBSET (Pids \X Fds), NEW T \in SUBSET (Pids \X Fds)
  PROVE  /\ Cardinality(S) \in Nat /\ Cardinality(T) \in Nat
         /\ S = {} => Cardinality(S) = 0
         /\ Cardinality(S) = 0 => S = {}
         /\ T \subseteq S => Cardinality(T) <= Cardinality(S)
         /\ \A h : T \subseteq S \cup {h} => Cardinality(T) <= Cardinality(S) + 1
         /\ \A h \in S : T \subseteq S \ {h} => Cardinality(T) <= Cardinality(S) - 1
<1>1. IsFiniteSet(Pids)
  BY SizesAssumption, FS_Interval DEF Pids
<1>2. IsFiniteSet(Pids \X Fds)
  BY <1>1, FdsAssumption, FS_Product
<1>3. IsFiniteSet(S) /\ IsFiniteSet(T)
  BY <1>2, FS_Subset
<1>4. Cardinality(S) \in Nat /\ Cardinality(T) \in Nat
  BY <1>3, FS_CardinalityType
<1>5. S = {} <=> Cardinality(S) = 0
  BY <1>3, FS_EmptySet
<1>6. T \subseteq S => Cardinality(T) <= Cardinality(S)
  BY <1>3, FS_Subset
<1>7. ASSUME NEW h, T \subseteq S \cup {h} PROVE Cardinality(T) <= Cardinality(S) + 1
  <2>1. /\ IsFiniteSet(S \cup {h})
        /\ Cardinality(S \cup {h}) = IF h \in S THEN Cardinality(S) ELSE Cardinality(S) + 1
    BY <1>3, FS_AddElement
  <2>2. Cardinality(T) <= Cardinality(S \cup {h})
    BY <1>7, <2>1, FS_Subset
  <2> QED BY <1>4, <2>1, <2>2
<1>8. ASSUME NEW h \in S, T \subseteq S \ {h} PROVE Cardinality(T) <= Cardinality(S) - 1
  <2>1. IsFiniteSet(S \ {h}) /\ Cardinality(S \ {h}) = Cardinality(S) - 1
    BY <1>3, FS_RemoveElement
  <2> QED BY <1>8, <2>1, FS_Subset
<1> QED BY <1>4, <1>5, <1>6, <1>7, <1>8

\* The same for the holders of a file object before and after a step.
LEMMA HoldersCount ==
  ASSUME NEW g
  PROVE  /\ Cardinality(Holders(g)) \in Nat /\ Cardinality(Holders(g)') \in Nat
         /\ Cardinality(Holders(g)) = 0 => Holders(g) = {}
         /\ Holders(g)' = {} => Cardinality(Holders(g)') = 0
         /\ Holders(g)' \subseteq Holders(g) => Cardinality(Holders(g)') <= Cardinality(Holders(g))
         /\ \A h : Holders(g)' \subseteq Holders(g) \cup {h}
                     => Cardinality(Holders(g)') <= Cardinality(Holders(g)) + 1
         /\ \A h \in Holders(g) : Holders(g)' \subseteq Holders(g) \ {h}
                     => Cardinality(Holders(g)') <= Cardinality(Holders(g)) - 1
<1>1. Holders(g) \in SUBSET (Pids \X Fds) /\ Holders(g)' \in SUBSET (Pids \X Fds)
  BY DEF Holders
<1> QED BY <1>1, PairsCount

\* What dropping and adding a reference does to the counts.
LEMMA CountAfter ==
  ASSUME NEW fs \in [FileIds -> File], NEW f \in FileIds \cup {NULL}, NEW g \in FileIds
  PROVE  /\ add_ref(fs, f)[g].ref_count = IF g = f THEN fs[g].ref_count + 1 ELSE fs[g].ref_count
         /\ file_close(fs, f)[g].ref_count = IF g = f THEN fs[g].ref_count - 1 ELSE fs[g].ref_count
<1>1. add_ref(fs, f)[g].ref_count = IF g = f THEN fs[g].ref_count + 1 ELSE fs[g].ref_count
  BY DEF add_ref, File
<1>2. file_close(fs, f)[g].ref_count = IF g = f THEN fs[g].ref_count - 1 ELSE fs[g].ref_count
  BY DEF file_close, File, FreeFile
<1> QED BY <1>1, <1>2

\* pipe_close drops at most one reference, and that of the file it closes.
LEMMA CloseCount ==
  ASSUME TypeOK, NEW p, NEW f \in FileIds, NEW fs, pipe_close(p, f, fs), NEW g \in FileIds
  PROVE  fs[g].ref_count >= IF g = f THEN filep[g].ref_count - 1 ELSE filep[g].ref_count
<1>1. filep \in [FileIds -> File] /\ filep[g].ref_count \in Int
  BY DEF TypeOK, File
<1>2. fs = filep \/ fs = file_close(filep, f)
  BY DEF pipe_close
<1>3. file_close(filep, f)[g].ref_count =
        IF g = f THEN filep[g].ref_count - 1 ELSE filep[g].ref_count
  BY <1>1, CountAfter
<1> QED BY <1>1, <1>2, <1>3

-----------------------------------------------------------------------------
\* The descriptor d of p is closed outside a fork: the count still covers.
LEMMA CloseCovers ==
  ASSUME RefInv, kernel.op # "fork", kernel'.op # "fork",
         NEW p \in Pids, NEW d \in Fds, files[p][d] # NULL,
         pipe_close(p, files[p][d], filep'),
         files' = [files EXCEPT ![p][d] = NULL]
  PROVE  RefCountCovers'
<1> SUFFICES ASSUME NEW g \in FileIds
             PROVE  filep'[g].ref_count >= Cardinality(Holders(g)')
  BY DEF RefCountCovers
<1> DEFINE f == files[p][d]
<1>1. f \in FileIds /\ filep[g].ref_count \in Int
  BY DEF RefInv, TypeOK, File
<1>2. filep'[g].ref_count >= IF g = f THEN filep[g].ref_count - 1 ELSE filep[g].ref_count
  BY <1>1, CloseCount DEF RefInv
<1>3. filep'[g].ref_count \in Int
  BY CloseType DEF RefInv, File
<1>4. filep[g].ref_count >= Cardinality(Holders(g))
  BY DEF RefInv, RefCountCovers
<1>5. Holders(g)' \subseteq Holders(g) \ {<<p, d>>}
  BY NullAssumption DEF Holders, Pending, RefInv, TypeOK
<1>6. CASE g = f
  <2>1. <<p, d>> \in Holders(g)
    BY <1>6 DEF Holders, Pending
  <2>2. Cardinality(Holders(g)') <= Cardinality(Holders(g)) - 1
    BY <1>5, <2>1, HoldersCount
  <2> HIDE DEF f
  <2> QED BY <1>1, <1>2, <1>3, <1>4, <1>6, <2>2, HoldersCount
<1>7. CASE g # f
  <2>1. Cardinality(Holders(g)') <= Cardinality(Holders(g))
    BY <1>5, HoldersCount
  <2> HIDE DEF f
  <2> QED BY <1>1, <1>2, <1>3, <1>4, <1>7, <2>1, HoldersCount
<1> QED BY <1>6, <1>7

\* One more descriptor for f, and one more reference: the counts still cover.
LEMMA AddCovers ==
  ASSUME NEW fs \in [FileIds -> File], NEW f \in FileIds,
         \A g \in FileIds : g # f =>
           fs[g].ref_count >= Cardinality(Holders(g)'),
         fs[f].ref_count + 1 >= Cardinality(Holders(f)'),
         filep' = add_ref(fs, f)
  PROVE  RefCountCovers'
<1> SUFFICES ASSUME NEW g \in FileIds
             PROVE  filep'[g].ref_count >= Cardinality(Holders(g)')
  BY DEF RefCountCovers
<1>1. add_ref(fs, f)[g].ref_count = IF g = f THEN fs[g].ref_count + 1 ELSE fs[g].ref_count
  BY CountAfter
<1> QED BY <1>1

\* create_pipe: the new file objects had no holders, and get at most one each.
LEMMA CreateCovers ==
  ASSUME RefInv, NEW p \in Pids, create_pipe(p)
  PROVE  RefCountCovers'
<1> SUFFICES ASSUME NEW g \in FileIds
             PROVE  filep'[g].ref_count >= Cardinality(Holders(g)')
  BY DEF RefCountCovers
<1> PICK f0 \in FileIds, f1 \in FileIds, x \in PipeIds \ allocated :
      /\ f0 # f1 /\ filep[f0] = FreeFile /\ filep[f1] = FreeFile
      /\ filep' = [filep EXCEPT ![f0] = PipeFile(O_READ, x), ![f1] = PipeFile(O_WRITE, x)]
      /\ InstallEnds(p, f0, f1)
  BY DEF create_pipe
<1>1. kernel = Idle /\ kernel' = Idle /\ \A q, d : ~Pending(q, d) /\ ~Pending(q, d)'
  BY DEF create_pipe, Running, Idle, Pending
<1>2. filep[g].ref_count >= Cardinality(Holders(g))
  BY DEF RefInv, RefCountCovers
<1>3. ASSUME g \in {f0, f1} PROVE filep'[g].ref_count >= Cardinality(Holders(g)')
  <2>1. filep'[g].ref_count = 1
    BY <1>3 DEF PipeFile, RefInv, TypeOK
  <2>2. filep[g].ref_count = 0
    BY <1>3 DEF FreeFile
  <2>3. Holders(g) = {} /\ Cardinality(Holders(g)) = 0
    BY <1>2, <2>2, HoldersCount
  <2>4. \E h : Holders(g)' \subseteq Holders(g) \cup {h}
    <3>1. CASE UNCHANGED files
      BY <3>1, <1>1 DEF Holders
    <3>2. ASSUME NEW d0 \in Fds, files' = [files EXCEPT ![p][d0] = f0]
          PROVE  Holders(g)' \subseteq Holders(g) \cup {<<p, d0>>}
      BY <3>2, <1>1 DEF Holders, RefInv, TypeOK
    <3>3. ASSUME NEW d0 \in Fds, NEW d1 \in Fds,
                 files' = [files EXCEPT ![p][d0] = f0, ![p][d1] = f1]
          PROVE  \E d \in Fds : Holders(g)' \subseteq Holders(g) \cup {<<p, d>>}
      <4>1. CASE g = f0
        <5>1. Holders(g)' \subseteq Holders(g) \cup {<<p, d0>>}
          BY <3>3, <1>1, <4>1 DEF Holders, RefInv, TypeOK
        <5> QED BY <5>1
      <4>2. CASE g = f1
        <5>1. Holders(g)' \subseteq Holders(g) \cup {<<p, d1>>}
          BY <3>3, <1>1, <4>2 DEF Holders, RefInv, TypeOK
        <5> QED BY <5>1
      <4> QED BY <1>3, <4>1, <4>2
    <3> QED BY <3>1, <3>2, <3>3 DEF InstallEnds, FreeFds
  <2>5. Cardinality(Holders(g)') <= 1 /\ Cardinality(Holders(g)') \in Nat
    <3> PICK h : Holders(g)' \subseteq Holders(g) \cup {h}
      BY <2>4
    <3>1. Cardinality(Holders(g)') <= Cardinality(Holders(g)) + 1
      BY HoldersCount
    <3> QED BY <2>3, <3>1, HoldersCount
  <2> QED BY <2>1, <2>5
<1>4. ASSUME g \notin {f0, f1} PROVE filep'[g].ref_count >= Cardinality(Holders(g)')
  <2>1. filep'[g] = filep[g] /\ filep[g].ref_count \in Int
    BY <1>4 DEF RefInv, TypeOK, File
  <2>2. Holders(g)' \subseteq Holders(g)
    <3>1. CASE UNCHANGED files
      BY <3>1, <1>1 DEF Holders
    <3>2. ASSUME NEW d0 \in Fds, files' = [files EXCEPT ![p][d0] = f0]
          PROVE  Holders(g)' \subseteq Holders(g)
      BY <3>2, <1>1, <1>4 DEF Holders, RefInv, TypeOK
    <3>3. ASSUME NEW d0 \in Fds, NEW d1 \in Fds,
                 files' = [files EXCEPT ![p][d0] = f0, ![p][d1] = f1]
          PROVE  Holders(g)' \subseteq Holders(g)
      BY <3>3, <1>1, <1>4 DEF Holders, RefInv, TypeOK
    <3> QED BY <3>1, <3>2, <3>3 DEF InstallEnds, FreeFds
  <2> QED BY <1>2, <2>1, <2>2, HoldersCount
<1> QED BY <1>3, <1>4

\* A step that changes no file object and adds no counted descriptor.
LEMMA SameCovers ==
  ASSUME RefInv, UNCHANGED filep,
         \A g \in FileIds : Holders(g)' \subseteq Holders(g)
  PROVE  RefCountCovers'
<1> SUFFICES ASSUME NEW g \in FileIds
             PROVE  filep'[g].ref_count >= Cardinality(Holders(g)')
  BY DEF RefCountCovers
<1>1. filep'[g] = filep[g] /\ filep[g].ref_count \in Int
  BY DEF RefInv, TypeOK, File
<1>2. filep[g].ref_count >= Cardinality(Holders(g))
  BY DEF RefInv, RefCountCovers
<1> QED BY <1>1, <1>2, HoldersCount

\* One round of do_file_fork: the descriptor becomes a counted one.
LEMMA ForkCovers ==
  ASSUME RefInv, do_file_fork
  PROVE  RefCountCovers' /\ PendingShared'
<1> PICK d \in Fds, ret \in {0, EOTHERS} :
      /\ IsLowest(d, kernel.todo)
      /\ filep' = add_ref(filep, files[kernel.proc][d])
      /\ kernel' = [kernel EXCEPT !.todo = @ \ {d}, !.ret = ret]
  BY DEF do_file_fork
<1>1. /\ kernel.op = "fork" /\ kernel'.op = "fork" /\ UNCHANGED files
      /\ kernel'.proc = kernel.proc /\ kernel'.parent = kernel.parent
      /\ kernel'.todo = kernel.todo \ {d} /\ kernel.proc \in Pids
  BY DEF do_file_fork, RefInv, TypeOK, LoopState
<1> PICK f \in FileIds : f = files[kernel.proc][d]
  BY <1>1 DEF RefInv, TypeOK, PendingShared, IsLowest
<1> PICK h \in Pids \X Fds : h = <<kernel.proc, d>>
  BY <1>1
<1>2. PendingShared'
  BY <1>1 DEF PendingShared, RefInv
<1>3. \A g \in FileIds : /\ Holders(g)' \subseteq Holders(g) \cup {h}
                         /\ g # f => Holders(g)' \subseteq Holders(g)
  BY <1>1 DEF Holders, Pending
<1>4. \A g \in FileIds : /\ filep[g].ref_count \in Int
                         /\ filep[g].ref_count >= Cardinality(Holders(g))
  BY DEF RefInv, TypeOK, File, RefCountCovers
<1>5. \A g \in FileIds : g # f => filep[g].ref_count >= Cardinality(Holders(g)')
  BY <1>3, <1>4, HoldersCount
<1>6. filep[f].ref_count + 1 >= Cardinality(Holders(f)')
  <2>1. Cardinality(Holders(f)') <= Cardinality(Holders(f)) + 1
    BY <1>3, HoldersCount
  <2> QED BY <1>4, <2>1, HoldersCount
<1>7. filep' = add_ref(filep, f) /\ filep \in [FileIds -> File]
  BY DEF RefInv, TypeOK
<1>8. RefCountCovers'
  BY <1>5, <1>6, <1>7, AddCovers
<1> QED BY <1>2, <1>8

\* fd_dup: one descriptor and one reference more.
LEMMA DupCovers ==
  ASSUME RefInv, NEW p \in Pids, NEW oldfd \in Fds, fd_dup(p, oldfd)
  PROVE  RefCountCovers'
<1> PICK d \in Fds : files[p][d] = NULL /\ files' = [files EXCEPT ![p][d] = files[p][oldfd]]
  BY DEF fd_dup, IsLowest, FreeFds
<1> PICK f \in FileIds : f = files[p][oldfd]
  BY DEF fd_dup, RefInv, TypeOK
<1>1. \A q, e : ~Pending(q, e) /\ ~Pending(q, e)'
  BY DEF fd_dup, Running, Idle, Pending
<1>2. \A g \in FileIds : /\ Holders(g)' \subseteq Holders(g) \cup {<<p, d>>}
                         /\ g # f => Holders(g)' \subseteq Holders(g)
  BY <1>1 DEF Holders, RefInv, TypeOK
<1>3. \A g \in FileIds : /\ filep[g].ref_count \in Int
                         /\ filep[g].ref_count >= Cardinality(Holders(g))
  BY DEF RefInv, TypeOK, File, RefCountCovers
<1>4. \A g \in FileIds : g # f => filep[g].ref_count >= Cardinality(Holders(g)')
  BY <1>2, <1>3, HoldersCount
<1>5. filep[f].ref_count + 1 >= Cardinality(Holders(f)')
  <2>1. Cardinality(Holders(f)') <= Cardinality(Holders(f)) + 1
    BY <1>2, HoldersCount
  <2> QED BY <1>3, <2>1, HoldersCount
<1>6. filep' = add_ref(filep, f) /\ filep \in [FileIds -> File]
  BY DEF fd_dup, RefInv, TypeOK
<1> QED BY <1>4, <1>5, <1>6, AddCovers

\* fd_dup2: what newfd referred to loses a descriptor and, unless the close
\* fails, a reference; what oldfd refers to gains both; they may be the same.
LEMMA Dup2Covers ==
  ASSUME RefInv, NEW p \in Pids, NEW oldfd \in Fds, NEW newfd \in Fds,
         fd_dup2(p, oldfd, newfd)
  PROVE  RefCountCovers'
<1> PICK f \in FileIds : f = files[p][oldfd]
  BY DEF fd_dup2, RefInv, TypeOK
<1> PICK f2 \in FileIds \cup {NULL} : f2 = files[p][newfd]
  BY DEF RefInv, TypeOK
<1>1. files' = [files EXCEPT ![p][newfd] = f]
  BY DEF fd_dup2
<1>2. \A q, e : ~Pending(q, e) /\ ~Pending(q, e)'
  BY DEF fd_dup2, Running, Idle, Pending
<1>3. \A g \in FileIds :
        /\ Holders(g)' \subseteq Holders(g) \cup {<<p, newfd>>}
        /\ g = f2 => <<p, newfd>> \in Holders(g)
        /\ g # f => Holders(g)' \subseteq Holders(g) \ {<<p, newfd>>}
  BY <1>1, <1>2 DEF Holders, RefInv, TypeOK
<1>4. \A g \in FileIds : /\ filep[g].ref_count \in Int
                         /\ filep[g].ref_count >= Cardinality(Holders(g))
  BY DEF RefInv, TypeOK, File, RefCountCovers
<1>5. PICK fs \in [FileIds -> File] :
        /\ filep' = add_ref(fs, f)
        /\ \A g \in FileIds : fs[g].ref_count >=
             IF g = f2 THEN filep[g].ref_count - 1 ELSE filep[g].ref_count
  <2>1. CASE filep' = add_ref(filep, f)
    <3>1. filep \in [FileIds -> File]
      BY DEF RefInv, TypeOK
    <3> QED BY <2>1, <3>1, <1>4
  <2>2. ASSUME NEW fs, pipe_close(p, f2, fs), filep' = add_ref(fs, f), f2 # NULL
        PROVE  /\ fs \in [FileIds -> File]
               /\ \A g \in FileIds : fs[g].ref_count >=
                    IF g = f2 THEN filep[g].ref_count - 1 ELSE filep[g].ref_count
    BY <2>2, CloseType, CloseCount DEF RefInv
  <2> QED BY <2>1, <2>2 DEF fd_dup2
<1>6. \A g \in FileIds : fs[g].ref_count \in Int
  BY DEF File
<1>7. ASSUME NEW g \in FileIds, g # f PROVE fs[g].ref_count >= Cardinality(Holders(g)')
  <2>1. CASE g = f2
    <3>1. Cardinality(Holders(g)') <= Cardinality(Holders(g)) - 1
      BY <1>3, <1>7, <2>1, HoldersCount
    <3> QED BY <1>4, <1>5, <1>6, <2>1, <3>1, HoldersCount
  <2>2. CASE g # f2
    <3>1. Cardinality(Holders(g)') <= Cardinality(Holders(g))
      BY <1>3, <1>7, HoldersCount
    <3> QED BY <1>4, <1>5, <1>6, <2>2, <3>1, HoldersCount
  <2> QED BY <2>1, <2>2
<1>8. fs[f].ref_count + 1 >= Cardinality(Holders(f)')
  <2>1. CASE f = f2
    <3>1. Holders(f)' \subseteq Holders(f)
      BY <1>3, <2>1
    <3>2. Cardinality(Holders(f)') <= Cardinality(Holders(f))
      BY <3>1, HoldersCount
    <3> QED BY <1>4, <1>5, <1>6, <2>1, <3>2, HoldersCount
  <2>2. CASE f # f2
    <3>1. Cardinality(Holders(f)') <= Cardinality(Holders(f)) + 1
      BY <1>3, HoldersCount
    <3> QED BY <1>4, <1>5, <1>6, <2>2, <3>1, HoldersCount
  <2> QED BY <2>1, <2>2
<1> QED BY <1>5, <1>7, <1>8, AddCovers

-----------------------------------------------------------------------------
\* Every step of every program preserves the invariant.
LEMMA NextRefInv == RefInv /\ [Next \/ Duplicate]_vars => RefInv'
<1> SUFFICES ASSUME RefInv, [Next \/ Duplicate]_vars
             PROVE  RefCountCovers' /\ PendingShared'
  BY NextTypeOK DEF RefInv
<1>1. ASSUME UNCHANGED <<files, filep, kernel>> PROVE RefCountCovers' /\ PendingShared'
  <2>1. \A g \in FileIds : Holders(g)' \subseteq Holders(g)
    BY <1>1 DEF Holders, Pending
  <2> QED BY <1>1, <2>1, SameCovers DEF RefInv, PendingShared
<1>2. ASSUME kernel' = Idle PROVE PendingShared'
  BY <1>2 DEF Idle, PendingShared
<1>3. ASSUME NEW p \in Pids, create_pipe(p) PROVE RefCountCovers' /\ PendingShared'
  BY <1>2, <1>3, CreateCovers DEF create_pipe, Running
<1>4. ASSUME NEW p \in Pids, NEW d \in Fds, do_close(p, d)
      PROVE  RefCountCovers' /\ PendingShared'
  <2>1. kernel = Idle /\ kernel' = Idle
    BY <1>4 DEF do_close, Running
  <2>2. kernel.op # "fork" /\ kernel'.op # "fork"
    BY <2>1 DEF Idle
  <2> QED BY <1>2, <1>4, <2>1, <2>2, CloseCovers DEF do_close
<1>5. ASSUME NEW p \in Pids, do_exit(p) PROVE RefCountCovers' /\ PendingShared'
  <2>1. kernel = Idle /\ kernel' = Loop("exit", p, p, OpenFds(p)) /\ UNCHANGED <<files, filep>>
    BY <1>5 DEF do_exit, Running
  <2>2. \A g \in FileIds : Holders(g)' \subseteq Holders(g)
    BY <2>1 DEF Holders, Pending, Idle, Loop
  <2> QED BY <2>1, <2>2, SameCovers DEF PendingShared, Loop, OpenFds
<1>6. CASE do_file_exit
  <2> PICK d \in Fds :
        /\ IsLowest(d, kernel.todo)
        /\ pipe_close(kernel.proc, files[kernel.proc][d], filep')
        /\ files' = [files EXCEPT ![kernel.proc][d] = NULL]
        /\ kernel' = [kernel EXCEPT !.todo = @ \ {d}]
    BY <1>6 DEF do_file_exit
  <2>1. /\ kernel.op = "exit" /\ kernel'.op = "exit" /\ kernel.proc \in Pids
        /\ kernel'.proc = kernel.proc /\ kernel'.todo = kernel.todo \ {d}
    BY <1>6 DEF do_file_exit, RefInv, TypeOK, LoopState
  <2>2. files[kernel.proc][d] # NULL
    BY DEF RefInv, PendingShared, IsLowest
  <2>3. RefCountCovers'
    BY <2>1, <2>2, CloseCovers
  <2>4. PendingShared'
    BY <2>1 DEF PendingShared, RefInv, TypeOK, LoopState
  <2> QED BY <2>3, <2>4
<1>7. CASE ExitReturn
  <2>1. \A g \in FileIds : Holders(g)' \subseteq Holders(g)
    BY <1>7 DEF ExitReturn, Holders, Pending, Idle
  <2> QED BY <1>2, <1>7, <2>1, SameCovers DEF ExitReturn
<1>8. ASSUME NEW p \in Pids, do_fork(p) PROVE RefCountCovers' /\ PendingShared'
  <2> PICK c \in Pids \ {p} :
        /\ files' = [files EXCEPT ![c] = files[p]]
        /\ kernel' = Loop("fork", c, p, OpenFds(p))
    BY <1>8 DEF do_fork, Running, IsLowest
  <2>1. kernel = Idle /\ UNCHANGED filep
    BY <1>8 DEF do_fork, Running
  <2>2. \A g \in FileIds : Holders(g)' \subseteq Holders(g)
    BY <2>1, NullAssumption DEF Holders, Pending, Idle, Loop, OpenFds, RefInv, TypeOK
  <2>3. PendingShared'
    BY DEF PendingShared, Loop, OpenFds, RefInv, TypeOK
  <2> QED BY <2>1, <2>2, <2>3, SameCovers
<1>9. CASE do_file_fork
  BY <1>9, ForkCovers
<1>10. CASE ForkReturn
  <2>1. \A g \in FileIds : Holders(g)' \subseteq Holders(g)
    BY <1>10 DEF ForkReturn, Holders, Pending, Idle
  <2> QED BY <1>2, <1>10, <2>1, SameCovers DEF ForkReturn
<1>11. ASSUME NEW p \in Pids, NEW d \in Fds, fd_dup(p, d)
       PROVE  RefCountCovers' /\ PendingShared'
  BY <1>2, <1>11, DupCovers DEF fd_dup, Running
<1>12. ASSUME NEW p \in Pids, NEW d \in Fds, NEW e \in Fds, fd_dup2(p, d, e)
       PROVE  RefCountCovers' /\ PendingShared'
  BY <1>2, <1>12, Dup2Covers DEF fd_dup2, Running
<1>13. ASSUME NEW p \in Pids, Transfer(p) PROVE RefCountCovers' /\ PendingShared'
  BY <1>1, <1>13 DEF Transfer, Rejected, BadBuffer, pipe_read, pipe_write, vars
<1>14. CASE UNCHANGED vars
  BY <1>1, <1>14 DEF vars
<1> QED
  BY <1>3, <1>4, <1>5, <1>6, <1>7, <1>8, <1>9, <1>10, <1>11, <1>12, <1>13, <1>14
  DEF Next, KernelLoop, Duplicate

\* It holds when the system boots.
LEMMA InitRefInv == Init => RefInv
<1> SUFFICES ASSUME Init PROVE RefCountCovers /\ PendingShared
  BY InitTypeOK DEF RefInv
<1>1. \A g \in FileIds : Holders(g) = {} /\ filep[g].ref_count = 0
  BY NullAssumption DEF Init, Holders, FreeFile
<1>2. Cardinality({}) = 0
  BY FS_EmptySet
<1>3. RefCountCovers
  BY <1>1, <1>2 DEF RefCountCovers
<1>4. PendingShared
  BY DEF PendingShared, Init, Idle
<1> QED BY <1>3, <1>4

\* A counted descriptor keeps its file object from being freed, and so does an
\* uncounted one, through the parent it is shared with.
LEMMA NoDangling == RefInv => NoDanglingFile
<1> SUFFICES ASSUME RefInv, NEW p \in Pids, NEW d \in Fds, files[p][d] # NULL,
                    filep[files[p][d]] = FreeFile
             PROVE  FALSE
  BY DEF NoDanglingFile
<1> PICK f \in FileIds : f = files[p][d]
  BY DEF RefInv, TypeOK
<1>1. Holders(f) # {}
  <2>1. CASE Pending(p, d)
    <3>1. /\ kernel.parent \in Pids \ {p} /\ files[kernel.parent][d] = f
          /\ ~Pending(kernel.parent, d)
      BY <2>1 DEF Pending, RefInv, PendingShared
    <3>2. <<kernel.parent, d>> \in Holders(f)
      BY <3>1 DEF Holders
    <3> QED BY <3>2
  <2>2. CASE ~Pending(p, d)
    <3>1. <<p, d>> \in Holders(f)
      BY <2>2 DEF Holders
    <3> QED BY <3>1
  <2> QED BY <2>1, <2>2
<1>2. filep[f].ref_count = 0
  BY DEF FreeFile
<1>3. 0 >= Cardinality(Holders(f))
  BY <1>2 DEF RefInv, RefCountCovers
<1> QED BY <1>1, <1>3, HoldersCount

\* ref_count never counts a descriptor too few: not during a fork, not after a
\* fork or close that failed half way, not after dup and dup2.
THEOREM RefCountNeverShort == SpecDup => []RefCountCovers
<1>1. RefInv => RefCountCovers
  BY DEF RefInv
<1> QED BY <1>1, InitRefInv, NextRefInv, PTL DEF SpecDup

\* No descriptor of any process ever refers to a file object that delete_file
\* has freed.
THEOREM FilesNeverDangle == SpecDup => []NoDanglingFile
  BY InitRefInv, NextRefInv, NoDangling, PTL DEF SpecDup
=============================================================================
