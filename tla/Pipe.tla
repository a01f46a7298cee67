-------------------------------- MODULE Pipe --------------------------------
(***************************************************************************)
(* The pipe of assignment 2 (190547/src/pipe.c) together with the part of  *)
(* the kernel's file layer that drives it (gemOS/src/file.c): descriptor   *)
(* tables, reference-counted file objects, pipe objects with one slot per  *)
(* process, and the fork, exit, close, dup and dup2 paths.                 *)
(*                                                                         *)
(* System calls run to completion in the kernel (the timer preempts only   *)
(* user mode), so a system call is one action, except the two loops over   *)
(* the descriptor table, do_file_fork and do_file_exit: they take one step *)
(* per descriptor, and `kernel' says which of them is running.  Nothing    *)
(* else is enabled until it returns.                                       *)
(*                                                                         *)
(* The three standard descriptors are taken to stay open, so Fds are those *)
(* from 3 on; they hold pipe ends only (the other file types do not touch  *)
(* a pipe).  A freed page is handed out again only as a page of the same   *)
(* kind, with its old contents.  FileIds and PipeIds bound memory: the     *)
(* allocator's behaviour when it is exhausted is not modelled.             *)
(***************************************************************************)
EXTENDS RingBuffer, FiniteSets, Sequences

CONSTANTS
  MAX_PROCESSES,   \* contexts, pid 0 (the swapper) included: 7 in the code
  MAX_PIPE_PROC,   \* slots of a pipe: 16 in the code
  MAX_PIPE_SIZE,   \* bytes of a pipe: 4096 in the code
  Fds,             \* descriptors above the standard ones: 3..15 in the code
  FileIds,         \* pages for file objects
  PipeIds,         \* pages for pipe objects
  Bytes,           \* values of a byte
  MAX_COUNT,       \* bound on the byte count of a read or write
  MAX_REFS,        \* bound on ref_count: beyond it nothing is forked or duplicated
  NULL

Pids == 1..(MAX_PROCESSES - 1)
Slots == 0..(MAX_PIPE_PROC - 1)

ASSUME SizesAssumption ==
  /\ MAX_PROCESSES \in Nat /\ MAX_PROCESSES >= 2
  /\ MAX_PIPE_PROC \in Nat
  /\ MAX_PIPE_SIZE \in Nat \ {0}
  /\ MAX_COUNT \in Nat
  /\ MAX_REFS \in Nat
ASSUME FdsAssumption == Fds \subseteq Nat /\ IsFiniteSet(Fds)
ASSUME NullAssumption == NULL \notin FileIds /\ NULL \notin PipeIds

VARIABLES
  alive,           \* the pids whose context is in use
  files,           \* exec_context.files: pid -> descriptor -> file object or NULL
  filep,           \* the file objects
  allocated,       \* the pipe pages in use
  pipe_per_proc,   \* pipe -> slot -> struct pipe_info_per_process
  pipe_global,     \* pipe -> struct pipe_info_global
  kernel,          \* the descriptor loop that is running, if any
  user              \* the bytes the last transfer moved, as user memory has them

vars == <<alive, files, filep, allocated, pipe_per_proc, pipe_global, kernel, user>>

-----------------------------------------------------------------------------
\* File objects, slots and pipes as records.

O_READ  == 1
O_WRITE == 2
EOTHERS == -7
NoPid   == -1

File == [ref_count : Int, mode : {O_READ, O_WRITE}, pipe : PipeIds \cup {NULL}]
FreeFile == [ref_count |-> 0, mode |-> O_READ, pipe |-> NULL]
PipeFile(mode, x) == [ref_count |-> 1, mode |-> mode, pipe |-> x]

PipeSlot == [pid : Pids \cup {NoPid}, read_open : {0, 1}, write_open : {0, 1}]
FreeSlot == [pid |-> NoPid, read_open |-> 0, write_open |-> 0]

PipeGlobal == [buff : Memory(MAX_PIPE_SIZE, Bytes), buff_len : 0..MAX_PIPE_SIZE,
               read_pos : 0..(MAX_PIPE_SIZE - 1), write_pos : 0..(MAX_PIPE_SIZE - 1)]

\* One of the two descriptor loops, over the descriptors still to do.
Idle == [op |-> "none", proc |-> 1, parent |-> 1, todo |-> {}, ret |-> 0]
Loop(op, p, parent, todo) ==
  [op |-> op, proc |-> p, parent |-> parent, todo |-> todo, ret |-> 0]
LoopState == [op : {"none", "fork", "exit"}, proc : Pids, parent : Pids,
              todo : SUBSET Fds, ret : {0, EOTHERS}]

IsLowest(i, S) == i \in S /\ \A j \in S : i <= j

OpenFds(p) == {d \in Fds : files[p][d] # NULL}
FreeFds(p) == {d \in Fds : files[p][d] = NULL}

\* The slots of pipe x whose pid field is q, and the one that the search
\* loops of pipe.c find: the first of them.
SlotsOf(x, q) == {i \in Slots : pipe_per_proc[x][i].pid = q}
IsSlotOf(i, x, q) == IsLowest(i, SlotsOf(x, q))

EndOpen(slot, mode) ==
  (IF mode = O_READ THEN slot.read_open ELSE slot.write_open) = 1

\* MAX_REFS bounds the references that programs with dup lose for good.
WithinBound == \A f \in FileIds : filep[f].ref_count < MAX_REFS

\* p is in user mode and may enter the kernel.
Running(p) == kernel = Idle /\ p \in alive

Init ==
  /\ alive = {1}
  /\ files = [p \in Pids |-> [d \in Fds |-> NULL]]
  /\ filep = [f \in FileIds |-> FreeFile]
  /\ allocated = {}
  /\ pipe_per_proc = [x \in PipeIds |-> [i \in Slots |-> FreeSlot]]
  /\ pipe_global \in [PipeIds -> {[buff |-> [j \in 0..(MAX_PIPE_SIZE - 1) |-> b],
                                   buff_len |-> 0, read_pos |-> 0, write_pos |-> 0] :
                                  b \in Bytes}]
  /\ kernel = Idle
  /\ user = << >>

-----------------------------------------------------------------------------
\* create_pipe: both file objects and the pipe are allocated and filled in
\* before the descriptors are looked for, and stay so when the search fails.

AllocPipe(p, x) ==
  /\ allocated' = allocated \cup {x}
  /\ pipe_per_proc' = [pipe_per_proc EXCEPT ![x] =
       [i \in Slots |-> IF i = 0 THEN [pid |-> p, read_open |-> 1, write_open |-> 1]
                                 ELSE FreeSlot]]
  /\ pipe_global' = [pipe_global EXCEPT ![x].buff_len = 0,
                                        ![x].read_pos = 0, ![x].write_pos = 0]

\* The two descriptor searches and their failures.
InstallEnds(p, f0, f1) ==
  \/ FreeFds(p) = {} /\ UNCHANGED files
  \/ \E d0 \in FreeFds(p) :
       /\ FreeFds(p) = {d0}
       /\ files' = [files EXCEPT ![p][d0] = f0]
  \/ \E d0, d1 \in FreeFds(p) :
       /\ IsLowest(d0, FreeFds(p)) /\ IsLowest(d1, FreeFds(p) \ {d0})
       /\ files' = [files EXCEPT ![p][d0] = f0, ![p][d1] = f1]

create_pipe(p) ==
  /\ Running(p)
  /\ \E f0, f1 \in FileIds, x \in PipeIds \ allocated :
       /\ f0 # f1 /\ filep[f0] = FreeFile /\ filep[f1] = FreeFile
       /\ filep' = [filep EXCEPT ![f0] = PipeFile(O_READ, x), ![f1] = PipeFile(O_WRITE, x)]
       /\ AllocPipe(p, x)
       /\ InstallEnds(p, f0, f1)
  /\ UNCHANGED <<alive, kernel, user>>

-----------------------------------------------------------------------------
\* pipe_read and pipe_write.

\* The checks of do_file_read/do_file_write and of the handlers pass: the
\* descriptor is open, of that mode, its process has a slot, and the slot's
\* end is open.
Permitted(p, d, mode) ==
  /\ files[p][d] # NULL
  /\ filep[files[p][d]].mode = mode
  /\ \E i \in Slots :
       /\ IsSlotOf(i, filep[files[p][d]].pipe, p)
       /\ EndOpen(pipe_per_proc[filep[files[p][d]].pipe][i], mode)

\* A call that a check turns away (-EINVAL, -EACCES, -EOTHERS), an invalid
\* user buffer included, changes nothing.
Rejected(p, d, mode) ==
  /\ Running(p)
  /\ ~Permitted(p, d, mode)
  /\ UNCHANGED vars

BadBuffer(p, d, mode) ==
  /\ Running(p)
  /\ Permitted(p, d, mode)
  /\ UNCHANGED vars

\* The global record after n bytes are read.
AfterRead(g, n) ==
  [g EXCEPT !.buff_len = @ - n, !.read_pos = Advance(@, n, MAX_PIPE_SIZE)]

pipe_read(p, d, count) ==
  /\ Running(p)
  /\ Permitted(p, d, O_READ)
  /\ LET x == filep[files[p][d]].pipe
         g == pipe_global[x]
         n == Clamp(g.buff_len, count)
     IN /\ user' = CyclicRead(g.buff, g.read_pos, n, MAX_PIPE_SIZE)
        /\ pipe_global' = [pipe_global EXCEPT ![x] = AfterRead(@, n)]
  /\ UNCHANGED <<alive, files, filep, allocated, pipe_per_proc, kernel>>

\* Mutant: write_pos is not advanced when a write fills the buffer.
AfterWrite_StuckWhenFull(g, data, n) ==
  [g EXCEPT !.buff = CyclicWrite(@, g.write_pos, data, n, MAX_PIPE_SIZE),
            !.buff_len = @ + n,
            !.write_pos = IF g.buff_len + n = MAX_PIPE_SIZE THEN @
                          ELSE Advance(@, n, MAX_PIPE_SIZE)]

\* The global record after the first n bytes of the user buffer are written.
AfterWrite(g, data, n) ==
  [g EXCEPT !.buff = CyclicWrite(@, g.write_pos, data, n, MAX_PIPE_SIZE),
            !.buff_len = @ + n,
            !.write_pos = Advance(@, n, MAX_PIPE_SIZE)]

pipe_write(p, d, data, count) ==
  /\ Running(p)
  /\ Permitted(p, d, O_WRITE)
  /\ LET x == filep[files[p][d]].pipe
         n == Clamp(MAX_PIPE_SIZE - pipe_global[x].buff_len, count)
     IN /\ user' = SubSeq(data, 1, n)
        /\ pipe_global' = [pipe_global EXCEPT ![x] = AfterWrite(@, data, n)]
  /\ UNCHANGED <<alive, files, filep, allocated, pipe_per_proc, kernel>>

-----------------------------------------------------------------------------
\* Closing: file_close drops a reference and frees the object at zero.

\* Mutants: the object is freed whatever the count; zero is tested first.
file_close_Always(fs, f) == [fs EXCEPT ![f] = FreeFile]
file_close_TestFirst(fs, f) ==
  IF fs[f].ref_count = 0 THEN [fs EXCEPT ![f] = FreeFile]
                         ELSE [fs EXCEPT ![f].ref_count = @ - 1]

file_close(fs, f) ==
  IF fs[f].ref_count = 1 THEN [fs EXCEPT ![f] = FreeFile]
                         ELSE [fs EXCEPT ![f].ref_count = @ - 1]

\* Mutant: the reference is not counted.
add_ref_Missing(fs, f) == fs

add_ref(fs, f) == [fs EXCEPT ![f].ref_count = @ + 1]

\* Mutant: || for && in the test that frees the slot.
ClosedSlot_EitherEnd(slot, mode) ==
  LET r == IF mode = O_READ  THEN 0 ELSE slot.read_open
      w == IF mode = O_WRITE THEN 0 ELSE slot.write_open
  IN [pid |-> IF r = 0 \/ w = 0 THEN NoPid ELSE slot.pid,
      read_open |-> r, write_open |-> w]

\* The slot after the end for `mode' is closed; with both closed it is free.
ClosedSlot(slot, mode) ==
  LET r == IF mode = O_READ  THEN 0 ELSE slot.read_open
      w == IF mode = O_WRITE THEN 0 ELSE slot.write_open
  IN [pid |-> IF r = 0 /\ w = 0 THEN NoPid ELSE slot.pid,
      read_open |-> r, write_open |-> w]

\* pipe_close on file f by p; fs is the file table it leaves.  Without a slot
\* it returns -EOTHERS before file_close, and the reference is not dropped.
pipe_close(p, f, fs) ==
  LET x == filep[f].pipe IN
  \/ /\ SlotsOf(x, p) = {}
     /\ fs = filep
     /\ UNCHANGED <<pipe_per_proc, allocated>>
  \/ \E i \in Slots :
       /\ IsSlotOf(i, x, p)
       /\ fs = file_close(filep, f)
       /\ pipe_per_proc' = [pipe_per_proc EXCEPT ![x][i] = ClosedSlot(@, filep[f].mode)]
       /\ allocated' = IF \A j \in Slots : pipe_per_proc'[x][j].pid = NoPid
                       THEN allocated \ {x} ELSE allocated

\* do_close: the descriptor is cleared whatever the handler returns.
do_close(p, d) ==
  /\ Running(p)
  /\ files[p][d] # NULL
  /\ pipe_close(p, files[p][d], filep')
  /\ files' = [files EXCEPT ![p][d] = NULL]
  /\ UNCHANGED <<alive, pipe_global, kernel, user>>

-----------------------------------------------------------------------------
\* do_exit: do_file_exit closes descriptor after descriptor, then the context
\* becomes unused.

do_exit(p) ==
  /\ Running(p)
  /\ kernel' = Loop("exit", p, p, OpenFds(p))
  /\ UNCHANGED <<alive, files, filep, allocated, pipe_per_proc, pipe_global, user>>

do_file_exit ==
  /\ kernel.op = "exit"
  /\ \E d \in Fds :
       /\ IsLowest(d, kernel.todo)
       /\ pipe_close(kernel.proc, files[kernel.proc][d], filep')
       /\ files' = [files EXCEPT ![kernel.proc][d] = NULL]
       /\ kernel' = [kernel EXCEPT !.todo = @ \ {d}]
  /\ UNCHANGED <<alive, pipe_global, user>>

ExitReturn ==
  /\ kernel.op = "exit" /\ kernel.todo = {}
  /\ alive' = alive \ {kernel.proc}
  /\ kernel' = Idle
  /\ UNCHANGED <<files, filep, allocated, pipe_per_proc, pipe_global, user>>

-----------------------------------------------------------------------------
\* do_fork: get_new_ctx takes the first unused context, the descriptor table
\* is copied, then do_file_fork calls a handler per descriptor.  A negative
\* result makes do_fork fail, but the child already is READY and stays.

do_fork(p) ==
  /\ Running(p) /\ WithinBound
  /\ \E c \in Pids :
       /\ IsLowest(c, Pids \ alive)
       /\ alive' = alive \cup {c}
       /\ files' = [files EXCEPT ![c] = files[p]]
       /\ kernel' = Loop("fork", c, p, OpenFds(p))
  /\ UNCHANGED <<filep, allocated, pipe_per_proc, pipe_global, user>>

\* Mutant: the search for a slot the child has already is left out.
ChildSlots_AlwaysFree(x, c) == SlotsOf(x, NoPid)

\* The slot do_pipe_fork gives the child: the one it has already, else a free one.
ChildSlots(x, c) == IF SlotsOf(x, c) # {} THEN SlotsOf(x, c) ELSE SlotsOf(x, NoPid)

\* Mutants: the child starts with both ends open; the two ends are swapped.
InheritedSlot_BothOpen(c, parent) == [pid |-> c, read_open |-> 1, write_open |-> 1]
InheritedSlot_Swapped(c, parent) ==
  [pid |-> c, read_open |-> parent.write_open, write_open |-> parent.read_open]

InheritedSlot(c, parent) ==
  [pid |-> c, read_open |-> parent.read_open, write_open |-> parent.write_open]

do_pipe_fork(x, c, p, ret) ==
  \/ /\ ChildSlots(x, c) = {} \/ SlotsOf(x, p) = {}
     /\ ret = EOTHERS
     /\ UNCHANGED pipe_per_proc
  \/ \E i, j \in Slots :
       /\ IsLowest(i, ChildSlots(x, c)) /\ IsSlotOf(j, x, p)
       /\ ret = 0
       /\ pipe_per_proc' = [pipe_per_proc EXCEPT ![x][i] =
                               InheritedSlot(c, pipe_per_proc[x][j])]

\* One round of the loop; ret_value is overwritten by each descriptor.
do_file_fork ==
  /\ kernel.op = "fork"
  /\ \E d \in Fds, ret \in {0, EOTHERS} :
       LET f == files[kernel.proc][d] IN
       /\ IsLowest(d, kernel.todo)
       /\ filep' = add_ref(filep, f)
       /\ do_pipe_fork(filep[f].pipe, kernel.proc, kernel.parent, ret)
       /\ kernel' = [kernel EXCEPT !.todo = @ \ {d}, !.ret = ret]
  /\ UNCHANGED <<alive, files, allocated, pipe_global, user>>

ForkReturn ==
  /\ kernel.op = "fork" /\ kernel.todo = {}
  /\ kernel' = Idle
  /\ UNCHANGED <<alive, files, filep, allocated, pipe_per_proc, pipe_global, user>>

-----------------------------------------------------------------------------
\* fd_dup and fd_dup2.

fd_dup(p, oldfd) ==
  /\ Running(p) /\ WithinBound
  /\ files[p][oldfd] # NULL
  /\ \E d \in Fds :
       /\ IsLowest(d, FreeFds(p))
       /\ files' = [files EXCEPT ![p][d] = files[p][oldfd]]
  /\ filep' = add_ref(filep, files[p][oldfd])
  /\ UNCHANGED <<alive, allocated, pipe_per_proc, pipe_global, kernel, user>>

\* What newfd held is closed first; the result of its handler is ignored.
fd_dup2(p, oldfd, newfd) ==
  /\ Running(p) /\ WithinBound
  /\ files[p][oldfd] # NULL /\ oldfd # newfd
  /\ files' = [files EXCEPT ![p][newfd] = files[p][oldfd]]
  /\ \/ /\ files[p][newfd] = NULL
        /\ filep' = add_ref(filep, files[p][oldfd])
        /\ UNCHANGED <<allocated, pipe_per_proc>>
     \/ /\ files[p][newfd] # NULL
        /\ \E fs \in {filep, file_close(filep, files[p][newfd])} :
             /\ pipe_close(p, files[p][newfd], fs)
             /\ filep' = add_ref(fs, files[p][oldfd])
  /\ UNCHANGED <<alive, pipe_global, kernel, user>>

-----------------------------------------------------------------------------
Transfer(p) ==
  \E d \in Fds :
    \/ \E mode \in {O_READ, O_WRITE} : Rejected(p, d, mode) \/ BadBuffer(p, d, mode)
    \/ \E count \in 0..MAX_COUNT :
         \/ pipe_read(p, d, count)
         \/ \E data \in [1..MAX_PIPE_SIZE -> Bytes] : pipe_write(p, d, data, count)

KernelLoop == do_file_exit \/ ExitReturn \/ do_file_fork \/ ForkReturn

\* Programs that do not duplicate descriptors, and all programs.
Next ==
  \/ KernelLoop
  \/ \E p \in Pids : \/ create_pipe(p) \/ Transfer(p)
                     \/ do_fork(p) \/ do_exit(p)
                     \/ \E d \in Fds : do_close(p, d)

Duplicate ==
  \E p \in Pids, d \in Fds : fd_dup(p, d) \/ \E e \in Fds : fd_dup2(p, d, e)

Spec == Init /\ [][Next]_vars
SpecDup == Init /\ [][Next \/ Duplicate]_vars
=============================================================================
