------------------------------- MODULE PPipe --------------------------------
(***************************************************************************)
(* The persistent pipe of assignment 2 (190547/src/ppipe.c): one cyclic    *)
(* buffer, a read cursor per process, and a flush that reclaims what every *)
(* open reader has read.                                                   *)
(*                                                                         *)
(* One persistent pipe is modelled, and of the descriptor tables only what *)
(* concerns it: `held', the (process, mode) pairs with a descriptor for an *)
(* end (no descriptor is duplicated; module Pipe models the tables).       *)
(* System calls run to completion, so each is one action; do_file_exit     *)
(* closes one end per step and nothing else runs until it is done.         *)
(***************************************************************************)
EXTENDS RingBuffer, FiniteSets, Sequences

CONSTANTS
  MAX_PROCESSES,    \* contexts, the swapper included: 7 in the code
  MAX_PPIPE_PROC,   \* slots: 16 in the code
  MAX_PPIPE_SIZE,   \* bytes: 4096 in the code
  Bytes,            \* values of a byte
  MAX_COUNT,        \* bound on the byte count of a read or write
  MAX_REFS          \* bound on ref_count: beyond it nothing is forked

Pids == 1..(MAX_PROCESSES - 1)
Slots == 0..(MAX_PPIPE_PROC - 1)

ASSUME PPipeAssumption ==
  /\ MAX_PROCESSES \in Nat /\ MAX_PROCESSES >= 2
  /\ MAX_PPIPE_PROC \in Nat
  /\ MAX_PPIPE_SIZE \in Nat \ {0}
  /\ MAX_COUNT \in Nat
  /\ MAX_REFS \in Nat

VARIABLES
  alive,            \* the pids whose context is in use
  held,             \* the ends that are open in some descriptor table
  ref_count,        \* mode -> ref_count of that end's file object
  allocated,        \* whether the ppipe's pages are in use
  ppipe_per_proc,   \* slot -> struct ppipe_info_per_process
  ppipe_global,     \* struct ppipe_info_global
  exiting,          \* the process in do_file_exit, or NoPid
  user               \* the bytes the last transfer moved, as user memory has them

vars == <<alive, held, ref_count, allocated, ppipe_per_proc, ppipe_global, exiting, user>>

O_READ  == 1
O_WRITE == 2
Modes == {O_READ, O_WRITE}
NoPid == -1

FreeSlot == [pid |-> NoPid, read_open |-> 0, write_open |-> 0,
             read_pos |-> 0, bytes_read |-> 0]

IsLowest(i, S) == i \in S /\ \A j \in S : i <= j

\* The slots with pid q; the search loops of ppipe.c find the first.
SlotsOf(q) == {i \in Slots : ppipe_per_proc[i].pid = q}
IsSlotOf(i, q) == IsLowest(i, SlotsOf(q))

Readers == {i \in Slots : ppipe_per_proc[i].read_open = 1}

Running(p) == exiting = NoPid /\ p \in alive

Init ==
  /\ alive = {1}
  /\ held = {}
  /\ ref_count = [m \in Modes |-> 0]
  /\ allocated = FALSE
  /\ ppipe_per_proc = [i \in Slots |-> FreeSlot]
  /\ ppipe_global \in {[buff |-> [j \in 0..(MAX_PPIPE_SIZE - 1) |-> b],
                        buff_len |-> 0, buff_start |-> 0, buff_end |-> 0] : b \in Bytes}
  /\ exiting = NoPid
  /\ user = << >>

-----------------------------------------------------------------------------
create_persistent_pipe(p) ==
  /\ Running(p)
  /\ ~allocated
  /\ allocated' = TRUE
  /\ held' = {p} \X Modes
  /\ ref_count' = [m \in Modes |-> 1]
  /\ ppipe_per_proc' = [i \in Slots |->
       IF i = 0 THEN [FreeSlot EXCEPT !.pid = p, !.read_open = 1, !.write_open = 1]
                ELSE FreeSlot]
  /\ ppipe_global' = [ppipe_global EXCEPT !.buff_len = 0, !.buff_start = 0, !.buff_end = 0]
  /\ UNCHANGED <<alive, exiting, user>>

\* A descriptor for the end, a slot for the process, the end open in it.
ReadPermitted(p, i)  == /\ <<p, O_READ>> \in held
                        /\ IsSlotOf(i, p) /\ ppipe_per_proc[i].read_open = 1
WritePermitted(p, i) == /\ <<p, O_WRITE>> \in held
                        /\ IsSlotOf(i, p) /\ ppipe_per_proc[i].write_open = 1

\* What the process in slot i has not read; compared as unsigned with count.
ReadLimit(i) == ppipe_global.buff_len - ppipe_per_proc[i].bytes_read

ppipe_read(p, count) ==
  /\ Running(p)
  /\ \E i \in Slots :
       LET n == Clamp(ReadLimit(i), count) IN
       /\ ReadPermitted(p, i)
       /\ user' = CyclicRead(ppipe_global.buff, ppipe_per_proc[i].read_pos, n, MAX_PPIPE_SIZE)
       /\ ppipe_per_proc' = [ppipe_per_proc EXCEPT
            ![i].read_pos = Advance(@, n, MAX_PPIPE_SIZE), ![i].bytes_read = @ + n]
  /\ UNCHANGED <<alive, held, ref_count, allocated, ppipe_global, exiting>>

ppipe_write(p, data, count) ==
  /\ Running(p)
  /\ \E i \in Slots : WritePermitted(p, i)
  /\ LET g == ppipe_global
         n == Clamp(MAX_PPIPE_SIZE - g.buff_len, count)
     IN /\ user' = SubSeq(data, 1, n)
        /\ ppipe_global' = [g EXCEPT
             !.buff = CyclicWrite(@, g.buff_end, data, n, MAX_PPIPE_SIZE),
             !.buff_len = @ + n,
             !.buff_end = Advance(@, n, MAX_PPIPE_SIZE)]
  /\ UNCHANGED <<alive, held, ref_count, allocated, ppipe_per_proc, exiting>>

\* r is what flush may reclaim: the fewest bytes any open reader has read, of
\* the bytes there are, and nothing when no process has its read end open.
Reclaimable(r) ==
  IF Readers = {} THEN r = 0
  ELSE IsLowest(r, {ppipe_per_proc[i].bytes_read : i \in Readers} \cup {ppipe_global.buff_len})

\* Mutant: a reader's bytes_read is left as it was.
Reclaimed_KeepsCursor(slot, r) == slot

Reclaimed(slot, r) == [slot EXCEPT !.bytes_read = @ - r]

do_flush_ppipe(p) ==
  /\ Running(p)
  /\ \E m \in Modes : <<p, m>> \in held
  /\ \E r \in 0..MAX_PPIPE_SIZE :
       /\ Reclaimable(r)
       /\ ppipe_global' = [ppipe_global EXCEPT !.buff_len = @ - r,
                             !.buff_start = Advance(@, r, MAX_PPIPE_SIZE)]
       /\ ppipe_per_proc' = [i \in Slots |->
            IF i \in Readers THEN Reclaimed(ppipe_per_proc[i], r) ELSE ppipe_per_proc[i]]
  /\ UNCHANGED <<alive, held, ref_count, allocated, exiting, user>>

-----------------------------------------------------------------------------
\* Mutant: the other end is closed.
ClosedSlot_OtherEnd(slot, m) ==
  IF m = O_WRITE THEN [slot EXCEPT !.read_open = 0] ELSE [slot EXCEPT !.write_open = 0]

\* The slot after the end for mode m is closed.  The statement that should
\* free it, `pid == -1;', is a comparison: the pid stays.
ClosedSlot(slot, m) ==
  IF m = O_READ THEN [slot EXCEPT !.read_open = 0] ELSE [slot EXCEPT !.write_open = 0]

\* Mutant: the reference is not dropped.
file_close_KeepsRef(refs, m) == refs

file_close(refs, m) == [refs EXCEPT ![m] = @ - 1]

\* ppipe_close: without a slot -EOTHERS, before file_close drops the reference.
\* The pages are freed when no slot is taken.
ppipe_close(p, m) ==
  /\ <<p, m>> \in held
  /\ held' = held \ {<<p, m>>}
  /\ \/ SlotsOf(p) = {} /\ UNCHANGED <<ref_count, allocated, ppipe_per_proc>>
     \/ \E i \in Slots :
          /\ IsSlotOf(i, p)
          /\ ppipe_per_proc' = [ppipe_per_proc EXCEPT ![i] = ClosedSlot(@, m)]
          /\ allocated' = (\E j \in Slots : ppipe_per_proc'[j].pid # NoPid)
          /\ ref_count' = file_close(ref_count, m)

do_close(p, m) ==
  /\ Running(p)
  /\ ppipe_close(p, m)
  /\ UNCHANGED <<alive, ppipe_global, exiting, user>>

do_exit(p) ==
  /\ Running(p)
  /\ exiting' = p
  /\ UNCHANGED <<alive, held, ref_count, allocated, ppipe_per_proc, ppipe_global, user>>

do_file_exit ==
  /\ \E m \in Modes : ppipe_close(exiting, m)
  /\ UNCHANGED <<alive, ppipe_global, exiting, user>>

ExitReturn ==
  /\ exiting # NoPid
  /\ \A m \in Modes : <<exiting, m>> \notin held
  /\ alive' = alive \ {exiting}
  /\ exiting' = NoPid
  /\ UNCHANGED <<held, ref_count, allocated, ppipe_per_proc, ppipe_global, user>>

-----------------------------------------------------------------------------
\* do_fork: the child gets its parent's descriptors, and do_ppipe_fork, called
\* for each with the same effect, gives it a slot with its parent's fields:
\* the slot it has already, else a free one.
ChildSlots(c) == IF SlotsOf(c) # {} THEN SlotsOf(c) ELSE SlotsOf(NoPid)

\* Mutant: bytes_read is not copied to the child.
InheritedSlot_NoCursor(c, parent) == [parent EXCEPT !.pid = c, !.bytes_read = 0]

InheritedSlot(c, parent) == [parent EXCEPT !.pid = c]

do_ppipe_fork(c, p) ==
  \/ /\ ChildSlots(c) = {} \/ SlotsOf(p) = {}
     /\ UNCHANGED ppipe_per_proc
  \/ \E i, j \in Slots :
       /\ IsLowest(i, ChildSlots(c)) /\ IsSlotOf(j, p)
       /\ ppipe_per_proc' = [ppipe_per_proc EXCEPT ![i] = InheritedSlot(c, ppipe_per_proc[j])]

\* Mutant: the child's descriptors are not counted.
AddRefs_Missing(refs, S) == refs

\* do_file_fork: one more reference to each file object in S.
AddRefs(refs, S) == [m \in Modes |-> IF m \in S THEN refs[m] + 1 ELSE refs[m]]

do_fork(p) ==
  /\ Running(p) /\ \A m \in Modes : ref_count[m] < MAX_REFS
  /\ \E c \in Pids :
       /\ IsLowest(c, Pids \ alive)
       /\ alive' = alive \cup {c}
       /\ held' = held \cup {<<c, m>> : m \in {m \in Modes : <<p, m>> \in held}}
       /\ ref_count' = AddRefs(ref_count, {m \in Modes : <<p, m>> \in held})
       /\ IF \E m \in Modes : <<p, m>> \in held
            THEN do_ppipe_fork(c, p) ELSE UNCHANGED ppipe_per_proc
  /\ UNCHANGED <<allocated, ppipe_global, exiting, user>>

-----------------------------------------------------------------------------
Next ==
  \/ do_file_exit \/ ExitReturn
  \/ \E p \in Pids :
       \/ create_persistent_pipe(p) \/ do_flush_ppipe(p) \/ do_fork(p) \/ do_exit(p)
       \/ \E m \in Modes : do_close(p, m)
       \/ \E count \in 0..MAX_COUNT :
            \/ ppipe_read(p, count)
            \/ \E data \in [1..MAX_PPIPE_SIZE -> Bytes] : ppipe_write(p, data, count)

Spec == Init /\ [][Next]_vars
=============================================================================
