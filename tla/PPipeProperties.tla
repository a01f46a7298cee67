-------------------------- MODULE PPipeProperties ---------------------------
(***************************************************************************)
(* What is checked and proved of module PPipe, and the refinement mapping  *)
(* that shows it to implement BroadcastLog.                                *)
(***************************************************************************)
EXTENDS PPipe

PPipeSlot == [pid : Pids \cup {NoPid}, read_open : {0, 1}, write_open : {0, 1},
              read_pos : 0..(MAX_PPIPE_SIZE - 1), bytes_read : 0..MAX_PPIPE_SIZE]

\* Types of the variables.
TypeOK ==
  /\ alive \subseteq Pids
  /\ held \subseteq Pids \X Modes
  /\ ref_count \in [Modes -> Int]
  /\ allocated \in BOOLEAN
  /\ ppipe_per_proc \in [Slots -> PPipeSlot]
  /\ ppipe_global \in [buff : Memory(MAX_PPIPE_SIZE, Bytes), buff_len : 0..MAX_PPIPE_SIZE,
                       buff_start : 0..(MAX_PPIPE_SIZE - 1), buff_end : 0..(MAX_PPIPE_SIZE - 1)]
  /\ exiting \in Pids \cup {NoPid}

\* The kept bytes run from buff_start to buff_end around the buffer, also when
\* it is full and the two coincide.
RingInv ==
  /\ ppipe_global.buff_len \in 0..MAX_PPIPE_SIZE
  /\ ppipe_global.buff_start \in 0..(MAX_PPIPE_SIZE - 1)
  /\ ppipe_global.buff_end =
       Advance(ppipe_global.buff_start, ppipe_global.buff_len, MAX_PPIPE_SIZE)

\* The cursor of slot i is within the kept bytes, and its two forms, read_pos
\* and bytes_read, name the same byte.
CursorInv(i) ==
  /\ ppipe_per_proc[i].bytes_read \in 0..ppipe_global.buff_len
  /\ ppipe_per_proc[i].read_pos =
       Advance(ppipe_global.buff_start, ppipe_per_proc[i].bytes_read, MAX_PPIPE_SIZE)

\* Flushes move buff_start and every open reader's bytes_read, forks copy
\* cursors, and writes pass over old bytes: after any of it each open reader's
\* cursor is right.  In particular ReadLimit is never negative: compared with
\* the unsigned count, a negative limit would let a read take count bytes.
CursorsConsistent == RingInv /\ \A i \in Readers : CursorInv(i)

\* Each end's ref_count is the number of processes with a descriptor for it.
RefCountExact ==
  \A m \in Modes : ref_count[m] = Cardinality({p \in Pids : <<p, m>> \in held})

\* Even when slots run out and forks and closes fail half way, no reference is
\* counted too few.
RefCountCovers ==
  \A m \in Modes : ref_count[m] >= Cardinality({p \in Pids : <<p, m>> \in held})

\* A descriptor's end is open in its process's slot and the other way round,
\* although slots are never freed and are found again by a reused pid.
SlotsMatchDescriptors ==
  /\ \A p \in Pids :
       /\ <<p, O_READ>>  \in held <=> \E i \in Slots : ReadPermitted(p, i)
       /\ <<p, O_WRITE>> \in held <=> \E i \in Slots : WritePermitted(p, i)
  /\ \A i \in Slots :
       LET s == ppipe_per_proc[i] IN
       /\ s.read_open = 1 => <<s.pid, O_READ>> \in held
       /\ s.write_open = 1 => <<s.pid, O_WRITE>> \in held

-----------------------------------------------------------------------------
\* The abstract log: the kept bytes, and the position of each open reader.

Kept == CyclicRead(ppipe_global.buff, ppipe_global.buff_start,
                   ppipe_global.buff_len, MAX_PPIPE_SIZE)

ReaderPids == {ppipe_per_proc[i].pid : i \in Readers}

Log == INSTANCE BroadcastLog WITH
  Procs <- Pids, Byte <- Bytes, Capacity <- MAX_PPIPE_SIZE, MaxCount <- MAX_COUNT,
  log <- Kept,
  cursor <- [p \in ReaderPids |->
               ppipe_per_proc[CHOOSE i \in Readers : ppipe_per_proc[i].pid = p].bytes_read],
  writers <- {ppipe_per_proc[i].pid : i \in {i \in Slots : ppipe_per_proc[i].write_open = 1}},
  moved <- user

\* Every reader of a persistent pipe reads, in order and at its own pace, all
\* bytes written since it, or the ancestor it forked from, began.
ImplementsLog == Log!Spec
=============================================================================
