---------------------------- MODULE PPipe_proofs -----------------------------
(***************************************************************************)
(* Proofs about PPipe for every number of processes and slots and every    *)
(* size of the buffer.                                                     *)
(*                                                                         *)
(* TypeOK is not inductive by itself: that a read stays within the buffer  *)
(* and a flush within the counters rests on the cursors, CursorsConsistent.*)
(* Together the two are (CursorsInv).                                      *)
(*                                                                         *)
(* With enough slots the references are exact, slots and descriptors match *)
(* (SlotsInv), and the pipe implements BroadcastLog (PPipeIsLog).          *)
(***************************************************************************)
EXTENDS PPipeProperties, RingBuffer_proofs, FiniteSetTheorems

Global == [buff : Memory(MAX_PPIPE_SIZE, Bytes), buff_len : 0..MAX_PPIPE_SIZE,
           buff_start : 0..(MAX_PPIPE_SIZE - 1), buff_end : 0..(MAX_PPIPE_SIZE - 1)]

CursorsInv == TypeOK /\ CursorsConsistent

-----------------------------------------------------------------------------
\* The constants.
LEMMA ConstantFacts ==
  /\ MAX_PPIPE_SIZE \in Nat \ {0} /\ MAX_PPIPE_PROC \in Nat
  /\ 1 \in Pids /\ Pids \subseteq Nat /\ NoPid \notin Pids
  /\ Modes = {1, 2} /\ O_READ = 1 /\ O_WRITE = 2
  /\ \A i \in Slots : i \in Nat
  BY PPipeAssumption DEF Pids, Slots, NoPid, Modes, O_READ, O_WRITE

\* Slots stay well formed when an end is closed and when a child inherits them.
LEMMA SlotType ==
  /\ FreeSlot \in PPipeSlot
  /\ \A slot \in PPipeSlot, m \in Modes : ClosedSlot(slot, m) \in PPipeSlot
  /\ \A slot \in PPipeSlot, c \in Pids : InheritedSlot(c, slot) \in PPipeSlot
<1>1. FreeSlot \in PPipeSlot
  BY ConstantFacts DEF PPipeSlot, FreeSlot
<1>2. \A slot \in PPipeSlot, m \in Modes : ClosedSlot(slot, m) \in PPipeSlot
  BY DEF PPipeSlot, ClosedSlot
<1>3. \A slot \in PPipeSlot, c \in Pids : InheritedSlot(c, slot) \in PPipeSlot
  BY DEF PPipeSlot, InheritedSlot
<1> QED BY <1>1, <1>2, <1>3

\* A reader's slot neither moves nor loses its cursor when an end of it is
\* closed, and a child's copy has its parent's.
LEMMA CursorKept ==
  ASSUME NEW slot \in PPipeSlot, NEW c \in Pids, NEW m \in Modes
  PROVE  /\ ClosedSlot(slot, m).read_pos = slot.read_pos
         /\ ClosedSlot(slot, m).bytes_read = slot.bytes_read
         /\ ClosedSlot(slot, m).read_open = 1 => slot.read_open = 1
         /\ InheritedSlot(c, slot).read_pos = slot.read_pos
         /\ InheritedSlot(c, slot).bytes_read = slot.bytes_read
         /\ InheritedSlot(c, slot).read_open = slot.read_open
  BY DEF PPipeSlot, ClosedSlot, InheritedSlot

\* The empty pipe.
LEMMA InitCursors == Init => CursorsInv
<1> SUFFICES ASSUME Init PROVE CursorsInv
  OBVIOUS
<1>1. Advance(0, 0, MAX_PPIPE_SIZE) = 0
  BY ConstantFacts, AdvanceOnce
<1>2. TypeOK
  <2>1. ppipe_global \in Global
    <3> PICK b \in Bytes :
          ppipe_global = [buff |-> [j \in 0..(MAX_PPIPE_SIZE - 1) |-> b],
                          buff_len |-> 0, buff_start |-> 0, buff_end |-> 0]
      BY DEF Init
    <3>1. [j \in 0..(MAX_PPIPE_SIZE - 1) |-> b] \in Memory(MAX_PPIPE_SIZE, Bytes)
      BY DEF Memory
    <3>2. 0 \in 0..(MAX_PPIPE_SIZE - 1) /\ 0 \in 0..MAX_PPIPE_SIZE
      BY ConstantFacts
    <3> QED BY <3>1, <3>2 DEF Global
  <2>2. ppipe_per_proc \in [Slots -> PPipeSlot]
    BY SlotType DEF Init
  <2>3. alive \subseteq Pids /\ held \subseteq Pids \X Modes
        /\ ref_count \in [Modes -> Int] /\ exiting \in Pids \cup {NoPid}
    BY ConstantFacts DEF Init
  <2>4. allocated \in BOOLEAN
    BY DEF Init
  <2> QED BY <2>1, <2>2, <2>3, <2>4 DEF TypeOK, Global
<1>3. CursorsConsistent
  <2>1. RingInv
    BY <1>1, ConstantFacts DEF Init, RingInv
  <2>2. Readers = {}
    BY DEF Init, Readers, FreeSlot
  <2> QED BY <2>1, <2>2 DEF CursorsConsistent
<1> QED BY <1>2, <1>3 DEF CursorsInv

\* What the invariant says of the buffer and of a reader's cursor.
LEMMA CursorFacts ==
  ASSUME CursorsInv
  PROVE  /\ ppipe_global \in Global /\ RingInv
         /\ ppipe_global.buff_len \in 0..MAX_PPIPE_SIZE
         /\ ppipe_global.buff_start \in 0..(MAX_PPIPE_SIZE - 1)
         /\ ppipe_global.buff_end \in 0..(MAX_PPIPE_SIZE - 1)
         /\ ppipe_per_proc \in [Slots -> PPipeSlot]
         /\ \A i \in Slots : ppipe_per_proc[i].read_open = 1 => CursorInv(i)
  BY DEF CursorsInv, TypeOK, CursorsConsistent, Global, Readers, RingInv

-----------------------------------------------------------------------------
\* Steps that leave the buffer alone and whose slots have cursors of slots
\* before the step.
LEMMA SameBuffer ==
  ASSUME CursorsInv, UNCHANGED ppipe_global,
         \A i \in Slots : ppipe_per_proc'[i].read_open = 1 =>
            \E j \in Slots : /\ ppipe_per_proc[j].read_open = 1
                             /\ ppipe_per_proc'[i].read_pos = ppipe_per_proc[j].read_pos
                             /\ ppipe_per_proc'[i].bytes_read = ppipe_per_proc[j].bytes_read
  PROVE  CursorsConsistent'
<1>1. RingInv'
  BY CursorFacts DEF RingInv
<1>2. ASSUME NEW i \in Readers' PROVE CursorInv(i)'
  <2> PICK j \in Slots : /\ ppipe_per_proc[j].read_open = 1
                         /\ ppipe_per_proc'[i].read_pos = ppipe_per_proc[j].read_pos
                         /\ ppipe_per_proc'[i].bytes_read = ppipe_per_proc[j].bytes_read
    BY <1>2 DEF Readers
  <2>1. CursorInv(j)
    BY CursorFacts
  <2> QED BY <2>1 DEF CursorInv
<1> QED BY <1>1, <1>2 DEF CursorsConsistent

\* The first pipe: one slot, at the start of an empty buffer.
LEMMA CreateCursors ==
  ASSUME CursorsInv, NEW p \in Pids, create_persistent_pipe(p)
  PROVE  CursorsInv'
<1> DEFINE first == [FreeSlot EXCEPT !.pid = p, !.read_open = 1, !.write_open = 1]
<1>0. Advance(0, 0, MAX_PPIPE_SIZE) = 0
  BY ConstantFacts, AdvanceOnce
<1>1. /\ ppipe_per_proc' = [i \in Slots |-> IF i = 0 THEN first ELSE FreeSlot]
      /\ ppipe_global' = [ppipe_global EXCEPT !.buff_len = 0, !.buff_start = 0, !.buff_end = 0]
  BY DEF create_persistent_pipe
<1>2. first \in PPipeSlot /\ first.bytes_read = 0 /\ first.read_pos = 0
  <2>1. FreeSlot \in PPipeSlot /\ FreeSlot.bytes_read = 0 /\ FreeSlot.read_pos = 0
    BY SlotType DEF FreeSlot
  <2> QED BY <2>1 DEF PPipeSlot
<1>3. FreeSlot.read_open = 0
  BY DEF FreeSlot
<1> HIDE DEF first
<1>4. ppipe_global' \in Global /\ ppipe_global'.buff_len = 0
      /\ ppipe_global'.buff_start = 0 /\ ppipe_global'.buff_end = 0
  <2>1. ppipe_global \in Global /\ 0 \in 0..(MAX_PPIPE_SIZE - 1) /\ 0 \in 0..MAX_PPIPE_SIZE
    BY CursorFacts, ConstantFacts
  <2> QED BY <1>1, <2>1 DEF Global
<1>5. TypeOK'
  <2>1. ppipe_per_proc' \in [Slots -> PPipeSlot]
    BY <1>1, <1>2, SlotType
  <2>2. held' \subseteq Pids \X Modes /\ ref_count' \in [Modes -> Int] /\ allocated' \in BOOLEAN
    BY DEF create_persistent_pipe
  <2>3. alive' \subseteq Pids /\ exiting' \in Pids \cup {NoPid}
    BY DEF create_persistent_pipe, CursorsInv, TypeOK
  <2> QED BY <1>4, <2>1, <2>2, <2>3 DEF TypeOK, Global
<1>6. CursorsConsistent'
  <2>1. RingInv'
    BY <1>0, <1>4, ConstantFacts DEF RingInv
  <2>2. ASSUME NEW i \in Readers' PROVE CursorInv(i)'
    <3>1. ppipe_per_proc'[i] = first
      BY <1>1, <1>3, <2>2 DEF Readers
    <3> QED BY <1>0, <1>2, <1>4, <3>1 DEF CursorInv
  <2> QED BY <2>1, <2>2 DEF CursorsConsistent
<1> QED BY <1>5, <1>6 DEF CursorsInv

\* A read moves both forms of the reader's cursor by the bytes it takes, at
\* most what it has not read.
LEMMA ReadCursors ==
  ASSUME CursorsInv, NEW p \in Pids, NEW count \in Nat, ppipe_read(p, count)
  PROVE  CursorsInv'
<1> PICK i \in Slots :
      LET n == Clamp(ReadLimit(i), count) IN
      /\ ReadPermitted(p, i)
      /\ ppipe_per_proc' = [ppipe_per_proc EXCEPT
            ![i].read_pos = Advance(@, n, MAX_PPIPE_SIZE), ![i].bytes_read = @ + n]
  BY DEF ppipe_read
<1> DEFINE n == Clamp(ReadLimit(i), count)
           s == ppipe_per_proc[i]
<1>1. s \in PPipeSlot /\ s.read_open = 1 /\ CursorInv(i)
  BY CursorFacts DEF ReadPermitted
<1>2. /\ s.bytes_read \in 0..ppipe_global.buff_len
      /\ s.read_pos = Advance(ppipe_global.buff_start, s.bytes_read, MAX_PPIPE_SIZE)
      /\ s.read_pos \in 0..(MAX_PPIPE_SIZE - 1)
  BY <1>1 DEF CursorInv, PPipeSlot
<1>3. ReadLimit(i) = ppipe_global.buff_len - s.bytes_read /\ ReadLimit(i) \in Nat
  BY <1>2, CursorFacts DEF ReadLimit
<1>4. n \in 0..ReadLimit(i) /\ n \in Nat
  BY <1>3, ClampBounds
<1>5. ppipe_per_proc' = [ppipe_per_proc EXCEPT
        ![i].read_pos = Advance(@, n, MAX_PPIPE_SIZE), ![i].bytes_read = @ + n]
  OBVIOUS
<1> HIDE DEF n, s
<1>6. /\ n \in 0..MAX_PPIPE_SIZE /\ s.bytes_read \in 0..MAX_PPIPE_SIZE
      /\ s.bytes_read + n \in 0..ppipe_global.buff_len
      /\ s.bytes_read + n \in 0..MAX_PPIPE_SIZE
  BY <1>2, <1>3, <1>4, CursorFacts, ConstantFacts
<1>7. Advance(s.read_pos, n, MAX_PPIPE_SIZE)
        = Advance(ppipe_global.buff_start, s.bytes_read + n, MAX_PPIPE_SIZE)
  BY <1>2, <1>6, CursorFacts, ConstantFacts, AdvanceTwice
<1>8. Advance(s.read_pos, n, MAX_PPIPE_SIZE) \in 0..(MAX_PPIPE_SIZE - 1)
  BY <1>2, <1>4, ConstantFacts, AdvanceType
<1>9. /\ ppipe_per_proc' \in [Slots -> PPipeSlot]
      /\ ppipe_per_proc'[i].read_pos = Advance(s.read_pos, n, MAX_PPIPE_SIZE)
      /\ ppipe_per_proc'[i].bytes_read = s.bytes_read + n
      /\ \A j \in Slots \ {i} : ppipe_per_proc'[j] = ppipe_per_proc[j]
  <2>1. ppipe_per_proc' = [ppipe_per_proc EXCEPT ![i] =
          [s EXCEPT !.read_pos = Advance(s.read_pos, n, MAX_PPIPE_SIZE),
                    !.bytes_read = s.bytes_read + n]]
    BY <1>5, CursorFacts DEF s
  <2>2. [s EXCEPT !.read_pos = Advance(s.read_pos, n, MAX_PPIPE_SIZE),
                  !.bytes_read = s.bytes_read + n] \in PPipeSlot
    BY <1>1, <1>6, <1>8 DEF PPipeSlot
  <2> QED BY <1>1, <2>1, <2>2, CursorFacts DEF PPipeSlot
<1>10. TypeOK'
  BY <1>9 DEF ppipe_read, CursorsInv, TypeOK
<1>11. CursorsConsistent'
  <2>1. RingInv' /\ UNCHANGED ppipe_global
    BY CursorFacts DEF RingInv, ppipe_read
  <2>2. ASSUME NEW j \in Readers' PROVE CursorInv(j)'
    <3>1. CASE j = i
      BY <1>6, <1>7, <1>9, <2>1, <3>1 DEF CursorInv
    <3>2. CASE j # i
      BY <1>9, <2>1, <2>2, <3>2, CursorFacts DEF CursorInv, Readers
    <3> QED BY <3>1, <3>2
  <2> QED BY <2>1, <2>2 DEF CursorsConsistent
<1> QED BY <1>10, <1>11 DEF CursorsInv

\* A write adds to the end of the buffer at most the bytes that fit; the
\* cursors stay where they are.
LEMMA WriteCursors ==
  ASSUME CursorsInv, NEW p \in Pids, NEW count \in Nat,
         NEW data \in [1..MAX_PPIPE_SIZE -> Bytes], ppipe_write(p, data, count)
  PROVE  CursorsInv'
<1> DEFINE g == ppipe_global
           n == Clamp(MAX_PPIPE_SIZE - g.buff_len, count)
<1>1. g \in Global /\ g.buff_len \in 0..MAX_PPIPE_SIZE /\ g.buff_end \in 0..(MAX_PPIPE_SIZE - 1)
      /\ g.buff_start \in 0..(MAX_PPIPE_SIZE - 1) /\ g.buff \in Memory(MAX_PPIPE_SIZE, Bytes)
  BY CursorFacts DEF Global
<1>2. g.buff_end = Advance(g.buff_start, g.buff_len, MAX_PPIPE_SIZE)
  BY CursorFacts DEF RingInv
<1>3. n \in 0..(MAX_PPIPE_SIZE - g.buff_len) /\ n \in Nat
  <2>1. MAX_PPIPE_SIZE - g.buff_len \in Nat
    BY <1>1, ConstantFacts
  <2> QED BY <2>1, ClampBounds
<1>4. /\ g' = [g EXCEPT !.buff = CyclicWrite(@, g.buff_end, data, n, MAX_PPIPE_SIZE),
                        !.buff_len = @ + n, !.buff_end = Advance(@, n, MAX_PPIPE_SIZE)]
      /\ UNCHANGED <<alive, held, ref_count, allocated, ppipe_per_proc, exiting>>
  BY DEF ppipe_write
<1> HIDE DEF n
<1>5. n \in 0..MAX_PPIPE_SIZE /\ g.buff_len + n \in 0..MAX_PPIPE_SIZE
  BY <1>1, <1>3, ConstantFacts
<1>6. Advance(g.buff_end, n, MAX_PPIPE_SIZE) \in 0..(MAX_PPIPE_SIZE - 1)
  <2>1. g.buff_end \in Nat /\ n \in Nat /\ MAX_PPIPE_SIZE \in Nat \ {0}
    BY <1>1, <1>3, ConstantFacts
  <2> QED BY <2>1, AdvanceType
<1>7. Advance(g.buff_end, n, MAX_PPIPE_SIZE) = Advance(g.buff_start, g.buff_len + n, MAX_PPIPE_SIZE)
  BY <1>1, <1>2, <1>5, ConstantFacts, AdvanceTwice
<1>8. CyclicWrite(g.buff, g.buff_end, data, n, MAX_PPIPE_SIZE) \in Memory(MAX_PPIPE_SIZE, Bytes)
  BY <1>1, <1>5, ConstantFacts, CyclicWriteType
<1>9. /\ g' \in Global /\ g'.buff_len = g.buff_len + n /\ g'.buff_start = g.buff_start
      /\ g'.buff_end = Advance(g.buff_end, n, MAX_PPIPE_SIZE)
  BY <1>1, <1>4, <1>5, <1>6, <1>8 DEF Global
<1>10. TypeOK'
  BY <1>4, <1>9 DEF Global, CursorsInv, TypeOK
<1>11. CursorsConsistent'
  <2>1. RingInv'
    BY <1>1, <1>5, <1>7, <1>9 DEF RingInv
  <2>2. ASSUME NEW i \in Readers' PROVE CursorInv(i)'
    <3>1. i \in Slots /\ ppipe_per_proc[i].read_open = 1
      BY <1>4, <2>2 DEF Readers
    <3>2. CursorInv(i)
      BY <3>1, CursorFacts
    <3> QED BY <1>1, <1>3, <1>4, <1>9, <3>2 DEF CursorInv
  <2> QED BY <2>1, <2>2 DEF CursorsConsistent
<1> QED BY <1>10, <1>11 DEF CursorsInv

\* A flush moves the start of the buffer forward by what every open reader has
\* read, and takes the same number from each reader's bytes_read: no cursor
\* moves in the memory, and none becomes negative.
LEMMA FlushCursors ==
  ASSUME CursorsInv, NEW p \in Pids, do_flush_ppipe(p)
  PROVE  CursorsInv'
<1> DEFINE g == ppipe_global
<1> PICK r \in 0..MAX_PPIPE_SIZE :
      /\ Reclaimable(r)
      /\ g' = [g EXCEPT !.buff_len = @ - r, !.buff_start = Advance(@, r, MAX_PPIPE_SIZE)]
      /\ ppipe_per_proc' = [i \in Slots |->
            IF i \in Readers THEN Reclaimed(ppipe_per_proc[i], r) ELSE ppipe_per_proc[i]]
  BY DEF do_flush_ppipe
<1>1. g \in Global /\ g.buff_len \in 0..MAX_PPIPE_SIZE
      /\ g.buff_start \in 0..(MAX_PPIPE_SIZE - 1) /\ g.buff_end \in 0..(MAX_PPIPE_SIZE - 1)
  BY CursorFacts
<1>2. g.buff_end = Advance(g.buff_start, g.buff_len, MAX_PPIPE_SIZE)
  BY CursorFacts DEF RingInv
<1>3. r <= g.buff_len /\ \A i \in Readers : r <= ppipe_per_proc[i].bytes_read
  <2>1. CASE Readers = {}
    BY <1>1, <2>1 DEF Reclaimable
  <2>2. CASE Readers # {}
    BY <2>2 DEF Reclaimable, IsLowest
  <2> QED BY <2>1, <2>2
<1>4. /\ g.buff_len - r \in 0..MAX_PPIPE_SIZE
      /\ Advance(g.buff_start, r, MAX_PPIPE_SIZE) \in 0..(MAX_PPIPE_SIZE - 1)
  BY <1>1, <1>3, ConstantFacts, AdvanceType
<1>5. /\ g' \in Global /\ g'.buff_len = g.buff_len - r /\ g'.buff_end = g.buff_end
      /\ g'.buff_start = Advance(g.buff_start, r, MAX_PPIPE_SIZE)
  BY <1>1, <1>4 DEF Global
<1>6. ASSUME NEW k \in r..MAX_PPIPE_SIZE
      PROVE  Advance(g'.buff_start, k - r, MAX_PPIPE_SIZE) = Advance(g.buff_start, k, MAX_PPIPE_SIZE)
  <2>1. k - r \in 0..MAX_PPIPE_SIZE /\ r + (k - r) = k /\ r + (k - r) \in 0..MAX_PPIPE_SIZE
    BY ConstantFacts
  <2> QED BY <1>1, <1>5, <2>1, ConstantFacts, AdvanceTwice
<1>7. ASSUME NEW i \in Readers
      PROVE  /\ ppipe_per_proc'[i] \in PPipeSlot
             /\ ppipe_per_proc'[i].bytes_read = ppipe_per_proc[i].bytes_read - r
             /\ ppipe_per_proc'[i].read_pos = ppipe_per_proc[i].read_pos
  <2>1. i \in Slots /\ ppipe_per_proc[i] \in PPipeSlot /\ ppipe_per_proc[i].bytes_read - r \in 0..MAX_PPIPE_SIZE
    BY <1>3, CursorFacts, ConstantFacts DEF Readers, PPipeSlot
  <2>2. ppipe_per_proc'[i] = [ppipe_per_proc[i] EXCEPT !.bytes_read = ppipe_per_proc[i].bytes_read - r]
    BY <2>1 DEF Reclaimed
  <2> QED BY <2>1, <2>2 DEF PPipeSlot
<1>8. TypeOK'
  <2>1. ASSUME NEW i \in Slots PROVE ppipe_per_proc'[i] \in PPipeSlot
    BY <1>7, CursorFacts
  <2>2. ppipe_per_proc' \in [Slots -> PPipeSlot]
    BY <2>1
  <2> QED BY <1>5, <2>2 DEF Global, CursorsInv, TypeOK, do_flush_ppipe
<1>9. CursorsConsistent'
  <2>1. RingInv'
    <3>1. g.buff_len \in r..MAX_PPIPE_SIZE
      BY <1>1, <1>3, ConstantFacts
    <3> QED BY <1>2, <1>4, <1>5, <1>6, <3>1 DEF RingInv
  <2>2. ASSUME NEW i \in Readers' PROVE CursorInv(i)'
    <3>1. i \in Readers
      BY <1>7, <2>2 DEF Readers
    <3>2. CursorInv(i) /\ r <= ppipe_per_proc[i].bytes_read
      BY <1>3, <3>1, CursorFacts DEF Readers
    <3>3. ppipe_per_proc[i].bytes_read \in r..MAX_PPIPE_SIZE
          /\ ppipe_per_proc[i].bytes_read - r \in 0..(g.buff_len - r)
      BY <1>1, <3>2, ConstantFacts DEF CursorInv
    <3> QED BY <1>5, <1>6, <1>7, <3>1, <3>2, <3>3 DEF CursorInv
  <2> QED BY <2>1, <2>2 DEF CursorsConsistent
<1> QED BY <1>8, <1>9 DEF CursorsInv

\* Closing an end takes a reader away or leaves the cursors alone.
LEMMA CloseCursors ==
  ASSUME CursorsInv, NEW p \in Pids \cup {NoPid}, NEW m \in Modes, ppipe_close(p, m),
         UNCHANGED ppipe_global, alive' \subseteq Pids, exiting' \in Pids \cup {NoPid}
  PROVE  CursorsInv'
<1>1. /\ held' \subseteq Pids \X Modes
      /\ ref_count' \in [Modes -> Int]
      /\ allocated' \in BOOLEAN
  <2>1. held' \subseteq Pids \X Modes
    BY DEF ppipe_close, CursorsInv, TypeOK
  <2>2. ref_count' \in [Modes -> Int]
    <3>1. ref_count' = ref_count \/ ref_count' = [ref_count EXCEPT ![m] = @ - 1]
      BY DEF ppipe_close, file_close
    <3>2. ref_count \in [Modes -> Int]
      BY DEF CursorsInv, TypeOK
    <3> QED BY <3>1, <3>2
  <2>3. allocated' = allocated \/ allocated' = (\E j \in Slots : ppipe_per_proc'[j].pid # NoPid)
    BY DEF ppipe_close
  <2>4. allocated \in BOOLEAN
    BY DEF CursorsInv, TypeOK
  <2>5. allocated' \in BOOLEAN
    BY <2>3, <2>4
  <2> QED BY <2>1, <2>2, <2>5
<1>2. \/ UNCHANGED ppipe_per_proc
      \/ \E i \in Slots : ppipe_per_proc' = [ppipe_per_proc EXCEPT ![i] = ClosedSlot(@, m)]
  BY DEF ppipe_close
<1>3. ppipe_per_proc' \in [Slots -> PPipeSlot]
  BY <1>2, CursorFacts, SlotType
<1>4. ASSUME NEW i \in Slots, ppipe_per_proc'[i].read_open = 1
      PROVE  /\ ppipe_per_proc[i].read_open = 1
             /\ ppipe_per_proc'[i].read_pos = ppipe_per_proc[i].read_pos
             /\ ppipe_per_proc'[i].bytes_read = ppipe_per_proc[i].bytes_read
  <2>1. ppipe_per_proc[i] \in PPipeSlot /\ 1 \in Pids
    BY CursorFacts, ConstantFacts
  <2>2. ppipe_per_proc'[i] \in {ppipe_per_proc[i], ClosedSlot(ppipe_per_proc[i], m)}
    BY <1>2, CursorFacts
  <2> QED BY <1>4, <2>1, <2>2, CursorKept
<1>5. CursorsConsistent'
  BY <1>4, SameBuffer
<1>6. TypeOK'
  BY <1>1, <1>3 DEF CursorsInv, TypeOK
<1> QED BY <1>5, <1>6 DEF CursorsInv

\* The child of a reader starts where its parent is.
LEMMA ForkCursors ==
  ASSUME CursorsInv, NEW p \in Pids, do_fork(p)
  PROVE  CursorsInv'
<1> PICK c \in Pids :
      /\ alive' = alive \cup {c}
      /\ held' = held \cup {<<c, m>> : m \in {m \in Modes : <<p, m>> \in held}}
      /\ ref_count' = AddRefs(ref_count, {m \in Modes : <<p, m>> \in held})
      /\ do_ppipe_fork(c, p) \/ UNCHANGED ppipe_per_proc
      /\ UNCHANGED <<allocated, ppipe_global, exiting>>
  BY DEF do_fork, IsLowest
<1>1. /\ alive' \subseteq Pids /\ held' \subseteq Pids \X Modes
      /\ ref_count' \in [Modes -> Int] /\ exiting' \in Pids \cup {NoPid}
  <2>1. /\ alive \subseteq Pids /\ held \subseteq Pids \X Modes
        /\ ref_count \in [Modes -> Int] /\ exiting \in Pids \cup {NoPid}
    BY DEF CursorsInv, TypeOK
  <2>2. ref_count' \in [Modes -> Int]
    BY <2>1 DEF AddRefs
  <2>3. held' \subseteq Pids \X Modes
    <3>1. \A m \in Modes : <<c, m>> \in Pids \X Modes
      OBVIOUS
    <3> QED BY <2>1, <3>1
  <2> QED BY <2>1, <2>2, <2>3
<1>2. \/ UNCHANGED ppipe_per_proc
      \/ \E i, j \in Slots : ppipe_per_proc' =
             [ppipe_per_proc EXCEPT ![i] = InheritedSlot(c, ppipe_per_proc[j])]
  BY DEF do_ppipe_fork
<1>3. ppipe_per_proc' \in [Slots -> PPipeSlot]
  BY <1>2, CursorFacts, SlotType
<1>4. ASSUME NEW i \in Slots, ppipe_per_proc'[i].read_open = 1
      PROVE  \E j \in Slots : /\ ppipe_per_proc[j].read_open = 1
                              /\ ppipe_per_proc'[i].read_pos = ppipe_per_proc[j].read_pos
                              /\ ppipe_per_proc'[i].bytes_read = ppipe_per_proc[j].bytes_read
  <2>1. CASE ppipe_per_proc'[i] = ppipe_per_proc[i]
    BY <1>4, <2>1
  <2>2. ASSUME NEW j \in Slots, ppipe_per_proc'[i] = InheritedSlot(c, ppipe_per_proc[j])
        PROVE  /\ ppipe_per_proc[j].read_open = 1
               /\ ppipe_per_proc'[i].read_pos = ppipe_per_proc[j].read_pos
               /\ ppipe_per_proc'[i].bytes_read = ppipe_per_proc[j].bytes_read
    <3>1. ppipe_per_proc[j] \in PPipeSlot /\ 1 \in Modes
      BY CursorFacts, ConstantFacts
    <3> QED BY <1>4, <2>2, <3>1, CursorKept
  <2>3. \/ ppipe_per_proc'[i] = ppipe_per_proc[i]
        \/ \E j \in Slots : ppipe_per_proc'[i] = InheritedSlot(c, ppipe_per_proc[j])
    BY <1>2, CursorFacts
  <2> QED BY <2>1, <2>2, <2>3
<1>5. CursorsConsistent'
  BY <1>4, SameBuffer
<1>6. TypeOK'
  BY <1>1, <1>3 DEF CursorsInv, TypeOK
<1> QED BY <1>5, <1>6 DEF CursorsInv

\* Beginning and end of an exit do not touch the pipe.
LEMMA ExitCursors ==
  ASSUME CursorsInv,
         UNCHANGED <<held, ref_count, allocated, ppipe_per_proc, ppipe_global>>,
         alive' \subseteq Pids, exiting' \in Pids \cup {NoPid}
  PROVE  CursorsInv'
<1>1. TypeOK'
  BY DEF CursorsInv, TypeOK
<1>2. CursorsConsistent'
  BY DEF CursorsInv, CursorsConsistent, RingInv, CursorInv, Readers
<1> QED BY <1>1, <1>2 DEF CursorsInv

LEMMA NextCursors == CursorsInv /\ [Next]_vars => CursorsInv'
<1> SUFFICES ASSUME CursorsInv, [Next]_vars PROVE CursorsInv'
  OBVIOUS
<1>1. alive \subseteq Pids /\ exiting \in Pids \cup {NoPid}
  BY DEF CursorsInv, TypeOK
<1>2. CASE do_file_exit
  <2> PICK m \in Modes : ppipe_close(exiting, m)
    BY <1>2 DEF do_file_exit
  <2>1. UNCHANGED <<alive, ppipe_global, exiting>>
    BY <1>2 DEF do_file_exit
  <2> QED BY <1>1, <2>1, CloseCursors
<1>3. CASE ExitReturn
  BY <1>1, <1>3, ExitCursors DEF ExitReturn
<1>4. ASSUME NEW p \in Pids, create_persistent_pipe(p) PROVE CursorsInv'
  BY <1>4, CreateCursors
<1>5. ASSUME NEW p \in Pids, do_flush_ppipe(p) PROVE CursorsInv'
  BY <1>5, FlushCursors
<1>6. ASSUME NEW p \in Pids, do_fork(p) PROVE CursorsInv'
  BY <1>6, ForkCursors
<1>7. ASSUME NEW p \in Pids, do_exit(p) PROVE CursorsInv'
  BY <1>1, <1>7, ExitCursors DEF do_exit
<1>8. ASSUME NEW p \in Pids, NEW m \in Modes, do_close(p, m) PROVE CursorsInv'
  BY <1>1, <1>8, CloseCursors DEF do_close
<1>9. ASSUME NEW p \in Pids, NEW count \in 0..MAX_COUNT, ppipe_read(p, count) PROVE CursorsInv'
  BY <1>9, ReadCursors, PPipeAssumption
<1>10. ASSUME NEW p \in Pids, NEW count \in 0..MAX_COUNT,
              NEW data \in [1..MAX_PPIPE_SIZE -> Bytes], ppipe_write(p, data, count)
       PROVE  CursorsInv'
  BY <1>10, WriteCursors, PPipeAssumption
<1>11. CASE UNCHANGED vars
  BY <1>1, <1>11, ExitCursors DEF vars
<1> QED BY <1>2, <1>3, <1>4, <1>5, <1>6, <1>7, <1>8, <1>9, <1>10, <1>11 DEF Next

LEMMA CursorsInvariant == Spec => []CursorsInv
  BY InitCursors, NextCursors, PTL DEF Spec

\* Positions, counts and tables of a persistent pipe stay in range, for every
\* buffer size and number of processes and slots.
THEOREM PPipeTypeCorrect == Spec => []TypeOK
<1>1. CursorsInv => TypeOK
  BY DEF CursorsInv
<1> QED BY <1>1, CursorsInvariant, PTL

\* After reads, writes that wrap around, flushes, forks, closes and exits in any
\* order, each open reader's two cursors name the same byte of the kept ones.
THEOREM CursorsCorrect == Spec => []CursorsConsistent
<1>1. CursorsInv => CursorsConsistent
  BY DEF CursorsInv
<1> QED BY <1>1, CursorsInvariant, PTL

-----------------------------------------------------------------------------
(***************************************************************************)
(* References, descriptors and slots.  Whatever fails half way, no         *)
(* reference is counted too few (RefCountCovers).  If there are at least   *)
(* as many slots as processes, as in ppipe.h and context.h, nothing fails: *)
(* the counts are exact and each process's descriptors are the open ends   *)
(* of its one slot (SlotsInv).                                             *)
(***************************************************************************)

Holders(m) == {p \in Pids : <<p, m>> \in held}

-----------------------------------------------------------------------------
\* Counting processes.
LEMMA HoldersCount ==
  ASSUME NEW m
  PROVE  /\ Cardinality(Holders(m)) \in Nat /\ Cardinality(Holders(m)') \in Nat
         /\ Holders(m) = {} => Cardinality(Holders(m)) = 0
         /\ Holders(m)' \subseteq Holders(m) => Cardinality(Holders(m)') <= Cardinality(Holders(m))
         /\ \A p : Holders(m)' = {p} => Cardinality(Holders(m)') = 1
         /\ \A p : Holders(m)' = Holders(m) \cup {p} =>
              Cardinality(Holders(m)') = IF p \in Holders(m) THEN Cardinality(Holders(m))
                                                             ELSE Cardinality(Holders(m)) + 1
         /\ \A p \in Holders(m) : Holders(m)' = Holders(m) \ {p} =>
              Cardinality(Holders(m)') = Cardinality(Holders(m)) - 1
<1>1. IsFiniteSet(Pids)
  BY PPipeAssumption, FS_Interval DEF Pids
<1>2. IsFiniteSet(Holders(m)) /\ IsFiniteSet(Holders(m)')
  <2>1. Holders(m) \subseteq Pids /\ Holders(m)' \subseteq Pids
    BY DEF Holders
  <2> QED BY <1>1, <2>1, FS_Subset
<1>3. Cardinality(Holders(m)) \in Nat /\ Cardinality(Holders(m)') \in Nat
  BY <1>2, FS_CardinalityType
<1>4. Holders(m) = {} => Cardinality(Holders(m)) = 0
  BY <1>2, FS_EmptySet
<1>5. Holders(m)' \subseteq Holders(m) => Cardinality(Holders(m)') <= Cardinality(Holders(m))
  BY <1>2, FS_Subset
<1>6. \A p : Holders(m)' = {p} => Cardinality(Holders(m)') = 1
  BY FS_Singleton
<1>7. ASSUME NEW p, Holders(m)' = Holders(m) \cup {p}
      PROVE  Cardinality(Holders(m)') = IF p \in Holders(m) THEN Cardinality(Holders(m))
                                                            ELSE Cardinality(Holders(m)) + 1
  BY <1>2, <1>7, FS_AddElement
<1>8. ASSUME NEW p \in Holders(m), Holders(m)' = Holders(m) \ {p}
      PROVE  Cardinality(Holders(m)') = Cardinality(Holders(m)) - 1
  BY <1>2, <1>8, FS_RemoveElement
<1> QED BY <1>3, <1>4, <1>5, <1>6, <1>7, <1>8

\* The ends held after a fork and after a close.
LEMMA HoldersAfter ==
  ASSUME TypeOK, NEW p \in Pids, NEW m \in Modes
  PROVE  /\ \A c \in Pids :
              held' = held \cup {<<c, k>> : k \in {k \in Modes : <<p, k>> \in held}} =>
                Holders(m)' = IF <<p, m>> \in held THEN Holders(m) \cup {c} ELSE Holders(m)
         /\ \A k \in Modes :
              held' = held \ {<<p, k>>} =>
                Holders(m)' = IF k = m THEN Holders(m) \ {p} ELSE Holders(m)
  BY DEF Holders, TypeOK

-----------------------------------------------------------------------------
CoversInv == TypeOK /\ RefCountCovers

\* A close drops at most the reference of the descriptor it clears.
LEMMA CloseCovers ==
  ASSUME CoversInv, NEW p, NEW m \in Modes, ppipe_close(p, m)
  PROVE  RefCountCovers'
<1> SUFFICES ASSUME NEW k \in Modes
             PROVE  ref_count'[k] >= Cardinality(Holders(k)')
  BY DEF RefCountCovers, Holders
<1>1. p \in Pids /\ <<p, m>> \in held /\ held' = held \ {<<p, m>>}
  BY DEF ppipe_close, CoversInv, TypeOK
<1>2. ref_count[k] \in Int /\ ref_count[k] >= Cardinality(Holders(k))
  BY DEF CoversInv, RefCountCovers, TypeOK, Holders
<1>3. ref_count'[k] = ref_count[k] \/ (k = m /\ ref_count'[k] = ref_count[k] - 1)
  <2>1. ref_count' = ref_count \/ ref_count' = [ref_count EXCEPT ![m] = @ - 1]
    BY DEF ppipe_close, file_close
  <2>2. ref_count \in [Modes -> Int]
    BY DEF CoversInv, TypeOK
  <2>3. [ref_count EXCEPT ![m] = @ - 1][k] = IF k = m THEN ref_count[k] - 1 ELSE ref_count[k]
    BY <2>2
  <2>4. CASE ref_count' = ref_count
    BY <2>4
  <2>5. CASE ref_count' = [ref_count EXCEPT ![m] = @ - 1]
    BY <2>3, <2>5
  <2> QED BY <2>1, <2>4, <2>5
<1>4. CASE k = m
  <2>1. p \in Holders(k) /\ Holders(k)' = Holders(k) \ {p}
    BY <1>1, <1>4, HoldersAfter DEF CoversInv, Holders
  <2>2. Cardinality(Holders(k)') = Cardinality(Holders(k)) - 1
    BY <2>1, HoldersCount
  <2> QED BY <1>2, <1>3, <2>2, HoldersCount
<1>5. CASE k # m
  <2>1. Holders(k)' = Holders(k)
    BY <1>1, <1>5, HoldersAfter DEF CoversInv
  <2> QED BY <1>2, <1>3, <1>5, <2>1, HoldersCount
<1> QED BY <1>4, <1>5

\* A fork counts a reference for each descriptor of the child, whether or not
\* the child gets a slot.
LEMMA ForkCovers ==
  ASSUME CoversInv, NEW p \in Pids, do_fork(p)
  PROVE  RefCountCovers'
<1> SUFFICES ASSUME NEW k \in Modes
             PROVE  ref_count'[k] >= Cardinality(Holders(k)')
  BY DEF RefCountCovers, Holders
<1> PICK c \in Pids :
      /\ held' = held \cup {<<c, m>> : m \in {m \in Modes : <<p, m>> \in held}}
      /\ ref_count' = AddRefs(ref_count, {m \in Modes : <<p, m>> \in held})
  BY DEF do_fork
<1>1. ref_count[k] \in Int /\ ref_count[k] >= Cardinality(Holders(k))
  BY DEF CoversInv, RefCountCovers, TypeOK, Holders
<1>2. ref_count'[k] = IF <<p, k>> \in held THEN ref_count[k] + 1 ELSE ref_count[k]
  BY DEF AddRefs
<1>3. Holders(k)' = IF <<p, k>> \in held THEN Holders(k) \cup {c} ELSE Holders(k)
  BY HoldersAfter DEF CoversInv
<1>4. CASE <<p, k>> \in held
  <2>1. Cardinality(Holders(k)') = IF c \in Holders(k) THEN Cardinality(Holders(k))
                                                       ELSE Cardinality(Holders(k)) + 1
    BY <1>3, <1>4, HoldersCount
  <2> QED BY <1>1, <1>2, <1>4, <2>1, HoldersCount
<1>5. CASE <<p, k>> \notin held
  BY <1>1, <1>2, <1>3, <1>5
<1> QED BY <1>4, <1>5

LEMMA NextCovers == CursorsInv /\ RefCountCovers /\ [Next]_vars => RefCountCovers'
<1> SUFFICES ASSUME CoversInv, [Next]_vars PROVE RefCountCovers'
  BY DEF CoversInv, CursorsInv
<1>1. ASSUME UNCHANGED <<held, ref_count>> PROVE RefCountCovers'
  BY <1>1 DEF CoversInv, RefCountCovers
<1>2. ASSUME NEW p \in Pids, create_persistent_pipe(p) PROVE RefCountCovers'
  <2> SUFFICES ASSUME NEW k \in Modes PROVE ref_count'[k] >= Cardinality(Holders(k)')
    BY DEF RefCountCovers, Holders
  <2>1. Holders(k)' = {p} /\ ref_count'[k] = 1
    BY <1>2 DEF create_persistent_pipe, Holders
  <2>2. Cardinality(Holders(k)') = 1
    BY <2>1, HoldersCount
  <2> QED BY <2>1, <2>2
<1>3. ASSUME NEW p \in Pids, do_fork(p) PROVE RefCountCovers'
  BY <1>3, ForkCovers
<1>4. ASSUME NEW p, NEW m \in Modes, ppipe_close(p, m) PROVE RefCountCovers'
  BY <1>4, CloseCovers
<1>5. CASE do_file_exit
  BY <1>4, <1>5 DEF do_file_exit
<1>6. ASSUME NEW p \in Pids, NEW m \in Modes, do_close(p, m) PROVE RefCountCovers'
  BY <1>4, <1>6 DEF do_close
<1>7. CASE \/ ExitReturn \/ UNCHANGED vars
           \/ \E p \in Pids : do_flush_ppipe(p) \/ do_exit(p)
           \/ \E p \in Pids, count \in 0..MAX_COUNT :
                 \/ ppipe_read(p, count)
                 \/ \E data \in [1..MAX_PPIPE_SIZE -> Bytes] : ppipe_write(p, data, count)
  <2>1. UNCHANGED <<held, ref_count>>
    BY <1>7 DEF ExitReturn, vars, do_flush_ppipe, do_exit, ppipe_read, ppipe_write
  <2> QED BY <1>1, <2>1
<1> QED BY <1>2, <1>3, <1>5, <1>6, <1>7 DEF Next

\* With any number of slots, also when forks and closes fail half way, each end
\* has at least as many references as processes with a descriptor for it.
THEOREM PPipeRefCountNeverShort == Spec => []RefCountCovers
<1>1. Init => RefCountCovers
  <2> SUFFICES ASSUME Init, NEW k \in Modes PROVE ref_count[k] >= Cardinality(Holders(k))
    BY DEF RefCountCovers, Holders
  <2>1. ref_count[k] = 0 /\ Holders(k) = {}
    BY DEF Init, Holders
  <2>2. Cardinality(Holders(k)) = 0
    BY <2>1, FS_EmptySet
  <2> QED BY <2>1, <2>2
<1> QED BY <1>1, InitCursors, NextCursors, NextCovers, PTL DEF Spec

-----------------------------------------------------------------------------
\* Enough slots: what MAX_PPIPE_PROC and MAX_PROCESSES of the code satisfy.
EnoughSlots == MAX_PPIPE_PROC >= MAX_PROCESSES - 1

EndOpen(slot, m) == IF m = O_READ THEN slot.read_open = 1 ELSE slot.write_open = 1

\* A process has one slot at most, its open ends are its descriptors, and only
\* living processes have any: the next process with the pid starts without.
SlotsInv ==
  /\ \A i, j \in Slots :
       ppipe_per_proc[i].pid = ppipe_per_proc[j].pid /\ ppipe_per_proc[i].pid # NoPid => i = j
  /\ \A p \in Pids, m \in Modes : <<p, m>> \in held =>
       \E i \in Slots : ppipe_per_proc[i].pid = p /\ EndOpen(ppipe_per_proc[i], m)
  /\ \A i \in Slots, m \in Modes :
       EndOpen(ppipe_per_proc[i], m) => <<ppipe_per_proc[i].pid, m>> \in held
  /\ \A p \in Pids, m \in Modes : <<p, m>> \in held => p \in alive
  /\ RefCountExact

Inv == TypeOK /\ SlotsInv

\* The slot of a process is the only one with its pid.
LEMMA SlotUnique ==
  ASSUME Inv, NEW p \in Pids, NEW i \in Slots, ppipe_per_proc[i].pid = p
  PROVE  IsSlotOf(i, p) /\ SlotsOf(p) = {i}
<1>1. SlotsOf(p) = {i}
  BY ConstantFacts DEF SlotsOf, Inv, SlotsInv
<1>2. i <= i
  BY ConstantFacts
<1> QED BY <1>1, <1>2 DEF IsSlotOf, IsLowest

\* Some slot is free, or the process has one already: there are no more other
\* processes than slots but one.
LEMMA SlotForChild ==
  ASSUME Inv, EnoughSlots, NEW c \in Pids
  PROVE  ChildSlots(c) # {}
<1> SUFFICES ASSUME SlotsOf(c) = {}, SlotsOf(NoPid) = {} PROVE FALSE
  BY DEF ChildSlots
<1> DEFINE owner == [i \in Slots |-> ppipe_per_proc[i].pid]
           Others == Pids \ {c}
<1>1. \A i \in Slots : ppipe_per_proc[i].pid \in Others
  BY DEF Inv, TypeOK, PPipeSlot, SlotsOf
<1>2. owner \in Injection(Slots, Others)
  <2>1. owner \in [Slots -> Others]
    BY <1>1
  <2>2. \A i, j \in Slots : owner[i] = owner[j] => i = j
    BY <1>1, ConstantFacts DEF Inv, SlotsInv
  <2> QED BY <2>1, <2>2 DEF Injection, IsInjective
<1>3. IsFiniteSet(Pids) /\ Cardinality(Pids) = MAX_PROCESSES - 1
  BY PPipeAssumption, FS_Interval DEF Pids
<1>4. IsFiniteSet(Others) /\ Cardinality(Others) = MAX_PROCESSES - 2
  <2>1. IsFiniteSet(Others) /\ Cardinality(Others) = Cardinality(Pids) - 1
    BY <1>3, FS_RemoveElement
  <2> QED BY <1>3, <2>1, PPipeAssumption
<1>5. Cardinality(Slots) = MAX_PPIPE_PROC
  BY PPipeAssumption, FS_Interval DEF Slots
<1> HIDE DEF owner, Others
<1>6. Cardinality(Slots) <= Cardinality(Others)
  BY <1>2, <1>4, FS_Injection
<1> QED BY <1>4, <1>5, <1>6, PPipeAssumption DEF EnoughSlots

\* What closing an end and inheriting a slot do to the ends.
LEMMA EndsAfter ==
  ASSUME NEW slot \in PPipeSlot, NEW c \in Pids, NEW m \in Modes
  PROVE  /\ ClosedSlot(slot, m).pid = slot.pid
         /\ \A k \in Modes : EndOpen(ClosedSlot(slot, m), k) <=> k # m /\ EndOpen(slot, k)
         /\ InheritedSlot(c, slot).pid = c
         /\ \A k \in Modes : EndOpen(InheritedSlot(c, slot), k) <=> EndOpen(slot, k)
         /\ ~EndOpen(FreeSlot, m)
  BY DEF PPipeSlot, ClosedSlot, InheritedSlot, EndOpen, FreeSlot, Modes, O_READ, O_WRITE

\* A close finds the slot, closes the end and drops the reference.
LEMMA CloseSlots ==
  ASSUME Inv, NEW p, NEW m \in Modes, ppipe_close(p, m), UNCHANGED alive
  PROVE  SlotsInv'
<1>1. p \in Pids /\ <<p, m>> \in held /\ held' = held \ {<<p, m>>}
  BY DEF ppipe_close, Inv, TypeOK
<1> PICK i \in Slots : ppipe_per_proc[i].pid = p /\ EndOpen(ppipe_per_proc[i], m)
  BY <1>1 DEF Inv, SlotsInv
<1>2. \A j \in Slots : IsSlotOf(j, p) => j = i
  BY <1>1, SlotUnique DEF IsSlotOf, IsLowest
<1>3. /\ ppipe_per_proc' = [ppipe_per_proc EXCEPT ![i] = ClosedSlot(@, m)]
      /\ ref_count' = [ref_count EXCEPT ![m] = @ - 1]
  BY <1>1, <1>2, SlotUnique DEF ppipe_close, file_close
<1>4. ppipe_per_proc \in [Slots -> PPipeSlot] /\ ref_count \in [Modes -> Int]
  BY DEF Inv, TypeOK
<1>5. /\ \A j \in Slots : ppipe_per_proc'[j].pid = ppipe_per_proc[j].pid
      /\ \A j \in Slots, k \in Modes : EndOpen(ppipe_per_proc'[j], k) <=>
            ~(j = i /\ k = m) /\ EndOpen(ppipe_per_proc[j], k)
  <2>1. ppipe_per_proc'[i] = ClosedSlot(ppipe_per_proc[i], m)
        /\ \A j \in Slots \ {i} : ppipe_per_proc'[j] = ppipe_per_proc[j]
    BY <1>3, <1>4
  <2> QED BY <1>1, <1>4, <2>1, EndsAfter
<1>6. RefCountExact'
  <2> SUFFICES ASSUME NEW k \in Modes PROVE ref_count'[k] = Cardinality(Holders(k)')
    BY DEF RefCountExact, Holders
  <2>1. ref_count[k] = Cardinality(Holders(k))
    BY DEF Inv, SlotsInv, RefCountExact, Holders
  <2>2. CASE k = m
    <3>1. p \in Holders(k) /\ Holders(k)' = Holders(k) \ {p}
      BY <1>1, <2>2, HoldersAfter DEF Inv, Holders
    <3>2. Cardinality(Holders(k)') = Cardinality(Holders(k)) - 1
      BY <3>1, HoldersCount
    <3> QED BY <1>3, <1>4, <2>1, <2>2, <3>2
  <2>3. CASE k # m
    <3>1. TypeOK /\ p \in Pids /\ held' = held \ {<<p, m>>}
      BY <1>1 DEF Inv
    <3>2. Holders(k)' = Holders(k)
      BY <2>3, <3>1, HoldersAfter
    <3> QED BY <1>3, <1>4, <2>1, <2>3, <3>2
  <2> QED BY <2>2, <2>3
<1>7. ASSUME NEW q \in Pids, NEW k \in Modes, <<q, k>> \in held'
      PROVE  \E j \in Slots : ppipe_per_proc'[j].pid = q /\ EndOpen(ppipe_per_proc'[j], k)
  <2> PICK j \in Slots : ppipe_per_proc[j].pid = q /\ EndOpen(ppipe_per_proc[j], k)
    BY <1>1, <1>7 DEF Inv, SlotsInv
  <2>1. ~(j = i /\ k = m)
    BY <1>1, <1>7
  <2> QED BY <1>5, <2>1
<1>8. ASSUME NEW j \in Slots, NEW k \in Modes, EndOpen(ppipe_per_proc'[j], k)
      PROVE  <<ppipe_per_proc'[j].pid, k>> \in held'
  <2>1. ~(j = i /\ k = m) /\ <<ppipe_per_proc[j].pid, k>> \in held
    BY <1>5, <1>8 DEF Inv, SlotsInv
  <2>2. ppipe_per_proc[j].pid = p => j = i
    BY <1>1, SlotUnique DEF SlotsOf
  <2>3. <<ppipe_per_proc[j].pid, k>> # <<p, m>>
    BY <2>1, <2>2
  <2> QED BY <1>1, <1>5, <2>1, <2>3
<1>9. \A j, l \in Slots : ppipe_per_proc'[j].pid = ppipe_per_proc'[l].pid
                          /\ ppipe_per_proc'[j].pid # NoPid => j = l
  BY <1>5 DEF Inv, SlotsInv
<1>10. \A q \in Pids, k \in Modes : <<q, k>> \in held' => q \in alive'
  BY <1>1 DEF Inv, SlotsInv
<1> QED BY <1>6, <1>7, <1>8, <1>9, <1>10 DEF SlotsInv

\* The first slot is the creator's; the others are free.
LEMMA CreateSlots ==
  ASSUME Inv, EnoughSlots, NEW p \in Pids, create_persistent_pipe(p)
  PROVE  SlotsInv'
<1>1. 0 \in Slots
  BY PPipeAssumption DEF EnoughSlots, Slots
<1>2. p # NoPid /\ p \in alive' /\ held' = {p} \X Modes
  BY ConstantFacts DEF create_persistent_pipe, Running
<1>3. /\ ppipe_per_proc'[0].pid = p
      /\ \A m \in Modes : EndOpen(ppipe_per_proc'[0], m)
      /\ \A i \in Slots \ {0} : /\ ppipe_per_proc'[i].pid = NoPid
                                /\ \A m \in Modes : ~EndOpen(ppipe_per_proc'[i], m)
  <2>1. /\ ppipe_per_proc'[0] = [FreeSlot EXCEPT !.pid = p, !.read_open = 1, !.write_open = 1]
        /\ \A i \in Slots \ {0} : ppipe_per_proc'[i] = FreeSlot
    BY <1>1 DEF create_persistent_pipe
  <2> QED BY <2>1 DEF FreeSlot, EndOpen, Modes, O_READ, O_WRITE
<1>4. RefCountExact'
  <2> SUFFICES ASSUME NEW m \in Modes PROVE ref_count'[m] = Cardinality(Holders(m)')
    BY DEF RefCountExact, Holders
  <2>1. Holders(m)' = {p} /\ ref_count'[m] = 1
    BY DEF create_persistent_pipe, Holders
  <2> QED BY <2>1, HoldersCount
<1> QED BY <1>1, <1>2, <1>3, <1>4 DEF SlotsInv

\* A child gets a slot, free or its own of an earlier life, and in it the ends
\* and descriptors of its parent.
LEMMA ForkSlots ==
  ASSUME Inv, EnoughSlots, NEW p \in Pids, do_fork(p)
  PROVE  SlotsInv'
<1> PICK c \in Pids :
      /\ IsLowest(c, Pids \ alive)
      /\ alive' = alive \cup {c}
      /\ held' = held \cup {<<c, m>> : m \in {m \in Modes : <<p, m>> \in held}}
      /\ ref_count' = AddRefs(ref_count, {m \in Modes : <<p, m>> \in held})
      /\ IF \E m \in Modes : <<p, m>> \in held
           THEN do_ppipe_fork(c, p) ELSE UNCHANGED ppipe_per_proc
  BY DEF do_fork
<1>1. c \notin alive /\ \A m \in Modes : <<c, m>> \notin held
  BY DEF IsLowest, Inv, SlotsInv
<1>2. \A q \in Pids, m \in Modes :
        <<q, m>> \in held' <=> <<q, m>> \in held \/ (q = c /\ <<p, m>> \in held)
  OBVIOUS
<1>3. \A q \in Pids, m \in Modes : <<q, m>> \in held' => q \in alive'
  BY <1>2 DEF Inv, SlotsInv
<1>4. RefCountExact'
  <2> SUFFICES ASSUME NEW k \in Modes PROVE ref_count'[k] = Cardinality(Holders(k)')
    BY DEF RefCountExact, Holders
  <2>1. ref_count[k] = Cardinality(Holders(k)) /\ c \notin Holders(k)
    BY <1>1 DEF Inv, SlotsInv, RefCountExact, Holders
  <2>2. ref_count'[k] = IF <<p, k>> \in held THEN ref_count[k] + 1 ELSE ref_count[k]
    BY DEF AddRefs
  <2>3. Holders(k)' = IF <<p, k>> \in held THEN Holders(k) \cup {c} ELSE Holders(k)
    BY HoldersAfter DEF Inv
  <2> QED BY <2>1, <2>2, <2>3, HoldersCount
<1>5. CASE ~\E m \in Modes : <<p, m>> \in held
  <2>1. held' = held /\ ppipe_per_proc' = ppipe_per_proc
    BY <1>5
  <2> QED BY <1>3, <1>4, <2>1 DEF Inv, SlotsInv
<1>6. CASE \E m \in Modes : <<p, m>> \in held
  <2>1. SlotsOf(p) # {}
    BY <1>6 DEF SlotsOf, Inv, SlotsInv
  <2> PICK i \in Slots, j \in Slots :
        /\ IsLowest(i, ChildSlots(c)) /\ IsSlotOf(j, p)
        /\ ppipe_per_proc' = [ppipe_per_proc EXCEPT ![i] = InheritedSlot(c, ppipe_per_proc[j])]
    BY <1>6, <2>1, SlotForChild DEF do_ppipe_fork
  <2>2. ppipe_per_proc[j].pid = p
    BY DEF IsSlotOf, IsLowest, SlotsOf
  <2>3. /\ ppipe_per_proc[i].pid \in {c, NoPid}
        /\ \A l \in Slots : ppipe_per_proc[l].pid = c => l = i
    <3>1. i \in ChildSlots(c)
      BY DEF IsLowest
    <3>2. CASE SlotsOf(c) = {}
      BY <3>1, <3>2 DEF ChildSlots, SlotsOf
    <3>3. CASE SlotsOf(c) # {}
      BY <3>1, <3>3, SlotUnique DEF ChildSlots, SlotsOf
    <3> QED BY <3>2, <3>3
  <2>4. /\ ppipe_per_proc'[i] = InheritedSlot(c, ppipe_per_proc[j])
        /\ \A l \in Slots \ {i} : ppipe_per_proc'[l] = ppipe_per_proc[l]
        /\ ppipe_per_proc[j] \in PPipeSlot
    BY DEF Inv, TypeOK
  <2>5. /\ ppipe_per_proc'[i].pid = c
        /\ \A m \in Modes : EndOpen(ppipe_per_proc'[i], m) <=> EndOpen(ppipe_per_proc[j], m)
    <3>1. O_READ \in Modes
      BY DEF Modes
    <3> QED BY <2>4, <3>1, EndsAfter
  <2>6. \A m \in Modes : EndOpen(ppipe_per_proc[j], m) <=> <<p, m>> \in held
    <3>1. \A l \in Slots : ppipe_per_proc[l].pid = p => l = j
      BY <2>2, SlotUnique DEF SlotsOf
    <3> QED BY <2>2, <3>1 DEF Inv, SlotsInv
  <2>7. \A m \in Modes : ~EndOpen(ppipe_per_proc[i], m)
    <3> SUFFICES ASSUME NEW m \in Modes, EndOpen(ppipe_per_proc[i], m) PROVE FALSE
      OBVIOUS
    <3>1. <<ppipe_per_proc[i].pid, m>> \in held
      BY DEF Inv, SlotsInv
    <3>2. ppipe_per_proc[i].pid \in Pids
      BY <3>1 DEF Inv, TypeOK
    <3>3. ppipe_per_proc[i].pid = c
      BY <2>3, <3>2, ConstantFacts
    <3> QED BY <1>1, <3>1, <3>3
  <2>8. ASSUME NEW l \in Slots, NEW k \in Slots,
               ppipe_per_proc'[l].pid = ppipe_per_proc'[k].pid, ppipe_per_proc'[l].pid # NoPid
        PROVE  l = k
    BY <2>3, <2>4, <2>5, <2>8 DEF Inv, SlotsInv
  <2>9. ASSUME NEW q \in Pids, NEW m \in Modes, <<q, m>> \in held'
        PROVE  \E l \in Slots : ppipe_per_proc'[l].pid = q /\ EndOpen(ppipe_per_proc'[l], m)
    <3>1. CASE q = c
      BY <1>1, <1>2, <2>5, <2>6, <2>9, <3>1
    <3>2. CASE q # c
      <4>1. <<q, m>> \in held
        BY <1>2, <2>9, <3>2
      <4> PICK l \in Slots : ppipe_per_proc[l].pid = q /\ EndOpen(ppipe_per_proc[l], m)
        BY <4>1 DEF Inv, SlotsInv
      <4>2. l # i
        BY <2>7
      <4> QED BY <2>4, <4>2
    <3> QED BY <3>1, <3>2
  <2>10. ASSUME NEW l \in Slots, NEW m \in Modes, EndOpen(ppipe_per_proc'[l], m)
         PROVE  <<ppipe_per_proc'[l].pid, m>> \in held'
    <3>1. CASE l = i
      BY <1>2, <2>5, <2>6, <2>10, <3>1
    <3>2. CASE l # i
      <4>1. <<ppipe_per_proc[l].pid, m>> \in held
        BY <2>4, <2>10, <3>2 DEF Inv, SlotsInv
      <4> QED BY <2>4, <3>2, <4>1
    <3> QED BY <3>1, <3>2
  <2> QED BY <1>3, <1>4, <2>8, <2>9, <2>10 DEF SlotsInv
<1> QED BY <1>5, <1>6

\* The other steps change neither descriptors nor references, and of a slot the
\* cursor only; a process that ends has closed everything.
LEMMA OtherSlots ==
  ASSUME Inv, UNCHANGED <<held, ref_count>>,
         \A q \in Pids, m \in Modes : <<q, m>> \in held /\ q \in alive => q \in alive',
         \A i \in Slots : /\ ppipe_per_proc'[i].pid = ppipe_per_proc[i].pid
                          /\ ppipe_per_proc'[i].read_open = ppipe_per_proc[i].read_open
                          /\ ppipe_per_proc'[i].write_open = ppipe_per_proc[i].write_open
  PROVE  SlotsInv'
<1>1. RefCountExact'
  BY DEF Inv, SlotsInv, RefCountExact
<1>2. \A i \in Slots, m \in Modes :
        EndOpen(ppipe_per_proc'[i], m) <=> EndOpen(ppipe_per_proc[i], m)
  BY DEF EndOpen
<1>3. \A q \in Pids, m \in Modes : <<q, m>> \in held' => q \in alive'
  BY DEF Inv, SlotsInv
<1>4. \A q \in Pids, m \in Modes : <<q, m>> \in held' =>
        \E i \in Slots : ppipe_per_proc'[i].pid = q /\ EndOpen(ppipe_per_proc'[i], m)
  BY <1>2 DEF Inv, SlotsInv
<1>5. \A i \in Slots, m \in Modes :
        EndOpen(ppipe_per_proc'[i], m) => <<ppipe_per_proc'[i].pid, m>> \in held'
  BY <1>2 DEF Inv, SlotsInv
<1>6. \A i, j \in Slots : ppipe_per_proc'[i].pid = ppipe_per_proc'[j].pid
                          /\ ppipe_per_proc'[i].pid # NoPid => i = j
  BY DEF Inv, SlotsInv
<1> QED BY <1>1, <1>3, <1>4, <1>5, <1>6 DEF SlotsInv

LEMMA NextSlots == EnoughSlots /\ CursorsInv /\ SlotsInv /\ [Next]_vars => SlotsInv'
<1> SUFFICES ASSUME EnoughSlots, Inv, [Next]_vars PROVE SlotsInv'
  BY DEF Inv, CursorsInv
<1>0. ppipe_per_proc \in [Slots -> PPipeSlot]
  BY DEF Inv, TypeOK
<1>1. ASSUME NEW p \in Pids, create_persistent_pipe(p) PROVE SlotsInv'
  BY <1>1, CreateSlots
<1>2. ASSUME NEW p \in Pids, do_fork(p) PROVE SlotsInv'
  BY <1>2, ForkSlots
<1>3. CASE do_file_exit
  BY <1>3, CloseSlots DEF do_file_exit
<1>4. ASSUME NEW p \in Pids, NEW m \in Modes, do_close(p, m) PROVE SlotsInv'
  BY <1>4, CloseSlots DEF do_close
<1>5. ASSUME NEW p \in Pids, do_flush_ppipe(p) PROVE SlotsInv'
  BY <1>0, <1>5, OtherSlots DEF do_flush_ppipe, Reclaimed, PPipeSlot
<1>6. ASSUME NEW p \in Pids, NEW count \in 0..MAX_COUNT, ppipe_read(p, count) PROVE SlotsInv'
  <2> PICK i \in Slots : \E n :
        ppipe_per_proc' = [ppipe_per_proc EXCEPT
            ![i].read_pos = Advance(@, n, MAX_PPIPE_SIZE), ![i].bytes_read = @ + n]
    BY <1>6 DEF ppipe_read
  <2> QED BY <1>0, <1>6, OtherSlots DEF ppipe_read, PPipeSlot
<1>7. ASSUME NEW p \in Pids, NEW data, NEW count, ppipe_write(p, data, count) PROVE SlotsInv'
  BY <1>7, OtherSlots DEF ppipe_write
<1>8. CASE UNCHANGED vars \/ \E p \in Pids : do_exit(p)
  BY <1>8, OtherSlots DEF do_exit, vars
<1>9. CASE ExitReturn
  BY <1>9, OtherSlots DEF ExitReturn
<1> QED BY <1>1, <1>2, <1>3, <1>4, <1>5, <1>6, <1>7, <1>8, <1>9 DEF Next

LEMMA InitSlots == Init => SlotsInv
<1> SUFFICES ASSUME Init PROVE SlotsInv
  OBVIOUS
<1>1. \A i \in Slots : ppipe_per_proc[i] = FreeSlot
  BY DEF Init
<1>2. RefCountExact
  <2> SUFFICES ASSUME NEW m \in Modes PROVE ref_count[m] = Cardinality(Holders(m))
    BY DEF RefCountExact, Holders
  <2>1. ref_count[m] = 0 /\ Holders(m) = {}
    BY DEF Init, Holders
  <2> QED BY <2>1, FS_EmptySet
<1> QED BY <1>1, <1>2 DEF SlotsInv, Init, FreeSlot, EndOpen

\* With the slots the code has, each end's reference count is the number of
\* processes with a descriptor for it.
THEOREM PPipeRefCountExact == ASSUME EnoughSlots PROVE Spec => []RefCountExact
<1>1. SlotsInv => RefCountExact
  BY DEF SlotsInv
<1> QED BY <1>1, InitCursors, NextCursors, InitSlots, NextSlots, PTL DEF Spec

\* With the slots the code has, what the tables say and what the slots say of a
\* process's ends agree, although a slot outlives its process.
THEOREM PPipeSlotsMatch == ASSUME EnoughSlots PROVE Spec => []SlotsMatchDescriptors
<1>1. CursorsInv /\ SlotsInv => SlotsMatchDescriptors
  <2> SUFFICES ASSUME Inv PROVE SlotsMatchDescriptors
    BY DEF CursorsInv, Inv
  <2>1. ASSUME NEW p \in Pids, <<p, O_READ>> \in held PROVE \E i \in Slots : ReadPermitted(p, i)
    <3> PICK i \in Slots : ppipe_per_proc[i].pid = p /\ EndOpen(ppipe_per_proc[i], O_READ)
      BY <2>1 DEF Inv, SlotsInv, Modes
    <3> QED BY <2>1, SlotUnique DEF ReadPermitted, EndOpen
  <2>2. ASSUME NEW p \in Pids, <<p, O_WRITE>> \in held PROVE \E i \in Slots : WritePermitted(p, i)
    <3> PICK i \in Slots : ppipe_per_proc[i].pid = p /\ EndOpen(ppipe_per_proc[i], O_WRITE)
      BY <2>2 DEF Inv, SlotsInv, Modes
    <3> QED BY <2>2, SlotUnique DEF WritePermitted, EndOpen, O_READ, O_WRITE
  <2>3. \A i \in Slots :
          /\ ppipe_per_proc[i].read_open = 1 => <<ppipe_per_proc[i].pid, O_READ>> \in held
          /\ ppipe_per_proc[i].write_open = 1 => <<ppipe_per_proc[i].pid, O_WRITE>> \in held
    BY DEF Inv, SlotsInv, EndOpen, Modes, O_READ, O_WRITE
  <2> QED BY <2>1, <2>2, <2>3 DEF SlotsMatchDescriptors, ReadPermitted, WritePermitted
<1> QED BY <1>1, InitCursors, NextCursors, InitSlots, NextSlots, PTL DEF Spec

-----------------------------------------------------------------------------
\* Persistent pipes implement the log of BroadcastLog.

\* The abstract state, as functions of the slots and of the global record.
PidsAt(slots, S) == {slots[i].pid : i \in S}
OpenReaders(slots) == {i \in Slots : slots[i].read_open = 1}
CursorMap(slots) ==
  [p \in PidsAt(slots, OpenReaders(slots)) |->
     slots[CHOOSE i \in OpenReaders(slots) : slots[i].pid = p].bytes_read]
WriterPids(slots) == PidsAt(slots, {i \in Slots : slots[i].write_open = 1})
KeptOf(g) == CyclicRead(g.buff, g.buff_start, g.buff_len, MAX_PPIPE_SIZE)

LEMMA LogMapped ==
  /\ [p \in ReaderPids |->
        ppipe_per_proc[CHOOSE i \in Readers : ppipe_per_proc[i].pid = p].bytes_read]
       = CursorMap(ppipe_per_proc)
  /\ [p \in ReaderPids |->
        ppipe_per_proc[CHOOSE i \in Readers : ppipe_per_proc[i].pid = p].bytes_read]'
       = CursorMap(ppipe_per_proc')
  /\ {ppipe_per_proc[i].pid : i \in {i \in Slots : ppipe_per_proc[i].write_open = 1}}
       = WriterPids(ppipe_per_proc)
  /\ {ppipe_per_proc[i].pid : i \in {i \in Slots : ppipe_per_proc[i].write_open = 1}}'
       = WriterPids(ppipe_per_proc')
  /\ Kept = KeptOf(ppipe_global) /\ Kept' = KeptOf(ppipe_global')
  BY DEF ReaderPids, Readers, CursorMap, OpenReaders, PidsAt, WriterPids, Kept, KeptOf

\* What SlotsInv says of the slots and of the descriptors there are.
SlotsMatch(slots, ends) ==
  /\ ends \subseteq Pids \X Modes
  /\ \A i, j \in Slots : slots[i].pid = slots[j].pid /\ slots[i].pid # NoPid => i = j
  /\ \A p \in Pids, m \in Modes : <<p, m>> \in ends =>
       \E i \in Slots : slots[i].pid = p /\ EndOpen(slots[i], m)
  /\ \A i \in Slots, m \in Modes : EndOpen(slots[i], m) => <<slots[i].pid, m>> \in ends
Holding(ends, m) == {p \in Pids : <<p, m>> \in ends}

LEMMA Matching ==
  /\ Inv => SlotsMatch(ppipe_per_proc, held)
  /\ Inv' => SlotsMatch(ppipe_per_proc', held')
  BY DEF Inv, TypeOK, SlotsInv, SlotsMatch

LEMMA ByHeld ==
  ASSUME NEW slots, NEW ends, SlotsMatch(slots, ends)
  PROVE  /\ \A i, j \in OpenReaders(slots) : slots[i].pid = slots[j].pid => i = j
         /\ PidsAt(slots, OpenReaders(slots)) = Holding(ends, O_READ)
         /\ WriterPids(slots) = Holding(ends, O_WRITE)
<1>1. O_READ \in Modes /\ O_WRITE \in Modes /\ O_READ # O_WRITE
  BY ConstantFacts
<1>2. \A i \in Slots : /\ EndOpen(slots[i], O_READ) <=> slots[i].read_open = 1
                       /\ EndOpen(slots[i], O_WRITE) <=> slots[i].write_open = 1
  BY <1>1 DEF EndOpen
<1>3. \A i \in Slots, m \in Modes : EndOpen(slots[i], m) => slots[i].pid \in Pids /\ slots[i].pid # NoPid
  <2> SUFFICES ASSUME NEW i \in Slots, NEW m \in Modes, EndOpen(slots[i], m)
               PROVE  slots[i].pid \in Pids
    BY ConstantFacts
  <2>1. <<slots[i].pid, m>> \in ends /\ ends \subseteq Pids \X Modes
    BY DEF SlotsMatch
  <2> QED BY <2>1
<1>4. \A i, j \in OpenReaders(slots) : slots[i].pid = slots[j].pid => i = j
  BY <1>1, <1>2, <1>3 DEF OpenReaders, SlotsMatch
<1>5. \A p : p \in PidsAt(slots, OpenReaders(slots)) <=> p \in Holding(ends, O_READ)
  BY <1>1, <1>2, <1>3 DEF OpenReaders, PidsAt, Holding, SlotsMatch
<1>6. \A p : p \in WriterPids(slots) <=> p \in Holding(ends, O_WRITE)
  BY <1>1, <1>2, <1>3 DEF WriterPids, PidsAt, Holding, SlotsMatch
<1> QED BY <1>4, <1>5, <1>6

\* x has a position for every process that holds the read end: its slot's.
IsPositions(x, slots, ends) ==
  /\ x = [p \in Holding(ends, O_READ) |-> x[p]]
  /\ \A i \in OpenReaders(slots) : x[slots[i].pid] = slots[i].bytes_read

\* An open reader is its slot's only process, and holds the read end.
LEMMA ReadersHold ==
  ASSUME NEW slots, NEW ends, SlotsMatch(slots, ends)
  PROVE  /\ \A i \in OpenReaders(slots) : slots[i].pid \in Holding(ends, O_READ)
         /\ \A p \in Holding(ends, O_READ) : \E i \in OpenReaders(slots) : slots[i].pid = p
         /\ \A i, j \in OpenReaders(slots) : slots[i].pid = slots[j].pid => i = j
<1>1. /\ PidsAt(slots, OpenReaders(slots)) = Holding(ends, O_READ)
      /\ \A i, j \in OpenReaders(slots) : slots[i].pid = slots[j].pid => i = j
  BY ByHeld
<1> QED BY <1>1 DEF PidsAt

\* The positions in the slots are the abstract ones, and no others are.
LEMMA CursorsAre ==
  ASSUME NEW slots, NEW ends, SlotsMatch(slots, ends)
  PROVE  IsPositions(CursorMap(slots), slots, ends)
<1>1. \A i, j \in OpenReaders(slots) : slots[i].pid = slots[j].pid => i = j
  BY ReadersHold
<1>2. CursorMap(slots) = [p \in Holding(ends, O_READ) |-> CursorMap(slots)[p]]
  <2>1. PidsAt(slots, OpenReaders(slots)) = Holding(ends, O_READ)
    BY ByHeld
  <2> QED BY <2>1 DEF CursorMap
<1>3. ASSUME NEW i \in OpenReaders(slots) PROVE CursorMap(slots)[slots[i].pid] = slots[i].bytes_read
  <2>1. slots[i].pid \in PidsAt(slots, OpenReaders(slots))
    BY DEF PidsAt
  <2>2. (CHOOSE j \in OpenReaders(slots) : slots[j].pid = slots[i].pid) = i
    BY <1>1
  <2> QED BY <2>1, <2>2 DEF CursorMap
<1> QED BY <1>2, <1>3 DEF IsPositions

LEMMA CursorsFrom ==
  ASSUME NEW slots, NEW ends, SlotsMatch(slots, ends), NEW x, IsPositions(x, slots, ends)
  PROVE  CursorMap(slots) = x
<1>1. PICK y : y = CursorMap(slots)
  OBVIOUS
<1>2. IsPositions(y, slots, ends)
  BY <1>1, CursorsAre
<1>3. ASSUME NEW p \in Holding(ends, O_READ) PROVE y[p] = x[p]
  <2> PICK i \in OpenReaders(slots) : slots[i].pid = p
    BY ReadersHold
  <2> QED BY <1>2 DEF IsPositions
<1>4. y = x
  BY <1>2, <1>3 DEF IsPositions
<1> QED BY <1>1, <1>4

-----------------------------------------------------------------------------
\* The steps of the log, by what they do to these functions of the slots.

LEMMA AsCreate ==
  ASSUME NEW p, DOMAIN CursorMap(ppipe_per_proc) = {}, WriterPids(ppipe_per_proc) = {},
         KeptOf(ppipe_global) = << >>, KeptOf(ppipe_global') = << >>, UNCHANGED user,
         CursorMap(ppipe_per_proc') = [q \in {p} |-> 0], WriterPids(ppipe_per_proc') = {p}
  PROVE  Log!Create(p)
  BY LogMapped DEF Log!Create

\* The positions after p read n bytes, after a flush of r bytes, and after p
\* forked q.
MovedMap(c, p, n) == [c EXCEPT ![p] = @ + n]
FlushedMap(c, r) == [p \in DOMAIN c |-> c[p] - r]
ForkedMap(c, p, q) ==
  [x \in (DOMAIN c \ {q}) \cup {x \in {q} : p \in DOMAIN c} |-> IF x = q THEN c[p] ELSE c[x]]

LEMMA AsRead ==
  ASSUME NEW p, NEW count, NEW c, c = CursorMap(ppipe_per_proc), p \in DOMAIN c,
         NEW s, s = KeptOf(ppipe_global), NEW n, n = Log!Least(count, Len(s) - c[p]),
         user' = SubSeq(s, c[p] + 1, c[p] + n),
         CursorMap(ppipe_per_proc') = MovedMap(c, p, n),
         KeptOf(ppipe_global') = s, WriterPids(ppipe_per_proc') = WriterPids(ppipe_per_proc)
  PROVE  Log!Read(p, count)
  BY LogMapped DEF Log!Read, MovedMap

LEMMA AsWrite ==
  ASSUME NEW p \in WriterPids(ppipe_per_proc), NEW data, NEW count,
         user' = SubSeq(data, 1, Log!Least(count, MAX_PPIPE_SIZE - Len(KeptOf(ppipe_global)))),
         KeptOf(ppipe_global') = KeptOf(ppipe_global) \o user', UNCHANGED ppipe_per_proc
  PROVE  Log!Write(p, data, count)
  BY LogMapped DEF Log!Write

LEMMA AsFlush ==
  ASSUME NEW c, c = CursorMap(ppipe_per_proc), NEW s, s = KeptOf(ppipe_global),
         NEW r \in 0..Len(s), \A p \in DOMAIN c : r <= c[p],
         (r = 0 /\ DOMAIN c = {}) \/ (\E p \in DOMAIN c : r = c[p]),
         KeptOf(ppipe_global') = SubSeq(s, r + 1, Len(s)),
         CursorMap(ppipe_per_proc') = FlushedMap(c, r),
         WriterPids(ppipe_per_proc') = WriterPids(ppipe_per_proc), UNCHANGED user
  PROVE  Log!Flush
<1> DEFINE cursor == [p \in ReaderPids |->
             ppipe_per_proc[CHOOSE i \in Readers : ppipe_per_proc[i].pid = p].bytes_read]
<1>1. cursor = c /\ cursor' = FlushedMap(c, r)
  BY LogMapped
<1>2. Kept = s /\ Kept' = SubSeq(s, r + 1, Len(s))
  BY LogMapped
<1>3. UNCHANGED <<{ppipe_per_proc[i].pid : i \in {i \in Slots : ppipe_per_proc[i].write_open = 1}}, user>>
  BY LogMapped
<1> HIDE DEF cursor
<1>4. cursor' = FlushedMap(cursor, r)
  BY <1>1
<1>5. r \in 0..Len(Kept) /\ (\A p \in DOMAIN cursor : r <= cursor[p])
  BY <1>1, <1>2
<1>6. (r = 0 /\ DOMAIN cursor = {}) \/ (\E p \in DOMAIN cursor : r = cursor[p])
  BY <1>1
<1>7. Kept' = SubSeq(Kept, r + 1, Len(Kept))
  BY <1>2
<1> QED BY <1>3, <1>4, <1>5, <1>6, <1>7 DEF Log!Flush, FlushedMap, cursor

LEMMA AsFork ==
  ASSUME NEW p, NEW q, p # q, NEW c, c = CursorMap(ppipe_per_proc), NEW w, w = WriterPids(ppipe_per_proc),
         CursorMap(ppipe_per_proc') = ForkedMap(c, p, q),
         WriterPids(ppipe_per_proc') = (w \ {q}) \cup {x \in {q} : p \in w},
         UNCHANGED <<ppipe_global, user>>
  PROVE  Log!Fork(p, q)
<1> DEFINE cursor == [x \in ReaderPids |->
             ppipe_per_proc[CHOOSE i \in Readers : ppipe_per_proc[i].pid = x].bytes_read]
           writers == {ppipe_per_proc[i].pid : i \in {i \in Slots : ppipe_per_proc[i].write_open = 1}}
<1>1. cursor = c /\ cursor' = ForkedMap(c, p, q)
  BY LogMapped
<1>2. writers = w /\ writers' = (w \ {q}) \cup {x \in {q} : p \in w}
  BY LogMapped
<1>3. UNCHANGED <<Kept, user>>
  BY LogMapped
<1> HIDE DEF cursor, writers
<1>4. cursor' = ForkedMap(cursor, p, q)
  BY <1>1
<1>5. writers' = (writers \ {q}) \cup {x \in {q} : p \in writers}
  BY <1>2
<1> QED BY <1>3, <1>4, <1>5 DEF Log!Fork, ForkedMap, cursor, writers

LEMMA AsCloseReader ==
  ASSUME NEW p, NEW c, c = CursorMap(ppipe_per_proc),
         CursorMap(ppipe_per_proc') = [q \in DOMAIN c \ {p} |-> c[q]],
         WriterPids(ppipe_per_proc') = WriterPids(ppipe_per_proc), UNCHANGED <<ppipe_global, user>>
  PROVE  Log!CloseReader(p)
  BY LogMapped DEF Log!CloseReader

LEMMA AsCloseWriter ==
  ASSUME NEW p, CursorMap(ppipe_per_proc') = CursorMap(ppipe_per_proc),
         WriterPids(ppipe_per_proc') = WriterPids(ppipe_per_proc) \ {p}, UNCHANGED <<ppipe_global, user>>
  PROVE  Log!CloseWriter(p)
  BY LogMapped DEF Log!CloseWriter

LEMMA AsStutter ==
  ASSUME UNCHANGED <<ppipe_per_proc, ppipe_global, user>>
  PROVE  UNCHANGED Log!vars
  BY LogMapped DEF Log!vars

\* The kept bytes are as many as buff_len says.
LEMMA KeptLength ==
  ASSUME NEW g \in Global
  PROVE  KeptOf(g) \in Seq(Bytes) /\ Len(KeptOf(g)) = g.buff_len
<1>1. IsWindow(KeptOf(g), g.buff, g.buff_start, g.buff_len, MAX_PPIPE_SIZE, Bytes)
  BY ConstantFacts, CyclicReadSeq DEF Global, KeptOf
<1> QED BY <1>1 DEF IsWindow

-----------------------------------------------------------------------------
\* A read takes the bytes from the reader's position on, as many as it has not
\* read at most, and moves no other position.
LEMMA ReadSimulates ==
  ASSUME CursorsInv, SlotsInv, Inv', NEW p \in Pids, NEW count \in Nat, ppipe_read(p, count)
  PROVE  Log!Read(p, count)
<1> PICK i \in Slots :
      LET n == Clamp(ReadLimit(i), count) IN
      /\ ReadPermitted(p, i)
      /\ user' = CyclicRead(ppipe_global.buff, ppipe_per_proc[i].read_pos, n, MAX_PPIPE_SIZE)
      /\ ppipe_per_proc' = [ppipe_per_proc EXCEPT
            ![i].read_pos = Advance(@, n, MAX_PPIPE_SIZE), ![i].bytes_read = @ + n]
  BY DEF ppipe_read
<1> PICK n, pos, skip, c, s :
      /\ n = Clamp(ReadLimit(i), count)
      /\ pos = ppipe_per_proc[i].read_pos /\ skip = ppipe_per_proc[i].bytes_read
      /\ c = CursorMap(ppipe_per_proc) /\ s = KeptOf(ppipe_global)
  OBVIOUS
<1>0. SlotsMatch(ppipe_per_proc, held) /\ SlotsMatch(ppipe_per_proc', held')
  BY Matching DEF Inv, CursorsInv
<1>1. i \in OpenReaders(ppipe_per_proc) /\ ppipe_per_proc[i].pid = p
  BY DEF ReadPermitted, IsSlotOf, IsLowest, SlotsOf, OpenReaders
<1>2. /\ ppipe_global \in Global /\ ppipe_per_proc \in [Slots -> PPipeSlot]
      /\ skip \in 0..ppipe_global.buff_len
      /\ pos = Advance(ppipe_global.buff_start, skip, MAX_PPIPE_SIZE)
  BY <1>1, CursorFacts DEF CursorInv, OpenReaders
<1>3. IsPositions(c, ppipe_per_proc, held) /\ p \in Holding(held, O_READ) /\ c[p] = skip
  BY <1>0, <1>1, CursorsAre, ReadersHold DEF IsPositions
<1>4. s \in Seq(Bytes) /\ Len(s) = ppipe_global.buff_len
  BY <1>2, KeptLength
<1>5. n = Log!Least(count, Len(s) - c[p]) /\ n \in 0..(ppipe_global.buff_len - skip)
  <2>1. ReadLimit(i) = Len(s) - c[p] /\ ReadLimit(i) = ppipe_global.buff_len - skip /\ ReadLimit(i) \in Nat
    BY <1>2, <1>3, <1>4 DEF ReadLimit, Global
  <2>2. n = Log!Least(count, ReadLimit(i)) /\ n \in 0..ReadLimit(i)
    BY <2>1 DEF Clamp, Log!Least
  <2> QED BY <2>1, <2>2
<1>6. user' = SubSeq(s, c[p] + 1, c[p] + n)
  <2>1. user' = CyclicRead(ppipe_global.buff, pos, n, MAX_PPIPE_SIZE)
    OBVIOUS
  <2>2. CyclicRead(ppipe_global.buff, pos, n, MAX_PPIPE_SIZE) = SubSeq(s, skip + 1, skip + n)
    <3>1. PICK buff, start, len : buff = ppipe_global.buff /\ start = ppipe_global.buff_start
                                  /\ len = ppipe_global.buff_len
      OBVIOUS
    <3>2. /\ buff \in Memory(MAX_PPIPE_SIZE, Bytes) /\ start \in 0..(MAX_PPIPE_SIZE - 1)
          /\ len \in 0..MAX_PPIPE_SIZE /\ skip \in 0..len /\ n \in 0..(len - skip)
      BY <1>2, <1>5, <3>1 DEF Global
    <3>3. IsPart(CyclicRead(buff, Advance(start, skip, MAX_PPIPE_SIZE), n, MAX_PPIPE_SIZE),
                 CyclicRead(buff, start, len, MAX_PPIPE_SIZE), skip, n)
      BY <3>2, ConstantFacts, ReadInside
    <3> QED BY <1>2, <3>1, <3>3 DEF KeptOf, IsPart
  <2> QED BY <1>3, <2>1, <2>2
<1>7. UNCHANGED <<held, ppipe_global>>
  BY DEF ppipe_read
<1>8. /\ ppipe_per_proc'[i].pid = p /\ ppipe_per_proc'[i].read_open = 1
      /\ ppipe_per_proc'[i].bytes_read = skip + n
      /\ \A j \in Slots \ {i} : ppipe_per_proc'[j] = ppipe_per_proc[j]
  <2>1. ppipe_per_proc[i] \in PPipeSlot /\ ppipe_per_proc[i].read_open = 1
    BY <1>1, <1>2 DEF OpenReaders
  <2>2. ppipe_per_proc' = [ppipe_per_proc EXCEPT ![i] =
          [ppipe_per_proc[i] EXCEPT !.read_pos = Advance(pos, n, MAX_PPIPE_SIZE), !.bytes_read = skip + n]]
    BY <1>2
  <2> QED BY <1>1, <1>2, <2>1, <2>2 DEF PPipeSlot
<1>9. CursorMap(ppipe_per_proc') = MovedMap(c, p, n)
  <2> PICK x : x = MovedMap(c, p, n)
    OBVIOUS
  <2>1. x = [q \in Holding(held', O_READ) |-> x[q]] /\ x[p] = c[p] + n
        /\ \A q \in Holding(held, O_READ) \ {p} : x[q] = c[q]
    BY <1>3, <1>7 DEF IsPositions, MovedMap
  <2>2. ASSUME NEW j \in OpenReaders(ppipe_per_proc')
        PROVE  x[ppipe_per_proc'[j].pid] = ppipe_per_proc'[j].bytes_read
    <3>1. CASE j = i
      BY <1>3, <1>8, <2>1, <3>1
    <3>2. CASE j # i
      <4>1. j \in OpenReaders(ppipe_per_proc) /\ ppipe_per_proc'[j] = ppipe_per_proc[j]
        BY <1>8, <2>2, <3>2 DEF OpenReaders
      <4>2. ppipe_per_proc[j].pid # p /\ ppipe_per_proc[j].pid \in Holding(held, O_READ)
        BY <1>0, <1>1, <3>2, <4>1, ReadersHold
      <4>3. c[ppipe_per_proc[j].pid] = ppipe_per_proc[j].bytes_read
        BY <1>3, <4>1 DEF IsPositions
      <4>4. x[ppipe_per_proc[j].pid] = c[ppipe_per_proc[j].pid]
        BY <2>1, <4>2
      <4> QED BY <4>1, <4>3, <4>4
    <3> QED BY <3>1, <3>2
  <2>3. IsPositions(x, ppipe_per_proc', held')
    BY <2>1, <2>2 DEF IsPositions
  <2> QED BY <1>0, <2>3, CursorsFrom
<1>10. WriterPids(ppipe_per_proc') = WriterPids(ppipe_per_proc)
  <2>1. WriterPids(ppipe_per_proc) = Holding(held, O_WRITE)
        /\ WriterPids(ppipe_per_proc') = Holding(held', O_WRITE)
    BY <1>0, ByHeld
  <2> QED BY <1>7, <2>1
<1>11. p \in DOMAIN c
  BY <1>3 DEF IsPositions
<1> QED BY <1>5, <1>6, <1>7, <1>9, <1>10, <1>11, AsRead

\* A write appends, to the bytes that are kept, as many as fit.
LEMMA WriteSimulates ==
  ASSUME CursorsInv, NEW p \in Pids, NEW count \in Nat,
         NEW data \in [1..MAX_PPIPE_SIZE -> Bytes], ppipe_write(p, data, count)
  PROVE  Log!Write(p, data, count)
<1> PICK n, buff, start, len :
      /\ n = Clamp(MAX_PPIPE_SIZE - ppipe_global.buff_len, count)
      /\ buff = ppipe_global.buff /\ start = ppipe_global.buff_start /\ len = ppipe_global.buff_len
  OBVIOUS
<1>1. p \in WriterPids(ppipe_per_proc)
  BY DEF ppipe_write, WritePermitted, IsSlotOf, IsLowest, SlotsOf, WriterPids, PidsAt
<1>2. /\ ppipe_global \in Global /\ buff \in Memory(MAX_PPIPE_SIZE, Bytes)
      /\ start \in 0..(MAX_PPIPE_SIZE - 1) /\ len \in 0..MAX_PPIPE_SIZE
      /\ ppipe_global.buff_end = Advance(start, len, MAX_PPIPE_SIZE)
  BY CursorFacts DEF RingInv, Global
<1>3. n \in 0..(MAX_PPIPE_SIZE - len) /\ n = Log!Least(count, MAX_PPIPE_SIZE - len)
  BY <1>2, ConstantFacts DEF Clamp, Log!Least
<1>4. /\ user' = SubSeq(data, 1, n) /\ UNCHANGED ppipe_per_proc
      /\ ppipe_global' = [ppipe_global EXCEPT
           !.buff = CyclicWrite(buff, Advance(start, len, MAX_PPIPE_SIZE), data, n, MAX_PPIPE_SIZE),
           !.buff_len = len + n, !.buff_end = Advance(@, n, MAX_PPIPE_SIZE)]
  BY <1>2 DEF ppipe_write
<1>5. /\ ppipe_global'.buff = CyclicWrite(buff, Advance(start, len, MAX_PPIPE_SIZE), data, n, MAX_PPIPE_SIZE)
      /\ ppipe_global'.buff_len = len + n /\ ppipe_global'.buff_start = start
  BY <1>2, <1>4 DEF Global
<1>6. KeptOf(ppipe_global') = KeptOf(ppipe_global) \o SubSeq(data, 1, n)
  <2>1. IsAppended(CyclicRead(CyclicWrite(buff, Advance(start, len, MAX_PPIPE_SIZE), data, n, MAX_PPIPE_SIZE),
                              start, len + n, MAX_PPIPE_SIZE),
                   CyclicRead(buff, start, len, MAX_PPIPE_SIZE), data, n)
    BY <1>2, <1>3, ConstantFacts, WriteAtEnd
  <2> QED BY <1>5, <2>1 DEF KeptOf, IsAppended
<1>7. Len(KeptOf(ppipe_global)) = len
  BY <1>2, KeptLength
<1> QED BY <1>1, <1>3, <1>4, <1>6, <1>7, AsWrite

\* A flush takes from the log what every reader has read.
LEMMA FlushSimulates ==
  ASSUME CursorsInv, SlotsInv, Inv', NEW p \in Pids, do_flush_ppipe(p)
  PROVE  Log!Flush
<1> PICK r \in 0..MAX_PPIPE_SIZE :
      /\ Reclaimable(r)
      /\ ppipe_global' = [ppipe_global EXCEPT !.buff_len = @ - r,
                            !.buff_start = Advance(@, r, MAX_PPIPE_SIZE)]
      /\ ppipe_per_proc' = [i \in Slots |->
            IF i \in Readers THEN Reclaimed(ppipe_per_proc[i], r) ELSE ppipe_per_proc[i]]
  BY DEF do_flush_ppipe
<1> PICK c, s, len : c = CursorMap(ppipe_per_proc) /\ s = KeptOf(ppipe_global) /\ len = ppipe_global.buff_len
  OBVIOUS
<1>0. SlotsMatch(ppipe_per_proc, held) /\ SlotsMatch(ppipe_per_proc', held')
  BY Matching DEF Inv, CursorsInv
<1>1. UNCHANGED <<held, user>>
  BY DEF do_flush_ppipe
<1>2. /\ ppipe_global \in Global /\ ppipe_per_proc \in [Slots -> PPipeSlot]
      /\ len \in 0..MAX_PPIPE_SIZE
      /\ \A i \in Readers : ppipe_per_proc[i].bytes_read \in 0..len
  BY CursorFacts DEF CursorInv, Readers
<1>3. Readers = OpenReaders(ppipe_per_proc)
  BY DEF Readers, OpenReaders
<1>4. IsPositions(c, ppipe_per_proc, held) /\ DOMAIN c = Holding(held, O_READ)
  BY <1>0, CursorsAre DEF IsPositions
<1>5. /\ r \in 0..len
      /\ \A i \in Readers : r <= ppipe_per_proc[i].bytes_read
      /\ (r = 0 /\ Readers = {}) \/ (\E i \in Readers : r = ppipe_per_proc[i].bytes_read)
  <2>1. CASE Readers = {}
    BY <1>2, <2>1 DEF Reclaimable
  <2>2. CASE Readers # {}
    <3>1. /\ r \in {ppipe_per_proc[i].bytes_read : i \in Readers} \cup {len}
          /\ r <= len /\ \A i \in Readers : r <= ppipe_per_proc[i].bytes_read
      BY <2>2 DEF Reclaimable, IsLowest
    <3>2. CASE r = len
      BY <1>2, <2>2, <3>1, <3>2
    <3>3. CASE r # len
      BY <1>2, <3>1, <3>3
    <3> QED BY <3>2, <3>3
  <2> QED BY <2>1, <2>2
<1>6. s \in Seq(Bytes) /\ Len(s) = len
  BY <1>2, KeptLength
<1>7. \A q \in DOMAIN c : r <= c[q]
  BY <1>0, <1>3, <1>4, <1>5, ReadersHold DEF IsPositions
<1>8. (r = 0 /\ DOMAIN c = {}) \/ (\E q \in DOMAIN c : r = c[q])
  BY <1>0, <1>3, <1>4, <1>5, ReadersHold DEF IsPositions
<1>9. KeptOf(ppipe_global') = SubSeq(s, r + 1, Len(s))
  <2>1. PICK buff, start : buff = ppipe_global.buff /\ start = ppipe_global.buff_start
    OBVIOUS
  <2>2. buff \in Memory(MAX_PPIPE_SIZE, Bytes) /\ start \in 0..(MAX_PPIPE_SIZE - 1)
    BY <1>2, <2>1 DEF Global
  <2>3. /\ ppipe_global'.buff = buff /\ ppipe_global'.buff_len = len - r
        /\ ppipe_global'.buff_start = Advance(start, r, MAX_PPIPE_SIZE)
    BY <1>2, <2>1 DEF Global
  <2>4. CyclicRead(buff, Advance(start, r, MAX_PPIPE_SIZE), len - r, MAX_PPIPE_SIZE)
          = SubSeq(CyclicRead(buff, start, len, MAX_PPIPE_SIZE), r + 1,
                   Len(CyclicRead(buff, start, len, MAX_PPIPE_SIZE)))
    BY <1>2, <1>5, <2>2, ConstantFacts, ReadFromFront
  <2> QED BY <2>1, <2>3, <2>4 DEF KeptOf
<1>10. ASSUME NEW i \in Slots
       PROVE  /\ ppipe_per_proc'[i].pid = ppipe_per_proc[i].pid
              /\ ppipe_per_proc'[i].read_open = ppipe_per_proc[i].read_open
              /\ ppipe_per_proc[i].read_open = 1 =>
                   ppipe_per_proc'[i].bytes_read = ppipe_per_proc[i].bytes_read - r
  <2>1. ppipe_per_proc[i] \in PPipeSlot
    BY <1>2
  <2> QED BY <2>1 DEF Reclaimed, PPipeSlot, Readers
<1>11. CursorMap(ppipe_per_proc') = FlushedMap(c, r)
  <2> PICK x : x = FlushedMap(c, r)
    OBVIOUS
  <2>1. x = [q \in Holding(held', O_READ) |-> x[q]] /\ \A q \in Holding(held, O_READ) : x[q] = c[q] - r
    BY <1>1, <1>4 DEF FlushedMap
  <2>2. ASSUME NEW i \in OpenReaders(ppipe_per_proc')
        PROVE  x[ppipe_per_proc'[i].pid] = ppipe_per_proc'[i].bytes_read
    <3>1. i \in OpenReaders(ppipe_per_proc) /\ i \in Slots /\ ppipe_per_proc[i].read_open = 1
      BY <1>10, <2>2 DEF OpenReaders
    <3>2. ppipe_per_proc[i].pid \in Holding(held, O_READ)
          /\ c[ppipe_per_proc[i].pid] = ppipe_per_proc[i].bytes_read
      BY <1>0, <1>4, <3>1, ReadersHold DEF IsPositions
    <3> QED BY <1>10, <2>1, <3>1, <3>2
  <2>3. IsPositions(x, ppipe_per_proc', held')
    BY <2>1, <2>2 DEF IsPositions
  <2> QED BY <1>0, <2>3, CursorsFrom
<1>12. WriterPids(ppipe_per_proc') = WriterPids(ppipe_per_proc)
  <2>1. WriterPids(ppipe_per_proc) = Holding(held, O_WRITE)
        /\ WriterPids(ppipe_per_proc') = Holding(held', O_WRITE)
    BY <1>0, ByHeld
  <2> QED BY <1>1, <2>1
<1> QED BY <1>1, <1>5, <1>6, <1>7, <1>8, <1>9, <1>11, <1>12, AsFlush

\* A close takes the process from the readers or from the writers; no position
\* changes.
LEMMA CloseSimulates ==
  ASSUME CursorsInv, SlotsInv, Inv', NEW p, NEW m \in Modes, ppipe_close(p, m),
         UNCHANGED <<ppipe_global, user>>
  PROVE  p \in Pids /\ (Log!CloseReader(p) \/ Log!CloseWriter(p))
<1> PICK c, w : c = CursorMap(ppipe_per_proc) /\ w = WriterPids(ppipe_per_proc)
  OBVIOUS
<1>0. SlotsMatch(ppipe_per_proc, held) /\ SlotsMatch(ppipe_per_proc', held')
  BY Matching DEF Inv, CursorsInv
<1>1. p \in Pids /\ held' = held \ {<<p, m>>} /\ held \subseteq Pids \X Modes
  BY DEF ppipe_close, CursorsInv, TypeOK
<1>2. O_READ \in Modes /\ O_WRITE \in Modes /\ O_READ # O_WRITE /\ m \in {O_READ, O_WRITE}
  BY ConstantFacts
<1>3. /\ Holding(held', O_READ) = IF m = O_READ THEN Holding(held, O_READ) \ {p} ELSE Holding(held, O_READ)
      /\ Holding(held', O_WRITE) = IF m = O_WRITE THEN Holding(held, O_WRITE) \ {p} ELSE Holding(held, O_WRITE)
  BY <1>1, <1>2 DEF Holding
<1>4. IsPositions(c, ppipe_per_proc, held)
  BY <1>0, CursorsAre
<1>5. w = Holding(held, O_WRITE) /\ WriterPids(ppipe_per_proc') = Holding(held', O_WRITE)
  BY <1>0, ByHeld
<1>6. ppipe_per_proc \in [Slots -> PPipeSlot] /\ 1 \in Pids
  BY CursorFacts, ConstantFacts
<1>7. \/ UNCHANGED ppipe_per_proc
      \/ \E i \in Slots : ppipe_per_proc' = [ppipe_per_proc EXCEPT ![i] = ClosedSlot(@, m)]
  BY DEF ppipe_close
<1>8. ASSUME NEW j \in OpenReaders(ppipe_per_proc')
      PROVE  /\ j \in OpenReaders(ppipe_per_proc)
             /\ ppipe_per_proc'[j].pid = ppipe_per_proc[j].pid
             /\ ppipe_per_proc'[j].bytes_read = ppipe_per_proc[j].bytes_read
  <2>1. j \in Slots /\ ppipe_per_proc'[j].read_open = 1 /\ ppipe_per_proc[j] \in PPipeSlot
    BY <1>6 DEF OpenReaders
  <2>2. ppipe_per_proc'[j] \in {ppipe_per_proc[j], ClosedSlot(ppipe_per_proc[j], m)}
    BY <1>6, <1>7, <2>1
  <2> QED BY <1>6, <2>1, <2>2, CursorKept, EndsAfter DEF OpenReaders
<1>9. ASSUME NEW j \in OpenReaders(ppipe_per_proc')
      PROVE  /\ ppipe_per_proc'[j].pid \in Holding(held', O_READ)
             /\ c[ppipe_per_proc'[j].pid] = ppipe_per_proc'[j].bytes_read
  <2>1. c[ppipe_per_proc[j].pid] = ppipe_per_proc[j].bytes_read
    BY <1>4, <1>8 DEF IsPositions
  <2> QED BY <1>0, <1>8, <2>1, ReadersHold
<1>10. CASE m = O_READ
  <2> PICK x : x = [q \in DOMAIN c \ {p} |-> c[q]]
    OBVIOUS
  <2>1. DOMAIN c = Holding(held, O_READ)
    BY <1>4 DEF IsPositions
  <2>2. x = [q \in Holding(held', O_READ) |-> x[q]] /\ \A q \in Holding(held', O_READ) : x[q] = c[q]
    BY <1>3, <1>10, <2>1
  <2>3. IsPositions(x, ppipe_per_proc', held')
    BY <1>9, <2>2 DEF IsPositions
  <2>4. CursorMap(ppipe_per_proc') = x
    BY <1>0, <2>3, CursorsFrom
  <2>5. WriterPids(ppipe_per_proc') = w
    BY <1>2, <1>3, <1>5, <1>10
  <2> QED BY <1>1, <2>4, <2>5, AsCloseReader
<1>11. CASE m = O_WRITE
  <2>1. c = [q \in Holding(held', O_READ) |-> c[q]]
    BY <1>2, <1>3, <1>4, <1>11 DEF IsPositions
  <2>2. IsPositions(c, ppipe_per_proc', held')
    BY <1>9, <2>1 DEF IsPositions
  <2>3. CursorMap(ppipe_per_proc') = c
    BY <1>0, <2>2, CursorsFrom
  <2>4. WriterPids(ppipe_per_proc') = w \ {p}
    BY <1>3, <1>5, <1>11
  <2> QED BY <1>1, <2>3, <2>4, AsCloseWriter
<1> QED BY <1>2, <1>10, <1>11

\* A child reads from its parent's position, and writes if its parent does; a
\* process that holds no end leaves the pipe alone.
LEMMA ForkSimulates ==
  ASSUME EnoughSlots, CursorsInv, SlotsInv, Inv', NEW p \in Pids, do_fork(p)
  PROVE  (\E q \in Pids : Log!Fork(p, q)) \/ UNCHANGED Log!vars
<1> PICK q \in Pids :
      /\ IsLowest(q, Pids \ alive)
      /\ alive' = alive \cup {q}
      /\ held' = held \cup {<<q, k>> : k \in {k \in Modes : <<p, k>> \in held}}
      /\ IF \E m \in Modes : <<p, m>> \in held
           THEN do_ppipe_fork(q, p) ELSE UNCHANGED ppipe_per_proc
  BY DEF do_fork
<1> PICK c, w : c = CursorMap(ppipe_per_proc) /\ w = WriterPids(ppipe_per_proc)
  OBVIOUS
<1>0. SlotsMatch(ppipe_per_proc, held) /\ SlotsMatch(ppipe_per_proc', held') /\ Inv
  BY Matching DEF Inv, CursorsInv
<1>1. UNCHANGED <<ppipe_global, user>> /\ p \in alive /\ held \subseteq Pids \X Modes
  BY DEF do_fork, Running, CursorsInv, TypeOK
<1>2. q \notin alive /\ q # p /\ \A m \in Modes : <<q, m>> \notin held
  BY <1>1 DEF IsLowest, SlotsInv
<1>3. CASE ~\E m \in Modes : <<p, m>> \in held
  BY <1>1, <1>3, AsStutter
<1>4. CASE \E m \in Modes : <<p, m>> \in held
  <2>1. SlotsOf(p) # {}
    BY <1>4 DEF SlotsOf, SlotsInv
  <2> PICK i \in Slots, j \in Slots :
        /\ IsLowest(i, ChildSlots(q)) /\ IsSlotOf(j, p)
        /\ ppipe_per_proc' = [ppipe_per_proc EXCEPT ![i] = InheritedSlot(q, ppipe_per_proc[j])]
    BY <1>0, <1>4, <2>1, SlotForChild DEF do_ppipe_fork
  <2>2. ppipe_per_proc[j].pid = p
    BY DEF IsSlotOf, IsLowest, SlotsOf
  <2>3. ppipe_per_proc \in [Slots -> PPipeSlot] /\ O_READ \in Modes /\ O_WRITE \in Modes
    BY CursorFacts, ConstantFacts
  <2>4. /\ ppipe_per_proc'[i] = InheritedSlot(q, ppipe_per_proc[j])
        /\ \A l \in Slots \ {i} : ppipe_per_proc'[l] = ppipe_per_proc[l]
    BY <2>3
  <2>5. /\ ppipe_per_proc'[i].pid = q
        /\ ppipe_per_proc'[i].read_open = ppipe_per_proc[j].read_open
        /\ ppipe_per_proc'[i].bytes_read = ppipe_per_proc[j].bytes_read
    BY <2>3, <2>4, CursorKept, EndsAfter
  <2>6. IsPositions(c, ppipe_per_proc, held) /\ DOMAIN c = Holding(held, O_READ)
    BY <1>0, CursorsAre DEF IsPositions
  <2>7. /\ Holding(held', O_READ) = IF p \in Holding(held, O_READ) THEN Holding(held, O_READ) \cup {q}
                                                                    ELSE Holding(held, O_READ)
        /\ Holding(held', O_WRITE) = IF p \in Holding(held, O_WRITE) THEN Holding(held, O_WRITE) \cup {q}
                                                                      ELSE Holding(held, O_WRITE)
    <3>1. \A y \in Pids, k \in Modes : <<y, k>> \in held' <=> <<y, k>> \in held \/ (y = q /\ <<p, k>> \in held)
      OBVIOUS
    <3> QED BY <2>3, <3>1 DEF Holding
  <2>8. q \notin Holding(held, O_READ) /\ q \notin Holding(held, O_WRITE)
    BY <1>2, <2>3 DEF Holding
  <2>9. CursorMap(ppipe_per_proc') = ForkedMap(c, p, q)
    <3> PICK x : x = ForkedMap(c, p, q)
      OBVIOUS
    <3>1. /\ x = [y \in Holding(held', O_READ) |-> x[y]]
          /\ \A y \in Holding(held', O_READ) : x[y] = IF y = q THEN c[p] ELSE c[y]
      <4>1. (DOMAIN c \ {q}) \cup {y \in {q} : p \in DOMAIN c} = Holding(held', O_READ)
        BY <2>6, <2>7, <2>8
      <4>2. x = [y \in Holding(held', O_READ) |-> IF y = q THEN c[p] ELSE c[y]]
        BY <4>1 DEF ForkedMap
      <4> QED BY <4>2
    <3>2. ASSUME NEW l \in OpenReaders(ppipe_per_proc')
          PROVE  x[ppipe_per_proc'[l].pid] = ppipe_per_proc'[l].bytes_read
      <4>1. l \in Slots /\ ppipe_per_proc'[l].read_open = 1 /\ ppipe_per_proc'[l].pid \in Holding(held', O_READ)
        BY <1>0, ReadersHold DEF OpenReaders
      <4>2. CASE l = i
        <5>1. j \in OpenReaders(ppipe_per_proc)
          BY <2>5, <4>1, <4>2 DEF OpenReaders
        <5>2. c[p] = ppipe_per_proc[j].bytes_read
          BY <2>2, <2>6, <5>1 DEF IsPositions
        <5>3. q \in Holding(held', O_READ) /\ ppipe_per_proc'[l].pid = q
          BY <2>5, <4>1, <4>2
        <5>4. x[q] = c[p]
          BY <3>1, <5>3
        <5> QED BY <2>5, <4>2, <5>2, <5>3, <5>4
      <4>3. CASE l # i
        <5>1. ppipe_per_proc'[l] = ppipe_per_proc[l] /\ l \in OpenReaders(ppipe_per_proc)
          BY <2>4, <4>1, <4>3 DEF OpenReaders
        <5>2. /\ ppipe_per_proc[l].pid \in Holding(held, O_READ)
              /\ c[ppipe_per_proc[l].pid] = ppipe_per_proc[l].bytes_read
          BY <1>0, <2>6, <5>1, ReadersHold DEF IsPositions
        <5>3. ppipe_per_proc[l].pid # q
          BY <2>8, <5>2
        <5> QED BY <3>1, <4>1, <5>1, <5>2, <5>3
      <4> QED BY <4>2, <4>3
    <3>3. IsPositions(x, ppipe_per_proc', held')
      BY <3>1, <3>2 DEF IsPositions
    <3> QED BY <1>0, <3>3, CursorsFrom
  <2>10. WriterPids(ppipe_per_proc') = (w \ {q}) \cup {y \in {q} : p \in w}
    <3>1. w = Holding(held, O_WRITE) /\ WriterPids(ppipe_per_proc') = Holding(held', O_WRITE)
      BY <1>0, ByHeld
    <3> QED BY <2>7, <2>8, <3>1
  <2>11. Log!Fork(p, q)
    BY <1>1, <1>2, <2>9, <2>10, AsFork
  <2> QED BY <2>11
<1> QED BY <1>3, <1>4

\* Before the pipe is created nobody holds an end, and it is empty.
FreshInv == ~allocated => held = {} /\ ppipe_global.buff_len = 0

\* The creator reads and writes, from the start of an empty log.
LEMMA CreateSimulates ==
  ASSUME CursorsInv, SlotsInv, FreshInv, CursorsInv', Inv', NEW p \in Pids, create_persistent_pipe(p)
  PROVE  Log!Create(p)
<1> PICK c : c = CursorMap(ppipe_per_proc)
  OBVIOUS
<1>0. SlotsMatch(ppipe_per_proc, held) /\ SlotsMatch(ppipe_per_proc', held')
  BY Matching DEF Inv, CursorsInv
<1>1. held = {} /\ ppipe_global.buff_len = 0 /\ held' = {p} \X Modes /\ UNCHANGED user
  BY DEF FreshInv, create_persistent_pipe
<1>2. O_READ \in Modes /\ O_WRITE \in Modes
  BY ConstantFacts
<1>3. /\ Holding(held, O_READ) = {} /\ Holding(held, O_WRITE) = {}
      /\ Holding(held', O_READ) = {p} /\ Holding(held', O_WRITE) = {p}
  BY <1>1, <1>2 DEF Holding
<1>4. DOMAIN c = {}
  BY <1>0, <1>3, CursorsAre DEF IsPositions
<1>5. WriterPids(ppipe_per_proc) = {} /\ WriterPids(ppipe_per_proc') = {p}
  BY <1>0, <1>3, ByHeld
<1>6. ppipe_global \in Global /\ ppipe_global' \in Global /\ ppipe_global'.buff_len = 0
  <2>1. ppipe_global \in Global /\ ppipe_global' \in Global
    BY DEF CursorsInv, TypeOK, Global
  <2>2. ppipe_global' = [ppipe_global EXCEPT !.buff_len = 0, !.buff_start = 0, !.buff_end = 0]
    BY DEF create_persistent_pipe
  <2> QED BY <2>1, <2>2 DEF Global
<1>7. KeptOf(ppipe_global) = << >> /\ KeptOf(ppipe_global') = << >>
  <2>1. ASSUME NEW g \in Global, g.buff_len = 0 PROVE KeptOf(g) = << >>
    BY <2>1, KeptLength
  <2> QED BY <1>1, <1>6, <2>1
<1>8. CursorMap(ppipe_per_proc') = [q \in {p} |-> 0]
  <2> PICK x : x = [q \in {p} |-> 0]
    OBVIOUS
  <2>1. x = [q \in Holding(held', O_READ) |-> x[q]]
    BY <1>3
  <2>2. ASSUME NEW i \in OpenReaders(ppipe_per_proc')
        PROVE  x[ppipe_per_proc'[i].pid] = ppipe_per_proc'[i].bytes_read
    <3>1. ppipe_per_proc'[i].pid = p
      BY <1>0, <1>3, ReadersHold
    <3>2. ppipe_per_proc'[i] \in {[FreeSlot EXCEPT !.pid = p, !.read_open = 1, !.write_open = 1], FreeSlot}
      BY DEF create_persistent_pipe, OpenReaders
    <3>3. FreeSlot.bytes_read = 0
          /\ [FreeSlot EXCEPT !.pid = p, !.read_open = 1, !.write_open = 1].bytes_read = 0
      BY DEF FreeSlot
    <3>4. ppipe_per_proc'[i].bytes_read = 0
      BY <3>2, <3>3
    <3> QED BY <3>1, <3>4
  <2>3. IsPositions(x, ppipe_per_proc', held')
    BY <2>1, <2>2 DEF IsPositions
  <2> QED BY <1>0, <2>3, CursorsFrom
<1> QED BY <1>1, <1>4, <1>5, <1>7, <1>8, AsCreate

-----------------------------------------------------------------------------
LogInv == CursorsInv /\ SlotsInv /\ FreshInv

\* A close finds the slot of the process, whose pid stays: the pages are never
\* freed.
LEMMA CloseKeepsPages ==
  ASSUME CursorsInv, SlotsInv, NEW p, NEW m \in Modes, ppipe_close(p, m)
  PROVE  allocated'
<1>1. p \in Pids /\ <<p, m>> \in held
  BY DEF ppipe_close, CursorsInv, TypeOK
<1>2. SlotsOf(p) # {}
  BY <1>1 DEF SlotsInv, SlotsOf
<1> PICK i \in Slots :
      /\ IsSlotOf(i, p)
      /\ ppipe_per_proc' = [ppipe_per_proc EXCEPT ![i] = ClosedSlot(@, m)]
      /\ allocated' = (\E j \in Slots : ppipe_per_proc'[j].pid # NoPid)
  BY <1>2 DEF ppipe_close
<1>3. ppipe_per_proc \in [Slots -> PPipeSlot] /\ ppipe_per_proc[i].pid = p /\ p # NoPid
  BY <1>1, CursorFacts, ConstantFacts DEF IsSlotOf, IsLowest, SlotsOf
<1>4. ppipe_per_proc'[i].pid # NoPid
  <2>1. ppipe_per_proc'[i] = ClosedSlot(ppipe_per_proc[i], m) /\ ppipe_per_proc[i] \in PPipeSlot
    BY <1>3
  <2> QED BY <1>1, <1>3, <2>1, EndsAfter
<1>5. \E j \in Slots : ppipe_per_proc'[j].pid # NoPid
  BY <1>4
<1> QED BY <1>5

LEMMA NextFresh == LogInv /\ [Next]_vars => FreshInv'
<1> SUFFICES ASSUME LogInv, [Next]_vars PROVE FreshInv'
  OBVIOUS
<1>0. CursorsInv /\ SlotsInv /\ FreshInv
  BY DEF LogInv
<1>1. ASSUME UNCHANGED <<allocated, held, ppipe_global>> PROVE FreshInv'
  BY <1>0, <1>1 DEF FreshInv
<1>2. ASSUME NEW p, NEW m \in Modes, ppipe_close(p, m) PROVE FreshInv'
  BY <1>0, <1>2, CloseKeepsPages DEF FreshInv
<1>3. CASE do_file_exit
  BY <1>2, <1>3 DEF do_file_exit
<1>4. ASSUME NEW p \in Pids, NEW m \in Modes, do_close(p, m) PROVE FreshInv'
  BY <1>2, <1>4 DEF do_close
<1>5. ASSUME NEW p \in Pids, create_persistent_pipe(p) PROVE FreshInv'
  BY <1>5 DEF create_persistent_pipe, FreshInv
<1>6. ASSUME NEW p \in Pids, do_fork(p) PROVE FreshInv'
  <2>1. UNCHANGED <<allocated, ppipe_global>> /\ \E q \in Pids :
          held' = held \cup {<<q, m>> : m \in {m \in Modes : <<p, m>> \in held}}
    BY <1>6 DEF do_fork
  <2>2. held = {} => held' = {}
    BY <2>1
  <2> QED BY <1>0, <2>1, <2>2 DEF FreshInv
<1>7. ASSUME NEW p \in Pids, do_flush_ppipe(p) PROVE FreshInv'
  <2>1. held # {} /\ UNCHANGED allocated
    BY <1>7 DEF do_flush_ppipe
  <2> QED BY <1>0, <2>1 DEF FreshInv
<1>8. ASSUME NEW p \in Pids, NEW count, ppipe_read(p, count) PROVE FreshInv'
  BY <1>1, <1>8 DEF ppipe_read
<1>9. ASSUME NEW p \in Pids, NEW data, NEW count, ppipe_write(p, data, count) PROVE FreshInv'
  <2>1. held # {} /\ UNCHANGED allocated
    BY <1>9 DEF ppipe_write, WritePermitted
  <2> QED BY <1>0, <2>1 DEF FreshInv
<1>10. CASE ExitReturn \/ UNCHANGED vars \/ \E p \in Pids : do_exit(p)
  BY <1>1, <1>10 DEF ExitReturn, vars, do_exit
<1> QED BY <1>3, <1>4, <1>5, <1>6, <1>7, <1>8, <1>9, <1>10 DEF Next

\* The log is empty and nobody reads or writes it.
LEMMA InitLog == Init => Log!Init
<1> SUFFICES ASSUME Init PROVE Log!Init
  OBVIOUS
<1> PICK c : c = CursorMap(ppipe_per_proc)
  OBVIOUS
<1>1. CursorsInv /\ SlotsInv
  BY InitCursors, InitSlots
<1>2. SlotsMatch(ppipe_per_proc, held)
  BY <1>1, Matching DEF Inv, CursorsInv
<1>3. Holding(held, O_READ) = {} /\ Holding(held, O_WRITE) = {}
  BY DEF Init, Holding
<1>4. c = [p \in {} |-> 0]
  <2>1. c = [p \in {} |-> c[p]]
    BY <1>2, <1>3, CursorsAre DEF IsPositions
  <2> QED BY <2>1
<1>5. WriterPids(ppipe_per_proc) = {}
  BY <1>2, <1>3, ByHeld
<1>6. KeptOf(ppipe_global) = << >>
  <2>1. ppipe_global \in Global /\ ppipe_global.buff_len = 0
    BY <1>1, CursorFacts DEF Init
  <2> QED BY <2>1, KeptLength
<1>7. user = << >>
  BY DEF Init
<1> QED BY <1>4, <1>5, <1>6, <1>7, LogMapped DEF Log!Init

\* Every step is one of the log, or none.
LEMMA NextSimulates ==
  ASSUME EnoughSlots, LogInv, LogInv', [Next]_vars
  PROVE  [Log!Next]_(Log!vars)
<1>0. /\ CursorsInv /\ SlotsInv /\ FreshInv
      /\ CursorsInv' /\ Inv'
  BY DEF LogInv, Inv, CursorsInv
<1>1. ASSUME NEW p \in Pids, create_persistent_pipe(p) PROVE Log!Next
  <2>1. Log!Create(p)
    BY <1>0, <1>1, CreateSimulates
  <2> QED BY <2>1 DEF Log!Next
<1>2. ASSUME NEW p \in Pids, do_flush_ppipe(p) PROVE Log!Next
  <2>1. Log!Flush
    BY <1>0, <1>2, FlushSimulates
  <2> QED BY <2>1 DEF Log!Next
<1>3. ASSUME NEW p \in Pids, do_fork(p) PROVE Log!Next \/ UNCHANGED Log!vars
  <2>1. (\E q \in Pids : Log!Fork(p, q)) \/ UNCHANGED Log!vars
    BY <1>0, <1>3, ForkSimulates
  <2> QED BY <2>1 DEF Log!Next
<1>4. ASSUME NEW p, NEW m \in Modes, ppipe_close(p, m), UNCHANGED <<ppipe_global, user>> PROVE Log!Next
  <2>1. p \in Pids /\ (Log!CloseReader(p) \/ Log!CloseWriter(p))
    BY <1>0, <1>4, CloseSimulates
  <2> QED BY <2>1 DEF Log!Next
<1>5. CASE do_file_exit
  BY <1>4, <1>5 DEF do_file_exit
<1>6. ASSUME NEW p \in Pids, NEW m \in Modes, do_close(p, m) PROVE Log!Next
  BY <1>4, <1>6 DEF do_close
<1>7. ASSUME NEW p \in Pids, NEW count \in 0..MAX_COUNT, ppipe_read(p, count) PROVE Log!Next
  <2>1. Log!Read(p, count)
    BY <1>0, <1>7, ReadSimulates, PPipeAssumption
  <2> QED BY <2>1 DEF Log!Next
<1>8. ASSUME NEW p \in Pids, NEW count \in 0..MAX_COUNT,
             NEW data \in [1..MAX_PPIPE_SIZE -> Bytes], ppipe_write(p, data, count)
      PROVE  Log!Next
  <2>1. Log!Write(p, data, count)
    BY <1>0, <1>8, WriteSimulates, PPipeAssumption
  <2> QED BY <2>1 DEF Log!Next
<1>9. CASE ExitReturn \/ UNCHANGED vars \/ \E p \in Pids : do_exit(p)
  BY <1>9, AsStutter DEF ExitReturn, vars, do_exit
<1> QED BY <1>1, <1>2, <1>3, <1>5, <1>6, <1>7, <1>8, <1>9 DEF Next

\* With the slots the code has, a persistent pipe is the log: every reader reads
\* all bytes written since it, or the ancestor it forked from, began, in order
\* and at its own pace, whatever is flushed, forked and closed meanwhile.
THEOREM PPipeIsLog == ASSUME EnoughSlots PROVE Spec => ImplementsLog
<1>1. Init => LogInv
  <2>1. Init => FreshInv
    <3> SUFFICES ASSUME Init PROVE held = {} /\ ppipe_global.buff_len = 0
      BY DEF FreshInv
    <3> QED BY DEF Init
  <2> QED BY <2>1, InitCursors, InitSlots DEF LogInv
<1>2. LogInv /\ [Next]_vars => LogInv'
  BY NextCursors, NextSlots, NextFresh DEF LogInv
<1>3. LogInv /\ LogInv' /\ [Next]_vars => [Log!Next]_(Log!vars)
  BY NextSimulates
<1> QED BY <1>1, <1>2, <1>3, InitLog, PTL DEF Spec, ImplementsLog, Log!Spec
=============================================================================
