--------------------------- MODULE Threads_proofs ----------------------------
(***************************************************************************)
(* Threads and their joins, for any number of contexts, threads, areas and *)
(* pages, and in any program: mapped private memory has a living owner     *)
(* (NoOrphanArea), a join returns after its thread has ended               *)
(* (JoinAfterDeath) and with no result of an older one (FreshResult), and  *)
(* the tables have room whenever the library has (CanCreate).              *)
(***************************************************************************)
EXTENDS ThreadsProperties, FiniteSetTheorems, TLAPS

SlotRecords == [pid : 0 .. NPid, status : {TH_UNUSED, TH_USED},
                maps : SUBSET [start : Areas, flags : Flags]]
States == {UNUSED, READY, RUNNING, WAITING, EXITING}
ContextTable == [Pids -> [state : States, ticks_to_sleep : Int]]

Used(k) == {i \in Slots : k.threads[i].status = TH_USED}
Owned(k, i) == Starts(k.threads[i].maps)
HasSlot(k, p) == \E i \in Used(k) : k.threads[i].pid = p
Live(c, p) == c[p].state \notin {UNUSED, EXITING}

\* The search for a pid finds the used slot before any stale one, and the areas
\* of the used slots are those that are mapped.
MemInv(k) ==
  /\ k = [threads |-> k.threads, mapped |-> k.mapped, pte |-> k.pte]
  /\ k.threads \in [Slots -> SlotRecords] /\ k.mapped \subseteq Areas
  /\ \A i \in Slots \ Used(k) : k.threads[i].maps = {}
  /\ \A i \in Used(k), j \in Slots : j < i => k.threads[j].pid # k.threads[i].pid
  /\ \A i, j \in Slots : i # j => Owned(k, i) \cap Owned(k, j) = {}
  /\ \A a : a \in k.mapped <=> \E i \in Used(k) : a \in Owned(k, i)

\* Used slots are those of threads whose contexts live.
Known(c, k) ==
  \A i \in Used(k) : k.threads[i].pid \in ThreadPids /\ Live(c, k.threads[i].pid)

Inv ==
  /\ ctx \in ContextTable /\ current \in 0 .. NPid /\ made \in Nat
  /\ current # Swapper => Live(ctx, current)
  /\ MemInv(kt) /\ Known(ctx, kt)
  /\ th \in [ThreadPids -> [at : {"none", "run", "result"}, guard : BOOLEAN, num : Nat]]
  /\ \A p \in ThreadPids : th[p].at # "none" => HasSlot(kt, p)

-----------------------------------------------------------------------------
LEMMA LeastNumber ==
  ASSUME NEW S \in SUBSET Nat, S # {}
  PROVE  Min(S) \in S /\ \A m \in S : Min(S) <= m
<1>1. \E n \in S : \A m \in S : ~(m < n)
  <2>1. \E n \in S : \A m \in S : <<m, n>> \notin OpToRel(<, Nat)
    BY NatLessThanWellFounded, WFMin
  <2> QED BY <2>1 DEF OpToRel
<1>2. \E n \in S : \A m \in S : n <= m
  BY <1>1
<1> QED BY <1>2 DEF Min

\* The scheduler picks a context that is READY, or the swapper.
LEMMA Picked ==
  ASSUME NEW c \in ContextTable, NEW p \in 0 .. NPid
  PROVE  LET next == pick_next_context(c, p)
         IN next = Swapper \/ (next \in Pids /\ c[next].state = READY)
<1> DEFINE ready == {q \in Pids : c[q].state = READY}
           distances == {Distance(p, q) : q \in ready}
<1>1. CASE ready = {}
  BY <1>1 DEF pick_next_context
<1>2. CASE ready # {}
  <2>1. \A q \in ready : Distance(p, q) \in Nat
    BY SchedulerAssumption DEF Distance, Pids
  <2>2. distances \in SUBSET Nat /\ distances # {}
    BY <1>2, <2>1
  <2>3. \E d \in distances : \A e \in distances : d <= e
    <3> HIDE DEF distances
    <3> QED BY <2>2, LeastNumber
  <2>4. \E q \in ready : \A r \in ready : Distance(p, q) <= Distance(p, r)
    BY <2>3
  <2>5. pick_next_context(c, p) \in ready
    BY <1>2, <2>4 DEF pick_next_context
  <2> QED BY <2>5
<1> QED BY <1>1, <1>2

\* The slot the search for a thread's pid finds is its own.
LEMMA FoundSlot ==
  ASSUME NEW k, MemInv(k), NEW p, HasSlot(k, p)
  PROVE  /\ find_thread_from_pid(k, p) \in Used(k)
         /\ k.threads[find_thread_from_pid(k, p)].pid = p
<1>1. PICK i \in Used(k) : k.threads[i].pid = p
  BY DEF HasSlot
<1>2. i \in SlotsOf(k, p) /\ SlotsOf(k, p) \subseteq Slots /\ Slots \subseteq Nat
  BY <1>1 DEF SlotsOf, Used, Slots
<1>3. Min(SlotsOf(k, p)) \in SlotsOf(k, p) /\ Min(SlotsOf(k, p)) <= i
  BY <1>2, LeastNumber
<1>4. Min(SlotsOf(k, p)) = i
  BY <1>1, <1>2, <1>3 DEF MemInv, SlotsOf
<1> QED BY <1>1, <1>2, <1>4 DEF find_thread_from_pid

-----------------------------------------------------------------------------
\* The tables change.

\* A switch and a fault change only page entries.
LEMMA OtherPages ==
  ASSUME NEW k, MemInv(k), NEW pte
  PROVE  LET new == [threads |-> k.threads, mapped |-> k.mapped, pte |-> pte]
         IN MemInv(new) /\ Used(new) = Used(k) /\ new.threads = k.threads
<1> PICK new : new = [threads |-> k.threads, mapped |-> k.mapped, pte |-> pte]
  OBVIOUS
<1>1. new.threads = k.threads /\ new.mapped = k.mapped /\ new.pte = pte
  OBVIOUS
<1>2. Used(new) = Used(k) /\ \A i : Owned(new, i) = Owned(k, i)
  BY <1>1 DEF Used, Owned
<1>3. MemInv(new)
  BY <1>1, <1>2 DEF MemInv
<1> QED BY <1>1, <1>2, <1>3

\* A used slot gets other areas.
LEMMA OtherAreas ==
  ASSUME NEW k, MemInv(k), NEW i \in Used(k),
         NEW maps \in SUBSET [start : Areas, flags : Flags], NEW pte,
         \A j \in Slots \ {i} : Starts(maps) \cap Owned(k, j) = {},
         NEW new, new = [threads |-> [k.threads EXCEPT ![i].maps = maps],
                         mapped |-> (k.mapped \ Owned(k, i)) \cup Starts(maps), pte |-> pte]
  PROVE  /\ MemInv(new) /\ Used(new) = Used(k)
         /\ \A j \in Slots : new.threads[j].pid = k.threads[j].pid
<1>1. /\ k.threads \in [Slots -> SlotRecords] /\ i \in Slots
      /\ k.threads[i].status = TH_USED
  BY DEF MemInv, Used
<1>2. /\ new.threads = [k.threads EXCEPT ![i].maps = maps]
      /\ new.mapped = (k.mapped \ Owned(k, i)) \cup Starts(maps)
      /\ new = [threads |-> new.threads, mapped |-> new.mapped, pte |-> new.pte]
  OBVIOUS
<1>3. /\ new.threads \in [Slots -> SlotRecords]
      /\ \A j \in Slots : /\ new.threads[j].pid = k.threads[j].pid
                          /\ new.threads[j].status = k.threads[j].status
      /\ new.threads[i].maps = maps
      /\ \A j \in Slots \ {i} : new.threads[j].maps = k.threads[j].maps
  BY <1>1, <1>2 DEF SlotRecords
<1>4. /\ Used(new) = Used(k) /\ Owned(new, i) = Starts(maps)
      /\ \A j \in Slots \ {i} : Owned(new, j) = Owned(k, j)
  BY <1>3 DEF Used, Owned
<1>5. new.mapped \subseteq Areas
  BY <1>2 DEF MemInv, Starts
<1>6. \A j \in Slots \ Used(new) : new.threads[j].maps = {}
  BY <1>3, <1>4 DEF MemInv
<1>7. \A j \in Used(new), l \in Slots : l < j => new.threads[l].pid # new.threads[j].pid
  BY <1>3, <1>4 DEF MemInv, Used
<1>8. \A j, l \in Slots : j # l => Owned(new, j) \cap Owned(new, l) = {}
  <2> TAKE j, l \in Slots
  <2> HAVE j # l
  <2>1. CASE j = i
    <3>1. Starts(maps) \cap Owned(k, l) = {}
      BY <2>1
    <3> QED BY <1>4, <2>1, <3>1
  <2>2. CASE l = i
    <3>1. Starts(maps) \cap Owned(k, j) = {}
      BY <2>2
    <3> QED BY <1>4, <2>2, <3>1
  <2>3. CASE j # i /\ l # i
    BY <1>4, <2>3 DEF MemInv
  <2> QED BY <2>1, <2>2, <2>3
<1>9. \A a : a \in new.mapped <=> \E j \in Used(new) : a \in Owned(new, j)
  <2> TAKE a
  <2>1. CASE a \in Starts(maps)
    BY <1>2, <1>4, <2>1
  <2>2. CASE a \notin Starts(maps)
    <3>1. a \in new.mapped <=> a \in k.mapped /\ a \notin Owned(k, i)
      BY <1>2, <2>2
    <3>2. a \in k.mapped <=> \E j \in Used(k) : a \in Owned(k, j)
      BY DEF MemInv
    <3>3. \A j \in Used(k) \ {i} : a \in Owned(k, j) => a \notin Owned(k, i)
      BY <1>1 DEF MemInv, Used
    <3> QED BY <1>4, <2>2, <3>1, <3>2, <3>3 DEF Used
  <2> QED BY <2>1, <2>2
<1> QED BY <1>2, <1>3, <1>4, <1>5, <1>6, <1>7, <1>8, <1>9 DEF MemInv

\* The unmap of an area takes it from its slot, unless nobody has it.
LEMMA Unmapped ==
  ASSUME NEW k, MemInv(k), NEW p, NEW isProcess \in BOOLEAN, NEW a,
         isProcess \/ HasSlot(k, p), ~UnmapFaults(k, p, isProcess, a)
  PROVE  LET new == vm_area_unmap(k, p, isProcess, a)
         IN /\ MemInv(new) /\ Used(new) = Used(k)
            /\ \A j \in Slots : new.threads[j].pid = k.threads[j].pid
<1> DEFINE found == {i \in Used(k) : a \in Owned(k, i)}
<1>0. CASE a \notin k.mapped
  BY <1>0 DEF vm_area_unmap
<1>1. CASE a \in k.mapped
  <2>0. PICK i : i = UnmapSlot(k, p, isProcess, a)
    OBVIOUS
  <2>1. i \in found
    <3> DEFINE own == IF isProcess THEN {j \in Slots : k.threads[j].status = TH_USED}
                                   ELSE {find_thread_from_pid(k, p)} \ {0}
               some == {j \in own : a \in Starts(k.threads[j].maps)}
    <3>1. own \subseteq Used(k)
      BY FoundSlot DEF Used
    <3>2. some \subseteq found /\ found \subseteq Nat
      BY <3>1 DEF Owned, Used, Slots
    <3>3. i = IF some = {} THEN 0 ELSE Min(some)
      BY <2>0 DEF UnmapSlot
    <3>4. some # {}
      <4>1. CASE isProcess
        BY <1>1, <4>1 DEF MemInv, Used, Owned
      <4>2. CASE ~isProcess
        BY <1>1, <2>0, <3>3, <4>2 DEF UnmapFaults
      <4> QED BY <4>1, <4>2
    <3>5. some \in SUBSET Nat
      BY <3>2
    <3> HIDE DEF own, some
    <3> QED BY <3>2, <3>3, <3>4, <3>5, LeastNumber
  <2>2. i \in Used(k) /\ i \in Slots /\ i # 0 /\ a \in Owned(k, i)
    BY <2>1 DEF Used, Slots
  <2>3. PICK maps : maps = {m \in k.threads[i].maps : m.start # a}
    OBVIOUS
  <2>4. /\ maps \in SUBSET [start : Areas, flags : Flags]
        /\ Starts(maps) = Owned(k, i) \ {a}
    BY <2>2, <2>3 DEF MemInv, SlotRecords, Starts, Owned
  <2>5. \A j \in Slots \ {i} : Starts(maps) \cap Owned(k, j) = {}
    BY <2>2, <2>4 DEF MemInv
  <2>6. PICK new : new = vm_area_unmap(k, p, isProcess, a)
    OBVIOUS
  <2>7. (k.mapped \ Owned(k, i)) \cup Starts(maps) = k.mapped \ {a}
    BY <2>2, <2>4 DEF MemInv
  <2>8. handle_thread_private_unmmap(k, p, isProcess, a) = [k.threads EXCEPT ![i].maps = maps]
    BY <2>0, <2>2, <2>3 DEF handle_thread_private_unmmap
  <2>9. PICK pte : pte = [k.pte EXCEPT ![a] = [n \in Pages |-> ABSENT]]
    OBVIOUS
  <2>10. new = [threads |-> [k.threads EXCEPT ![i].maps = maps],
                mapped |-> (k.mapped \ Owned(k, i)) \cup Starts(maps), pte |-> pte]
    BY <1>1, <2>6, <2>7, <2>8, <2>9 DEF vm_area_unmap
  <2>11. /\ MemInv(new) /\ Used(new) = Used(k)
         /\ \A j \in Slots : new.threads[j].pid = k.threads[j].pid
    BY <2>2, <2>4, <2>5, <2>10, OtherAreas
  <2> QED BY <2>6, <2>11
<1> QED BY <1>0, <1>1

\* A free area is mapped for a thread.
LEMMA Mapped ==
  ASSUME NEW k, MemInv(k), NEW p, HasSlot(k, p), NEW a \in FreeAreas(k), NEW flags \in Flags
  PROVE  LET new == handle_thread_private_mmap(k, p, a, flags)
         IN /\ MemInv(new) /\ Used(new) = Used(k)
            /\ \A j \in Slots : new.threads[j].pid = k.threads[j].pid
<1>1. PICK i : i = find_thread_from_pid(k, p)
  OBVIOUS
<1>2. i \in Used(k) /\ i \in Slots /\ a \in Areas /\ a \notin k.mapped
  BY <1>1, FoundSlot DEF FreeAreas, Used
<1>3. PICK maps : maps = k.threads[i].maps \cup {[start |-> a, flags |-> flags]}
  OBVIOUS
<1>4. /\ maps \in SUBSET [start : Areas, flags : Flags]
      /\ Starts(maps) = Owned(k, i) \cup {a}
  <2>1. PICK m : m = [start |-> a, flags |-> flags]
    OBVIOUS
  <2>2. m \in [start : Areas, flags : Flags] /\ m.start = a /\ maps = k.threads[i].maps \cup {m}
    BY <1>2, <1>3, <2>1
  <2>3. k.threads[i].maps \in SUBSET [start : Areas, flags : Flags]
    BY <1>2 DEF MemInv, SlotRecords
  <2> QED BY <2>2, <2>3 DEF Starts, Owned
<1>5. \A j \in Slots : a \notin Owned(k, j)
  <2> SUFFICES ASSUME NEW j \in Slots, a \in Owned(k, j) PROVE FALSE
    OBVIOUS
  <2>1. j \notin Used(k)
    BY <1>2 DEF MemInv
  <2>2. k.threads[j].maps = {}
    BY <2>1 DEF MemInv
  <2> QED BY <2>2 DEF Owned, Starts
<1>6. \A j \in Slots \ {i} : Starts(maps) \cap Owned(k, j) = {}
  BY <1>2, <1>4, <1>5 DEF MemInv
<1>7. (k.mapped \ Owned(k, i)) \cup Starts(maps) = k.mapped \cup {a}
  BY <1>2, <1>4 DEF MemInv
<1>8. PICK new : new = handle_thread_private_mmap(k, p, a, flags)
  OBVIOUS
<1>9. new = [threads |-> [k.threads EXCEPT ![i].maps = maps],
             mapped |-> k.mapped \cup {a}, pte |-> k.pte]
  <2>1. PICK threads, mapped, pte :
          /\ k = [threads |-> threads, mapped |-> mapped, pte |-> pte]
          /\ threads \in [Slots -> SlotRecords]
    BY DEF MemInv
  <2>2. new = [k EXCEPT !.mapped = @ \cup {a}, !.threads[i].maps = maps]
    BY <1>1, <1>3, <1>8 DEF handle_thread_private_mmap
  <2>3. k.threads = threads /\ k.mapped = mapped /\ k.pte = pte
    BY <2>1
  <2> QED BY <2>1, <2>2, <2>3
<1>10. /\ MemInv(new) /\ Used(new) = Used(k)
       /\ \A j \in Slots : new.threads[j].pid = k.threads[j].pid
  BY <1>2, <1>4, <1>6, <1>7, <1>9, OtherAreas
<1> QED BY <1>8, <1>10

\* A thread ends: its slot is free and its areas are unmapped.
LEMMA Exited ==
  ASSUME NEW k, MemInv(k), NEW p, HasSlot(k, p)
  PROVE  LET new == handle_thread_exit(k, p)
         IN /\ MemInv(new)
            /\ \A j \in Slots : new.threads[j].pid = k.threads[j].pid
            /\ Used(new) = {j \in Used(k) : k.threads[j].pid # p}
<1>1. PICK i : i = find_thread_from_pid(k, p)
  OBVIOUS
<1>2. i \in Used(k) /\ i \in Slots /\ k.threads[i].pid = p
  BY <1>1, FoundSlot DEF Used
<1>3. PICK pte : pte = [a \in Areas |-> IF a \in Owned(k, i) THEN [n \in Pages |-> ABSENT]
                                                          ELSE k.pte[a]]
  OBVIOUS
<1>4. PICK new : new = handle_thread_exit(k, p)
  OBVIOUS
<1>5. new = [threads |-> [k.threads EXCEPT ![i].status = TH_UNUSED, ![i].maps = {}],
             mapped |-> k.mapped \ Owned(k, i), pte |-> pte]
  BY <1>1, <1>3, <1>4 DEF handle_thread_exit, Owned
<1>6. /\ new.threads = [k.threads EXCEPT ![i].status = TH_UNUSED, ![i].maps = {}]
      /\ new.mapped = k.mapped \ Owned(k, i)
      /\ new = [threads |-> new.threads, mapped |-> new.mapped, pte |-> new.pte]
  BY <1>5
<1>7. /\ new.threads \in [Slots -> SlotRecords]
      /\ \A j \in Slots : new.threads[j].pid = k.threads[j].pid
      /\ new.threads[i].status = TH_UNUSED /\ new.threads[i].maps = {}
      /\ \A j \in Slots \ {i} : /\ new.threads[j].status = k.threads[j].status
                               /\ new.threads[j].maps = k.threads[j].maps
  <2>1. k.threads \in [Slots -> SlotRecords]
    BY DEF MemInv
  <2> QED BY <1>2, <1>6, <2>1 DEF SlotRecords
<1>8. /\ Used(new) = Used(k) \ {i} /\ Owned(new, i) = {}
      /\ \A j \in Slots \ {i} : Owned(new, j) = Owned(k, j)
  BY <1>2, <1>7 DEF Used, Owned, Starts, TH_UNUSED, TH_USED
<1>9. \A j \in Used(k) \ {i} : k.threads[j].pid # p
  BY <1>2 DEF MemInv, Used, Slots
<1>10. \A j \in Slots \ Used(new) : new.threads[j].maps = {}
  BY <1>7, <1>8 DEF MemInv
<1>11. \A j \in Used(new), l \in Slots : l < j => new.threads[l].pid # new.threads[j].pid
  BY <1>7, <1>8 DEF MemInv, Used
<1>12. \A j, l \in Slots : j # l => Owned(new, j) \cap Owned(new, l) = {}
  <2> TAKE j, l \in Slots
  <2>1. CASE j = i \/ l = i
    BY <1>8, <2>1
  <2>2. CASE j # i /\ l # i
    BY <1>8, <2>2 DEF MemInv
  <2> QED BY <2>1, <2>2
<1>13. \A a : a \in new.mapped <=> \E j \in Used(new) : a \in Owned(new, j)
  <2> TAKE a
  <2>1. a \in k.mapped <=> \E j \in Used(k) : a \in Owned(k, j)
    BY DEF MemInv
  <2>2. \A j \in Used(k) \ {i} : a \in Owned(k, j) => a \notin Owned(k, i)
    BY <1>2 DEF MemInv, Used
  <2> QED BY <1>6, <1>8, <2>1, <2>2 DEF Used
<1>14. MemInv(new)
  BY <1>6, <1>7, <1>10, <1>11, <1>12, <1>13 DEF MemInv
<1> QED BY <1>2, <1>4, <1>7, <1>8, <1>9, <1>14

\* A new thread gets the first free slot; the slots before it are used, by
\* other threads.
LEMMA SlotGiven ==
  ASSUME NEW k, MemInv(k), NEW p \in Pids, ~HasSlot(k, p), FreeSlots(k) # {}
  PROVE  LET new == Cloned(k, p)
         IN /\ MemInv(new) /\ HasSlot(new, p)
            /\ \A j \in Used(new) : \/ new.threads[j].pid = p
                                    \/ j \in Used(k) /\ new.threads[j].pid = k.threads[j].pid
            /\ \A j \in Used(k) : j \in Used(new) /\ new.threads[j].pid = k.threads[j].pid
<1>1. PICK i : i = Min(FreeSlots(k))
  OBVIOUS
<1>2. i \in FreeSlots(k) /\ \A j \in FreeSlots(k) : i <= j
  <2>1. FreeSlots(k) \in SUBSET Nat
    BY DEF FreeSlots, Slots
  <2> QED BY <1>1, <2>1, LeastNumber
<1>3. /\ i \in Slots \ Used(k) /\ \A j \in Slots : j < i => j \in Used(k)
      /\ k.threads \in [Slots -> SlotRecords]
  <2>1. k.threads \in [Slots -> SlotRecords]
    BY DEF MemInv
  <2>2. \A j \in Slots : j \in Used(k) \/ j \in FreeSlots(k)
    BY <2>1 DEF FreeSlots, Used, SlotRecords
  <2>3. i \in Slots \ Used(k)
    BY <1>2 DEF FreeSlots, Used, TH_UNUSED, TH_USED
  <2>4. \A j \in Slots : j < i => j \in Used(k)
    BY <1>2, <2>2, <2>3 DEF Slots
  <2> QED BY <2>1, <2>3, <2>4
<1>4. PICK new : new = Cloned(k, p)
  OBVIOUS
<1>5. /\ new.threads = [k.threads EXCEPT ![i].pid = p, ![i].status = TH_USED]
      /\ new.mapped = k.mapped
      /\ new = [threads |-> new.threads, mapped |-> new.mapped, pte |-> new.pte]
  <2>1. PICK threads, mapped, pte :
          /\ k = [threads |-> threads, mapped |-> mapped, pte |-> pte]
          /\ threads \in [Slots -> SlotRecords]
    BY DEF MemInv
  <2>2. new = [k EXCEPT !.threads[i].pid = p, !.threads[i].status = TH_USED]
    BY <1>1, <1>4 DEF Cloned
  <2>3. k.threads = threads /\ k.mapped = mapped /\ k.pte = pte
    BY <2>1
  <2> QED BY <2>1, <2>2, <2>3
<1>6. /\ new.threads \in [Slots -> SlotRecords]
      /\ new.threads[i].pid = p /\ new.threads[i].status = TH_USED
      /\ \A j \in Slots : new.threads[j].maps = k.threads[j].maps
      /\ \A j \in Slots \ {i} : new.threads[j] = k.threads[j]
  <2>1. p \in 0 .. NPid
    BY SchedulerAssumption DEF Pids
  <2> QED BY <1>3, <1>5, <2>1 DEF SlotRecords
<1>7. Used(new) = Used(k) \cup {i} /\ \A j \in Slots : Owned(new, j) = Owned(k, j)
  BY <1>3, <1>6 DEF Used, Owned
<1>8. \A j \in Slots \ Used(new) : new.threads[j].maps = {}
  BY <1>6, <1>7 DEF MemInv
<1>9. \A j \in Used(new), l \in Slots : l < j => new.threads[l].pid # new.threads[j].pid
  <2> TAKE j \in Used(new), l \in Slots
  <2> HAVE l < j
  <2>0. j \in Slots /\ j \in Nat /\ l \in Nat /\ i \in Nat
    BY <1>3 DEF Used, Slots
  <2>1. CASE j = i
    <3>1. l \in Used(k) /\ l # i
      BY <1>3, <2>0, <2>1
    <3>2. k.threads[l].pid # p
      BY <3>1 DEF HasSlot
    <3> QED BY <1>6, <2>1, <3>1, <3>2
  <2>2. CASE j # i
    <3>1. j \in Used(k) /\ new.threads[j].pid = k.threads[j].pid
      BY <1>6, <1>7, <2>0, <2>2
    <3>2. k.threads[j].pid # p /\ k.threads[l].pid # k.threads[j].pid
      BY <3>1 DEF MemInv, HasSlot
    <3> QED BY <1>6, <3>1, <3>2
  <2> QED BY <2>1, <2>2
<1>10. \A j, l \in Slots : j # l => Owned(new, j) \cap Owned(new, l) = {}
  BY <1>7 DEF MemInv
<1>11. \A a : a \in new.mapped <=> \E j \in Used(new) : a \in Owned(new, j)
  <2>1. Owned(k, i) = {}
    BY <1>3 DEF MemInv, Owned, Starts
  <2> QED BY <1>3, <1>5, <1>7, <2>1 DEF MemInv, Used
<1>12. MemInv(new)
  BY <1>5, <1>6, <1>8, <1>9, <1>10, <1>11 DEF MemInv
<1>13. \A j \in Used(k) : j \in Used(new) /\ new.threads[j].pid = k.threads[j].pid
  BY <1>3, <1>6, <1>7 DEF Used
<1>14. HasSlot(new, p)
  BY <1>6, <1>7 DEF HasSlot
<1>15. \A j \in Used(new) : \/ new.threads[j].pid = p
                            \/ j \in Used(k) /\ new.threads[j].pid = k.threads[j].pid
  BY <1>6, <1>7, <1>13
<1> QED BY <1>4, <1>12, <1>13, <1>14, <1>15

-----------------------------------------------------------------------------
\* A context gives up the CPU.
LEMMA Switch ==
  ASSUME NEW c \in ContextTable, NEW k, MemInv(k), NEW p \in 0 .. NPid, SwitchFrom(c, k, p)
  PROVE  /\ ctx' \in ContextTable /\ current' \in 0 .. NPid
         /\ current' # Swapper => Live(ctx', current')
         /\ \A q \in Pids : Live(c, q) => Live(ctx', q)
         /\ MemInv(kt') /\ Used(kt') = Used(k) /\ kt'.threads = k.threads
<1>1. PICK next : next = pick_next_context(c, p)
  OBVIOUS
<1>2. next = Swapper \/ (next \in Pids /\ c[next].state = READY)
  BY <1>1, Picked
<1>3. /\ current' = next
      /\ IF next = p THEN ctx' = c /\ kt' = k
         ELSE ctx' = SetState(c, next, RUNNING) /\ kt' = Switched(k, p, next)
  BY <1>1 DEF SwitchFrom
<1>4. /\ current' \in 0 .. NPid /\ ctx' \in ContextTable
      /\ \A q \in Pids : ctx'[q].state \in {c[q].state, RUNNING}
  <2>1. CASE ctx' = c
    BY <1>2, <1>3, <2>1, SchedulerAssumption DEF Pids, Swapper, ContextTable
  <2>2. CASE ctx' = SetState(c, next, RUNNING)
    BY <1>2, <1>3, <2>2, SchedulerAssumption DEF Pids, Swapper, ContextTable, SetState, States
  <2> QED BY <1>3, <2>1, <2>2
<1>5. /\ \A q \in Pids : Live(c, q) => Live(ctx', q)
      /\ current' # Swapper => Live(ctx', current')
  BY <1>2, <1>3, <1>4 DEF Live, READY, RUNNING, UNUSED, EXITING
<1>6. MemInv(kt') /\ Used(kt') = Used(k) /\ kt'.threads = k.threads
  <2>1. CASE kt' = k
    BY <2>1
  <2>2. CASE \E pte : kt' = [k EXCEPT !.pte = pte]
    <3>1. PICK pte : kt' = [k EXCEPT !.pte = pte]
      BY <2>2
    <3>2. PICK threads, mapped, old : k = [threads |-> threads, mapped |-> mapped, pte |-> old]
      BY DEF MemInv
    <3>3. kt' = [threads |-> k.threads, mapped |-> k.mapped, pte |-> pte]
      BY <3>1, <3>2
    <3> QED BY <3>3, OtherPages
  <2>3. \A from : \/ handle_private_ctxswitch(k, from, next) = k
                  \/ \E pte : handle_private_ctxswitch(k, from, next) = [k EXCEPT !.pte = pte]
    BY DEF handle_private_ctxswitch
  <2>4. kt' = k \/ \E pte : kt' = [k EXCEPT !.pte = pte]
    BY <1>3, <2>3 DEF Switched
  <2> QED BY <2>1, <2>2, <2>4
<1> QED BY <1>4, <1>5, <1>6

\* The invariant after a switch from the states c and the tables k.
LEMMA Switched_Inv ==
  ASSUME Inv, NEW c \in ContextTable, NEW k, MemInv(k), NEW p \in 0 .. NPid,
         SwitchFrom(c, k, p), Known(c, k), made' = made,
         th' \in [ThreadPids -> [at : {"none", "run", "result"}, guard : BOOLEAN, num : Nat]],
         \A q \in ThreadPids : th'[q].at # "none" => HasSlot(k, q)
  PROVE  Inv'
<1>1. /\ ctx' \in ContextTable /\ current' \in 0 .. NPid
      /\ current' # Swapper => Live(ctx', current')
      /\ \A q \in Pids : Live(c, q) => Live(ctx', q)
      /\ MemInv(kt') /\ Used(kt') = Used(k) /\ kt'.threads = k.threads
  BY Switch
<1>2. Known(ctx', kt')
  BY <1>1 DEF Known, ThreadPids
<1>3. \A q \in ThreadPids : th'[q].at # "none" => HasSlot(kt', q)
  BY <1>1 DEF HasSlot
<1> QED BY <1>1, <1>2, <1>3 DEF Inv

\* The tables change, but not who has a slot; the states do not.
LEMMA Tables_Inv ==
  ASSUME Inv, NEW k, kt' = k, MemInv(k), Used(k) = Used(kt),
         \A j \in Slots : k.threads[j].pid = kt.threads[j].pid,
         UNCHANGED <<ctx, current, th, made>>
  PROVE  Inv'
<1>1. Known(ctx, k)
  BY DEF Inv, Known, Used
<1>2. \A q : HasSlot(kt, q) => HasSlot(k, q)
  BY DEF HasSlot, Used
<1> QED BY <1>1, <1>2 DEF Inv

LEMMA Pid == Process \in Pids /\ Process \in 0 .. NPid /\ Process \notin ThreadPids
             /\ ThreadPids \subseteq Pids /\ Pids \subseteq 0 .. NPid /\ Swapper \notin Pids
  BY SchedulerAssumption DEF Process, Pids, ThreadPids, Swapper

\* A tick keeps the living alive.
LEMMA TickStates ==
  ASSUME Inv, NEW d, d = do_sleep_and_alarm_account(ctx), NEW c, c = SetState(d, current, READY)
  PROVE  /\ d \in ContextTable /\ c \in ContextTable
         /\ \A q \in Pids : Live(ctx, q) => Live(c, q)
<1>1. ctx \in ContextTable /\ current \in 0 .. NPid
  BY DEF Inv
<1>2. \A q \in Pids : ctx[q].state \in States /\ ctx[q].ticks_to_sleep \in Int
  BY <1>1 DEF ContextTable
<1>3. \A q \in Pids : \/ d[q] = ctx[q]
                     \/ \E s \in {READY, WAITING} :
                          d[q] = [state |-> s, ticks_to_sleep |-> ctx[q].ticks_to_sleep - 1]
  BY DEF do_sleep_and_alarm_account
<1>4. DOMAIN d = Pids /\ d = [q \in Pids |-> d[q]]
  BY DEF do_sleep_and_alarm_account
<1>5. ASSUME NEW q \in Pids
      PROVE  /\ d[q] \in [state : States, ticks_to_sleep : Int]
             /\ d[q].state \in {ctx[q].state, READY, WAITING}
  <2>1. CASE d[q] = ctx[q]
    BY <1>1, <2>1 DEF ContextTable
  <2>2. CASE d[q] # ctx[q]
    <3>1. PICK s \in {READY, WAITING} :
            d[q] = [state |-> s, ticks_to_sleep |-> ctx[q].ticks_to_sleep - 1]
      BY <1>3, <2>2
    <3>2. ctx[q].ticks_to_sleep - 1 \in Int /\ s \in States
      BY <1>2 DEF States
    <3> QED BY <3>1, <3>2
  <2> QED BY <2>1, <2>2
<1>6. d \in ContextTable
  BY <1>4, <1>5 DEF ContextTable
<1>7. \A q \in Pids : Live(ctx, q) => Live(d, q)
  BY <1>5 DEF Live, READY, WAITING, UNUSED, EXITING
<1>8. c \in ContextTable /\ \A q \in Pids : Live(d, q) => Live(c, q)
  BY <1>6 DEF SetState, ContextTable, States, Live, READY, UNUSED, EXITING
<1> QED BY <1>6, <1>7, <1>8

LEMMA TickStep ==
  ASSUME Inv, handle_timer_tick
  PROVE  Inv'
<1>1. PICK d, c : d = do_sleep_and_alarm_account(ctx) /\ c = SetState(d, current, READY)
  OBVIOUS
<1>2. SwitchFrom(c, kt, current) /\ th' = th /\ made' = made
  BY <1>1 DEF handle_timer_tick, Ticked
<1>3. c \in ContextTable /\ \A q \in Pids : Live(ctx, q) => Live(c, q)
  BY <1>1, TickStates
<1>4. Known(c, kt)
  BY <1>3, Pid DEF Inv, Known
<1> QED BY <1>2, <1>3, <1>4, Switched_Inv DEF Inv

LEMMA SleepStep ==
  ASSUME Inv, NEW p \in Pids, NEW n \in 1 .. MaxSleep, do_sleep(p, n)
  PROVE  Inv'
<1>1. PICK c : c = [ctx EXCEPT ![p] = [state |-> WAITING, ticks_to_sleep |-> n]]
  OBVIOUS
<1>2. ctx \in ContextTable /\ n \in Int
  BY SchedulerAssumption DEF Inv
<1>3. c \in ContextTable /\ \A q \in Pids : Live(ctx, q) => Live(c, q)
  BY <1>1, <1>2 DEF ContextTable, States, Live, WAITING, UNUSED, EXITING
<1>4. Known(c, kt)
  BY <1>3, Pid DEF Inv, Known
<1>5. SwitchFrom(c, kt, p) /\ th' = th /\ made' = made
  BY <1>1 DEF do_sleep
<1> QED BY <1>3, <1>4, <1>5, Pid, Switched_Inv DEF Inv

\* The end of thread p, by an exit or a fault, is a switch away from it.
LEMMA GoneSwitch ==
  ASSUME Inv, NEW p \in ThreadPids, NEW normal, ThreadGone(p, normal)
  PROVE  \E c \in ContextTable : /\ SwitchFrom(c, handle_thread_exit(kt, p), p)
                                 /\ \A q \in ThreadPids \ {p} : c[q].state = ctx[q].state
                                 /\ \A q \in Pids : c[q].ticks_to_sleep = ctx[q].ticks_to_sleep
                                 /\ ~Live(c, p)
<1>1. PICK s \in States : s = IF normal THEN UNUSED ELSE EXITING
  BY DEF States
<1>2. PICK d, c : d = SetState(ctx, p, s) /\ c = SetState(d, Process, READY)
  OBVIOUS
<1>3. /\ d \in ContextTable /\ \A q \in ThreadPids \ {p} : d[q].state = ctx[q].state
      /\ \A q \in Pids : d[q].ticks_to_sleep = ctx[q].ticks_to_sleep
  BY <1>2, Pid DEF SetState, ContextTable, Inv
<1>4. /\ c \in ContextTable /\ \A q \in ThreadPids : c[q].state = d[q].state
      /\ \A q \in Pids : c[q].ticks_to_sleep = d[q].ticks_to_sleep
  BY <1>2, <1>3, Pid DEF SetState, ContextTable, States
<1>5. SwitchFrom(c, handle_thread_exit(kt, p), p)
  BY <1>1, <1>2 DEF ThreadGone
<1>6. ~Live(c, p)
  <2>1. s \in {UNUSED, EXITING}
    BY <1>1
  <2>2. d[p].state = s
    BY <1>2, Pid DEF SetState, ContextTable, Inv
  <2> QED BY <1>4, <2>1, <2>2 DEF Live
<1> QED BY <1>3, <1>4, <1>5, <1>6

LEMMA ThreadGoneStep ==
  ASSUME Inv, NEW p \in ThreadPids, th[p].at # "none", NEW normal, ThreadGone(p, normal),
         made' = made
  PROVE  Inv'
<1>1. PICK c \in ContextTable : /\ SwitchFrom(c, handle_thread_exit(kt, p), p)
                                /\ \A q \in ThreadPids \ {p} : c[q].state = ctx[q].state
  BY GoneSwitch
<1>2. PICK k : k = handle_thread_exit(kt, p)
  OBVIOUS
<1>3. /\ MemInv(k) /\ Used(k) = {j \in Used(kt) : kt.threads[j].pid # p}
      /\ \A j \in Slots : k.threads[j].pid = kt.threads[j].pid
  BY <1>2, Exited DEF Inv
<1>4. Known(c, k)
  BY <1>1, <1>3 DEF Known, Inv, Live, Used
<1>5. \A q \in ThreadPids \ {p} : HasSlot(kt, q) => HasSlot(k, q)
  BY <1>3 DEF HasSlot, Used
<1>6. th' = [th EXCEPT ![p] = NoThread] /\ SwitchFrom(c, k, p)
  BY <1>1, <1>2 DEF ThreadGone
<1>7. /\ th' \in [ThreadPids -> [at : {"none", "run", "result"}, guard : BOOLEAN, num : Nat]]
      /\ \A q \in ThreadPids : th'[q].at # "none" => HasSlot(k, q)
  <2>1. NoThread \in [at : {"none", "run", "result"}, guard : BOOLEAN, num : Nat]
        /\ NoThread.at = "none"
    BY DEF NoThread
  <2> QED BY <1>5, <1>6, <2>1 DEF Inv
<1> QED BY <1>3, <1>4, <1>6, <1>7, Pid, Switched_Inv

-----------------------------------------------------------------------------
LEMMA CreateStep ==
  ASSUME Inv, gthread_create_clone
  PROVE  Inv'
<1>1. PICK pid : pid = Min(UnusedPids)
  OBVIOUS
<1>2. pid \in Pids /\ ctx[pid].state = UNUSED
  <2>1. UnusedPids \in SUBSET Nat /\ UnusedPids # {}
    BY DEF UnusedPids, Pids, gthread_create_clone
  <2> QED BY <1>1, <2>1, LeastNumber DEF UnusedPids
<1>3. pid \in ThreadPids /\ current = Process /\ current' = current
  <2>1. current = Process /\ current' = current
    BY DEF gthread_create_clone
  <2>2. Live(ctx, Process)
    BY <2>1 DEF Inv, Process, Swapper
  <2> QED BY <1>2, <2>1, <2>2 DEF ThreadPids, Live
<1>4. ~HasSlot(kt, pid)
  BY <1>2 DEF HasSlot, Inv, Known, Live
<1>5. PICK k : k = Cloned(kt, pid)
  OBVIOUS
<1>6. /\ MemInv(k) /\ HasSlot(k, pid)
      /\ \A j \in Used(k) : \/ k.threads[j].pid = pid
                            \/ j \in Used(kt) /\ k.threads[j].pid = kt.threads[j].pid
      /\ \A j \in Used(kt) : j \in Used(k) /\ k.threads[j].pid = kt.threads[j].pid
  <2>1. FreeSlots(kt) # {} /\ MemInv(kt)
    BY DEF gthread_create_clone, Inv
  <2> QED BY <1>2, <1>4, <1>5, <2>1, SlotGiven
<1>7. PICK c, e : /\ e = [ctx[Process] EXCEPT !.state = READY]
                  /\ c = [ctx EXCEPT ![pid] = e]
  OBVIOUS
<1>8. /\ c \in ContextTable /\ c[pid].state = READY
      /\ \A q \in Pids \ {pid} : c[q] = ctx[q]
  <2>1. e \in [state : States, ticks_to_sleep : Int] /\ e.state = READY
    BY <1>7, Pid DEF Inv, ContextTable, States
  <2> QED BY <1>2, <1>7, <2>1 DEF Inv, ContextTable
<1>9. PICK m : m = [at |-> "run", guard |-> FALSE, num |-> made + 1]
  OBVIOUS
<1>10. ctx' = c /\ kt' = k /\ th' = [th EXCEPT ![pid] = m] /\ made' = made + 1
  BY <1>1, <1>5, <1>7, <1>9 DEF gthread_create_clone
<1>11. Known(c, k)
  BY <1>3, <1>6, <1>8 DEF Inv, Known, Live, READY, UNUSED, EXITING, ThreadPids
<1>12. /\ th' \in [ThreadPids -> [at : {"none", "run", "result"}, guard : BOOLEAN, num : Nat]]
       /\ \A q \in ThreadPids \ {pid} : th'[q] = th[q]
  <2>1. m \in [at : {"none", "run", "result"}, guard : BOOLEAN, num : Nat]
    BY <1>9 DEF Inv
  <2> QED BY <1>3, <1>10, <2>1 DEF Inv
<1>13. \A q \in ThreadPids : th'[q].at # "none" => HasSlot(k, q)
  <2> TAKE q \in ThreadPids
  <2>1. CASE q # pid
    BY <1>6, <1>12, <2>1 DEF Inv, HasSlot
  <2> QED BY <1>6, <2>1
<1>14. Live(c, current) /\ made' \in Nat
  BY <1>3, <1>8, <1>10, Pid DEF Inv, Live, Process, Swapper
<1> QED BY <1>3, <1>6, <1>8, <1>10, <1>11, <1>12, <1>13, <1>14 DEF Inv

LEMMA ReadyStep ==
  ASSUME Inv, do_make_thread_ready
  PROVE  Inv'
<1>1. /\ ctx' \in ContextTable /\ \A q \in Pids : Live(ctx, q) => Live(ctx', q)
      /\ UNCHANGED <<current, kt, th, made>>
  <2>1. ctx' = ctx \/ ctx' = SetState(ctx, lib.pid, READY)
    BY DEF do_make_thread_ready
  <2> QED BY <2>1 DEF do_make_thread_ready, Inv, SetState, ContextTable, States, Live, READY,
                      UNUSED, EXITING
<1>2. Known(ctx', kt)
  BY <1>1, Pid DEF Inv, Known
<1>3. current # Swapper => current \in Pids
  BY DEF Inv, Swapper, Pids
<1> QED BY <1>1, <1>2, <1>3 DEF Inv

LEMMA GuardStep ==
  ASSUME Inv, gthread_create_guard
  PROVE  Inv'
<1>1. PICK g : g = (th[lib.pid].at # "none")
  OBVIOUS
<1>2. th' = [th EXCEPT ![lib.pid].guard = g] /\ g \in BOOLEAN
  BY <1>1 DEF gthread_create_guard
<1>3. /\ th' \in [ThreadPids -> [at : {"none", "run", "result"}, guard : BOOLEAN, num : Nat]]
      /\ \A q \in ThreadPids : th'[q].at = th[q].at
  BY <1>2 DEF Inv
<1> QED BY <1>3 DEF gthread_create_guard, Inv

LEMMA WaitStep ==
  ASSUME Inv, do_wait_for_thread
  PROVE  Inv'
<1>1. CASE Gone(lib.pid) /\ ctx' = Reaped(lib.pid) /\ UNCHANGED <<current, kt, th, made>>
  <2>1. PICK p : p = lib.pid
    OBVIOUS
  <2>2. /\ ctx' \in ContextTable
        /\ \A q \in Pids : Live(ctx, q) => Live(ctx', q)
    <3>1. ctx' = SetState(ctx, p, UNUSED) /\ (p \in Pids => ~Live(ctx, p))
      BY <1>1, <2>1 DEF Reaped, Gone, Live
    <3> QED BY <3>1 DEF Inv, SetState, ContextTable, States, Live
  <2>3. Known(ctx', kt)
    BY <2>2, Pid DEF Inv, Known
  <2>4. current # Swapper => current \in Pids
    BY DEF Inv, Swapper, Pids
  <2> QED BY <1>1, <2>2, <2>3, <2>4 DEF Inv
<1>2. CASE SwitchFrom(SetState(ctx, Process, WAITING), kt, Process) /\ UNCHANGED <<th, made>>
  <2>1. PICK c : c = SetState(ctx, Process, WAITING)
    OBVIOUS
  <2>2. c \in ContextTable /\ \A q \in ThreadPids : c[q].state = ctx[q].state
    BY <2>1, Pid DEF Inv, SetState, ContextTable, States
  <2>3. Known(c, kt)
    BY <2>2 DEF Inv, Known, Live
  <2> QED BY <1>2, <2>1, <2>2, <2>3, Pid, Switched_Inv DEF Inv
<1> QED BY <1>1, <1>2 DEF do_wait_for_thread

\* All slots are free, no area is mapped, and the pages are gone.
Emptied(k) ==
  /\ MemInv(k) /\ Used(k) = {} /\ k.mapped = {}
  /\ \A i \in Slots : k.threads[i].pid = kt.threads[i].pid /\ k.threads[i].maps = {}
  /\ k.pte = [a \in Areas |-> IF a \in kt.mapped THEN [n \in Pages |-> ABSENT] ELSE kt.pte[a]]

LEMMA CleanupSwitch ==
  ASSUME Inv, cleanup_all_threads
  PROVE  \E c \in ContextTable :
           /\ \E k : SwitchFrom(c, k, Process) /\ Emptied(k)
           /\ \A q \in ThreadPids : HasSlot(kt, q) => ~Live(c, q)
           /\ \A q \in ThreadPids : Live(c, q) => Live(ctx, q)
           /\ \A q \in Pids : c[q].ticks_to_sleep = ctx[q].ticks_to_sleep
<1> DEFINE gone == {kt.threads[i].pid : i \in Slots \ FreeSlots(kt)}
           owned == UNION {Starts(kt.threads[i].maps) : i \in Slots \ FreeSlots(kt)}
<1>1. PICK c : c = [p \in Pids |-> IF p = Process \/ p \in gone
                                   THEN [ctx[p] EXCEPT !.state = UNUSED] ELSE ctx[p]]
  OBVIOUS
<1>2. PICK k : k = [threads |-> [i \in Slots |-> [kt.threads[i] EXCEPT !.status = TH_UNUSED,
                                                                      !.maps = {}]],
                    mapped |-> kt.mapped \ owned,
                    pte |-> [a \in Areas |-> IF a \in owned THEN [n \in Pages |-> ABSENT]
                                                            ELSE kt.pte[a]]]
  OBVIOUS
<1>3. SwitchFrom(c, k, Process)
  BY <1>1, <1>2 DEF cleanup_all_threads
<1>4. c \in ContextTable
  <2>1. ctx \in ContextTable
    BY DEF Inv
  <2> QED BY <1>1, <2>1 DEF ContextTable, States
<1>5. owned = kt.mapped
  <2>1. \A i \in Slots : i \in Used(kt) <=> i \notin FreeSlots(kt)
    BY DEF Inv, MemInv, Used, FreeSlots, SlotRecords, TH_USED, TH_UNUSED
  <2> QED BY <2>1 DEF Inv, MemInv, Used, Owned
<1>6. /\ k.threads = [i \in Slots |-> [kt.threads[i] EXCEPT !.status = TH_UNUSED, !.maps = {}]]
      /\ k.mapped = {} /\ k = [threads |-> k.threads, mapped |-> k.mapped, pte |-> k.pte]
  BY <1>2, <1>5
<1>7. /\ k.threads \in [Slots -> SlotRecords]
      /\ \A i \in Slots : /\ k.threads[i].status = TH_UNUSED /\ k.threads[i].maps = {}
                          /\ k.threads[i].pid = kt.threads[i].pid
  <2>1. kt.threads \in [Slots -> SlotRecords]
    BY DEF Inv, MemInv
  <2>2. ASSUME NEW i \in Slots
        PROVE  /\ k.threads[i] \in SlotRecords
               /\ k.threads[i].status = TH_UNUSED /\ k.threads[i].maps = {}
               /\ k.threads[i].pid = kt.threads[i].pid
    <3>1. PICK r, e : r = kt.threads[i] /\ e = [r EXCEPT !.status = TH_UNUSED, !.maps = {}]
      OBVIOUS
    <3>2. r \in SlotRecords /\ k.threads[i] = e
      BY <1>6, <2>1, <3>1
    <3> QED BY <3>1, <3>2 DEF SlotRecords
  <2> QED BY <1>6, <2>2
<1>8. Used(k) = {}
  BY <1>7 DEF Used, TH_USED, TH_UNUSED
<1>9. MemInv(k)
  BY <1>6, <1>7, <1>8 DEF MemInv, Owned, Starts
<1>10. k.pte = [a \in Areas |-> IF a \in kt.mapped THEN [n \in Pages |-> ABSENT] ELSE kt.pte[a]]
  BY <1>2, <1>5
<1>11. Emptied(k)
  BY <1>6, <1>7, <1>8, <1>9, <1>10 DEF Emptied
<1>12. ASSUME NEW q \in ThreadPids
       PROVE  (HasSlot(kt, q) => ~Live(c, q)) /\ (Live(c, q) => Live(ctx, q))
  <2>1. ctx[q] \in [state : States, ticks_to_sleep : Int]
    BY Pid DEF Inv, ContextTable
  <2>2. c[q] = IF q \in gone THEN [ctx[q] EXCEPT !.state = UNUSED] ELSE ctx[q]
    BY <1>1, Pid
  <2>3. c[q].state = UNUSED \/ (q \notin gone /\ c[q] = ctx[q])
    BY <2>1, <2>2
  <2>4. HasSlot(kt, q) => q \in gone
    BY DEF HasSlot, Used, FreeSlots, TH_USED, TH_UNUSED
  <2> HIDE DEF gone
  <2> QED BY <2>3, <2>4 DEF Live
<1>13. \A q \in Pids : c[q].ticks_to_sleep = ctx[q].ticks_to_sleep
  BY <1>1 DEF Inv, ContextTable
<1> QED BY <1>3, <1>4, <1>11, <1>12, <1>13

LEMMA CleanupStep ==
  ASSUME Inv, cleanup_all_threads
  PROVE  Inv'
<1>1. PICK c \in ContextTable : \E k : SwitchFrom(c, k, Process) /\ Emptied(k)
  BY CleanupSwitch
<1>2. PICK k : SwitchFrom(c, k, Process) /\ MemInv(k) /\ Used(k) = {}
  BY <1>1 DEF Emptied
<1>3. th' = [p \in ThreadPids |-> NoThread] /\ made' = made
  BY DEF cleanup_all_threads
<1>4. NoThread \in [at : {"none", "run", "result"}, guard : BOOLEAN, num : Nat]
      /\ NoThread.at = "none"
  BY DEF NoThread
<1> QED BY <1>2, <1>3, <1>4, Pid, Switched_Inv DEF Known

LEMMA UnmapStep ==
  ASSUME Inv, gthread_join_unmap
  PROVE  Inv'
<1>1. PICK a : kt' = vm_area_unmap(kt, Process, TRUE, a)
  BY DEF gthread_join_unmap
<1>2. ~UnmapFaults(kt, Process, TRUE, a) /\ MemInv(kt)
  BY DEF UnmapFaults, Inv
<1>3. PICK k : k = vm_area_unmap(kt, Process, TRUE, a)
  OBVIOUS
<1>4. /\ MemInv(k) /\ Used(k) = Used(kt)
      /\ \A j \in Slots : k.threads[j].pid = kt.threads[j].pid
  <2>1. PICK isProcess \in BOOLEAN : isProcess
    OBVIOUS
  <2>2. isProcess = TRUE
    BY <2>1
  <2>3. MemInv(kt) /\ ~UnmapFaults(kt, Process, isProcess, a)
    BY <1>2, <2>2
  <2>4. k = vm_area_unmap(kt, Process, isProcess, a)
    BY <1>3, <2>2
  <2>5. isProcess \/ HasSlot(kt, Process)
    BY <2>1
  <2> QED BY <2>3, <2>4, <2>5, Unmapped
<1> QED BY <1>1, <1>3, <1>4, Tables_Inv DEF gthread_join_unmap

-----------------------------------------------------------------------------
LEMMA MallocStep ==
  ASSUME Inv, NEW p \in ThreadPids, NEW flags \in Flags, gmalloc(p, flags)
  PROVE  Inv'
<1>1. HasSlot(kt, p) /\ UNCHANGED <<ctx, current, th, made>>
  BY DEF gmalloc, InFunction, Inv
<1>2. CASE kt' = kt
  BY <1>1, <1>2, Tables_Inv DEF Inv
<1>3. CASE kt' # kt
  <2>1. PICK a : a = Min(FreeAreas(kt))
    OBVIOUS
  <2>2. kt' = handle_thread_private_mmap(kt, p, a, flags)
    BY <1>3, <2>1 DEF gmalloc
  <2>3. a \in FreeAreas(kt)
    <3>1. FreeAreas(kt) \in SUBSET Nat /\ FreeAreas(kt) # {}
      BY MemoryAssumption DEF FreeAreas, gmalloc
    <3> QED BY <2>1, <3>1, LeastNumber
  <2>4. PICK k : k = handle_thread_private_mmap(kt, p, a, flags)
    OBVIOUS
  <2>5. /\ MemInv(k) /\ Used(k) = Used(kt)
        /\ \A j \in Slots : k.threads[j].pid = kt.threads[j].pid
    BY <1>1, <2>3, <2>4, Mapped DEF Inv
  <2> QED BY <1>1, <2>2, <2>4, <2>5, Tables_Inv
<1> QED BY <1>2, <1>3

LEMMA FreeStep ==
  ASSUME Inv, NEW p \in ThreadPids, NEW a, gfree(p, a)
  PROVE  Inv'
<1>1. th[p].at # "none" /\ HasSlot(kt, p) /\ made' = made
  BY DEF gfree, InFunction, Inv
<1>2. CASE ThreadGone(p, FALSE)
  BY <1>1, <1>2, ThreadGoneStep
<1>3. CASE /\ ~UnmapFaults(kt, p, FALSE, a) /\ kt' = vm_area_unmap(kt, p, FALSE, a)
           /\ UNCHANGED <<ctx, current, th>>
  <2>1. PICK isProcess \in BOOLEAN : ~isProcess
    OBVIOUS
  <2>2. isProcess = FALSE
    BY <2>1
  <2>3. MemInv(kt) /\ ~UnmapFaults(kt, p, isProcess, a)
    BY <1>3, <2>2 DEF Inv
  <2>4. PICK k : k = vm_area_unmap(kt, p, isProcess, a)
    OBVIOUS
  <2>5. /\ MemInv(k) /\ Used(k) = Used(kt)
        /\ \A j \in Slots : k.threads[j].pid = kt.threads[j].pid
    BY <1>1, <2>3, <2>4, Unmapped
  <2>6. kt' = k
    BY <1>3, <2>2, <2>4
  <2> QED BY <1>1, <1>3, <2>5, <2>6, Tables_Inv
<1> QED BY <1>2, <1>3 DEF gfree

LEMMA TouchStep ==
  ASSUME Inv, NEW p \in ThreadPids, NEW a, NEW n, NEW wr, touch(p, a, n, wr)
  PROVE  Inv'
<1>1. th[p].at # "none" /\ made' = made
  BY DEF touch, InFunction
<1>2. CASE ThreadGone(p, FALSE)
  BY <1>1, <1>2, ThreadGoneStep
<1>3. CASE kt' = Fixed(kt, a, n) /\ UNCHANGED <<ctx, current, th>>
  <2>1. PICK threads, mapped, old : kt = [threads |-> threads, mapped |-> mapped, pte |-> old]
    BY DEF Inv, MemInv
  <2>2. PICK pte : pte = [old EXCEPT ![a][n] = IF @ = ABSENT THEN READWRITE ELSE @]
    OBVIOUS
  <2>3. kt' = [threads |-> kt.threads, mapped |-> kt.mapped, pte |-> pte]
    BY <1>3, <2>1, <2>2 DEF Fixed
  <2>4. PICK k : k = [threads |-> kt.threads, mapped |-> kt.mapped, pte |-> pte]
    OBVIOUS
  <2>5. MemInv(k) /\ Used(k) = Used(kt) /\ k.threads = kt.threads
    BY <2>4, OtherPages DEF Inv
  <2> QED BY <1>1, <1>3, <2>3, <2>4, <2>5, Tables_Inv
<1> QED BY <1>2, <1>3 DEF touch

LEMMA ThreadEndsStep ==
  ASSUME Inv, NEW p \in ThreadPids, ThreadEnds(p)
  PROVE  Inv'
<1>1. CASE gthread_exit(p)
  <2>1. /\ UNCHANGED <<ctx, current, kt, made>> /\ th' = [th EXCEPT ![p].at = "result"]
        /\ th[p].at # "none"
    BY <1>1 DEF gthread_exit, InFunction
  <2>2. /\ th' \in [ThreadPids -> [at : {"none", "run", "result"}, guard : BOOLEAN, num : Nat]]
        /\ \A q \in ThreadPids : th'[q].at # "none" => th[q].at # "none"
    BY <2>1 DEF Inv
  <2> QED BY <2>1, <2>2 DEF Inv
<1>2. CASE do_exit(p)
  BY <1>2, ThreadGoneStep DEF do_exit
<1>3. CASE return_unguarded(p)
  BY <1>3, ThreadGoneStep DEF return_unguarded, InFunction
<1> QED BY <1>1, <1>2, <1>3 DEF ThreadEnds

-----------------------------------------------------------------------------
LEMMA InitInv == Init => Inv
<1> SUFFICES ASSUME Init PROVE Inv
  OBVIOUS
<1>1. /\ ctx = [p \in Pids |-> [state |-> IF p = Process THEN RUNNING ELSE UNUSED,
                                ticks_to_sleep |-> 0]]
      /\ current = Process /\ kt = EmptyTables /\ th = [p \in ThreadPids |-> NoThread] /\ made = 0
  BY DEF Init
<1>2. ctx \in ContextTable /\ Live(ctx, current)
  BY <1>1, Pid DEF ContextTable, States, Live, RUNNING, UNUSED, EXITING
<1>3. /\ kt.threads = [i \in Slots |-> [pid |-> 0, status |-> TH_UNUSED, maps |-> {}]]
      /\ kt.mapped = {} /\ kt = [threads |-> kt.threads, mapped |-> kt.mapped, pte |-> kt.pte]
  BY <1>1 DEF EmptyTables
<1>4. /\ kt.threads \in [Slots -> SlotRecords]
      /\ \A i \in Slots : kt.threads[i].status = TH_UNUSED /\ kt.threads[i].maps = {}
  BY <1>3, SchedulerAssumption DEF SlotRecords
<1>5. Used(kt) = {}
  BY <1>4 DEF Used, TH_USED, TH_UNUSED
<1>6. MemInv(kt)
  BY <1>3, <1>4, <1>5 DEF MemInv, Owned, Starts
<1>7. NoThread \in [at : {"none", "run", "result"}, guard : BOOLEAN, num : Nat]
      /\ NoThread.at = "none"
  BY DEF NoThread
<1> QED BY <1>1, <1>2, <1>5, <1>6, <1>7, Pid DEF Inv, Known

LEMMA NextInv == Inv /\ [Next]_vars => Inv'
<1> SUFFICES ASSUME Inv, [Next]_vars PROVE Inv'
  OBVIOUS
<1>1. CASE UNCHANGED <<ctx, current, kt, th, made>>
  BY <1>1 DEF Inv
<1>2. CASE LibraryStep
  <2>1. CASE gthread_create_status \/ gthread_create_pid \/ gthread_join_collect
    BY <1>1, <2>1 DEF gthread_create_status, gthread_create_pid, gthread_join_collect
  <2> QED BY <1>2, <2>1, ReadyStep, GuardStep, WaitStep, UnmapStep DEF LibraryStep
<1>3. CASE ProcessStep
  <2>1. CASE \E i \in Slots : gthread_join(i)
    BY <1>1, <2>1 DEF gthread_join
  <2> QED BY <1>2, <1>3, <2>1, CreateStep, CleanupStep DEF ProcessStep
<1>4. CASE \E p \in ThreadPids : ThreadStep(p)
  BY <1>4, MallocStep, FreeStep, TouchStep, ThreadEndsStep DEF ThreadStep
<1>5. CASE handle_timer_tick \/ \E p \in Pids, n \in 1 .. MaxSleep : do_sleep(p, n)
  BY <1>5, TickStep, SleepStep
<1>6. CASE UNCHANGED vars
  BY <1>1, <1>6 DEF vars
<1> QED BY <1>3, <1>4, <1>5, <1>6 DEF Next

\* Mapped private memory has an owner that lives: an exit, a kill, a join or the
\* end of the process leaves none behind (clone_threads_helper.c:56,
\* :84, gthread.c:99).
THEOREM MemoryHasOwner == Spec => []NoOrphanArea
<1>1. Inv => NoOrphanArea
  BY DEF Inv, MemInv, NoOrphanArea, Used, Owned
<1> QED BY <1>1, InitInv, NextInv, PTL DEF Spec

-----------------------------------------------------------------------------
(***************************************************************************)
(* Joins: a thread has ended when its join returns, no result outlives the *)
(* join that takes it, and the tables never run out of step.               *)
(***************************************************************************)

EntryRecords == [status : {NEW_ENTRY, TH_STATUS_ALIVE, TH_STATUS_USED}, pid : 0 .. NPid,
                 ret : Numbers, areas : SUBSET AreaRecords, num : Numbers, peers : SUBSET Numbers]

Lives(p) == th[p].at # "none"

\* Entry i has the pid of its thread: the two are written one after the other.
Recorded(i) == tinfo[i].status = TH_STATUS_ALIVE /\ ~(lib.at = "named" /\ i = lib.entry)

\* An entry's thread, if it lives, has the pid of the entry; another living thread
\* with this pid was created later or is one of the peers.  No thread of an entry
\* that is free again lives.
EntriesInv ==
  /\ \A i \in Slots : tinfo[i].num <= made /\ (tinfo[i].status # TH_STATUS_ALIVE => tinfo[i].ret = 0)
  /\ \A i \in Slots : Recorded(i) => tinfo[i].pid \in ThreadPids
  /\ \A i \in Slots, p \in ThreadPids :
       Recorded(i) /\ Lives(p) /\ th[p].num = tinfo[i].num => p = tinfo[i].pid
  /\ \A i \in Slots, p \in ThreadPids :
       tinfo[i].status = TH_STATUS_ALIVE /\ Lives(p) /\ tinfo[i].pid = p
         => th[p].num >= tinfo[i].num \/ th[p].num \in tinfo[i].peers
  /\ \A i \in Slots, p \in ThreadPids :
       tinfo[i].status # TH_STATUS_ALIVE /\ Lives(p) => th[p].num # tinfo[i].num
  /\ \A i \in Slots : tinfo[i].ret = 0 \/ tinfo[i].ret >= tinfo[i].num \/ tinfo[i].ret \in tinfo[i].peers

\* A context in use has an entry, or is just getting it.
ContextsInv ==
  \A p \in ThreadPids : ctx[p].state # UNUSED =>
    \/ \E i \in Slots : Recorded(i) /\ tinfo[i].pid = p
    \/ lib.at \in {"cloned", "named"} /\ lib.pid = p

\* What the process has found out so far in a library call stays true.
CallInv ==
  /\ lib.at \in {"cloned", "named"} =>
       lib.pid \in ThreadPids /\ \A p \in ThreadPids : Lives(p) => (th[p].num = made <=> p = lib.pid)
  /\ lib.at = "cloned" => tinfo[lib.entry].status # TH_STATUS_ALIVE
  /\ lib.at = "named" => tinfo[lib.entry].status = TH_STATUS_ALIVE /\ tinfo[lib.entry].num = made
  /\ lib.at \in {"join", "collect"} => lib.pid = tinfo[lib.entry].pid
  /\ lib.at = "collect" =>
       /\ lib.pid \in ThreadPids => ctx[lib.pid].state = UNUSED
       /\ \A p \in ThreadPids : Lives(p) => th[p].num # tinfo[lib.entry].num

JoinedInv ==
  /\ \A p \in ThreadPids :
       Lives(p) => th[p].num <= made /\ th[p].num # 0 /\ th[p].num # joined.num
  /\ joined.num <= made
  /\ FreshResult

Calls == [at : {"main", "cloned", "named", "recorded", "ready", "join", "collect", "unmap"},
          entry : Slots, pid : 0 .. NPid]

JoinTypes ==
  /\ made \in Numbers /\ joined.num \in Numbers /\ joined.ret \in Numbers /\ lib \in Calls
  /\ tinfo \in [Slots -> EntryRecords]
  /\ th \in [ThreadPids -> [at : {"none", "run", "result"}, guard : BOOLEAN, num : Nat]]

JoinInv == JoinTypes /\ EntriesInv /\ ContextsInv /\ CallInv /\ JoinedInv

-----------------------------------------------------------------------------
\* Most steps end threads at most, free contexts at most, and change no entry
\* but its areas and, at the end of a living thread, its result.
Shrinks ==
  /\ th' \in [ThreadPids -> [at : {"none", "run", "result"}, guard : BOOLEAN, num : Nat]]
  /\ \A p \in ThreadPids : Lives(p)' => Lives(p) /\ th'[p].num = th[p].num
  /\ \A p \in ThreadPids : ctx[p].state = UNUSED => ctx'[p].state = UNUSED

EntriesKept ==
  /\ tinfo' \in [Slots -> EntryRecords]
  /\ \A i \in Slots :
       /\ tinfo'[i].status = tinfo[i].status /\ tinfo'[i].pid = tinfo[i].pid
       /\ tinfo'[i].num = tinfo[i].num /\ tinfo'[i].peers = tinfo[i].peers
       /\ \/ tinfo'[i].ret = tinfo[i].ret
          \/ tinfo[i].status = TH_STATUS_ALIVE 
             /\ \E p \in ThreadPids : Lives(p) /\ tinfo[i].pid = p /\ tinfo'[i].ret = th[p].num

CallKept ==
  \/ lib' = lib
  \/ lib.at \in {"recorded", "ready", "unmap"} /\ lib'.at \in {"ready", "main"} /\ lib' \in Calls

LEMMA StartOfCall == AtMain.at = "main" /\ AtMain \in Calls
  BY MemoryAssumption, SchedulerAssumption DEF AtMain, Calls, Slots

LEMMA KeptInv ==
  ASSUME JoinInv, Shrinks, EntriesKept, CallKept, UNCHANGED <<made, joined>>
  PROVE  JoinInv'
<1>1. JoinTypes'
  BY DEF JoinInv, JoinTypes, Shrinks, EntriesKept, CallKept
<1>2. \A i \in Slots : Recorded(i)' <=> Recorded(i)
  BY DEF Recorded, CallKept, EntriesKept
<1>3. \A p \in ThreadPids : th'[p].at # "none" => th[p].at # "none" /\ th'[p].num = th[p].num
  BY DEF Shrinks, Lives
<1>4. \A i \in Slots : /\ tinfo'[i].status = tinfo[i].status /\ tinfo'[i].pid = tinfo[i].pid
                       /\ tinfo'[i].num = tinfo[i].num /\ tinfo'[i].peers = tinfo[i].peers
  BY DEF EntriesKept
<1>5. EntriesInv'
  <2>1. \A i \in Slots : \/ tinfo'[i].ret = tinfo[i].ret
                         \/ /\ tinfo[i].status = TH_STATUS_ALIVE
                            /\ \E p \in ThreadPids : th[p].at # "none" /\ tinfo[i].pid = p /\ tinfo'[i].ret = th[p].num
    BY DEF EntriesKept, Lives
  <2>2. \A i \in Slots :
          /\ tinfo'[i].num <= made' /\ (tinfo'[i].status # TH_STATUS_ALIVE => tinfo'[i].ret = 0)
          /\ Recorded(i)' => tinfo'[i].pid \in ThreadPids
    BY <1>2, <1>4, <2>1 DEF JoinInv, EntriesInv
  <2>3. \A i \in Slots, p \in ThreadPids :
          Recorded(i)' /\ th'[p].at # "none" /\ th'[p].num = tinfo'[i].num => p = tinfo'[i].pid
    BY <1>2, <1>3, <1>4 DEF JoinInv, EntriesInv, Lives
  <2>4. \A i \in Slots, p \in ThreadPids :
          tinfo'[i].status = TH_STATUS_ALIVE /\ th'[p].at # "none" /\ tinfo'[i].pid = p
            => th'[p].num >= tinfo'[i].num \/ th'[p].num \in tinfo'[i].peers
    BY <1>3, <1>4 DEF JoinInv, EntriesInv, Lives
  <2>5. \A i \in Slots : tinfo'[i].ret = 0 \/ tinfo'[i].ret >= tinfo'[i].num \/ tinfo'[i].ret \in tinfo'[i].peers
    BY <1>4, <2>1 DEF JoinInv, EntriesInv, Lives
  <2>6. \A i \in Slots, p \in ThreadPids :
          tinfo'[i].status # TH_STATUS_ALIVE /\ th'[p].at # "none" => th'[p].num # tinfo'[i].num
    BY <1>3, <1>4 DEF JoinInv, EntriesInv, Lives
  <2> QED BY <2>2, <2>3, <2>4, <2>5, <2>6 DEF EntriesInv, Lives
<1>6. ContextsInv'
  <2>1. \A p \in ThreadPids : ctx'[p].state # UNUSED => ctx[p].state # UNUSED
    BY Pid DEF Shrinks
  <2>2. \/ lib'.at \in {"cloned", "named"} /\ lib'.pid = lib.pid
        \/ lib.at \notin {"cloned", "named"}
    BY DEF CallKept
  <2>3. \A p \in ThreadPids : ctx'[p].state # UNUSED =>
          \/ \E i \in Slots : Recorded(i)' /\ tinfo'[i].pid = p
          \/ lib'.at \in {"cloned", "named"} /\ lib'.pid = p
    BY <1>2, <1>4, <2>1, <2>2 DEF JoinInv, ContextsInv
  <2> QED BY <2>3 DEF ContextsInv
<1>7. CallInv'
  <2>1. CASE lib' = lib
    <3>1. lib.entry \in Slots
      BY DEF JoinInv, JoinTypes, Calls
    <3>2. lib.at = "collect" /\ lib.pid \in ThreadPids => ctx'[lib.pid].state = UNUSED
      BY DEF JoinInv, CallInv, Shrinks
    <3> QED BY <1>3, <1>4, <2>1, <3>1, <3>2 DEF JoinInv, CallInv, Lives
  <2>2. CASE lib'.at \in {"ready", "main"}
    BY <2>2 DEF CallInv
  <2> QED BY <2>1, <2>2 DEF CallKept
<1>8. JoinedInv'
  BY <1>3 DEF JoinInv, JoinedInv, FreshResult, Lives
<1> QED BY <1>1, <1>5, <1>6, <1>7, <1>8 DEF JoinInv

\* A switch takes no context into use, nor does the end of a thread.
LEMMA SwitchUnused ==
  ASSUME NEW c \in ContextTable, NEW k, NEW p \in 0 .. NPid, SwitchFrom(c, k, p)
  PROVE  \A q \in Pids : c[q].state = UNUSED => ctx'[q].state = UNUSED
<1>1. PICK next : next = pick_next_context(c, p)
  OBVIOUS
<1>2. next = Swapper \/ (next \in Pids /\ c[next].state = READY)
  BY <1>1, Picked
<1>3. ctx' = c \/ ctx' = SetState(c, next, RUNNING)
  BY <1>1 DEF SwitchFrom
<1> QED BY <1>2, <1>3 DEF SetState, ContextTable, READY, UNUSED

LEMMA TickShrinks ==
  ASSUME Inv, JoinTypes, handle_timer_tick
  PROVE  Shrinks
<1>1. PICK d : d = do_sleep_and_alarm_account(ctx)
  OBVIOUS
<1>2. PICK c : c = SetState(d, current, READY)
  OBVIOUS
<1>3. d \in ContextTable /\ c \in ContextTable /\ current \in 0 .. NPid
  BY <1>1, <1>2, TickStates DEF Inv
<1>4. \A q \in Pids : ctx[q].state = UNUSED => d[q].state = UNUSED
  BY <1>1 DEF do_sleep_and_alarm_account, UNUSED, WAITING
<1>5. \A q \in Pids : ctx[q].state = UNUSED => q # current
  BY DEF Inv, Live, Swapper, Pids
<1>6. \A q \in Pids : ctx[q].state = UNUSED => c[q].state = UNUSED
  BY <1>2, <1>3, <1>4, <1>5 DEF SetState, ContextTable
<1>7. SwitchFrom(c, kt, current) /\ th' = th
  BY <1>1, <1>2 DEF handle_timer_tick, Ticked
<1>8. \A q \in Pids : c[q].state = UNUSED => ctx'[q].state = UNUSED
  BY <1>3, <1>7, SwitchUnused
<1> QED BY <1>6, <1>7, <1>8, Pid DEF Shrinks, JoinTypes, Lives

LEMMA SleepShrinks ==
  ASSUME Inv, JoinTypes, NEW p \in Pids, NEW n \in 1 .. MaxSleep, do_sleep(p, n)
  PROVE  Shrinks
<1>1. PICK c : c = [ctx EXCEPT ![p] = [state |-> WAITING, ticks_to_sleep |-> n]]
  OBVIOUS
<1>2. ctx \in ContextTable /\ n \in Int /\ p \in 0 .. NPid
  BY Pid DEF Inv
<1>3. c \in ContextTable
  BY <1>1, <1>2 DEF ContextTable, States
<1>4. SwitchFrom(c, kt, p) /\ th' = th /\ p = current
  BY <1>1 DEF do_sleep
<1>5. \A q \in Pids : c[q].state = UNUSED => ctx'[q].state = UNUSED
  BY <1>2, <1>3, <1>4, SwitchUnused
<1>6. ctx[p].state # UNUSED
  BY <1>4, Pid DEF Inv, Live
<1>7. \A q \in Pids : ctx[q].state = UNUSED => c[q].state = UNUSED
  BY <1>1, <1>2, <1>6 DEF ContextTable
<1> QED BY <1>4, <1>5, <1>7, Pid DEF Shrinks, JoinTypes, Lives

LEMMA GoneShrinks ==
  ASSUME Inv, JoinTypes, NEW p \in ThreadPids, p = current, NEW normal, ThreadGone(p, normal)
  PROVE  Shrinks
<1>1. PICK s \in States : s = IF normal THEN UNUSED ELSE EXITING
  BY DEF States
<1>2. PICK d, c : d = SetState(ctx, p, s) /\ c = SetState(d, Process, READY)
  OBVIOUS
<1>3. PICK k : k = handle_thread_exit(kt, p)
  OBVIOUS
<1>4. SwitchFrom(c, k, p) /\ th' = [th EXCEPT ![p] = NoThread]
  BY <1>1, <1>2, <1>3 DEF ThreadGone
<1>5. d \in ContextTable /\ \A q \in Pids \ {p} : d[q] = ctx[q]
  BY <1>2, Pid DEF Inv, SetState, ContextTable
<1>6. c \in ContextTable /\ \A q \in Pids \ {Process} : c[q] = d[q]
  BY <1>2, <1>5, Pid DEF SetState, ContextTable, States
<1>7. ctx[p].state # UNUSED
  BY Pid DEF Inv, Live
<1>8. \A q \in Pids : c[q].state = UNUSED => ctx'[q].state = UNUSED
  BY <1>4, <1>6, Pid, SwitchUnused
<1>9. \A q \in ThreadPids : ctx[q].state = UNUSED => ctx'[q].state = UNUSED
  BY <1>5, <1>6, <1>7, <1>8, Pid
<1>10. NoThread \in [at : {"none", "run", "result"}, guard : BOOLEAN, num : Nat]
       /\ NoThread.at = "none"
  BY DEF NoThread
<1>11. /\ th' \in [ThreadPids -> [at : {"none", "run", "result"}, guard : BOOLEAN, num : Nat]]
       /\ th'[p].at = "none" /\ \A q \in ThreadPids \ {p} : th'[q] = th[q]
  BY <1>4, <1>10 DEF JoinTypes
<1> QED BY <1>9, <1>11 DEF Shrinks, Lives

LEMMA CleanupShrinks ==
  ASSUME Inv, JoinTypes, cleanup_all_threads
  PROVE  Shrinks
<1> DEFINE gone == {kt.threads[i].pid : i \in Slots \ FreeSlots(kt)}
<1>1. PICK c : c = [p \in Pids |-> IF p = Process \/ p \in gone
                                   THEN [ctx[p] EXCEPT !.state = UNUSED] ELSE ctx[p]]
  OBVIOUS
<1>2. \E k : SwitchFrom(c, k, Process)
  BY <1>1 DEF cleanup_all_threads
<1>3. ctx \in ContextTable
  BY DEF Inv
<1>4. c \in ContextTable /\ \A q \in Pids : ctx[q].state = UNUSED => c[q].state = UNUSED
  BY <1>1, <1>3 DEF ContextTable, States
<1>5. \A q \in Pids : c[q].state = UNUSED => ctx'[q].state = UNUSED
  BY <1>2, <1>4, Pid, SwitchUnused
<1>6. th' = [p \in ThreadPids |-> NoThread]
  BY DEF cleanup_all_threads
<1>7. NoThread \in [at : {"none", "run", "result"}, guard : BOOLEAN, num : Nat]
      /\ NoThread.at = "none"
  BY DEF NoThread
<1> QED BY <1>4, <1>5, <1>6, <1>7, Pid DEF Shrinks, Lives

-----------------------------------------------------------------------------
\* The steps of a library call.
LEMMA CloneJoin ==
  ASSUME Inv, JoinInv, gthread_create_clone
  PROVE  JoinInv'
<1>1. PICK pid, e : pid = Min(UnusedPids) /\ e = Min(FreeEntries)
  OBVIOUS
<1>2. pid \in ThreadPids
  <2>1. UnusedPids \in SUBSET Nat /\ UnusedPids # {}
    BY DEF UnusedPids, Pids, gthread_create_clone
  <2>2. pid \in Pids /\ ctx[pid].state = UNUSED
    BY <1>1, <2>1, LeastNumber DEF UnusedPids
  <2>3. current = Process
    BY DEF gthread_create_clone
  <2>4. Live(ctx, Process)
    BY <2>3 DEF Inv, Process, Swapper
  <2> QED BY <2>2, <2>4 DEF ThreadPids, Live
<1>3. e \in Slots /\ tinfo[e].status # TH_STATUS_ALIVE
  <2>1. FreeEntries \in SUBSET Nat /\ FreeEntries # {}
    BY DEF FreeEntries, Slots, gthread_create_clone
  <2> QED BY <1>1, <2>1, LeastNumber DEF FreeEntries
<1>4. PICK m : m = [at |-> "run", guard |-> FALSE, num |-> made + 1]
  OBVIOUS
<1>5. /\ th' = [th EXCEPT ![pid] = m] /\ made' = made + 1 /\ tinfo' = tinfo
      /\ joined'.num = 0 /\ joined'.ret = 0
      /\ lib' = [at |-> "cloned", entry |-> e, pid |-> pid]
      /\ lib.at = "main" /\ made < MaxCreate
  BY <1>1, <1>4 DEF gthread_create_clone, NoJoin
<1>6. \A q \in ThreadPids \ {pid} : ctx'[q] = ctx[q]
  BY <1>1, Pid DEF gthread_create_clone, Inv, ContextTable
<1>7. made \in Nat /\ made' \in Numbers /\ made < made' /\ 0 \in Numbers
  BY <1>5, CreateAssumption DEF Inv, Numbers
<1>8. /\ th' \in [ThreadPids -> [at : {"none", "run", "result"}, guard : BOOLEAN, num : Nat]]
      /\ th'[pid].num = made' /\ \A q \in ThreadPids \ {pid} : th'[q] = th[q]
  <2>1. m \in [at : {"none", "run", "result"}, guard : BOOLEAN, num : Nat] /\ m.num = made'
    BY <1>4, <1>5, <1>7
  <2> QED BY <1>2, <1>5, <2>1 DEF JoinInv, JoinTypes
<1>9. JoinTypes'
  BY <1>2, <1>3, <1>5, <1>7, <1>8, Pid DEF JoinInv, JoinTypes, Calls
<1>10. \A i \in Slots : Recorded(i)' <=> Recorded(i)
  BY <1>5 DEF Recorded
<1>11. \A i \in Slots : tinfo[i].num \in Nat /\ tinfo[i].num <= made
  BY DEF JoinInv, JoinTypes, EntriesInv, EntryRecords, Numbers
<1>12. \A i \in Slots : tinfo'[i].num < th'[pid].num
  BY <1>5, <1>7, <1>8, <1>11
<1>13. EntriesInv'
  <2>1. \A i \in Slots : tinfo'[i].num <= made' /\ (tinfo'[i].status # TH_STATUS_ALIVE => tinfo'[i].ret = 0)
    BY <1>5, <1>8, <1>12, <1>7, <1>11 DEF JoinInv, EntriesInv
  <2>2. ASSUME NEW i \in Slots, NEW p \in ThreadPids, th'[p].at # "none"
        PROVE  /\ Recorded(i)' /\ th'[p].num = tinfo'[i].num => p = tinfo'[i].pid
               /\ tinfo'[i].status = TH_STATUS_ALIVE /\ tinfo'[i].pid = p
                    => th'[p].num >= tinfo'[i].num \/ th'[p].num \in tinfo'[i].peers
               /\ tinfo'[i].status # TH_STATUS_ALIVE => th'[p].num # tinfo'[i].num
    <3>1. CASE p = pid
      BY <1>5, <1>7, <1>8, <1>11, <3>1
    <3>2. CASE p # pid
      BY <1>5, <1>8, <1>10, <2>2, <3>2 DEF JoinInv, EntriesInv, Lives
    <3> QED BY <3>1, <3>2
  <2> QED BY <1>5, <1>10, <2>1, <2>2 DEF JoinInv, EntriesInv, Lives
<1>14. ContextsInv'
  <2>1. ASSUME NEW p \in ThreadPids, ctx'[p].state # UNUSED, p # pid
        PROVE  \E i \in Slots : Recorded(i)' /\ tinfo'[i].pid = p
    BY <1>5, <1>6, <1>10, <2>1 DEF JoinInv, ContextsInv
  <2> QED BY <1>5, <2>1 DEF ContextsInv
<1>15. \A p \in ThreadPids \ {pid} : th'[p].at # "none" => th'[p].num <= made /\ th'[p].num # 0
  BY <1>8 DEF JoinInv, JoinedInv, Lives
<1>16. CallInv'
  <2>1. \A p \in ThreadPids : th'[p].at # "none" => (th'[p].num = made' <=> p = pid)
    BY <1>7, <1>8, <1>15
  <2> QED BY <1>2, <1>3, <1>5, <2>1 DEF CallInv, Lives
<1>17. JoinedInv'
  <2>2. \A p \in ThreadPids : th'[p].num \in Nat
    BY <1>8
  <2>3. made < made' /\ made' \in Nat
    BY <1>5, <1>7
  <2>4. ASSUME NEW p \in ThreadPids, th'[p].at # "none"
        PROVE  th'[p].num <= made' /\ th'[p].num # 0
    <3>1. CASE p = pid
      BY <1>7, <1>8, <2>3, <3>1
    <3>2. CASE p # pid
      BY <1>7, <1>15, <2>2, <2>3, <2>4, <3>2
    <3> QED BY <3>1, <3>2
  <2> QED BY <1>5, <1>7, <2>3, <2>4 DEF JoinedInv, FreshResult, Lives
<1> QED BY <1>9, <1>13, <1>14, <1>16, <1>17 DEF JoinInv

\* The entry is in use from now on, with the pid of the thread that had it before.
LEMMA StatusJoin ==
  ASSUME JoinInv, gthread_create_status
  PROVE  JoinInv'
<1>1. PICK e \in Slots : e = lib.entry
  BY DEF JoinInv, JoinTypes, Calls
<1>2. /\ lib.at = "cloned" /\ lib' = [lib EXCEPT !.at = "named"]
      /\ UNCHANGED <<ctx, th, made, joined>>
  BY DEF gthread_create_status
<1>3. Peers(e) \in SUBSET Numbers
  <2>1. \A p \in ThreadPids : Lives(p) => th[p].num \in Numbers
    <3>1. made \in Numbers /\ \A p \in ThreadPids : th[p].num \in Nat
      BY DEF JoinInv, JoinTypes
    <3>2. \A p \in ThreadPids : Lives(p) => th[p].num <= made
      BY DEF JoinInv, JoinedInv
    <3> QED BY <3>1, <3>2, CreateAssumption DEF Numbers
  <2> QED BY <2>1 DEF Peers, Lives
<1>4. PICK peers : peers = Peers(e)
  OBVIOUS
<1>5. tinfo' = [tinfo EXCEPT ![e].status = TH_STATUS_ALIVE, ![e].num = made, ![e].peers = peers]
  BY <1>1, <1>4 DEF gthread_create_status
<1>6. /\ tinfo' \in [Slots -> EntryRecords]
      /\ tinfo'[e].status = TH_STATUS_ALIVE /\ tinfo'[e].num = made /\ tinfo'[e].peers = peers
      /\ tinfo'[e].ret = tinfo[e].ret /\ tinfo'[e].pid = tinfo[e].pid
      /\ \A i \in Slots \ {e} : tinfo'[i] = tinfo[i]
  <2> PICK r \in EntryRecords : r = tinfo[e]
    BY DEF JoinInv, JoinTypes
  <2> PICK n : n = [r EXCEPT !.status = TH_STATUS_ALIVE, !.num = made, !.peers = peers]
    OBVIOUS
  <2>1. made \in Numbers /\ peers \in SUBSET Numbers
    BY <1>3, <1>4 DEF JoinInv, JoinTypes
  <2>2. n \in EntryRecords /\ n.status = TH_STATUS_ALIVE /\ n.num = made /\ n.peers = peers
        /\ n.ret = r.ret /\ n.pid = r.pid
    BY <2>1 DEF EntryRecords
  <2>3. tinfo \in [Slots -> EntryRecords]
    BY DEF JoinInv, JoinTypes
  <2>4. tinfo' = [tinfo EXCEPT ![e] = n]
    BY <1>5, <2>3
  <2> QED BY <2>2, <2>3, <2>4
<1>7. tinfo[e].status # TH_STATUS_ALIVE /\ tinfo[e].ret = 0
  BY <1>1, <1>2 DEF JoinInv, CallInv, EntriesInv
<1>8. \A i \in Slots : Recorded(i)' <=> i # e /\ Recorded(i)
  BY <1>1, <1>2, <1>6 DEF Recorded
<1>9. lib' \in Calls /\ lib'.at = "named" /\ lib'.entry = e /\ lib'.pid = lib.pid
  BY <1>1, <1>2 DEF JoinInv, JoinTypes, Calls
<1>10. JoinTypes'
  BY <1>2, <1>6, <1>9 DEF JoinInv, JoinTypes
<1>11. EntriesInv'
  <2>1. \A i \in Slots : tinfo'[i].num <= made' /\ (tinfo'[i].status # TH_STATUS_ALIVE => tinfo'[i].ret = 0)
    BY <1>2, <1>6 DEF JoinInv, EntriesInv, JoinTypes, Numbers
  <2>2. \A i \in Slots : Recorded(i)' => tinfo'[i].pid \in ThreadPids
    BY <1>6, <1>8 DEF JoinInv, EntriesInv
  <2>3. \A i \in Slots, p \in ThreadPids :
          Recorded(i)' /\ th[p].at # "none" /\ th[p].num = tinfo'[i].num => p = tinfo'[i].pid
    BY <1>6, <1>8 DEF JoinInv, EntriesInv, Lives
  <2>4. \A p \in ThreadPids : th[p].at # "none" /\ tinfo'[e].pid = p => th[p].num \in peers
    BY <1>4, <1>6 DEF Peers
  <2>5. \A i \in Slots, p \in ThreadPids :
          tinfo'[i].status = TH_STATUS_ALIVE /\ th[p].at # "none" /\ tinfo'[i].pid = p
            => th[p].num >= tinfo'[i].num \/ th[p].num \in tinfo'[i].peers
    BY <1>6, <2>4 DEF JoinInv, EntriesInv, Lives
  <2>6. \A i \in Slots : tinfo'[i].ret = 0 \/ tinfo'[i].ret >= tinfo'[i].num \/ tinfo'[i].ret \in tinfo'[i].peers
    BY <1>6, <1>7 DEF JoinInv, EntriesInv
  <2>7. \A i \in Slots, p \in ThreadPids :
          tinfo'[i].status # TH_STATUS_ALIVE /\ th[p].at # "none" => th[p].num # tinfo'[i].num
    BY <1>6 DEF JoinInv, EntriesInv, Lives
  <2> QED BY <1>2, <2>1, <2>2, <2>3, <2>5, <2>6, <2>7 DEF EntriesInv, Lives
<1>12. ContextsInv'
  <2>1. \A i \in Slots : Recorded(i) => Recorded(i)' /\ tinfo'[i].pid = tinfo[i].pid
    BY <1>6, <1>7, <1>8 DEF Recorded
  <2>2. \A p \in ThreadPids : ctx[p].state # UNUSED =>
          \/ \E i \in Slots : Recorded(i)' /\ tinfo'[i].pid = p
          \/ lib.pid = p
    BY <2>1 DEF JoinInv, ContextsInv
  <2> QED BY <1>2, <1>9, <2>2 DEF ContextsInv
<1>13. CallInv'
  BY <1>2, <1>6, <1>9 DEF JoinInv, CallInv, Lives
<1>14. JoinedInv'
  BY <1>2 DEF JoinInv, JoinedInv, FreshResult, Lives
<1> QED BY <1>10, <1>11, <1>12, <1>13, <1>14 DEF JoinInv

\* The entry gets the pid of its own thread.
LEMMA PidJoin ==
  ASSUME JoinInv, gthread_create_pid
  PROVE  JoinInv'
<1>1. PICK e \in Slots, pid \in 0 .. NPid : e = lib.entry /\ pid = lib.pid
  BY DEF JoinInv, JoinTypes, Calls
<1>2. /\ lib.at = "named" /\ lib' = [lib EXCEPT !.at = "recorded"]
      /\ UNCHANGED <<ctx, th, made, joined>> /\ tinfo' = [tinfo EXCEPT ![e].pid = pid]
  BY <1>1 DEF gthread_create_pid
<1>3. pid \in ThreadPids /\ tinfo[e].status = TH_STATUS_ALIVE /\ tinfo[e].num = made
  BY <1>1, <1>2 DEF JoinInv, CallInv
<1>4. /\ tinfo' \in [Slots -> EntryRecords]
      /\ tinfo'[e].pid = pid /\ \A i \in Slots \ {e} : tinfo'[i] = tinfo[i]
      /\ \A i \in Slots : /\ tinfo'[i].status = tinfo[i].status /\ tinfo'[i].num = tinfo[i].num
                          /\ tinfo'[i].ret = tinfo[i].ret /\ tinfo'[i].peers = tinfo[i].peers
  <2> PICK r \in EntryRecords : r = tinfo[e]
    BY DEF JoinInv, JoinTypes
  <2> PICK n : n = [r EXCEPT !.pid = pid]
    OBVIOUS
  <2>1. /\ n \in EntryRecords /\ n.pid = pid /\ n.status = r.status /\ n.num = r.num
        /\ n.ret = r.ret /\ n.peers = r.peers
    BY <1>3, Pid DEF EntryRecords
  <2>2. tinfo \in [Slots -> EntryRecords]
    BY DEF JoinInv, JoinTypes
  <2>3. tinfo' = [tinfo EXCEPT ![e] = n]
    BY <1>2, <2>2
  <2> QED BY <2>1, <2>2, <2>3
<1>5. lib' \in Calls /\ lib'.at = "recorded" /\ lib'.entry = e
  BY <1>1, <1>2 DEF JoinInv, JoinTypes, Calls
<1>6. \A i \in Slots : Recorded(i)' <=> i = e \/ Recorded(i)
  BY <1>1, <1>2, <1>3, <1>4, <1>5 DEF Recorded
<1>7. ~Recorded(e)
  BY <1>1, <1>2 DEF Recorded
<1>8. JoinTypes'
  BY <1>2, <1>4, <1>5 DEF JoinInv, JoinTypes
<1>9. EntriesInv'
  <2>1. \A i \in Slots : Recorded(i)' => tinfo'[i].pid \in ThreadPids
    BY <1>3, <1>4, <1>6 DEF JoinInv, EntriesInv
  <2>2. ASSUME NEW i \in Slots, NEW p \in ThreadPids,
               Recorded(i)', th[p].at # "none", th[p].num = tinfo'[i].num
        PROVE  p = tinfo'[i].pid
    <3>1. CASE i = e
      BY <1>1, <1>2, <1>3, <1>4, <2>2, <3>1 DEF JoinInv, CallInv, Lives
    <3>2. CASE i # e
      BY <1>4, <1>6, <2>2, <3>2 DEF JoinInv, EntriesInv, Lives
    <3> QED BY <3>1, <3>2
  <2>3. \A i \in Slots, p \in ThreadPids :
          tinfo'[i].status = TH_STATUS_ALIVE /\ th[p].at # "none" /\ tinfo'[i].pid = p
            => th[p].num >= tinfo'[i].num \/ th[p].num \in tinfo'[i].peers
    <3> SUFFICES ASSUME NEW i \in Slots, NEW p \in ThreadPids,
                        tinfo'[i].status = TH_STATUS_ALIVE, th[p].at # "none", tinfo'[i].pid = p
                 PROVE  th[p].num >= tinfo'[i].num \/ th[p].num \in tinfo'[i].peers
      OBVIOUS
    <3>1. CASE i = e
      <4>1. th[p].num = made
        BY <1>1, <1>2, <1>4, <3>1 DEF JoinInv, CallInv, Lives
      <4>2. made \in Nat
        BY CreateAssumption DEF JoinInv, JoinTypes, Numbers
      <4> QED BY <1>3, <1>4, <3>1, <4>1, <4>2
    <3>2. CASE i # e
      BY <1>4, <3>2 DEF JoinInv, EntriesInv, Lives
    <3> QED BY <3>1, <3>2
  <2>4. \A i \in Slots : tinfo'[i].ret = 0 \/ tinfo'[i].ret >= tinfo'[i].num \/ tinfo'[i].ret \in tinfo'[i].peers
    BY <1>4 DEF JoinInv, EntriesInv
  <2> QED BY <1>2, <1>4, <2>1, <2>2, <2>3, <2>4 DEF JoinInv, EntriesInv, Lives
<1>10. ContextsInv'
  <2>1. \A i \in Slots : Recorded(i) => Recorded(i)' /\ tinfo'[i].pid = tinfo[i].pid
    BY <1>4, <1>6, <1>7
  <2>2. Recorded(e)' /\ tinfo'[e].pid = pid
    BY <1>4, <1>6
  <2>3. \A p \in ThreadPids : ctx[p].state # UNUSED => \E i \in Slots : Recorded(i)' /\ tinfo'[i].pid = p
    BY <1>1, <2>1, <2>2 DEF JoinInv, ContextsInv
  <2> QED BY <1>2, <2>3 DEF ContextsInv
<1>11. CallInv'
  BY <1>5 DEF CallInv
<1>12. JoinedInv'
  BY <1>2 DEF JoinInv, JoinedInv, FreshResult, Lives
<1> QED BY <1>8, <1>9, <1>10, <1>11, <1>12 DEF JoinInv

LEMMA SameEntries ==
  ASSUME JoinInv, tinfo' = tinfo
  PROVE  EntriesKept
  BY DEF JoinInv, JoinTypes, EntriesKept

LEMMA SameThreads ==
  ASSUME JoinInv, th' = th, \A p \in ThreadPids : ctx[p].state = UNUSED => ctx'[p].state = UNUSED
  PROVE  Shrinks
  BY DEF JoinInv, JoinTypes, Shrinks, Lives

\* Only the areas of an entry are others.
LEMMA OtherAreasKept ==
  ASSUME JoinInv, NEW i \in Slots, NEW areas \in SUBSET AreaRecords,
         tinfo' = [tinfo EXCEPT ![i].areas = areas]
  PROVE  EntriesKept
<1> PICK r \in EntryRecords : r = tinfo[i]
  BY DEF JoinInv, JoinTypes
<1> PICK n : n = [r EXCEPT !.areas = areas]
  OBVIOUS
<1>1. /\ n \in EntryRecords /\ n.status = r.status /\ n.pid = r.pid /\ n.num = r.num
      /\ n.ret = r.ret /\ n.peers = r.peers
  BY DEF EntryRecords
<1>2. tinfo \in [Slots -> EntryRecords]
  BY DEF JoinInv, JoinTypes
<1>3. tinfo' = [tinfo EXCEPT ![i] = n]
  BY <1>2
<1> QED BY <1>1, <1>2, <1>3 DEF EntriesKept

LEMMA ReadyJoin ==
  ASSUME Inv, JoinInv, do_make_thread_ready \/ gthread_create_guard
  PROVE  JoinInv'
<1>1. /\ UNCHANGED <<tinfo, made, joined>> /\ lib.at \in {"recorded", "ready"}
      /\ lib'.at \in {"ready", "main"} /\ lib' \in Calls
  BY StartOfCall DEF do_make_thread_ready, gthread_create_guard, JoinInv, JoinTypes, Calls
<1>2. Shrinks
  <2>1. CASE do_make_thread_ready
    <3>1. ctx' = ctx \/ (ctx[lib.pid].state # UNUSED /\ ctx' = SetState(ctx, lib.pid, READY))
      BY <2>1 DEF do_make_thread_ready
    <3>2. \A p \in Pids : ctx[p].state = UNUSED => ctx'[p].state = UNUSED
      BY <3>1 DEF Inv, ContextTable, SetState
    <3> QED BY <2>1, <3>2, Pid, SameThreads DEF do_make_thread_ready
  <2>2. CASE gthread_create_guard
    <3>1. PICK g \in BOOLEAN : th' = [th EXCEPT ![lib.pid].guard = g]
      BY <2>2 DEF gthread_create_guard
    <3>2. /\ th' \in [ThreadPids -> [at : {"none", "run", "result"}, guard : BOOLEAN, num : Nat]]
          /\ \A q \in ThreadPids : th'[q].at = th[q].at /\ th'[q].num = th[q].num
      BY <3>1 DEF JoinInv, JoinTypes
    <3> QED BY <2>2, <3>2 DEF gthread_create_guard, Shrinks, Lives
  <2> QED BY <2>1, <2>2
<1> QED BY <1>1, <1>2, SameEntries, KeptInv DEF CallKept

LEMMA CallJoin ==
  ASSUME JoinInv, NEW i \in Slots, gthread_join(i)
  PROVE  JoinInv'
<1>1. /\ UNCHANGED <<ctx, tinfo, th, made>> /\ lib.at = "main"
      /\ lib'.at = "join" /\ lib'.entry = i /\ lib'.pid = tinfo[i].pid
      /\ joined'.num = 0 /\ joined'.ret = 0
  BY DEF gthread_join, NoJoin
<1>2. \A j \in Slots : Recorded(j)' <=> Recorded(j)
  BY <1>1 DEF Recorded
<1>3. JoinTypes' /\ JoinedInv' /\ CallInv'
  <2>1. lib' \in Calls
    BY DEF gthread_join, JoinInv, JoinTypes, Calls, EntryRecords
  <2>2. 0 \in Numbers /\ 0 <= made
    BY CreateAssumption DEF JoinInv, JoinTypes, Numbers
  <2> QED BY <1>1, <2>1, <2>2 DEF JoinInv, JoinTypes, JoinedInv, CallInv, FreshResult, Lives
<1>4. EntriesInv'
  BY <1>1, <1>2 DEF JoinInv, EntriesInv, Lives
<1>5. ContextsInv'
  BY <1>1, <1>2 DEF JoinInv, ContextsInv
<1> QED BY <1>3, <1>4, <1>5 DEF JoinInv

\* A context that is gone belongs to no living thread, nor does the number of
\* its entry then.
LEMMA WaitJoin ==
  ASSUME Inv, JoinInv, do_wait_for_thread
  PROVE  JoinInv'
<1>1. PICK e \in Slots, p \in 0 .. NPid : e = lib.entry /\ p = lib.pid /\ p = tinfo[e].pid
  BY DEF JoinInv, JoinTypes, Calls, CallInv, do_wait_for_thread
<1>2. UNCHANGED <<tinfo, th, made, joined>> /\ lib.at = "join"
  BY DEF do_wait_for_thread
<1>3. CASE Gone(p) /\ ctx' = SetState(ctx, p, UNUSED) /\ lib' = [lib EXCEPT !.at = "collect"]
  <2>1. p \in ThreadPids => ~Lives(p)
    <3> SUFFICES ASSUME p \in ThreadPids PROVE ~Lives(p)
      OBVIOUS
    <3>1. ~Live(ctx, p)
      BY <1>3, Pid DEF Gone, Live
    <3>2. ~HasSlot(kt, p)
      BY <3>1 DEF HasSlot, Inv, Known
    <3> QED BY <3>2 DEF Inv, Lives
  <2>2. \A q \in ThreadPids : Lives(q) => th[q].num # tinfo[e].num
    <3>1. CASE Recorded(e)
      BY <1>1, <2>1, <3>1 DEF JoinInv, EntriesInv
    <3>2. CASE tinfo[e].status # TH_STATUS_ALIVE
      BY <3>2 DEF JoinInv, EntriesInv
    <3> QED BY <1>2, <3>1, <3>2 DEF Recorded
  <2>3. lib' \in Calls /\ lib'.at = "collect" /\ lib'.entry = e /\ lib'.pid = p
    <3>1. lib' = [lib EXCEPT !.at = "collect"] /\ lib \in Calls
      BY <1>3 DEF JoinInv, JoinTypes
    <3> QED BY <1>1, <3>1 DEF Calls
  <2>4. \A j \in Slots : Recorded(j)' <=> Recorded(j)
    BY <1>2, <2>3 DEF Recorded
  <2>5. /\ p \in ThreadPids => ctx'[p].state = UNUSED
        /\ \A q \in ThreadPids : ctx'[q].state # UNUSED => ctx[q].state # UNUSED
    BY <1>3, Pid DEF SetState, Inv, ContextTable, States
  <2>6. JoinTypes' /\ JoinedInv'
    BY <1>2, <2>3 DEF JoinInv, JoinTypes, JoinedInv, FreshResult, Lives
  <2>7. CallInv'
    BY <1>1, <1>2, <2>2, <2>3, <2>5 DEF CallInv, Lives
  <2>8. EntriesInv'
    BY <1>2, <2>4 DEF JoinInv, EntriesInv, Lives
  <2>9. ContextsInv'
    BY <1>2, <2>4, <2>5 DEF JoinInv, ContextsInv
  <2> QED BY <2>6, <2>7, <2>8, <2>9 DEF JoinInv
<1>4. CASE SwitchFrom(SetState(ctx, Process, WAITING), kt, Process) /\ lib' = lib
  <2>1. PICK c : c = SetState(ctx, Process, WAITING)
    OBVIOUS
  <2>2. c \in ContextTable /\ \A q \in ThreadPids : c[q].state = ctx[q].state
    BY <2>1, Pid DEF Inv, SetState, ContextTable, States
  <2>3. \A q \in Pids : c[q].state = UNUSED => ctx'[q].state = UNUSED
    BY <1>4, <2>1, <2>2, Pid, SwitchUnused
  <2>4. Shrinks
    BY <1>2, <2>2, <2>3, Pid, SameThreads
  <2> QED BY <1>2, <1>4, <2>4, SameEntries, KeptInv DEF CallKept
<1> QED BY <1>1, <1>3, <1>4 DEF do_wait_for_thread, Reaped, AfterWait

\* The result goes with the join.
LEMMA CollectJoin ==
  ASSUME JoinInv, gthread_join_collect
  PROVE  JoinInv'
<1>1. PICK e \in Slots, p \in 0 .. NPid : e = lib.entry /\ p = lib.pid
  BY DEF JoinInv, JoinTypes, Calls
<1>2. /\ lib.at = "collect" /\ UNCHANGED <<ctx, th, made>>
      /\ lib' = AtMain \/ lib' = [lib EXCEPT !.at = "unmap"]
      /\ joined' = [num |-> tinfo[e].num, ret |-> tinfo[e].ret, peers |-> tinfo[e].peers]
      /\ tinfo' = [tinfo EXCEPT ![e].status = TH_STATUS_USED, ![e].ret = 0]
  BY <1>1 DEF gthread_join_collect, Collected
<1>3. /\ tinfo[e].pid = p /\ (p \in ThreadPids => ctx[p].state = UNUSED)
      /\ \A q \in ThreadPids : Lives(q) => th[q].num # tinfo[e].num
  BY <1>1, <1>2 DEF JoinInv, CallInv
<1>4. /\ tinfo' \in [Slots -> EntryRecords] /\ tinfo[e] \in EntryRecords
      /\ tinfo'[e].status = TH_STATUS_USED /\ tinfo'[e].ret = 0
      /\ \A i \in Slots \ {e} : tinfo'[i] = tinfo[i]
      /\ \A i \in Slots : /\ tinfo'[i].pid = tinfo[i].pid /\ tinfo'[i].num = tinfo[i].num
                          /\ tinfo'[i].peers = tinfo[i].peers
  <2> PICK r \in EntryRecords : r = tinfo[e]
    BY DEF JoinInv, JoinTypes
  <2> PICK n : n = [r EXCEPT !.status = TH_STATUS_USED, !.ret = 0]
    OBVIOUS
  <2>1. 0 \in Numbers
    BY CreateAssumption DEF Numbers
  <2>5. /\ n \in EntryRecords /\ n.pid = r.pid /\ n.status = TH_STATUS_USED /\ n.num = r.num
        /\ n.ret = 0 /\ n.peers = r.peers
    BY <2>1 DEF EntryRecords
  <2>2. tinfo \in [Slots -> EntryRecords]
    BY DEF JoinInv, JoinTypes
  <2>3. tinfo' = [tinfo EXCEPT ![e] = n]
    BY <1>2, <2>2
  <2> QED BY <2>2, <2>3, <2>5
<1>5. lib'.at \in {"main", "unmap"} /\ lib' \in Calls
  <2>1. lib' = [lib EXCEPT !.at = "unmap"] => lib'.at = "unmap" /\ lib' \in Calls
    BY DEF JoinInv, JoinTypes, Calls
  <2> QED BY <1>2, <2>1, StartOfCall
<1>6. \A i \in Slots : Recorded(i)' <=> i # e /\ Recorded(i)
  BY <1>2, <1>4, <1>5 DEF Recorded, TH_STATUS_USED, TH_STATUS_ALIVE
<1>7. joined'.num = tinfo[e].num /\ joined'.ret = tinfo[e].ret /\ joined'.peers = tinfo[e].peers
  BY <1>2
<1>8. JoinTypes'
  BY <1>2, <1>4, <1>5, <1>7 DEF JoinInv, JoinTypes, EntryRecords
<1>9. EntriesInv'
  <2>1. \A i \in Slots : i = e \/ (tinfo'[i].status = tinfo[i].status /\ tinfo'[i].ret = tinfo[i].ret)
    BY <1>4
  <2> QED BY <1>2, <1>3, <1>4, <1>6, <2>1
      DEF JoinInv, EntriesInv, Lives, TH_STATUS_USED, TH_STATUS_ALIVE
<1>10. ContextsInv'
  <2>1. ASSUME NEW q \in ThreadPids, ctx[q].state # UNUSED
        PROVE  \E i \in Slots : Recorded(i)' /\ tinfo'[i].pid = q
    <3> PICK i \in Slots : Recorded(i) /\ tinfo[i].pid = q
      BY <1>2, <2>1 DEF JoinInv, ContextsInv
    <3> QED BY <1>3, <1>4, <1>6, <2>1
  <2> QED BY <1>2, <2>1 DEF ContextsInv
<1>11. CallInv'
  BY <1>5 DEF CallInv
<1>12. JoinedInv'
  BY <1>2, <1>3, <1>7 DEF JoinInv, JoinedInv, EntriesInv, FreshResult, Lives
<1> QED BY <1>8, <1>9, <1>10, <1>11, <1>12 DEF JoinInv

LEMMA UnmapJoin ==
  ASSUME JoinInv, gthread_join_unmap
  PROVE  JoinInv'
<1>1. PICK e \in Slots : e = lib.entry
  BY DEF JoinInv, JoinTypes, Calls
<1>2. PICK m : /\ tinfo' = [tinfo EXCEPT ![e].areas = @ \ {m}]
               /\ lib' = AtMain \/ lib' = lib
  BY <1>1 DEF gthread_join_unmap
<1>3. UNCHANGED <<ctx, th, made, joined>> /\ lib.at = "unmap"
  BY DEF gthread_join_unmap
<1>4. EntriesKept
  <2> PICK areas : areas = tinfo[e].areas \ {m}
    OBVIOUS
  <2>1. areas \in SUBSET AreaRecords
    BY DEF JoinInv, JoinTypes, EntryRecords
  <2>2. tinfo' = [tinfo EXCEPT ![e].areas = areas]
    BY <1>2 DEF JoinInv, JoinTypes
  <2> QED BY <2>1, <2>2, OtherAreasKept
<1>5. CallKept
  BY <1>2, <1>3, StartOfCall DEF CallKept
<1> QED BY <1>3, <1>4, <1>5, SameThreads, KeptInv

-----------------------------------------------------------------------------
\* The steps of a thread.
LEMMA MallocKept ==
  ASSUME JoinInv, NEW p \in ThreadPids, NEW flags \in Flags, gmalloc(p, flags)
  PROVE  Shrinks /\ EntriesKept /\ UNCHANGED <<lib, made, joined>>
<1>1. PICK i \in Slots : i = Min(EntriesOf(p))
  <2>1. EntriesOf(p) \in SUBSET Nat /\ EntriesOf(p) \subseteq Slots /\ EntriesOf(p) # {}
    BY DEF gmalloc, EntriesOf, Slots
  <2> QED BY <2>1, LeastNumber
<1>2. Min(FreeAreas(kt)) \in Areas
  <2>1. FreeAreas(kt) \in SUBSET Nat /\ FreeAreas(kt) \subseteq Areas /\ FreeAreas(kt) # {}
    BY MemoryAssumption DEF gmalloc, FreeAreas
  <2> QED BY <2>1, LeastNumber
<1>3. PICK a \in Areas \cup {MAP_ERR} :
        tinfo' = [tinfo EXCEPT ![i].areas = @ \cup {[start |-> a, flags |-> flags]}]
  BY <1>1, <1>2 DEF gmalloc
<1>4. EntriesKept
  <2> PICK areas : areas = tinfo[i].areas \cup {[start |-> a, flags |-> flags]}
    OBVIOUS
  <2>1. [start |-> a, flags |-> flags] \in AreaRecords
    BY DEF AreaRecords
  <2>2. areas \in SUBSET AreaRecords
    BY <2>1 DEF JoinInv, JoinTypes, EntryRecords
  <2>3. tinfo' = [tinfo EXCEPT ![i].areas = areas]
    BY <1>3 DEF JoinInv, JoinTypes
  <2> QED BY <2>2, <2>3, OtherAreasKept
<1>5. UNCHANGED <<ctx, lib, th, made, joined>>
  BY DEF gmalloc
<1> QED BY <1>4, <1>5, SameThreads

LEMMA FreeKept ==
  ASSUME Inv, JoinInv, NEW p \in ThreadPids, NEW a, gfree(p, a)
  PROVE  Shrinks /\ EntriesKept /\ UNCHANGED <<lib, made, joined>>
<1>1. p = current /\ UNCHANGED <<lib, made, joined>>
  BY DEF gfree, InFunction
<1>2. CASE ThreadGone(p, FALSE) /\ tinfo' = tinfo
  BY <1>1, <1>2, GoneShrinks, SameEntries DEF JoinInv
<1>3. CASE /\ UNCHANGED <<ctx, th>>
           /\ \E i \in Slots : tinfo' = [tinfo EXCEPT ![i].areas = {m \in @ : m.start # a}]
  <2>1. PICK i \in Slots : tinfo' = [tinfo EXCEPT ![i].areas = {m \in @ : m.start # a}]
    BY <1>3
  <2> PICK areas : areas = {m \in tinfo[i].areas : m.start # a}
    OBVIOUS
  <2>2. areas \in SUBSET AreaRecords
    BY DEF JoinInv, JoinTypes, EntryRecords
  <2>3. tinfo' = [tinfo EXCEPT ![i].areas = areas]
    BY <2>1 DEF JoinInv, JoinTypes
  <2>4. EntriesKept
    BY <2>2, <2>3, OtherAreasKept
  <2> QED BY <1>1, <1>3, <2>4, SameThreads
<1>4. PICK found : found = {j \in Slots : a \in Starts(tinfo[j].areas)}
  OBVIOUS
<1>5. found # {}
  BY <1>4 DEF gfree
<1>6. Min(found) \in Slots
  <2>1. found \in SUBSET Nat /\ found \subseteq Slots
    BY <1>4 DEF Slots
  <2> QED BY <1>5, <2>1, LeastNumber
<1> QED BY <1>2, <1>3, <1>4, <1>6 DEF gfree

LEMMA TouchKept ==
  ASSUME Inv, JoinInv, NEW p \in ThreadPids, NEW a, NEW n, NEW wr, touch(p, a, n, wr)
  PROVE  Shrinks /\ EntriesKept /\ UNCHANGED <<lib, made, joined>>
<1>1. p = current /\ UNCHANGED <<tinfo, lib, made, joined>>
  BY DEF touch, InFunction
<1>2. CASE ThreadGone(p, FALSE)
  BY <1>1, <1>2, GoneShrinks, SameEntries DEF JoinInv
<1>3. CASE UNCHANGED <<ctx, th>>
  BY <1>1, <1>3, SameThreads, SameEntries
<1> QED BY <1>2, <1>3 DEF touch

LEMMA ExitKept ==
  ASSUME JoinInv, NEW p \in ThreadPids, gthread_exit(p)
  PROVE  Shrinks /\ EntriesKept /\ UNCHANGED <<lib, made, joined>>
<1>1. /\ UNCHANGED <<ctx, lib, made, joined>> /\ Lives(p)
      /\ th' = [th EXCEPT ![p].at = "result"]
  BY DEF gthread_exit, InFunction, Lives
<1>2. th \in [ThreadPids -> [at : {"none", "run", "result"}, guard : BOOLEAN, num : Nat]]
  BY DEF JoinInv, JoinTypes
<1>3. /\ th' \in [ThreadPids -> [at : {"none", "run", "result"}, guard : BOOLEAN, num : Nat]]
      /\ th'[p].num = th[p].num /\ \A q \in ThreadPids \ {p} : th'[q] = th[q]
  BY <1>1, <1>2
<1>4. Shrinks
  BY <1>1, <1>3 DEF Shrinks, Lives
<1>5. PICK r \in Numbers : r = th[p].num
  <2>1. th[p].num \in Nat /\ th[p].num <= made /\ made \in Numbers
    BY <1>1, <1>2 DEF JoinInv, JoinedInv, JoinTypes
  <2> QED BY <2>1, CreateAssumption DEF Numbers
<1>6. EntriesKept
  <2>1. tinfo \in [Slots -> EntryRecords]
    BY DEF JoinInv, JoinTypes
  <2>2. tinfo' = [i \in Slots |-> IF i \in EntriesOf(p) THEN [tinfo[i] EXCEPT !.ret = r]
                                                        ELSE tinfo[i]]
    BY <1>5 DEF gthread_exit
  <2>3. ASSUME NEW i \in Slots
        PROVE  /\ tinfo'[i] \in EntryRecords
               /\ tinfo'[i].status = tinfo[i].status /\ tinfo'[i].pid = tinfo[i].pid
               /\ tinfo'[i].num = tinfo[i].num /\ tinfo'[i].peers = tinfo[i].peers
               /\ \/ tinfo'[i].ret = tinfo[i].ret
                  \/ tinfo[i].status = TH_STATUS_ALIVE /\ tinfo[i].pid = p /\ tinfo'[i].ret = r
    <3> PICK e \in EntryRecords : e = tinfo[i]
      BY <2>1
    <3> PICK n : n = [e EXCEPT !.ret = r]
      OBVIOUS
    <3>1. /\ n \in EntryRecords /\ n.status = e.status /\ n.pid = e.pid /\ n.num = e.num
          /\ n.peers = e.peers /\ n.ret = r
      BY DEF EntryRecords
    <3>2. (tinfo'[i] = n /\ e.status = TH_STATUS_ALIVE /\ e.pid = p) \/ tinfo'[i] = e
      BY <2>2 DEF EntriesOf
    <3> QED BY <3>1, <3>2
  <2>4. tinfo' \in [Slots -> EntryRecords]
    BY <2>2, <2>3
  <2> QED BY <1>1, <1>5, <2>3, <2>4 DEF EntriesKept
<1> QED BY <1>1, <1>4, <1>6

LEMMA ThreadKept ==
  ASSUME Inv, JoinInv, NEW p \in ThreadPids, ThreadStep(p)
  PROVE  Shrinks /\ EntriesKept /\ UNCHANGED <<lib, made, joined>>
<1>1. CASE do_exit(p) \/ return_unguarded(p)
  <2>1. /\ p = current /\ (ThreadGone(p, TRUE) \/ ThreadGone(p, FALSE))
        /\ UNCHANGED <<tinfo, lib, made, joined>>
    BY <1>1 DEF do_exit, return_unguarded, InFunction
  <2> QED BY <2>1, GoneShrinks, SameEntries DEF JoinInv
<1> QED BY <1>1, MallocKept, FreeKept, TouchKept, ExitKept DEF ThreadStep, ThreadEnds

\* Steps of nobody's function.
LEMMA OtherKept ==
  ASSUME Inv, JoinInv,
         \/ handle_timer_tick \/ cleanup_all_threads \/ UNCHANGED vars
         \/ \E p \in Pids, n \in 1 .. MaxSleep : do_sleep(p, n)
  PROVE  Shrinks /\ EntriesKept /\ UNCHANGED <<lib, made, joined>>
<1>1. UNCHANGED <<tinfo, lib, made, joined>>
  BY DEF handle_timer_tick, cleanup_all_threads, vars, do_sleep
<1>2. Shrinks
  <2>1. CASE UNCHANGED vars
    <3>1. th' = th /\ ctx' = ctx
      BY <2>1 DEF vars
    <3> QED BY <3>1, SameThreads
  <2> QED BY <2>1, TickShrinks, SleepShrinks, CleanupShrinks DEF JoinInv
<1> QED BY <1>1, <1>2, SameEntries

-----------------------------------------------------------------------------
LEMMA InitJoin == Init => JoinInv
<1> SUFFICES ASSUME Init PROVE JoinInv
  OBVIOUS
<1>1. 0 \in Numbers /\ lib \in Calls /\ lib.at = "main"
  BY CreateAssumption, StartOfCall DEF Init, Numbers
<1>2. NoThread \in [at : {"none", "run", "result"}, guard : BOOLEAN, num : Nat]
      /\ NoThread.at = "none"
  BY DEF NoThread
<1>3. \A p \in ThreadPids : th[p] = NoThread /\ ctx[p].state = UNUSED
  BY Pid DEF Init, ThreadPids
<1>4. /\ made = 0 /\ joined.num = 0 /\ joined.ret = 0 /\ th = [p \in ThreadPids |-> NoThread]
      /\ tinfo = [i \in Slots |-> [status |-> NEW_ENTRY, pid |-> 0, ret |-> 0,
                                   areas |-> {}, num |-> 0, peers |-> {}]]
  BY DEF Init, NoJoin
<1>5. 0 \in 0 .. NPid
  BY SchedulerAssumption
<1>6. tinfo \in [Slots -> EntryRecords]
      /\ \A i \in Slots : tinfo[i].status = NEW_ENTRY /\ tinfo[i].num = 0 /\ tinfo[i].ret = 0
  BY <1>1, <1>4, <1>5 DEF EntryRecords
<1>7. NEW_ENTRY # TH_STATUS_ALIVE
  BY DEF NEW_ENTRY, TH_STATUS_ALIVE
<1>8. JoinTypes
  BY <1>1, <1>2, <1>4, <1>6 DEF JoinTypes
<1>9. EntriesInv /\ ContextsInv /\ CallInv
  <2>1. EntriesInv
    BY <1>2, <1>3, <1>4, <1>6, <1>7 DEF EntriesInv, Recorded, Lives
  <2> QED BY <1>1, <1>3, <2>1 DEF ContextsInv, CallInv
<1>10. JoinedInv
  BY <1>2, <1>3, <1>4 DEF JoinedInv, Lives, FreshResult
<1> QED BY <1>8, <1>9, <1>10 DEF JoinInv

LEMMA NextJoin == Inv /\ JoinInv /\ [Next]_vars => JoinInv'
<1> SUFFICES ASSUME Inv, JoinInv, [Next]_vars PROVE JoinInv'
  OBVIOUS
<1>1. CASE LibraryStep
  BY <1>1, StatusJoin, PidJoin, ReadyJoin, WaitJoin, CollectJoin, UnmapJoin DEF LibraryStep
<1>2. CASE Shrinks /\ EntriesKept /\ UNCHANGED <<lib, made, joined>>
  BY <1>2, KeptInv DEF CallKept
<1> QED BY <1>1, <1>2, CloneJoin, CallJoin, ThreadKept, OtherKept DEF Next, ProcessStep

\* When gthread_join returns, its thread has ended: neither the exit of another
\* thread nor the rest of a sleep that was cut short ends the wait (gthread.c:84,
\* clone_threads_helper.c:78).
THEOREM JoinsAfterDeath == Spec => []JoinAfterDeath
<1>1. JoinInv => JoinAfterDeath
  BY DEF JoinInv, JoinedInv, JoinAfterDeath, Living, Lives
<1> QED BY <1>1, InitInv, NextInv, InitJoin, NextJoin, PTL DEF Spec

\* gthread_join never returns the value of a thread that had ended when its own
\* was created (gthread.c:45, :47, :61, :94).
THEOREM FreshResults == Spec => []FreshResult
<1>1. JoinInv => FreshResult
  BY DEF JoinInv, JoinedInv
<1> QED BY <1>1, InitInv, NextInv, InitJoin, NextJoin, PTL DEF Spec

\* The kernel has a context for every thread the library has room for and one
\* to spare: MAX_THREADS is 4 and MAX_PROCESSES, which counts the swapper and
\* the process, is 7 (clone_threads.h:7, context.h:10).
EnoughContexts == MAX_THREADS < NPid

AliveEntries == {i \in Slots : tinfo[i].status = TH_STATUS_ALIVE}

LEMMA SizeOfSets ==
  /\ IsFiniteSet(Slots) /\ Cardinality(Slots) = MAX_THREADS
  /\ IsFiniteSet(ThreadPids) /\ Cardinality(ThreadPids) = NPid - 1
<1>1. IsFiniteSet(Slots) /\ Cardinality(Slots) = MAX_THREADS
  BY MemoryAssumption, FS_Interval DEF Slots
<1>2. IsFiniteSet(Pids) /\ Cardinality(Pids) = NPid
  BY SchedulerAssumption, FS_Interval DEF Pids
<1>3. /\ IsFiniteSet(Pids \ {Process})
      /\ Cardinality(Pids \ {Process}) = Cardinality(Pids) - 1
  BY <1>2, Pid, FS_RemoveElement
<1> QED BY <1>1, <1>2, <1>3 DEF ThreadPids

\* Entry i has a pid of its own for every context and for every slot in use, so
\* there are no more of these than of entries.
LEMMA RoomToCreate ==
  ASSUME EnoughContexts, Inv, JoinInv
  PROVE  CanCreate
<1> SUFFICES ASSUME lib.at = "main", FreeEntries # {}
             PROVE  UnusedPids # {} /\ FreeSlots(kt) # {}
  BY DEF CanCreate
<1>1. IsFiniteSet(AliveEntries) /\ Cardinality(AliveEntries) < MAX_THREADS
  <2>1. AliveEntries \in SUBSET Slots /\ AliveEntries # Slots
    BY DEF AliveEntries, FreeEntries
  <2> QED BY <2>1, SizeOfSets, FS_Subset, FS_CardinalityType, MemoryAssumption
<1>2. ASSUME NEW p \in ThreadPids, ctx[p].state # UNUSED
      PROVE  \E i \in AliveEntries : tinfo[i].pid = p
  BY <1>2 DEF JoinInv, ContextsInv, Recorded, AliveEntries
<1>3. UnusedPids # {}
  <2> SUFFICES ASSUME UnusedPids = {} PROVE FALSE
    OBVIOUS
  <2>1. \A p \in ThreadPids : \E i \in AliveEntries : tinfo[i].pid = p
    BY <1>2 DEF UnusedPids, ThreadPids
  <2>2. PICK f : f = [p \in ThreadPids |-> CHOOSE i \in AliveEntries : tinfo[i].pid = p]
    OBVIOUS
  <2>3. f \in [ThreadPids -> AliveEntries] /\ \A p \in ThreadPids : tinfo[f[p]].pid = p
    BY <2>1, <2>2
  <2>4. Cardinality(AliveEntries) < Cardinality(ThreadPids)
    <3>1. Cardinality(AliveEntries) \in Nat
      BY <1>1, FS_CardinalityType
    <3> QED BY <1>1, <3>1, SizeOfSets, MemoryAssumption, SchedulerAssumption DEF EnoughContexts
  <2>5. \E p, q \in ThreadPids : p # q /\ f[p] = f[q]
    BY <1>1, <2>3, <2>4, SizeOfSets, FS_PigeonHole
  <2> QED BY <2>3, <2>5
<1>4. FreeSlots(kt) # {}
  <2> SUFFICES ASSUME FreeSlots(kt) = {} PROVE FALSE
    OBVIOUS
  <2>1. MemInv(kt) /\ Known(ctx, kt)
    BY DEF Inv
  <2>2. \A j \in Slots : j \in Used(kt)
    BY <2>1 DEF FreeSlots, Used, MemInv, SlotRecords
  <2>3. \A j \in Slots : kt.threads[j].pid \in ThreadPids /\ ctx[kt.threads[j].pid].state # UNUSED
    BY <2>1, <2>2 DEF Known, Live
  <2>4. \A j \in Slots : \E i \in AliveEntries : tinfo[i].pid = kt.threads[j].pid
    BY <1>2, <2>3
  <2>5. PICK f : f = [j \in Slots |-> CHOOSE i \in AliveEntries : tinfo[i].pid = kt.threads[j].pid]
    OBVIOUS
  <2>6. f \in [Slots -> AliveEntries] /\ \A j \in Slots : tinfo[f[j]].pid = kt.threads[j].pid
    BY <2>4, <2>5
  <2>7. \E i, j \in Slots : i # j /\ f[i] = f[j]
    BY <1>1, <2>6, SizeOfSets, FS_PigeonHole
  <2>8. \A i, j \in Slots : j < i => kt.threads[j].pid # kt.threads[i].pid
    BY <2>1, <2>2 DEF MemInv
  <2>9. Slots \subseteq Int
    BY DEF Slots
  <2> QED BY <2>6, <2>7, <2>8, <2>9
<1> QED BY <1>3, <1>4

\* While the library has an entry for another thread, the kernel has a context
\* and a slot for it, whichever threads exited, were killed or were joined
\* (gthread.c:30, clone_threads.c:111, clone_threads_helper.c:75).
THEOREM TablesInStep == ASSUME EnoughContexts PROVE Spec => []CanCreate
<1>1. Inv /\ JoinInv => CanCreate
  BY RoomToCreate
<1> QED BY <1>1, InitInv, NextInv, InitJoin, NextJoin, PTL DEF Spec
=============================================================================
