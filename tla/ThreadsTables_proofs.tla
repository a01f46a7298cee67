------------------------ MODULE ThreadsTables_proofs -------------------------
(***************************************************************************)
(* The tables of the kernel and of the library about private memory, and   *)
(* the pages of it, for any number of contexts, threads, areas and pages,  *)
(* with exits and kills of threads that hold areas: what the two tables    *)
(* say agrees (TablesAgree), and the pages of a thread are closed to the   *)
(* others (Protected).                                                     *)
(***************************************************************************)
EXTENDS Threads_proofs

\* A thread's number is in one entry at most, and no number is 0.
NumbersInv ==
  /\ \A i, j \in Slots : i # j /\ tinfo[i].num = tinfo[j].num => tinfo[i].num = 0
  /\ lib.at = "cloned" => \A i \in Slots : tinfo[i].num # made
  /\ \A p \in ThreadPids : Lives(p) => th[p].num # 0

\* Entry i and slot j are those of one living thread and have the same areas.
Tells(i, j) ==
  /\ tinfo[i].status = TH_STATUS_ALIVE /\ j \in Used(kt) /\ kt.threads[j].pid \in ThreadPids
  /\ Lives(kt.threads[j].pid) /\ tinfo[i].num = th[kt.threads[j].pid].num
  /\ tinfo[i].pid = kt.threads[j].pid /\ tinfo[i].areas = kt.threads[j].maps

\* The thread of entry i lives.
OfLiving(i) == \E p \in ThreadPids : Lives(p) /\ th[p].num = tinfo[i].num

\* The areas recorded of a living thread are in its slot, and whatever areas are
\* in a slot are recorded.
AgreeInv ==
  tidy => /\ \A i \in Slots : OfLiving(i) /\ tinfo[i].areas # {} => \E j \in Slots : Tells(i, j)
          /\ \A j \in Slots : kt.threads[j].maps # {} => \E i \in Slots : Tells(i, j)

\* In any program: a mapped area is recorded, and an entry that is free again
\* has no areas but those the join is about to unmap.
RecordedInv == kt.mapped \subseteq UNION {Starts(tinfo[i].areas) : i \in Slots}

EmptyInv ==
  /\ \A i \in Slots : tinfo[i].status # TH_STATUS_ALIVE /\ ~(lib.at = "unmap" /\ lib.entry = i)
                         => tinfo[i].areas = {}
  /\ lib.at = "unmap" => tinfo[lib.entry].status # TH_STATUS_ALIVE

AllInv == Inv /\ JoinInv /\ NumbersInv
TableInv == AllInv /\ AgreeInv /\ EmptyInv

-----------------------------------------------------------------------------
\* What the operators do to the slots and the pages.
NoPages(pte, a) == [pte EXCEPT ![a] = [n \in Pages |-> ABSENT]]
With(areas, a, flags) == areas \cup {[start |-> a, flags |-> flags]}
Without(areas, a) == {m \in areas : m.start # a}
Recording(threads, i, areas) == [threads EXCEPT ![i].maps = areas]

LEMMA SlotOf ==
  ASSUME NEW k, MemInv(k), NEW i \in Used(k), NEW p, k.threads[i].pid = p
  PROVE  find_thread_from_pid(k, p) = i
<1>1. HasSlot(k, p)
  BY DEF HasSlot
<1>2. PICK j : j = find_thread_from_pid(k, p)
  OBVIOUS
<1>3. j \in Used(k) /\ k.threads[j].pid = p
  BY <1>1, <1>2, FoundSlot
<1>4. i \in Nat /\ j \in Nat /\ i \in Slots /\ j \in Slots
  BY <1>3 DEF Used, Slots
<1>5. ~(i < j) /\ ~(j < i)
  BY <1>3, <1>4 DEF MemInv
<1> QED BY <1>2, <1>4, <1>5

LEMMA OwnUnmapped ==
  ASSUME NEW k, MemInv(k), NEW i \in Used(k), NEW p, k.threads[i].pid = p, NEW a \in Owned(k, i),
         NEW maps, maps = Without(k.threads[i].maps, a),
         NEW isProcess \in BOOLEAN, ~isProcess, NEW new, new = vm_area_unmap(k, p, isProcess, a)
  PROVE  /\ ~UnmapFaults(k, p, isProcess, a)
         /\ new.threads = Recording(k.threads, i, maps)
         /\ new.pte = NoPages(k.pte, a)
<1>1. i # 0 /\ i \in Nat /\ i \in Slots
  BY DEF Used, Slots
<1>2. a \in k.mapped
  BY DEF MemInv
<1>3. UnmapSlot(k, p, isProcess, a) = i
  <2>1. PICK own : own = {find_thread_from_pid(k, p)} \ {0}
    OBVIOUS
  <2>2. own = {i}
    BY <1>1, <2>1, SlotOf
  <2>3. PICK found : found = {j \in own : a \in Starts(k.threads[j].maps)}
    OBVIOUS
  <2>4. found = {i}
    BY <2>2, <2>3 DEF Owned
  <2>5. Min(found) = i
    BY <1>1, <2>4, LeastNumber
  <2> QED BY <2>1, <2>3, <2>4, <2>5 DEF UnmapSlot
<1> QED BY <1>1, <1>2, <1>3 DEF UnmapFaults, vm_area_unmap, handle_thread_private_unmmap, Without,
                                     Recording, NoPages

LEMMA OwnMapped ==
  ASSUME NEW k, MemInv(k), NEW i \in Used(k), NEW p, k.threads[i].pid = p, NEW a, NEW flags,
         NEW maps, maps = With(k.threads[i].maps, a, flags),
         NEW new, new = handle_thread_private_mmap(k, p, a, flags)
  PROVE  /\ new.threads = Recording(k.threads, i, maps)
         /\ new.pte = k.pte
<1>1. PICK threads, mapped, pte :
        /\ k = [threads |-> threads, mapped |-> mapped, pte |-> pte]
        /\ threads \in [Slots -> SlotRecords]
  BY DEF MemInv
<1>2. new = [k EXCEPT !.mapped = @ \cup {a}, !.threads[i].maps = maps]
  BY SlotOf DEF handle_thread_private_mmap, With
<1> QED BY <1>1, <1>2 DEF Recording

LEMMA GivenSlot ==
  ASSUME NEW k, MemInv(k), NEW p, FreeSlots(k) # {}
  PROVE  \E i \in Slots \ Used(k) :
            /\ Cloned(k, p).threads = [k.threads EXCEPT ![i].pid = p, ![i].status = TH_USED]
            /\ Cloned(k, p).mapped = k.mapped /\ Cloned(k, p).pte = k.pte
<1>1. PICK i : i = Min(FreeSlots(k))
  OBVIOUS
<1>2. i \in Slots \ Used(k)
  <2>1. FreeSlots(k) \in SUBSET Nat
    BY DEF FreeSlots, Slots
  <2>2. i \in FreeSlots(k)
    BY <1>1, <2>1, LeastNumber
  <2> QED BY <2>2 DEF FreeSlots, Used, TH_UNUSED, TH_USED
<1>3. PICK threads, mapped, pte :
        /\ k = [threads |-> threads, mapped |-> mapped, pte |-> pte]
        /\ threads \in [Slots -> SlotRecords]
  BY DEF MemInv
<1>4. Cloned(k, p) = [k EXCEPT !.threads[i].pid = p, !.threads[i].status = TH_USED]
  BY <1>1 DEF Cloned
<1>5. /\ Cloned(k, p).threads = [k.threads EXCEPT ![i].pid = p, ![i].status = TH_USED]
      /\ Cloned(k, p).mapped = k.mapped /\ Cloned(k, p).pte = k.pte
  BY <1>3, <1>4
<1> QED BY <1>2, <1>5

-----------------------------------------------------------------------------
\* The numbers.
LEMMA KeptNumbers ==
  ASSUME NumbersInv, Shrinks, \A i \in Slots : tinfo'[i].num = tinfo[i].num,
         lib'.at # "cloned" \/ (lib'.at = lib.at /\ made' = made)
  PROVE  NumbersInv'
  BY DEF NumbersInv, Shrinks, Lives

LEMMA CloneNumbers ==
  ASSUME Inv, JoinInv, NumbersInv, gthread_create_clone
  PROVE  NumbersInv'
<1>1. PICK pid : pid = Min(UnusedPids)
  OBVIOUS
<1>2. PICK m : m = [at |-> "run", guard |-> FALSE, num |-> made + 1]
  OBVIOUS
<1>3. tinfo' = tinfo /\ made' = made + 1 /\ th' = [th EXCEPT ![pid] = m]
  BY <1>1, <1>2 DEF gthread_create_clone
<1>4. made \in Nat
  BY DEF Inv
<1>5. \A i \in Slots : tinfo[i].num \in Nat /\ tinfo[i].num <= made
  BY DEF JoinInv, JoinTypes, EntriesInv, EntryRecords, Numbers
<1>6. \A i \in Slots : tinfo[i].num # made'
  BY <1>3, <1>4, <1>5
<1>7. \A p \in ThreadPids : th'[p].at # "none" => th'[p].num # 0
  BY <1>2, <1>3, <1>4 DEF JoinInv, JoinTypes, NumbersInv, Lives
<1> QED BY <1>3, <1>6, <1>7 DEF NumbersInv, Lives

LEMMA StatusNumbers ==
  ASSUME JoinInv, NumbersInv, gthread_create_status
  PROVE  NumbersInv'
<1>1. PICK e \in Slots : e = lib.entry
  BY DEF JoinInv, JoinTypes, Calls
<1>2. /\ UNCHANGED <<th, made>> /\ lib.at = "cloned" /\ lib' = [lib EXCEPT !.at = "named"]
      /\ tinfo' = [tinfo EXCEPT ![e].status = TH_STATUS_ALIVE, ![e].num = made, ![e].peers = Peers(e)]
  BY <1>1 DEF gthread_create_status
<1>3. lib'.at = "named"
  BY <1>2 DEF JoinInv, JoinTypes, Calls
<1>4. tinfo'[e].num = made /\ \A i \in Slots \ {e} : tinfo'[i].num = tinfo[i].num
  <2>1. tinfo \in [Slots -> EntryRecords]
    BY DEF JoinInv, JoinTypes
  <2> QED BY <1>2, <2>1 DEF EntryRecords
<1>5. \A i, j \in Slots : i # j /\ tinfo'[i].num = tinfo'[j].num => tinfo'[i].num = 0
  BY <1>2, <1>4 DEF NumbersInv
<1> QED BY <1>2, <1>3, <1>5 DEF NumbersInv, Lives

LEMMA NextNumbers == Inv /\ JoinInv /\ NumbersInv /\ [Next]_vars => NumbersInv'
<1> SUFFICES ASSUME Inv, JoinInv, NumbersInv, [Next]_vars PROVE NumbersInv'
  OBVIOUS
<1>1. CASE \/ gthread_join_collect \/ gthread_create_pid \/ gthread_join_unmap
  <2>1. PICK e \in Slots : e = lib.entry
    BY DEF JoinInv, JoinTypes, Calls
  <2>2. tinfo \in [Slots -> EntryRecords]
    BY DEF JoinInv, JoinTypes
  <2>3. CASE gthread_join_collect
    <3>1. tinfo' = [tinfo EXCEPT ![e].status = TH_STATUS_USED, ![e].ret = 0]
      BY <2>1, <2>3 DEF gthread_join_collect, Collected
    <3>2. \A i \in Slots : tinfo'[i].num = tinfo[i].num
      BY <2>2, <3>1 DEF EntryRecords
    <3>3. UNCHANGED <<ctx, th>> /\ lib'.at # "cloned"
      BY <2>3, StartOfCall DEF gthread_join_collect, JoinInv, JoinTypes, Calls
    <3>4. Shrinks
      BY <3>3, SameThreads
    <3> QED BY <3>2, <3>3, <3>4, KeptNumbers
  <2>4. CASE gthread_create_pid
    <3>1. tinfo' = [tinfo EXCEPT ![e].pid = lib.pid]
      BY <2>1, <2>4 DEF gthread_create_pid
    <3>2. \A i \in Slots : tinfo'[i].num = tinfo[i].num
      BY <2>2, <3>1 DEF EntryRecords
    <3>3. UNCHANGED <<ctx, th>> /\ lib'.at # "cloned"
      BY <2>4 DEF gthread_create_pid, JoinInv, JoinTypes, Calls
    <3>4. Shrinks
      BY <3>3, SameThreads
    <3> QED BY <3>2, <3>3, <3>4, KeptNumbers
  <2>5. CASE gthread_join_unmap
    <3>1. PICK m : tinfo' = [tinfo EXCEPT ![e].areas = @ \ {m}]
      BY <2>1, <2>5 DEF gthread_join_unmap
    <3>2. \A i \in Slots : tinfo'[i].num = tinfo[i].num
      BY <2>2, <3>1 DEF EntryRecords
    <3>3. UNCHANGED <<ctx, th>> /\ lib'.at # "cloned"
      BY <2>5, StartOfCall DEF gthread_join_unmap
    <3>4. Shrinks
      BY <3>3, SameThreads
    <3> QED BY <3>2, <3>3, <3>4, KeptNumbers
  <2> QED BY <1>1, <2>3, <2>4, <2>5
<1>2. CASE do_wait_for_thread
  <2>1. tinfo' = tinfo /\ th' = th /\ lib'.at # "cloned"
    BY <1>2 DEF do_wait_for_thread, JoinInv, JoinTypes, Calls, AfterWait
  <2> QED BY <2>1 DEF NumbersInv, Lives
<1>3. CASE UNCHANGED <<tinfo, th>> /\ lib'.at # "cloned"
  BY <1>3 DEF NumbersInv, Lives
<1>4. CASE gthread_create_guard
  <2>1. /\ Shrinks /\ tinfo' = tinfo /\ lib'.at # "cloned"
    <3>1. PICK g \in BOOLEAN : th' = [th EXCEPT ![lib.pid].guard = g]
      BY <1>4 DEF gthread_create_guard
    <3>2. /\ th' \in [ThreadPids -> [at : {"none", "run", "result"}, guard : BOOLEAN, num : Nat]]
          /\ \A q \in ThreadPids : th'[q].at = th[q].at /\ th'[q].num = th[q].num
      BY <3>1 DEF JoinInv, JoinTypes
    <3> QED BY <1>4, <3>2, StartOfCall DEF gthread_create_guard, Shrinks, Lives
  <2> QED BY <2>1, KeptNumbers
<1>5. CASE do_make_thread_ready \/ \E i \in Slots : gthread_join(i)
  <2>1. UNCHANGED <<tinfo, th>> /\ lib'.at # "cloned"
    BY <1>5 DEF do_make_thread_ready, gthread_join, JoinInv, JoinTypes, Calls
  <2> QED BY <1>3, <2>1
<1>6. CASE Shrinks /\ EntriesKept /\ UNCHANGED <<lib, made, joined>>
  BY <1>6, KeptNumbers DEF EntriesKept
<1> QED BY <1>1, <1>2, <1>4, <1>5, <1>6, CloneNumbers, StatusNumbers, ThreadKept, OtherKept
        DEF Next, ProcessStep, LibraryStep

-----------------------------------------------------------------------------
\* The agreement of the tables.

\* Steps that record no area and take none from a living thread.
LivingKept ==
  \A i \in Slots : OfLiving(i)' /\ tinfo'[i].areas # {} => OfLiving(i) /\ tinfo[i].areas # {}

MapsKept == \A j \in Slots : kt'.threads[j].maps # {} => kt.threads[j].maps # {}

TellsKept ==
  \A i, j \in Slots :
    tinfo[i].areas # {} /\ Tells(i, j) /\ (OfLiving(i)' \/ kt'.threads[j].maps # {}) =>
      /\ tinfo'[i].status = TH_STATUS_ALIVE /\ j \in Used(kt')
      /\ kt'.threads[j].pid = kt.threads[j].pid /\ kt'.threads[j].maps = kt.threads[j].maps
      /\ th'[kt.threads[j].pid].at # "none" /\ th'[kt.threads[j].pid].num = th[kt.threads[j].pid].num
      /\ tinfo'[i].num = tinfo[i].num /\ tinfo'[i].pid = tinfo[i].pid
      /\ tinfo'[i].areas = tinfo[i].areas

LEMMA KeptAgree ==
  ASSUME AgreeInv, tidy' => tidy /\ LivingKept /\ MapsKept /\ TellsKept
  PROVE  AgreeInv'
<1> SUFFICES ASSUME tidy'
             PROVE  /\ \A i \in Slots : OfLiving(i)' /\ tinfo'[i].areas # {}
                                          => \E j \in Slots : Tells(i, j)'
                    /\ \A j \in Slots : kt'.threads[j].maps # {} => \E i \in Slots : Tells(i, j)'
  BY DEF AgreeInv
<1>1. ASSUME NEW i \in Slots, NEW j \in Slots, tinfo[i].areas # {}, Tells(i, j),
             OfLiving(i)' \/ kt'.threads[j].maps # {}
      PROVE  Tells(i, j)'
  BY <1>1 DEF Tells, TellsKept, Lives
<1>2. ASSUME NEW i \in Slots, OfLiving(i)', tinfo'[i].areas # {}
      PROVE  \E j \in Slots : Tells(i, j)'
  <2>1. OfLiving(i) /\ tinfo[i].areas # {}
    BY <1>2 DEF LivingKept
  <2>2. PICK j \in Slots : Tells(i, j)
    BY <2>1 DEF AgreeInv
  <2>3. Tells(i, j)'
    BY <1>1, <1>2, <2>1, <2>2
  <2> QED BY <2>3
<1>3. ASSUME NEW j \in Slots, kt'.threads[j].maps # {}
      PROVE  \E i \in Slots : Tells(i, j)'
  <2>1. kt.threads[j].maps # {}
    BY <1>3 DEF MapsKept
  <2>2. PICK i \in Slots : Tells(i, j)
    BY <2>1 DEF AgreeInv
  <2>3. tinfo[i].areas # {}
    BY <2>1, <2>2 DEF Tells
  <2>4. Tells(i, j)'
    BY <1>1, <1>3, <2>2, <2>3
  <2> QED BY <2>4
<1> QED BY <1>2, <1>3

\* A number is that of one living thread.
LEMMA UniqueNumber ==
  ASSUME JoinInv, NEW i \in Slots, tinfo[i].status = TH_STATUS_ALIVE, NEW p \in ThreadPids,
         NEW q \in ThreadPids, Lives(p), Lives(q), th[p].num = tinfo[i].num, th[q].num = tinfo[i].num
  PROVE  p = q
<1>1. CASE Recorded(i)
  BY <1>1 DEF JoinInv, EntriesInv
<1>2. CASE ~Recorded(i)
  <2>1. lib.at = "named" /\ i = lib.entry
    BY <1>2 DEF Recorded
  <2>2. tinfo[i].num = made
    BY <2>1 DEF JoinInv, CallInv
  <2>3. p = lib.pid /\ q = lib.pid
    BY <2>1, <2>2 DEF JoinInv, CallInv
  <2> QED BY <2>3
<1> QED BY <1>1, <1>2

\* No thread gets alive.
LEMMA KeptLiving ==
  ASSUME Shrinks, \A i \in Slots : /\ tinfo'[i].num = tinfo[i].num
                                   /\ tinfo'[i].areas = tinfo[i].areas
  PROVE  LivingKept
  BY DEF LivingKept, OfLiving, Shrinks

\* One thread's areas change, in both tables.
LEMMA OwnAgree ==
  ASSUME Inv, NumbersInv, AgreeInv, NEW i \in Slots, NEW j \in Slots, Tells(i, j), NEW areas,
         tinfo \in [Slots -> EntryRecords],
         tinfo' = [tinfo EXCEPT ![i].areas = areas],
         kt'.threads = Recording(kt.threads, j, areas),
         th' = th, tidy' => tidy
  PROVE  AgreeInv'
<1> SUFFICES ASSUME tidy'
             PROVE  /\ \A e \in Slots : OfLiving(e)' /\ tinfo'[e].areas # {}
                                          => \E s \in Slots : Tells(e, s)'
                    /\ \A s \in Slots : kt'.threads[s].maps # {} => \E e \in Slots : Tells(e, s)'
  BY DEF AgreeInv
<1>1. kt.threads \in [Slots -> SlotRecords] /\ MemInv(kt)
  BY DEF Inv, MemInv
<1>2. /\ \A e \in Slots : /\ tinfo'[e].status = tinfo[e].status /\ tinfo'[e].pid = tinfo[e].pid
                          /\ tinfo'[e].num = tinfo[e].num
      /\ tinfo'[i].areas = areas
      /\ \A e \in Slots \ {i} : tinfo'[e].areas = tinfo[e].areas
  BY DEF EntryRecords
<1>3. /\ \A s \in Slots : /\ kt'.threads[s].status = kt.threads[s].status
                          /\ kt'.threads[s].pid = kt.threads[s].pid
      /\ kt'.threads[j].maps = areas
      /\ \A s \in Slots \ {j} : kt'.threads[s].maps = kt.threads[s].maps
  BY <1>1 DEF SlotRecords, Recording
<1>4. \A s \in Slots : s \in Used(kt)' <=> s \in Used(kt)
  BY <1>3 DEF Used
<1>5. Tells(i, j)'
  BY <1>2, <1>3, <1>4 DEF Tells, Lives
<1>6. ASSUME NEW e \in Slots, NEW s \in Slots, Tells(e, s), e # i \/ s # j
      PROVE  e # i /\ s # j
  <2>1. e = i => kt.threads[s].pid = kt.threads[j].pid
    BY <1>6 DEF Tells
  <2>2. kt.threads[s].pid = kt.threads[j].pid => s = j
    <3>1. s \in Used(kt) /\ j \in Used(kt) /\ s \in Nat /\ j \in Nat
      BY <1>6 DEF Tells, Slots
    <3> QED BY <1>1, <3>1 DEF MemInv
  <2>3. s = j => tinfo[e].num = tinfo[i].num /\ tinfo[i].num # 0
    BY <1>6 DEF Tells, NumbersInv
  <2> QED BY <1>6, <2>1, <2>2, <2>3 DEF NumbersInv
<1>7. ASSUME NEW e \in Slots, NEW s \in Slots, Tells(e, s), e # i \/ s # j
      PROVE  Tells(e, s)'
  BY <1>2, <1>3, <1>4, <1>6, <1>7 DEF Tells, Lives
<1>8. ASSUME NEW e \in Slots, OfLiving(e)', tinfo'[e].areas # {}
      PROVE  \E s \in Slots : Tells(e, s)'
  <2>1. CASE e = i
    BY <1>5, <2>1
  <2>2. CASE e # i
    <3>0. OfLiving(e)
      BY <1>2, <1>8 DEF OfLiving, Lives
    <3>1. PICK s \in Slots : Tells(e, s)
      BY <1>2, <1>8, <2>2, <3>0 DEF AgreeInv
    <3>2. Tells(e, s)'
      BY <1>7, <2>2, <3>1
    <3> QED BY <3>2
  <2> QED BY <2>1, <2>2
<1>9. ASSUME NEW s \in Slots, kt'.threads[s].maps # {}
      PROVE  \E e \in Slots : Tells(e, s)'
  <2>1. CASE s = j
    BY <1>5, <2>1
  <2>2. CASE s # j
    <3>1. PICK e \in Slots : Tells(e, s)
      BY <1>3, <1>9, <2>2 DEF AgreeInv
    <3>2. Tells(e, s)'
      BY <1>7, <2>2, <3>1
    <3> QED BY <3>2
  <2> QED BY <2>1, <2>2
<1> QED BY <1>8, <1>9 DEF AgreeInv

\* The areas of a living thread are the same in its slot and in its entry.
LEMMA OwnEntry ==
  ASSUME AllInv, AgreeInv, tidy, NEW i \in Slots, NEW j \in Used(kt), NEW p \in ThreadPids,
         kt.threads[j].pid = p, Lives(p), tinfo[i].status = TH_STATUS_ALIVE,
         tinfo[i].num = th[p].num, tinfo[i].pid = p
  PROVE  Tells(i, j)
<1>1. j \in Slots /\ j \in Nat
  BY DEF Used, Slots
<1>2. CASE tinfo[i].areas # {}
  <2>0. OfLiving(i)
    BY DEF OfLiving
  <2>1. PICK s \in Slots : Tells(i, s)
    BY <1>2, <2>0 DEF AgreeInv
  <2>2. s \in Used(kt) /\ kt.threads[s].pid = p /\ s \in Nat
    BY <2>1 DEF Tells, Slots
  <2>3. s = j
    <3>1. MemInv(kt)
      BY DEF AllInv, Inv
    <3>2. ~(s < j) /\ ~(j < s)
      BY <1>1, <2>1, <2>2, <3>1 DEF MemInv
    <3> QED BY <1>1, <2>2, <3>2
  <2> QED BY <2>1, <2>3
<1>3. CASE kt.threads[j].maps # {}
  <2>1. PICK e \in Slots : Tells(e, j)
    BY <1>1, <1>3 DEF AgreeInv
  <2>2. tinfo[e].num = tinfo[i].num /\ tinfo[i].num # 0
    BY <2>1 DEF Tells, AllInv, NumbersInv
  <2>3. e = i
    BY <2>2 DEF AllInv, NumbersInv
  <2> QED BY <2>1, <2>3
<1>4. CASE tinfo[i].areas = {} /\ kt.threads[j].maps = {}
  BY <1>4 DEF Tells
<1> QED BY <1>2, <1>3, <1>4

-----------------------------------------------------------------------------
\* The steps of the process.
LEMMA CloneAgree ==
  ASSUME AllInv, AgreeInv, gthread_create_clone
  PROVE  AgreeInv'
<1>1. PICK pid : pid = Min(UnusedPids)
  OBVIOUS
<1>2. ctx[pid].state = UNUSED
  <2>1. UnusedPids \in SUBSET Nat /\ UnusedPids # {}
    BY DEF UnusedPids, Pids, gthread_create_clone
  <2> QED BY <1>1, <2>1, LeastNumber DEF UnusedPids
<1>3. PICK m : m = [at |-> "run", guard |-> FALSE, num |-> made + 1]
  OBVIOUS
<1>4. /\ kt' = Cloned(kt, pid) /\ th' = [th EXCEPT ![pid] = m]
      /\ UNCHANGED <<tinfo, tidy>> /\ lib'.at = "cloned" /\ FreeSlots(kt) # {}
  BY <1>1, <1>3 DEF gthread_create_clone
<1>5. MemInv(kt) /\ Known(ctx, kt) /\ kt.threads \in [Slots -> SlotRecords]
  BY DEF AllInv, Inv, MemInv
<1>6. PICK i \in Slots \ Used(kt) :
        kt'.threads = [kt.threads EXCEPT ![i].pid = pid, ![i].status = TH_USED]
  BY <1>4, <1>5, GivenSlot
<1>7. /\ \A j \in Slots : kt'.threads[j].maps = kt.threads[j].maps
      /\ \A j \in Slots \ {i} : kt'.threads[j] = kt.threads[j]
  BY <1>5, <1>6 DEF SlotRecords
<1>8. \A q \in ThreadPids \ {pid} : th'[q] = th[q]
  BY <1>4 DEF AllInv, Inv
<1>9. ASSUME NEW j \in Used(kt)
      PROVE  /\ j \in Used(kt') /\ kt'.threads[j].pid = kt.threads[j].pid
             /\ kt.threads[j].pid # pid
  <2>1. j # i /\ j \in Slots
    BY <1>6 DEF Used
  <2>2. kt.threads[j].pid # pid
    BY <1>2, <1>5 DEF Known, Live
  <2> QED BY <1>7, <2>1, <2>2 DEF Used
<1>10. TellsKept
  BY <1>4, <1>7, <1>8, <1>9 DEF TellsKept, Tells, Lives
<1>11. LivingKept
  <2> SUFFICES ASSUME NEW e \in Slots, NEW q \in ThreadPids, th'[q].at # "none",
                      th'[q].num = tinfo[e].num
               PROVE  OfLiving(e)
    BY <1>4 DEF LivingKept, OfLiving, Lives
  <2>1. tinfo[e].num \in Nat /\ tinfo[e].num <= made /\ made \in Nat
    BY DEF AllInv, Inv, JoinInv, JoinTypes, EntriesInv, EntryRecords, Numbers
  <2>2. q # pid
    <3>1. q = pid => th'[q].num = made + 1
      BY <1>3, <1>4 DEF AllInv, Inv
    <3> QED BY <2>1, <3>1
  <2> QED BY <1>8, <2>2 DEF OfLiving, Lives
<1>12. MapsKept
  BY <1>7 DEF MapsKept
<1> QED BY <1>4, <1>10, <1>11, <1>12, KeptAgree

LEMMA StatusAgree ==
  ASSUME AllInv, AgreeInv, EmptyInv, gthread_create_status
  PROVE  AgreeInv'
<1>1. PICK e \in Slots : e = lib.entry
  BY DEF AllInv, JoinInv, JoinTypes, Calls
<1>2. /\ UNCHANGED <<kt, th, tidy>> /\ lib.at = "cloned" /\ lib' = [lib EXCEPT !.at = "named"]
      /\ tinfo' = [tinfo EXCEPT ![e].status = TH_STATUS_ALIVE, ![e].num = made, ![e].peers = Peers(e)]
  BY <1>1 DEF gthread_create_status
<1>4. /\ \A i \in Slots : tinfo'[i].areas = tinfo[i].areas
      /\ \A i \in Slots \ {e} : tinfo'[i] = tinfo[i]
  <2>1. tinfo \in [Slots -> EntryRecords]
    BY DEF AllInv, JoinInv, JoinTypes
  <2> QED BY <1>2, <2>1 DEF EntryRecords
<1>5. tinfo[e].status # TH_STATUS_ALIVE /\ tinfo[e].areas = {}
  BY <1>1, <1>2 DEF AllInv, JoinInv, CallInv, EmptyInv
<1>6. TellsKept
  BY <1>2, <1>4, <1>5 DEF TellsKept, Tells, Lives
<1>7. LivingKept /\ MapsKept
  BY <1>2, <1>4, <1>5 DEF LivingKept, OfLiving, Lives, MapsKept
<1> QED BY <1>2, <1>6, <1>7, KeptAgree

LEMMA PidAgree ==
  ASSUME AllInv, AgreeInv, gthread_create_pid
  PROVE  AgreeInv'
<1>1. PICK e \in Slots, pid \in 0 .. NPid : e = lib.entry /\ pid = lib.pid
  BY DEF AllInv, JoinInv, JoinTypes, Calls
<1>2. /\ UNCHANGED <<kt, th, tidy>> /\ lib.at = "named" /\ lib' = [lib EXCEPT !.at = "recorded"]
      /\ tinfo' = [tinfo EXCEPT ![e].pid = pid]
  BY <1>1 DEF gthread_create_pid
<1>4. /\ \A i \in Slots : /\ tinfo'[i].areas = tinfo[i].areas /\ tinfo'[i].status = tinfo[i].status
                          /\ tinfo'[i].num = tinfo[i].num
      /\ tinfo'[e].pid = pid /\ \A i \in Slots \ {e} : tinfo'[i].pid = tinfo[i].pid
  <2>1. tinfo \in [Slots -> EntryRecords]
    BY DEF AllInv, JoinInv, JoinTypes
  <2> QED BY <1>2, <2>1 DEF EntryRecords
<1>5. ASSUME NEW j \in Slots, Tells(e, j)
      PROVE  tinfo[e].pid = pid
  <2>1. tinfo[e].num = made /\ \A p \in ThreadPids : Lives(p) /\ th[p].num = made => p = pid
    BY <1>1, <1>2 DEF AllInv, JoinInv, CallInv
  <2> QED BY <1>5, <2>1 DEF Tells
<1>6. TellsKept
  <2> SUFFICES ASSUME NEW i \in Slots, NEW j \in Slots, Tells(i, j)
               PROVE  /\ tinfo'[i].status = TH_STATUS_ALIVE /\ j \in Used(kt')
                      /\ kt'.threads[j].pid = kt.threads[j].pid
                      /\ kt'.threads[j].maps = kt.threads[j].maps
                      /\ th'[kt.threads[j].pid].at # "none"
                      /\ th'[kt.threads[j].pid].num = th[kt.threads[j].pid].num
                      /\ tinfo'[i].num = tinfo[i].num /\ tinfo'[i].pid = tinfo[i].pid
                      /\ tinfo'[i].areas = tinfo[i].areas
    BY DEF TellsKept
  <2>1. tinfo'[i].pid = tinfo[i].pid
    BY <1>4, <1>5
  <2> QED BY <1>2, <1>4, <2>1 DEF Tells, Lives
<1>7. LivingKept /\ MapsKept
  BY <1>2, <1>4 DEF LivingKept, OfLiving, Lives, MapsKept
<1> QED BY <1>2, <1>6, <1>7, KeptAgree

\* Nothing is left in the kernel of a thread that was waited for.
LEMMA CollectAgree ==
  ASSUME AllInv, AgreeInv, gthread_join_collect
  PROVE  AgreeInv'
<1>1. PICK e \in Slots : e = lib.entry
  BY DEF AllInv, JoinInv, JoinTypes, Calls
<1>2. /\ UNCHANGED <<kt, th, tidy>> /\ lib.at = "collect"
      /\ tinfo' = [tinfo EXCEPT ![e].status = TH_STATUS_USED, ![e].ret = 0]
  BY <1>1 DEF gthread_join_collect, Collected
<1>3. /\ \A i \in Slots : tinfo'[i].areas = tinfo[i].areas /\ tinfo'[i].num = tinfo[i].num
      /\ \A i \in Slots \ {e} : tinfo'[i] = tinfo[i]
  <2>1. tinfo \in [Slots -> EntryRecords]
    BY DEF AllInv, JoinInv, JoinTypes
  <2> QED BY <1>2, <2>1 DEF EntryRecords
<1>4. \A j \in Slots : ~Tells(e, j)
  <2>1. \A p \in ThreadPids : Lives(p) => th[p].num # tinfo[e].num
    BY <1>1, <1>2 DEF AllInv, JoinInv, CallInv
  <2> QED BY <2>1 DEF Tells
<1>5. TellsKept
  BY <1>2, <1>3, <1>4 DEF TellsKept, Tells, Lives
<1>6. LivingKept /\ MapsKept
  BY <1>2, <1>3 DEF LivingKept, OfLiving, Lives, MapsKept
<1> QED BY <1>2, <1>5, <1>6, KeptAgree

\* The join unmaps an area that nobody has any more, or is not tidy.
LEMMA UnmapAgree ==
  ASSUME AllInv, AgreeInv, EmptyInv, gthread_join_unmap
  PROVE  AgreeInv'
<1> SUFFICES ASSUME tidy' PROVE AgreeInv'
  BY DEF AgreeInv
<1>1. PICK e \in Slots : e = lib.entry
  BY DEF AllInv, JoinInv, JoinTypes, Calls
<1>2. PICK m : /\ kt' = vm_area_unmap(kt, Process, TRUE, m.start)
               /\ tinfo' = [tinfo EXCEPT ![e].areas = @ \ {m}]
               /\ tidy' = (tidy /\ m.start \notin kt.mapped)
  BY <1>1 DEF gthread_join_unmap
<1>3. tidy /\ kt' = kt /\ th' = th
  BY <1>2 DEF gthread_join_unmap, vm_area_unmap
<1>4. /\ tinfo'[e].areas \subseteq tinfo[e].areas /\ \A i \in Slots \ {e} : tinfo'[i] = tinfo[i]
      /\ \A i \in Slots : tinfo'[i].num = tinfo[i].num
  <2>1. tinfo \in [Slots -> EntryRecords]
    BY DEF AllInv, JoinInv, JoinTypes
  <2> QED BY <1>2, <2>1 DEF EntryRecords
<1>5. tinfo[e].status # TH_STATUS_ALIVE
  BY <1>1 DEF gthread_join_unmap, EmptyInv
<1>6. TellsKept
  BY <1>3, <1>4, <1>5 DEF TellsKept, Tells, Lives
<1>7. LivingKept /\ MapsKept
  BY <1>3, <1>4 DEF LivingKept, OfLiving, Lives, MapsKept
<1> QED BY <1>3, <1>6, <1>7, KeptAgree

\* The process ends: nobody lives and no area is left.
LEMMA CleanupAgree ==
  ASSUME AllInv, AgreeInv, cleanup_all_threads
  PROVE  AgreeInv'
<1>1. PICK c \in ContextTable : \E k : SwitchFrom(c, k, Process) /\ Emptied(k)
  BY CleanupSwitch DEF AllInv
<1>2. \A j \in Slots : kt'.threads[j].maps = {}
  <2>1. PICK k : SwitchFrom(c, k, Process) /\ Emptied(k)
    BY <1>1
  <2>2. MemInv(k) /\ \A j \in Slots : k.threads[j].maps = {}
    BY <2>1 DEF Emptied
  <2>3. kt'.threads = k.threads
    BY <2>1, <2>2, Pid, Switch
  <2> QED BY <2>2, <2>3
<1>3. \A p \in ThreadPids : th'[p].at = "none"
  BY DEF cleanup_all_threads, NoThread
<1>4. \A i \in Slots : ~OfLiving(i)'
  BY <1>3 DEF OfLiving, Lives
<1> QED BY <1>2, <1>4 DEF AgreeInv

\* The other steps of the process and of the timer change no table.
LEMMA SameAgree ==
  ASSUME AgreeInv, tinfo' = tinfo, tidy' => tidy, kt'.threads = kt.threads,
         \A p \in ThreadPids : th'[p].at = th[p].at /\ th'[p].num = th[p].num
  PROVE  AgreeInv'
<1>1. TellsKept
  BY DEF TellsKept, Tells, Used, Lives
<1>2. LivingKept /\ MapsKept
  BY DEF LivingKept, OfLiving, Lives, MapsKept
<1> QED BY <1>1, <1>2, KeptAgree

LEMMA SwitchThreads ==
  ASSUME Inv, \/ handle_timer_tick \/ do_wait_for_thread
              \/ \E p \in Pids, n \in 1 .. MaxSleep : do_sleep(p, n)
  PROVE  kt'.threads = kt.threads
<1>1. MemInv(kt) /\ ctx \in ContextTable /\ current \in 0 .. NPid
  BY DEF Inv
<1>2. CASE handle_timer_tick
  <2>1. PICK d, c : d = do_sleep_and_alarm_account(ctx) /\ c = SetState(d, current, READY)
    OBVIOUS
  <2>2. c \in ContextTable
    BY <2>1, TickStates
  <2>3. SwitchFrom(c, kt, current)
    BY <1>2, <2>1 DEF handle_timer_tick, Ticked
  <2> QED BY <1>1, <2>2, <2>3, Switch
<1>3. CASE do_wait_for_thread
  <2>1. PICK c : c = SetState(ctx, Process, WAITING)
    OBVIOUS
  <2>2. c \in ContextTable
    BY <1>1, <2>1, Pid DEF SetState, ContextTable, States
  <2>3. kt' = kt \/ SwitchFrom(c, kt, Process)
    BY <1>3, <2>1 DEF do_wait_for_thread
  <2> QED BY <1>1, <2>2, <2>3, Pid, Switch
<1>4. ASSUME NEW p \in Pids, NEW n \in 1 .. MaxSleep, do_sleep(p, n)
      PROVE  kt'.threads = kt.threads
  <2>1. PICK c : c = [ctx EXCEPT ![p] = [state |-> WAITING, ticks_to_sleep |-> n]]
    OBVIOUS
  <2>2. c \in ContextTable /\ p \in 0 .. NPid
    BY <1>1, <2>1, Pid DEF ContextTable, States
  <2> QED BY <1>1, <1>4, <2>1, <2>2, Switch DEF do_sleep
<1> QED BY <1>2, <1>3, <1>4

LEMMA SwitchAgree ==
  ASSUME AllInv, AgreeInv,
         \/ handle_timer_tick \/ do_wait_for_thread
         \/ \E p \in Pids, n \in 1 .. MaxSleep : do_sleep(p, n)
  PROVE  AgreeInv'
<1>1. kt'.threads = kt.threads
  BY SwitchThreads DEF AllInv
<1>2. UNCHANGED <<tinfo, th, tidy>>
  BY DEF handle_timer_tick, do_wait_for_thread, do_sleep
<1> QED BY <1>1, <1>2, SameAgree

LEMMA CallAgree ==
  ASSUME AllInv, AgreeInv,
         \/ do_make_thread_ready \/ gthread_create_guard
         \/ \E i \in Slots : gthread_join(i)
  PROVE  AgreeInv'
<1>1. CASE gthread_create_guard
  <2>1. PICK g \in BOOLEAN : th' = [th EXCEPT ![lib.pid].guard = g]
    BY <1>1 DEF gthread_create_guard
  <2>2. \A q \in ThreadPids : th'[q].at = th[q].at /\ th'[q].num = th[q].num
    BY <2>1 DEF AllInv, JoinInv, JoinTypes
  <2>3. UNCHANGED <<kt, tinfo, tidy>>
    BY <1>1 DEF gthread_create_guard
  <2> QED BY <2>2, <2>3, SameAgree
<1>2. CASE do_make_thread_ready \/ \E i \in Slots : gthread_join(i)
  <2>1. UNCHANGED <<kt, tinfo, th, tidy>>
    BY <1>2 DEF do_make_thread_ready, gthread_join
  <2> QED BY <2>1, SameAgree
<1> QED BY <1>1, <1>2

-----------------------------------------------------------------------------
\* The steps of a thread.
LEMMA OwnSlot ==
  ASSUME AllInv, NEW p \in ThreadPids, Lives(p)
  PROVE  \E j \in Used(kt) : /\ kt.threads[j].pid = p /\ j = find_thread_from_pid(kt, p)
                            /\ MapsOf(p) = kt.threads[j].maps
<1>1. HasSlot(kt, p) /\ MemInv(kt)
  BY DEF AllInv, Inv, Lives
<1>2. PICK j : j = find_thread_from_pid(kt, p)
  OBVIOUS
<1>3. j \in Used(kt) /\ kt.threads[j].pid = p
  BY <1>1, <1>2, FoundSlot
<1> QED BY <1>2, <1>3 DEF MapsOf

LEMMA MallocAgree ==
  ASSUME AllInv, AgreeInv, NEW p \in ThreadPids, NEW flags \in Flags, gmalloc(p, flags)
  PROVE  AgreeInv'
<1> SUFFICES ASSUME tidy' PROVE AgreeInv'
  BY DEF AgreeInv
<1>1. Lives(p) /\ th' = th
  BY DEF gmalloc, InFunction, Lives
<1>2. PICK i \in Slots : /\ i = Min(EntriesOf(p))
                         /\ tinfo[i].status = TH_STATUS_ALIVE /\ tinfo[i].pid = p
  <2>1. EntriesOf(p) \in SUBSET Nat /\ EntriesOf(p) # {}
    BY DEF gmalloc, EntriesOf, Slots
  <2>2. Min(EntriesOf(p)) \in EntriesOf(p)
    BY <2>1, LeastNumber
  <2> QED BY <2>2 DEF EntriesOf
<1>3. PICK j \in Used(kt) : /\ kt.threads[j].pid = p /\ j = find_thread_from_pid(kt, p)
                            /\ MapsOf(p) = kt.threads[j].maps
  BY <1>1, OwnSlot
<1>4. tidy /\ tinfo[i].num = th[p].num
  BY <1>2 DEF gmalloc
<1>5. Tells(i, j) /\ j \in Slots
  BY <1>1, <1>2, <1>3, <1>4, OwnEntry DEF Used
<1>6. PICK a : a = Min(FreeAreas(kt))
  OBVIOUS
<1>7. /\ kt' = handle_thread_private_mmap(kt, p, a, flags)
      /\ tinfo' = [tinfo EXCEPT ![i].areas = @ \cup {[start |-> a, flags |-> flags]}]
  <2>1. Cardinality(MapsOf(p)) < MAX_PRIVATE_AREAS
    BY <1>2, <1>3, <1>5 DEF gmalloc, Tells
  <2> QED BY <1>2, <1>6, <2>1 DEF gmalloc
<1>8. PICK areas : areas = With(kt.threads[j].maps, a, flags)
  OBVIOUS
<1>9. kt'.threads = Recording(kt.threads, j, areas)
  <2>1. PICK k : k = handle_thread_private_mmap(kt, p, a, flags)
    OBVIOUS
  <2>2. MemInv(kt) /\ kt.threads[j].pid = p
    BY <1>3 DEF AllInv, Inv
  <2>3. k.threads = Recording(kt.threads, j, areas)
    BY <1>8, <2>1, <2>2, OwnMapped
  <2> QED BY <1>7, <2>1, <2>3
<1>10. tinfo \in [Slots -> EntryRecords]
  BY DEF AllInv, JoinInv, JoinTypes
<1>11. tinfo' = [tinfo EXCEPT ![i].areas = areas]
  <2>1. tinfo[i].areas = kt.threads[j].maps
    BY <1>5 DEF Tells
  <2> QED BY <1>7, <1>8, <1>10, <2>1 DEF With
<1> QED BY <1>1, <1>4, <1>5, <1>9, <1>10, <1>11, OwnAgree DEF AllInv

\* A thread ends, and its areas go with it.
LEMMA GoneAgree ==
  ASSUME AllInv, AgreeInv, NEW p \in ThreadPids, Lives(p), NEW normal, ThreadGone(p, normal),
         tinfo' = tinfo, tidy' => tidy
  PROVE  AgreeInv'
<1>1. PICK j \in Used(kt) : /\ kt.threads[j].pid = p /\ j = find_thread_from_pid(kt, p)
                            /\ MapsOf(p) = kt.threads[j].maps
  BY OwnSlot
<1>2. j \in Slots
  BY <1>1 DEF Used
<1>3. PICK c \in ContextTable : SwitchFrom(c, handle_thread_exit(kt, p), p)
  BY GoneSwitch DEF AllInv
<1>4. PICK k : k = handle_thread_exit(kt, p)
  OBVIOUS
<1>5. MemInv(k) /\ k.threads = [kt.threads EXCEPT ![j].status = TH_UNUSED, ![j].maps = {}]
  <2>1. MemInv(kt) /\ HasSlot(kt, p)
    BY <1>1 DEF AllInv, Inv, HasSlot
  <2>2. MemInv(k)
    BY <1>4, <2>1, Exited
  <2>3. k.threads = [kt.threads EXCEPT ![j].status = TH_UNUSED, ![j].maps = {}]
    BY <1>1, <1>4 DEF handle_thread_exit
  <2> QED BY <2>2, <2>3
<1>6. kt'.threads = k.threads
  BY <1>3, <1>4, <1>5, Pid, Switch
<1>7. kt'.threads[j].maps = {} /\ \A s \in Slots \ {j} : kt'.threads[s] = kt.threads[s]
  <2>1. kt.threads \in [Slots -> SlotRecords]
    BY DEF AllInv, Inv, MemInv
  <2> QED BY <1>2, <1>5, <1>6, <2>1 DEF SlotRecords
<1>8. th' = [th EXCEPT ![p] = NoThread]
  BY DEF ThreadGone
<1>9. th'[p].at = "none" /\ \A q \in ThreadPids \ {p} : th'[q] = th[q]
  BY <1>8 DEF AllInv, Inv, NoThread
<1>10. \A s \in Used(kt) : s # j => s \in Slots /\ kt.threads[s].pid # p
  <2>1. MemInv(kt)
    BY DEF AllInv, Inv
  <2>2. \A s \in Used(kt) : s \in Slots /\ s \in Nat
    BY DEF Used, Slots
  <2> QED BY <1>1, <2>1, <2>2 DEF MemInv
<1>11. ASSUME NEW i \in Slots, NEW s \in Slots, Tells(i, s),
              OfLiving(i)' \/ kt'.threads[s].maps # {}
       PROVE  s # j
  <2>1. CASE kt'.threads[s].maps # {}
    BY <1>7, <2>1
  <2>2. CASE OfLiving(i)'
    <3>1. PICK q \in ThreadPids : th'[q].at # "none" /\ th'[q].num = tinfo[i].num
      BY <2>2 DEF OfLiving, Lives
    <3>2. q # p /\ Lives(q) /\ th[q].num = tinfo[i].num
      BY <1>9, <3>1 DEF Lives
    <3>3. s = j => th[p].num = tinfo[i].num
      BY <1>1, <1>11 DEF Tells
    <3>4. tinfo[i].status = TH_STATUS_ALIVE
      BY <1>11 DEF Tells
    <3> QED BY <3>2, <3>3, <3>4, UniqueNumber DEF AllInv
  <2> QED BY <1>11, <2>1, <2>2
<1>12. TellsKept
  <2> SUFFICES ASSUME NEW i \in Slots, NEW s \in Slots, tinfo[i].areas # {}, Tells(i, s),
                      OfLiving(i)' \/ kt'.threads[s].maps # {}
               PROVE  /\ s \in Used(kt') /\ kt'.threads[s] = kt.threads[s]
                      /\ th'[kt.threads[s].pid].at # "none"
                      /\ th'[kt.threads[s].pid].num = th[kt.threads[s].pid].num
    BY DEF TellsKept, Tells
  <2>1. s # j /\ s \in Used(kt) /\ kt.threads[s].pid \in ThreadPids /\ Lives(kt.threads[s].pid)
    BY <1>11 DEF Tells
  <2> QED BY <1>7, <1>9, <1>10, <2>1 DEF Used, Lives
<1>13. LivingKept
  <2> SUFFICES ASSUME NEW i \in Slots, NEW q \in ThreadPids, th'[q].at # "none",
                      th'[q].num = tinfo[i].num
               PROVE  OfLiving(i)
    BY DEF LivingKept, OfLiving, Lives
  <2> QED BY <1>9 DEF OfLiving, Lives
<1>14. MapsKept
  BY <1>7 DEF MapsKept
<1> QED BY <1>12, <1>13, <1>14, KeptAgree

LEMMA FreeAgree ==
  ASSUME AllInv, AgreeInv, NEW p \in ThreadPids, NEW a, gfree(p, a),
         ~UnmapFaults(kt, p, FALSE, a), tidy'
  PROVE  AgreeInv'
<1>1. PICK found : found = {e \in Slots : a \in Starts(tinfo[e].areas)}
  OBVIOUS
<1>2. PICK i : i = Min(found)
  OBVIOUS
<1>3. i \in Slots /\ a \in Starts(tinfo[i].areas) /\ tinfo[i].pid = p
  <2>1. found \in SUBSET Nat /\ found # {} /\ tinfo[i].pid = p
    BY <1>1, <1>2 DEF gfree, Slots
  <2>2. i \in found
    BY <1>2, <2>1, LeastNumber
  <2> QED BY <1>1, <2>1, <2>2
<1>4. tidy /\ OfLiving(i)
  <2>1. tidy /\ tinfo[i].num = th[p].num
    BY <1>1, <1>2 DEF gfree
  <2>2. Lives(p)
    BY DEF gfree, InFunction, Lives
  <2> QED BY <2>1, <2>2 DEF OfLiving
<1>5. PICK j \in Slots : Tells(i, j)
  BY <1>3, <1>4 DEF AgreeInv, Starts
<1>6. /\ j \in Used(kt) /\ kt.threads[j].pid = p /\ a \in Owned(kt, j) /\ MemInv(kt)
      /\ tinfo[i].areas = kt.threads[j].maps
  BY <1>3, <1>5 DEF Tells, Owned, AllInv, Inv
<1>7. PICK areas : areas = Without(kt.threads[j].maps, a)
  OBVIOUS
<1>8. PICK k : k = vm_area_unmap(kt, p, FALSE, a)
  OBVIOUS
<1>9. k.threads = Recording(kt.threads, j, areas)
  <2>1. PICK isProcess \in BOOLEAN : ~isProcess
    OBVIOUS
  <2>2. isProcess = FALSE
    BY <2>1
  <2>3. k = vm_area_unmap(kt, p, isProcess, a)
    BY <1>8, <2>2
  <2>4. k.threads = Recording(kt.threads, j, areas)
    BY <1>6, <1>7, <2>1, <2>3, OwnUnmapped
  <2> QED BY <2>4
<1>10. /\ kt' = k /\ th' = th
       /\ tinfo' = [tinfo EXCEPT ![i].areas = {m \in @ : m.start # a}]
  BY <1>1, <1>2, <1>8, <1>9 DEF gfree
<1>11. tinfo \in [Slots -> EntryRecords]
  BY DEF AllInv, JoinInv, JoinTypes
<1>12. tinfo' = [tinfo EXCEPT ![i].areas = areas]
  BY <1>3, <1>6, <1>7, <1>10, <1>11 DEF Without
<1> QED BY <1>3, <1>4, <1>5, <1>9, <1>10, <1>11, <1>12, OwnAgree DEF AllInv

LEMMA ThreadAgree ==
  ASSUME AllInv, AgreeInv, NEW p \in ThreadPids, ThreadStep(p)
  PROVE  AgreeInv'
<1>1. CASE do_exit(p) \/ return_unguarded(p)
  <2>1. /\ Lives(p) /\ (ThreadGone(p, TRUE) \/ ThreadGone(p, FALSE))
        /\ tinfo' = tinfo /\ tidy' = tidy
    BY <1>1 DEF do_exit, return_unguarded, InFunction, Lives
  <2> QED BY <2>1, GoneAgree
<1>2. CASE gthread_exit(p)
  <2>1. /\ UNCHANGED <<tidy, kt>> /\ th' = [th EXCEPT ![p].at = "result"]
        /\ tinfo' = [i \in Slots |-> IF i \in EntriesOf(p)
                                     THEN [tinfo[i] EXCEPT !.ret = th[p].num] ELSE tinfo[i]]
    BY <1>2 DEF gthread_exit
  <2>2. \A q \in ThreadPids : Lives(q) => th'[q].at # "none" /\ th'[q].num = th[q].num
    BY <2>1 DEF AllInv, Inv, Lives
  <2>3. ASSUME NEW i \in Slots
        PROVE  tinfo'[i].areas = tinfo[i].areas
    <3>1. PICK r \in EntryRecords : r = tinfo[i]
      BY DEF AllInv, JoinInv, JoinTypes
    <3>2. tinfo'[i] = r \/ tinfo'[i] = [r EXCEPT !.ret = th[p].num]
      BY <2>1, <3>1
    <3> QED BY <3>1, <3>2 DEF EntryRecords
  <2>4. Shrinks /\ EntriesKept
    BY ExitKept, <1>2 DEF AllInv
  <2>5. TellsKept
    BY <2>1, <2>2, <2>3, <2>4 DEF TellsKept, Tells, EntriesKept
  <2>6. LivingKept
    BY <2>3, <2>4, KeptLiving DEF EntriesKept
  <2>7. MapsKept
    BY <2>1 DEF MapsKept
  <2> QED BY <2>1, <2>5, <2>6, <2>7, KeptAgree
<1>3. ASSUME NEW a, NEW n, NEW wr, touch(p, a, n, wr)
      PROVE  AgreeInv'
  <2>1. Lives(p) /\ UNCHANGED <<tinfo, tidy>>
    BY <1>3 DEF touch, InFunction, Lives
  <2>2. CASE ThreadGone(p, FALSE)
    BY <2>1, <2>2, GoneAgree
  <2>3. CASE kt' = Fixed(kt, a, n) /\ th' = th
    <3>1. PICK threads, mapped, pte : kt = [threads |-> threads, mapped |-> mapped, pte |-> pte]
      BY DEF AllInv, Inv, MemInv
    <3>2. kt'.threads = kt.threads
      BY <2>3, <3>1 DEF Fixed
    <3> QED BY <2>1, <2>3, <3>2, SameAgree
  <2> QED BY <1>3, <2>2, <2>3 DEF touch
<1>4. ASSUME NEW a, gfree(p, a)
      PROVE  AgreeInv'
  <2>1. CASE UnmapFaults(kt, p, FALSE, a)
    <3>1. Lives(p) /\ ThreadGone(p, FALSE) /\ UNCHANGED <<tinfo, tidy>>
      BY <1>4, <2>1 DEF gfree, InFunction, Lives
    <3> QED BY <3>1, GoneAgree
  <2>2. CASE ~UnmapFaults(kt, p, FALSE, a) /\ tidy'
    BY <1>4, <2>2, FreeAgree
  <2>3. CASE ~tidy'
    BY <2>3 DEF AgreeInv
  <2> QED BY <2>1, <2>2, <2>3
<1> QED BY <1>1, <1>2, <1>3, <1>4, MallocAgree DEF ThreadStep, ThreadEnds

-----------------------------------------------------------------------------
\* What holds in any program.
LEMMA SameEmpty ==
  ASSUME JoinInv, EmptyInv, \A i \in Slots : tinfo'[i].status = tinfo[i].status,
         lib' = lib \/ (lib.at # "unmap" /\ lib'.at # "unmap"),
         \A i \in Slots : tinfo[i].status # TH_STATUS_ALIVE => tinfo'[i].areas \subseteq tinfo[i].areas
  PROVE  EmptyInv'
<1>1. ASSUME NEW i \in Slots, tinfo[i].status # TH_STATUS_ALIVE,
             ~(lib'.at = "unmap" /\ lib'.entry = i)
      PROVE  tinfo'[i].areas = {}
  <2>1. tinfo[i].areas = {}
    BY <1>1 DEF EmptyInv
  <2> QED BY <1>1, <2>1
<1>2. lib'.at = "unmap" => tinfo'[lib'.entry].status # TH_STATUS_ALIVE
  <2>1. lib.entry \in Slots
    BY DEF JoinInv, JoinTypes, Calls
  <2> QED BY <2>1 DEF EmptyInv
<1> QED BY <1>1, <1>2 DEF EmptyInv

LEMMA ThreadEmpty ==
  ASSUME Inv, JoinInv, EmptyInv, NEW p \in ThreadPids, ThreadStep(p)
  PROVE  EmptyInv'
<1>1. EntriesKept /\ lib' = lib
  BY ThreadKept
<1>2. tinfo \in [Slots -> EntryRecords] /\ \A i \in Slots : tinfo'[i].status = tinfo[i].status
  BY <1>1 DEF JoinInv, JoinTypes, EntriesKept
<1>3. \A i \in Slots : tinfo[i].status # TH_STATUS_ALIVE => tinfo'[i].areas \subseteq tinfo[i].areas
  <2>1. CASE tinfo' = tinfo
    BY <2>1
  <2>2. CASE gthread_exit(p)
    <3>1. \A i \in Slots : tinfo[i].status # TH_STATUS_ALIVE => tinfo'[i] = tinfo[i]
      BY <2>2 DEF gthread_exit, EntriesOf
    <3> QED BY <3>1
  <2>3. ASSUME NEW flags \in Flags, gmalloc(p, flags)
        PROVE  \A i \in Slots : tinfo[i].status # TH_STATUS_ALIVE => tinfo'[i] = tinfo[i]
    <3>1. PICK i : i = Min(EntriesOf(p))
      OBVIOUS
    <3>2. tinfo[i].status = TH_STATUS_ALIVE
      <4>1. EntriesOf(p) \in SUBSET Nat /\ EntriesOf(p) # {}
        BY <2>3 DEF gmalloc, EntriesOf, Slots
      <4> QED BY <3>1, <4>1, LeastNumber DEF EntriesOf
    <3>3. PICK m : tinfo' = [tinfo EXCEPT ![i].areas = @ \cup {m}]
      BY <2>3, <3>1 DEF gmalloc
    <3> QED BY <1>2, <3>2, <3>3
  <2>4. ASSUME NEW a, gfree(p, a)
        PROVE  \A i \in Slots : tinfo'[i].areas \subseteq tinfo[i].areas
    <3>1. PICK i : \/ tinfo' = tinfo
                   \/ tinfo' = [tinfo EXCEPT ![i].areas = {m \in @ : m.start # a}]
      BY <2>4 DEF gfree
    <3> QED BY <1>2, <3>1 DEF EntryRecords
  <2>5. (\E a, n, wr : touch(p, a, n, wr)) \/ do_exit(p) \/ return_unguarded(p) => tinfo' = tinfo
    BY DEF touch, do_exit, return_unguarded
  <2> QED BY <2>1, <2>2, <2>3, <2>4, <2>5 DEF ThreadStep, ThreadEnds
<1> QED BY <1>1, <1>2, <1>3, SameEmpty

LEMMA NextEmpty == Inv /\ JoinInv /\ EmptyInv /\ [Next]_vars => EmptyInv'
<1> SUFFICES ASSUME Inv, JoinInv, EmptyInv, [Next]_vars PROVE EmptyInv'
  OBVIOUS
<1>1. PICK e \in Slots : e = lib.entry
  BY DEF JoinInv, JoinTypes, Calls
<1>2. tinfo \in [Slots -> EntryRecords] /\ lib \in Calls
  BY DEF JoinInv, JoinTypes
<1>3. CASE tinfo' = tinfo /\ (lib' = lib \/ (lib.at # "unmap" /\ lib'.at # "unmap"))
  BY <1>3, SameEmpty
<1>4. CASE gthread_create_status
  <2>1. /\ lib.at = "cloned" /\ lib' = [lib EXCEPT !.at = "named"]
        /\ tinfo' = [tinfo EXCEPT ![e].status = TH_STATUS_ALIVE, ![e].num = made, ![e].peers = Peers(e)]
    BY <1>1, <1>4 DEF gthread_create_status
  <2>2. lib'.at = "named"
    BY <1>2, <2>1 DEF Calls
  <2>3. tinfo'[e].status = TH_STATUS_ALIVE /\ \A i \in Slots \ {e} : tinfo'[i] = tinfo[i]
    BY <1>2, <2>1 DEF EntryRecords
  <2> QED BY <2>1, <2>2, <2>3 DEF EmptyInv
<1>5. CASE gthread_create_pid
  <2>1. /\ lib.at = "named" /\ lib' = [lib EXCEPT !.at = "recorded"]
        /\ tinfo' = [tinfo EXCEPT ![e].pid = lib.pid]
    BY <1>1, <1>5 DEF gthread_create_pid
  <2>2. lib'.at = "recorded"
    BY <1>2, <2>1 DEF Calls
  <2>3. \A i \in Slots : tinfo'[i].status = tinfo[i].status /\ tinfo'[i].areas = tinfo[i].areas
    BY <1>2, <2>1 DEF EntryRecords
  <2> QED BY <2>1, <2>2, <2>3, SameEmpty
<1>6. CASE gthread_join_collect
  <2>1. /\ lib.at = "collect"
        /\ tinfo' = [tinfo EXCEPT ![e].status = TH_STATUS_USED, ![e].ret = 0]
        /\ lib' = IF tinfo[e].areas = {} THEN AtMain ELSE [lib EXCEPT !.at = "unmap"]
    BY <1>1, <1>6 DEF gthread_join_collect, Collected
  <2>2. /\ tinfo'[e].status = TH_STATUS_USED /\ tinfo'[e].areas = tinfo[e].areas
        /\ \A i \in Slots \ {e} : tinfo'[i] = tinfo[i]
    BY <1>2, <2>1 DEF EntryRecords
  <2>3. TH_STATUS_USED # TH_STATUS_ALIVE
    BY DEF TH_STATUS_USED, TH_STATUS_ALIVE
  <2>4. \A i \in Slots \ {e} : tinfo[i].status # TH_STATUS_ALIVE => tinfo[i].areas = {}
    BY <2>1 DEF EmptyInv
  <2>5. CASE tinfo[e].areas = {}
    <3>1. lib'.at = "main"
      BY <2>1, <2>5, StartOfCall
    <3> QED BY <2>2, <2>4, <2>5, <3>1 DEF EmptyInv
  <2>6. CASE tinfo[e].areas # {}
    <3>1. lib'.at = "unmap" /\ lib'.entry = e
      BY <1>1, <1>2, <2>1, <2>6 DEF Calls
    <3> QED BY <2>2, <2>3, <2>4, <3>1 DEF EmptyInv
  <2> QED BY <2>5, <2>6
<1>7. CASE gthread_join_unmap
  <2>1. PICK m \in tinfo[e].areas :
          /\ tinfo' = [tinfo EXCEPT ![e].areas = @ \ {m}]
          /\ lib' = IF tinfo[e].areas = {m} THEN AtMain ELSE lib
    BY <1>1, <1>7 DEF gthread_join_unmap
  <2>2. lib.at = "unmap"
    BY <1>7 DEF gthread_join_unmap
  <2>3. /\ tinfo'[e].status = tinfo[e].status /\ tinfo'[e].areas = tinfo[e].areas \ {m}
        /\ \A i \in Slots \ {e} : tinfo'[i] = tinfo[i]
    BY <1>2, <2>1 DEF EntryRecords
  <2>4. /\ tinfo[e].status # TH_STATUS_ALIVE
        /\ \A i \in Slots \ {e} : tinfo[i].status # TH_STATUS_ALIVE => tinfo[i].areas = {}
    BY <1>1, <2>2 DEF EmptyInv
  <2>5. CASE tinfo[e].areas = {m}
    <3>1. lib'.at = "main" /\ tinfo'[e].areas = {}
      BY <2>1, <2>3, <2>5, StartOfCall
    <3> QED BY <2>3, <2>4, <3>1 DEF EmptyInv
  <2>6. CASE tinfo[e].areas # {m}
    <3>1. lib' = lib
      BY <2>1, <2>6
    <3> QED BY <1>1, <2>3, <2>4, <3>1 DEF EmptyInv
  <2> QED BY <2>5, <2>6
<1>8. CASE \/ gthread_create_clone \/ do_make_thread_ready \/ gthread_create_guard
           \/ do_wait_for_thread \/ \E i \in Slots : gthread_join(i)
  <2>1. tinfo' = tinfo /\ lib.at # "unmap"
    BY <1>8 DEF gthread_create_clone, do_make_thread_ready, gthread_create_guard,
                do_wait_for_thread, gthread_join
  <2>2. lib'.at # "unmap"
    BY <1>2, <1>8, StartOfCall DEF gthread_create_clone, do_make_thread_ready,
         gthread_create_guard, do_wait_for_thread, gthread_join, Calls, AfterWait
  <2> QED BY <1>3, <2>1, <2>2
<1>9. CASE \/ handle_timer_tick \/ cleanup_all_threads \/ UNCHANGED vars
           \/ \E p \in Pids, n \in 1 .. MaxSleep : do_sleep(p, n)
  <2>1. tinfo' = tinfo /\ lib' = lib
    BY <1>9 DEF handle_timer_tick, cleanup_all_threads, vars, do_sleep
  <2> QED BY <1>3, <2>1
<1> QED BY <1>4, <1>5, <1>6, <1>7, <1>8, <1>9, ThreadEmpty DEF Next, ProcessStep, LibraryStep

\* The kernel drops areas, the library does not.
LEMMA KeptRecorded ==
  ASSUME Inv, Inv', RecordedInv, \A i \in Slots : kt'.threads[i].maps \subseteq kt.threads[i].maps,
         \A i \in Slots : tinfo'[i].areas = tinfo[i].areas
  PROVE  RecordedInv'
<1>1. kt'.mapped \subseteq kt.mapped
  <2> SUFFICES ASSUME NEW a \in kt'.mapped PROVE a \in kt.mapped
    OBVIOUS
  <2>1. PICK i \in Used(kt') : a \in Owned(kt', i)
    BY DEF Inv, MemInv
  <2>2. i \in Slots /\ a \in Owned(kt, i)
    BY <2>1 DEF Used, Owned, Starts
  <2>3. i \in Used(kt)
    <3>1. kt.threads[i].maps # {}
      BY <2>2 DEF Owned, Starts
    <3> QED BY <2>2, <3>1 DEF Inv, MemInv
  <2> QED BY <2>2, <2>3 DEF Inv, MemInv
<1>2. ASSUME NEW a \in kt'.mapped
      PROVE  \E i \in Slots : a \in Starts(tinfo'[i].areas)
  <2>1. PICK i \in Slots : a \in Starts(tinfo[i].areas)
    BY <1>1 DEF RecordedInv
  <2> QED BY <2>1
<1> QED BY <1>2 DEF RecordedInv

\* An area is unmapped and its record dropped.
LEMMA DropRecorded ==
  ASSUME RecordedInv, NEW p, NEW isProcess \in BOOLEAN, NEW a, kt' = vm_area_unmap(kt, p, isProcess, a),
         \A i \in Slots : \A m \in tinfo[i].areas : m.start # a => m \in tinfo'[i].areas
  PROVE  RecordedInv'
<1>1. kt'.mapped \subseteq kt.mapped /\ a \notin kt'.mapped
  BY DEF vm_area_unmap
<1>2. ASSUME NEW b \in kt'.mapped
      PROVE  \E i \in Slots : b \in Starts(tinfo'[i].areas)
  <2>1. PICK i \in Slots : b \in Starts(tinfo[i].areas)
    BY <1>1 DEF RecordedInv
  <2>2. PICK m \in tinfo[i].areas : m.start = b
    BY <2>1 DEF Starts
  <2>3. m \in tinfo'[i].areas
    BY <1>1, <2>2
  <2> QED BY <2>2, <2>3 DEF Starts
<1> QED BY <1>2 DEF RecordedInv

LEMMA MallocRecorded ==
  ASSUME Inv, JoinInv, RecordedInv, NEW p \in ThreadPids, NEW flags \in Flags, gmalloc(p, flags)
  PROVE  RecordedInv'
<1>1. PICK i \in Slots : i = Min(EntriesOf(p))
  <2>1. EntriesOf(p) \in SUBSET Nat /\ EntriesOf(p) # {}
    BY DEF gmalloc, EntriesOf, Slots
  <2> QED BY <2>1, LeastNumber DEF EntriesOf
<1>2. PICK room, a : /\ room = (Cardinality(MapsOf(p)) < MAX_PRIVATE_AREAS)
                     /\ a = IF room THEN Min(FreeAreas(kt)) ELSE MAP_ERR
  OBVIOUS
<1>3. PICK m : m = [start |-> a, flags |-> flags]
  OBVIOUS
<1>4. /\ kt' = IF room THEN handle_thread_private_mmap(kt, p, a, flags) ELSE kt
      /\ tinfo' = [tinfo EXCEPT ![i].areas = @ \cup {m}]
  BY <1>1, <1>2, <1>3 DEF gmalloc
<1>5. /\ tinfo'[i].areas = tinfo[i].areas \cup {m}
      /\ \A e \in Slots : tinfo[e].areas \subseteq tinfo'[e].areas
  <2>1. tinfo \in [Slots -> EntryRecords]
    BY DEF JoinInv, JoinTypes
  <2> QED BY <1>4, <2>1 DEF EntryRecords
<1>6. kt'.mapped \subseteq kt.mapped \cup {a}
  <2>1. PICK threads, mapped, pte : kt = [threads |-> threads, mapped |-> mapped, pte |-> pte]
    BY DEF Inv, MemInv
  <2> QED BY <1>4, <2>1 DEF handle_thread_private_mmap
<1>7. ASSUME NEW b \in kt'.mapped
      PROVE  \E e \in Slots : b \in Starts(tinfo'[e].areas)
  <2>1. CASE b = a
    BY <1>3, <1>5, <2>1 DEF Starts
  <2>2. CASE b # a
    <3>1. PICK e \in Slots : b \in Starts(tinfo[e].areas)
      BY <1>6, <2>2 DEF RecordedInv
    <3> QED BY <1>5, <3>1 DEF Starts
  <2> QED BY <2>1, <2>2
<1> QED BY <1>7 DEF RecordedInv

LEMMA GoneRecorded ==
  ASSUME Inv, Inv', RecordedInv, NEW p \in ThreadPids, Lives(p), NEW normal, ThreadGone(p, normal),
         tinfo' = tinfo
  PROVE  RecordedInv'
<1>1. PICK c \in ContextTable : SwitchFrom(c, handle_thread_exit(kt, p), p)
  BY GoneSwitch
<1>2. PICK k, i : k = handle_thread_exit(kt, p) /\ i = find_thread_from_pid(kt, p)
  OBVIOUS
<1>3. MemInv(kt) /\ HasSlot(kt, p)
  BY DEF Inv, Lives
<1>4. MemInv(k)
  BY <1>2, <1>3, Exited
<1>5. kt'.threads = k.threads
  BY <1>1, <1>2, <1>4, Pid, Switch
<1>6. k.threads = [kt.threads EXCEPT ![i].status = TH_UNUSED, ![i].maps = {}]
  BY <1>2 DEF handle_thread_exit
<1>7. \A j \in Slots : kt'.threads[j].maps \subseteq kt.threads[j].maps
  BY <1>3, <1>5, <1>6 DEF MemInv, SlotRecords
<1> QED BY <1>7, KeptRecorded

LEMMA ThreadRecorded ==
  ASSUME Inv, Inv', JoinInv, RecordedInv, NEW p \in ThreadPids, ThreadStep(p)
  PROVE  RecordedInv'
<1>1. CASE do_exit(p) \/ return_unguarded(p)
  <2>1. /\ Lives(p) /\ (ThreadGone(p, TRUE) \/ ThreadGone(p, FALSE)) /\ tinfo' = tinfo
    BY <1>1 DEF do_exit, return_unguarded, InFunction, Lives
  <2> QED BY <2>1, GoneRecorded
<1>2. CASE gthread_exit(p)
  <2>1. kt' = kt
    BY <1>2 DEF gthread_exit
  <2>2. ASSUME NEW i \in Slots
        PROVE  tinfo'[i].areas = tinfo[i].areas
    <3>1. PICK r \in EntryRecords : r = tinfo[i]
      BY DEF JoinInv, JoinTypes
    <3>2. tinfo'[i] = r \/ tinfo'[i] = [r EXCEPT !.ret = th[p].num]
      BY <1>2, <3>1 DEF gthread_exit
    <3> QED BY <3>1, <3>2 DEF EntryRecords
  <2> QED BY <2>1, <2>2, KeptRecorded
<1>3. ASSUME NEW a, NEW n, NEW wr, touch(p, a, n, wr)
      PROVE  RecordedInv'
  <2>1. Lives(p) /\ tinfo' = tinfo
    BY <1>3 DEF touch, InFunction, Lives
  <2>2. CASE ThreadGone(p, FALSE)
    BY <2>1, <2>2, GoneRecorded
  <2>3. CASE kt' = Fixed(kt, a, n)
    <3>1. PICK threads, mapped, pte : kt = [threads |-> threads, mapped |-> mapped, pte |-> pte]
      BY DEF Inv, MemInv
    <3>2. kt'.threads = kt.threads
      BY <2>3, <3>1 DEF Fixed
    <3> QED BY <2>1, <3>2, KeptRecorded
  <2> QED BY <1>3, <2>2, <2>3 DEF touch
<1>4. ASSUME NEW a, gfree(p, a)
      PROVE  RecordedInv'
  <2>1. CASE UnmapFaults(kt, p, FALSE, a)
    <3>1. Lives(p) /\ ThreadGone(p, FALSE) /\ tinfo' = tinfo
      BY <1>4, <2>1 DEF gfree, InFunction, Lives
    <3> QED BY <3>1, GoneRecorded
  <2>2. CASE ~UnmapFaults(kt, p, FALSE, a)
    <3>1. PICK i : /\ kt' = vm_area_unmap(kt, p, FALSE, a)
                   /\ tinfo' = [tinfo EXCEPT ![i].areas = {m \in @ : m.start # a}]
      BY <1>4, <2>2 DEF gfree
    <3>2. \A j \in Slots : \A m \in tinfo[j].areas : m.start # a => m \in tinfo'[j].areas
      <4>1. tinfo \in [Slots -> EntryRecords]
        BY DEF JoinInv, JoinTypes
      <4> QED BY <3>1, <4>1 DEF EntryRecords
    <3>3. FALSE \in BOOLEAN
      OBVIOUS
    <3> QED BY <3>1, <3>2, <3>3, DropRecorded
  <2> QED BY <2>1, <2>2
<1> QED BY <1>1, <1>2, <1>3, <1>4, MallocRecorded DEF ThreadStep, ThreadEnds

LEMMA NextRecorded == Inv /\ Inv' /\ JoinInv /\ RecordedInv /\ [Next]_vars => RecordedInv'
<1> SUFFICES ASSUME Inv, Inv', JoinInv, RecordedInv, [Next]_vars PROVE RecordedInv'
  OBVIOUS
<1>1. CASE kt'.threads = kt.threads /\ \A i \in Slots : tinfo'[i].areas = tinfo[i].areas
  BY <1>1, KeptRecorded
<1>2. PICK e \in Slots : e = lib.entry
  BY DEF JoinInv, JoinTypes, Calls
<1>3. tinfo \in [Slots -> EntryRecords] /\ kt.threads \in [Slots -> SlotRecords] /\ MemInv(kt)
  BY DEF Inv, MemInv, JoinInv, JoinTypes
<1>4. CASE \/ handle_timer_tick \/ do_wait_for_thread
           \/ \E p \in Pids, n \in 1 .. MaxSleep : do_sleep(p, n)
  <2>1. tinfo' = tinfo
    BY <1>4 DEF handle_timer_tick, do_wait_for_thread, do_sleep
  <2> QED BY <1>1, <1>4, <2>1, SwitchThreads
<1>5. CASE gthread_create_status \/ gthread_create_pid \/ gthread_join_collect
  <2>1. kt' = kt
    BY <1>5 DEF gthread_create_status, gthread_create_pid, gthread_join_collect
  <2>2. CASE gthread_create_status
    <3>1. tinfo' = [tinfo EXCEPT ![e].status = TH_STATUS_ALIVE, ![e].num = made, ![e].peers = Peers(e)]
      BY <1>2, <2>2 DEF gthread_create_status
    <3>2. \A i \in Slots : tinfo'[i].areas = tinfo[i].areas
      BY <1>3, <3>1 DEF EntryRecords
    <3> QED BY <1>1, <2>1, <3>2
  <2>3. CASE gthread_create_pid
    <3>1. tinfo' = [tinfo EXCEPT ![e].pid = lib.pid]
      BY <1>2, <2>3 DEF gthread_create_pid
    <3>2. \A i \in Slots : tinfo'[i].areas = tinfo[i].areas
      BY <1>3, <3>1 DEF EntryRecords
    <3> QED BY <1>1, <2>1, <3>2
  <2>4. CASE gthread_join_collect
    <3>1. tinfo' = [tinfo EXCEPT ![e].status = TH_STATUS_USED, ![e].ret = 0]
      BY <1>2, <2>4 DEF gthread_join_collect, Collected
    <3>2. \A i \in Slots : tinfo'[i].areas = tinfo[i].areas
      BY <1>3, <3>1 DEF EntryRecords
    <3> QED BY <1>1, <2>1, <3>2
  <2> QED BY <1>5, <2>2, <2>3, <2>4
<1>6. CASE gthread_create_clone
  <2>1. PICK pid : kt' = Cloned(kt, pid) /\ tinfo' = tinfo /\ FreeSlots(kt) # {}
    BY <1>6 DEF gthread_create_clone
  <2>2. PICK i \in Slots \ Used(kt) :
          kt'.threads = [kt.threads EXCEPT ![i].pid = pid, ![i].status = TH_USED]
    BY <1>3, <2>1, GivenSlot
  <2>3. \A j \in Slots : kt'.threads[j].maps = kt.threads[j].maps
    BY <1>3, <2>2 DEF SlotRecords
  <2> QED BY <2>1, <2>3, KeptRecorded
<1>7. CASE gthread_join_unmap
  <2>1. PICK m : /\ kt' = vm_area_unmap(kt, Process, TRUE, m.start)
                 /\ tinfo' = [tinfo EXCEPT ![e].areas = @ \ {m}]
    BY <1>2, <1>7 DEF gthread_join_unmap
  <2>2. \A j \in Slots : \A l \in tinfo[j].areas : l.start # m.start => l \in tinfo'[j].areas
    BY <1>3, <2>1 DEF EntryRecords
  <2>3. TRUE \in BOOLEAN
    OBVIOUS
  <2> QED BY <2>1, <2>2, <2>3, DropRecorded
<1>8. CASE cleanup_all_threads
  <2>1. PICK c \in ContextTable : \E k : SwitchFrom(c, k, Process) /\ Emptied(k)
    BY <1>8, CleanupSwitch
  <2>2. PICK k : SwitchFrom(c, k, Process) /\ Emptied(k)
    BY <2>1
  <2>3. MemInv(k) /\ \A j \in Slots : k.threads[j].maps = {}
    BY <2>2 DEF Emptied
  <2>4. kt'.threads = k.threads
    BY <2>2, <2>3, Pid, Switch
  <2>5. tinfo' = tinfo
    BY <1>8 DEF cleanup_all_threads
  <2> QED BY <2>3, <2>4, <2>5, KeptRecorded
<1>9. CASE UNCHANGED <<kt, tinfo>>
  BY <1>1, <1>9
<1>10. CASE do_make_thread_ready \/ gthread_create_guard \/ (\E i \in Slots : gthread_join(i)) \/ UNCHANGED vars
  BY <1>9, <1>10 DEF do_make_thread_ready, gthread_create_guard, gthread_join, vars
<1> QED BY <1>4, <1>5, <1>6, <1>7, <1>8, <1>10, ThreadRecorded DEF Next, ProcessStep, LibraryStep

LEMMA InitTables == Init => NumbersInv /\ AgreeInv /\ EmptyInv /\ RecordedInv
<1> SUFFICES ASSUME Init PROVE NumbersInv /\ AgreeInv /\ EmptyInv /\ RecordedInv
  OBVIOUS
<1>1. /\ kt.threads = [i \in Slots |-> [pid |-> 0, status |-> TH_UNUSED, maps |-> {}]]
      /\ kt.mapped = {}
      /\ tinfo = [i \in Slots |-> [status |-> NEW_ENTRY, pid |-> 0, ret |-> 0,
                                   areas |-> {}, num |-> 0, peers |-> {}]]
      /\ lib.at = "main" /\ th = [p \in ThreadPids |-> NoThread]
  BY StartOfCall DEF Init, EmptyTables
<1>2. NoThread.at = "none"
  BY DEF NoThread
<1> QED BY <1>1, <1>2 DEF NumbersInv, AgreeInv, EmptyInv, RecordedInv, Lives

LEMMA NextTables == TableInv /\ RecordedInv /\ [Next]_vars => TableInv' /\ RecordedInv'
<1> SUFFICES ASSUME TableInv, RecordedInv, [Next]_vars PROVE TableInv' /\ RecordedInv'
  OBVIOUS
<1>0. AllInv /\ AgreeInv /\ EmptyInv /\ Inv /\ JoinInv /\ NumbersInv
  BY DEF TableInv, AllInv
<1>1. AllInv' /\ Inv'
  BY <1>0, NextInv, NextJoin, NextNumbers DEF AllInv
<1>2. EmptyInv' /\ RecordedInv'
  BY <1>0, <1>1, NextEmpty, NextRecorded
<1>3. AgreeInv'
  <2>1. CASE UNCHANGED vars
    <3>1. UNCHANGED <<tinfo, tidy, kt, th>>
      BY <2>1 DEF vars
    <3> QED BY <1>0, <3>1, SameAgree
  <2>2. CASE Next
    BY <1>0, <2>2, SwitchAgree, CallAgree, CloneAgree, StatusAgree, PidAgree, CollectAgree,
       UnmapAgree, CleanupAgree, ThreadAgree DEF Next, ProcessStep, LibraryStep
  <2> QED BY <2>1, <2>2
<1> QED BY <1>1, <1>2, <1>3 DEF TableInv

\* In any program every mapped area is recorded by the library and has one thread
\* in the kernel; and until a library call takes the record of one thread for that
\* of another, the kernel and the library have the same areas for every living
\* thread, whichever threads exit or are killed with areas they hold
\* (gthread.c:160, :198, clone_threads_helper.c:71).
THEOREM RecordsAgree == Spec => []TablesAgree
<1>1. TableInv /\ RecordedInv => TablesAgree
  <2> SUFFICES ASSUME AllInv, AgreeInv, RecordedInv PROVE TablesAgree
    BY DEF TableInv
  <2>1. \A i, j \in Slots : i # j =>
          Starts(kt.threads[i].maps) \cap Starts(kt.threads[j].maps) = {}
    BY DEF AllInv, Inv, MemInv, Owned
  <2>2. ASSUME tidy, NEW j \in Slots, kt.threads[j].maps # {}
        PROVE  \E i \in Slots : /\ tinfo[i].areas # {} /\ tinfo[i].num \in Living
                                /\ tinfo[i].areas = kt.threads[j].maps
                                /\ tinfo[i].pid = kt.threads[j].pid
    BY <2>2 DEF AgreeInv, Tells, Living, Lives
  <2>3. ASSUME tidy, NEW i \in Slots, tinfo[i].areas # {}, tinfo[i].num \in Living
        PROVE  \E j \in Slots : /\ kt.threads[j].maps # {} /\ tinfo[i].areas = kt.threads[j].maps
                                /\ tinfo[i].pid = kt.threads[j].pid
    <3>1. OfLiving(i)
      BY <2>3 DEF OfLiving, Living, Lives
    <3> QED BY <2>3, <3>1 DEF AgreeInv, Tells
  <2>4. ASSUME tidy
        PROVE  {<<kt.threads[i].pid, kt.threads[i].maps>> : i \in {j \in Slots : kt.threads[j].maps # {}}}
                 = {<<tinfo[i].pid, tinfo[i].areas>> :
                       i \in {j \in Slots : tinfo[j].areas # {} /\ tinfo[j].num \in Living}}
    BY <2>2, <2>3, <2>4
  <2> QED BY <2>1, <2>4 DEF RecordedInv, TablesAgree
<1>2. Init => TableInv /\ RecordedInv
  BY InitInv, InitJoin, InitTables DEF TableInv, AllInv
<1> QED BY <1>1, <1>2, NextTables, PTL DEF Spec

-----------------------------------------------------------------------------
(***************************************************************************)
(* The pages: while a thread holds the page table, the areas of the others *)
(* are closed to it, as their flags say (Protected).                       *)
(***************************************************************************)
Entries == {ABSENT, SUPERVISOR, READ, READWRITE}

\* The page table is for the thread that runs, and stays so while the swapper
\* runs in its place.
Holder == IF current = Swapper THEN saved ELSE current

\* No other slot, used or not, has the pid of slot i.
Alone(k, i) == \A j \in Slots \ {i} : k.threads[j].pid # k.threads[i].pid

\* Page n of the area m is as m's flags have it for the other threads.
ClosedPage(k, m, n) ==
  /\ m.flags = NOACCESS => k.pte[m.start][n] \notin {READ, READWRITE}
  /\ m.flags = RDONLY => k.pte[m.start][n] # READWRITE

\* The areas of the used slots that a switch finds by their pid are closed to o,
\* but for those of X.
Closed(k, o, X) ==
  \A i \in Used(k) : k.threads[i].pid # o /\ Alone(k, i) =>
    \A m \in k.threads[i].maps, n \in Pages : m.start \notin X => ClosedPage(k, m, n)

\* But for the areas of X, no page is beyond one that is not there, where a walk
\* would miss it.
InOrder(k, X) ==
  \A a \in Areas \ X, n \in Pages : k.pte[a][n] # ABSENT => n \in Walked(k, a)

\* The process has no slot, an area has one record, and only mapped areas have
\* pages.
PagesOK(k) ==
  /\ k.pte \in [Areas -> [Pages -> Entries]]
  /\ \A i \in Slots : k.threads[i].pid # Process
  /\ \A i \in Slots : \A l, m \in k.threads[i].maps : l.start = m.start => l = m
  /\ \A a \in Areas, n \in Pages : a \notin k.mapped => k.pte[a][n] = ABSENT

\* A context that lives has a slot, so the switch to it finds its areas.
LiveSlots(c, k) == \A p \in ThreadPids : Live(c, p) => HasSlot(k, p)

PageInv ==
  /\ saved \in Pids /\ LiveSlots(ctx, kt) /\ PagesOK(kt)
  /\ InOrder(kt, stray)
  /\ Holder \in ThreadPids => Closed(kt, Holder, stray)

-----------------------------------------------------------------------------
\* The walks of a switch.
SamePages(pte, old) == \A a \in Areas, n \in Pages : pte[a][n] = ABSENT <=> old[a][n] = ABSENT

LEMMA PageWalk ==
  ASSUME NEW k, PagesOK(k), NEW closing \in SUBSET [start : Areas, flags : Flags], NEW opening,
         NEW pte, pte = do_page_walk(k, closing, opening)
  PROVE  /\ pte \in [Areas -> [Pages -> Entries]]
         /\ SamePages(pte, k.pte)
         /\ \A a \in Areas, n \in Pages :
              a \notin Starts(opening) /\ a \notin Starts(closing) => pte[a][n] = k.pte[a][n]
<1>1. ASSUME NEW a \in Areas, NEW n \in Pages
      PROVE  pte[a][n] = IF n \in Walked(k, a) /\ a \in Starts(opening) THEN READWRITE
                         ELSE IF n \in Walked(k, a) /\ a \in Starts(closing)
                           THEN SiblingEntry((CHOOSE m \in closing : m.start = a).flags)
                         ELSE k.pte[a][n]
  BY DEF do_page_walk
<1>2. \A f \in Flags : SiblingEntry(f) \in Entries \ {ABSENT}
  BY DEF SiblingEntry, Flags, Entries, NOACCESS, RDONLY, RDWR, ABSENT, SUPERVISOR, READ, READWRITE
<1>3. ASSUME NEW a, a \in Starts(closing)
      PROVE  /\ (CHOOSE m \in closing : m.start = a) \in closing
             /\ (CHOOSE m \in closing : m.start = a).start = a
  BY <1>3 DEF Starts
<1>4. ASSUME NEW a \in Areas, NEW n \in Pages
      PROVE  /\ pte[a][n] \in Entries /\ (pte[a][n] = ABSENT <=> k.pte[a][n] = ABSENT)
  <2>1. k.pte[a][n] \in Entries
    BY DEF PagesOK
  <2>2. CASE n \in Walked(k, a)
    <3>1. k.pte[a][n] # ABSENT
      BY <2>2 DEF Walked, Pages
    <3>2. CASE a \in Starts(opening)
      BY <1>1, <2>2, <3>1, <3>2 DEF Entries, ABSENT, READWRITE
    <3>3. CASE a \notin Starts(opening) /\ a \in Starts(closing)
      <4>1. PICK m \in closing : m = (CHOOSE l \in closing : l.start = a)
        BY <1>3, <3>3
      <4>2. pte[a][n] = SiblingEntry(m.flags) /\ m.flags \in Flags
        BY <1>1, <2>2, <3>3, <4>1
      <4> QED BY <1>2, <3>1, <4>2
    <3>4. CASE a \notin Starts(opening) /\ a \notin Starts(closing)
      BY <1>1, <2>1, <3>4
    <3> QED BY <3>2, <3>3, <3>4
  <2>3. CASE n \notin Walked(k, a)
    BY <1>1, <2>1, <2>3
  <2> QED BY <2>2, <2>3
<1>5. pte \in [Areas -> [Pages -> Entries]]
  <2>1. pte = [a \in Areas |-> [n \in Pages |-> pte[a][n]]]
    BY DEF do_page_walk
  <2> QED BY <1>4, <2>1
<1>6. \A a \in Areas, n \in Pages :
        a \notin Starts(opening) /\ a \notin Starts(closing) => pte[a][n] = k.pte[a][n]
  BY <1>1
<1> QED BY <1>4, <1>5, <1>6 DEF SamePages

LEMMA SamePresence ==
  ASSUME NEW k, NEW new, NEW X, InOrder(k, X),
         SamePages(new.pte, k.pte)
  PROVE  InOrder(new, X)
<1>1. ASSUME NEW a \in Areas, NEW n \in Pages, n \in Walked(k, a)
      PROVE  n \in Walked(new, a)
  <2>1. \A l \in 1 .. n : l \in Pages
    BY MemoryAssumption DEF Pages
  <2> QED BY <1>1, <2>1 DEF Walked, SamePages
<1> QED BY <1>1 DEF InOrder, SamePages

LEMMA GreatestSlot ==
  ASSUME NEW k, NEW p, SlotsOf(k, p) # {}
  PROVE  Max(SlotsOf(k, p)) \in Slots /\ k.threads[Max(SlotsOf(k, p))].pid = p
<1>1. PICK S : S = SlotsOf(k, p)
  OBVIOUS
<1>2. S \in SUBSET Slots /\ S # {} /\ MAX_THREADS \in Nat
  BY <1>1, MemoryAssumption DEF SlotsOf
<1>3. \E i \in S : \A j \in S : i >= j
  <2> DEFINE above == {MAX_THREADS - i : i \in S}
  <2>1. above \in SUBSET Nat /\ above # {}
    <3>1. \A i \in S : MAX_THREADS - i \in Nat
      BY <1>2 DEF Slots
    <3> QED BY <1>2, <3>1
  <2> HIDE DEF above
  <2>2. Min(above) \in above /\ \A m \in above : Min(above) <= m
    BY <2>1, LeastNumber
  <2>3. PICK i \in S : Min(above) = MAX_THREADS - i
    BY <2>2 DEF above
  <2>4. \A j \in S : MAX_THREADS - i <= MAX_THREADS - j
    BY <2>2, <2>3 DEF above
  <2> QED BY <1>2, <2>4 DEF Slots
<1>4. Max(S) \in S
  BY <1>3 DEF Max
<1> QED BY <1>1, <1>2, <1>4 DEF SlotsOf

LEMMA SwitchWalk ==
  ASSUME NEW k, MemInv(k), PagesOK(k), NEW cur, NEW next,
         NEW new, new = handle_private_ctxswitch(k, cur, next)
  PROVE  PagesOK(new) /\ (\A X : InOrder(k, X) => InOrder(new, X)) /\ new.threads = k.threads
<1>1. CASE new = k
  BY <1>1
<1>2. CASE new # k
  <2>1. PICK closing, opening : new = [k EXCEPT !.pte = do_page_walk(k, closing, opening)]
          /\ closing = IF SlotsOf(k, cur) # {} THEN k.threads[Max(SlotsOf(k, cur))].maps
                       ELSE UNION {k.threads[i].maps : i \in {j \in Slots \ SlotsOf(k, next) :
                                                                k.threads[j].status = TH_USED}}
    BY <1>2 DEF handle_private_ctxswitch
  <2>2. closing \in SUBSET [start : Areas, flags : Flags]
    <3>1. \A i \in Slots : k.threads[i].maps \in SUBSET [start : Areas, flags : Flags]
      BY DEF MemInv, SlotRecords
    <3>2. CASE SlotsOf(k, cur) # {}
      <4>1. PICK s : s = Max(SlotsOf(k, cur))
        OBVIOUS
      <4>2. s \in Slots
        BY <3>2, <4>1, GreatestSlot
      <4> QED BY <2>1, <3>1, <3>2, <4>1, <4>2
    <3>3. CASE SlotsOf(k, cur) = {}
      BY <2>1, <3>1, <3>3
    <3> QED BY <3>2, <3>3
  <2>3. PICK pte : pte = do_page_walk(k, closing, opening)
    OBVIOUS
  <2>4. new.pte = pte /\ new.threads = k.threads /\ new.mapped = k.mapped
    <3>1. PICK threads, mapped, old : k = [threads |-> threads, mapped |-> mapped, pte |-> old]
      BY DEF MemInv
    <3> QED BY <2>1, <2>3, <3>1
  <2>5. /\ pte \in [Areas -> [Pages -> Entries]]
        /\ SamePages(pte, k.pte)
    BY <2>2, <2>3, PageWalk
  <2>6. PagesOK(new)
    BY <2>4, <2>5 DEF PagesOK, SamePages
  <2> QED BY <2>4, <2>5, <2>6, SamePresence
<1> QED BY <1>1, <1>2

\* The switch to a thread closes the areas of the others, if those of the
\* thread that ran are the only ones that were open.
LEMMA SwitchCloses ==
  ASSUME NEW k, MemInv(k), PagesOK(k), NEW X, InOrder(k, X), NEW cur \in Pids,
         NEW next \in ThreadPids, HasSlot(k, next), cur # next,
         cur \in ThreadPids => Closed(k, cur, X),
         NEW new, new = handle_private_ctxswitch(k, cur, next)
  PROVE  Closed(new, next, X)
<1>1. SlotsOf(k, next) # {}
  BY DEF HasSlot, Used, SlotsOf
<1>2. PICK t \in Slots : t = Max(SlotsOf(k, next)) /\ k.threads[t].pid = next
  BY <1>1, GreatestSlot
<1>4. PICK closing, opening :
        /\ new = [k EXCEPT !.pte = do_page_walk(k, closing, opening)]
        /\ opening = k.threads[t].maps
        /\ closing = IF SlotsOf(k, cur) # {} THEN k.threads[Max(SlotsOf(k, cur))].maps
                     ELSE UNION {k.threads[i].maps : i \in {j \in Slots \ SlotsOf(k, next) :
                                                              k.threads[j].status = TH_USED}}
  BY <1>1, <1>2 DEF handle_private_ctxswitch
<1>5. PICK pte : pte = do_page_walk(k, closing, opening)
  OBVIOUS
<1>6. new.pte = pte /\ new.threads = k.threads
  <2>1. PICK threads, mapped, old : k = [threads |-> threads, mapped |-> mapped, pte |-> old]
    BY DEF MemInv
  <2> QED BY <1>4, <1>5, <2>1
<1>7. \A i \in Slots : k.threads[i].maps \in SUBSET [start : Areas, flags : Flags]
  BY DEF MemInv, SlotRecords
\* What is closed: the areas of the last slot of cur, or those of all the others.
<1>8. \/ cur \in ThreadPids /\ \E s \in Slots : k.threads[s].pid = cur /\ closing = k.threads[s].maps
      \/ /\ closing \in SUBSET [start : Areas, flags : Flags]
         /\ \A i \in Used(k) : k.threads[i].pid # next => k.threads[i].maps \subseteq closing
         /\ \A m \in closing : \E i \in Slots : m \in k.threads[i].maps
  <2>1. CASE SlotsOf(k, cur) # {}
    <3>1. PICK s \in Slots : s = Max(SlotsOf(k, cur)) /\ k.threads[s].pid = cur
      BY <2>1, GreatestSlot
    <3>2. cur \in ThreadPids
      BY <3>1 DEF PagesOK, ThreadPids
    <3> QED BY <1>4, <2>1, <3>1, <3>2
  <2>2. CASE SlotsOf(k, cur) = {}
    <3>1. closing = UNION {k.threads[i].maps : i \in {j \in Slots \ SlotsOf(k, next) :
                                                       k.threads[j].status = TH_USED}}
      BY <1>4, <2>2
    <3>2. closing \in SUBSET [start : Areas, flags : Flags]
      BY <1>7, <3>1
    <3>3. \A i \in Used(k) : k.threads[i].pid # next => k.threads[i].maps \subseteq closing
      BY <3>1 DEF Used, SlotsOf
    <3>4. \A m \in closing : \E i \in Slots : m \in k.threads[i].maps
      BY <3>1
    <3> QED BY <3>2, <3>3, <3>4
  <2> QED BY <2>1, <2>2
<1>9. /\ closing \in SUBSET [start : Areas, flags : Flags]
      /\ \A m \in closing : \E i \in Slots : m \in k.threads[i].maps
  BY <1>7, <1>8
<1>10. \A i, j \in Slots : \A l \in k.threads[i].maps, m \in k.threads[j].maps :
         l.start = m.start => i = j /\ l = m
  <2> SUFFICES ASSUME NEW i \in Slots, NEW j \in Slots, NEW l \in k.threads[i].maps,
                      NEW m \in k.threads[j].maps, l.start = m.start
               PROVE  i = j /\ l = m
    OBVIOUS
  <2>1. l.start \in Owned(k, i) /\ l.start \in Owned(k, j)
    BY DEF Owned, Starts
  <2>2. i = j
    BY <2>1 DEF MemInv
  <2> QED BY <2>2 DEF PagesOK
<1>11. ASSUME NEW i \in Used(k), k.threads[i].pid # next, Alone(k, i),
              NEW m \in k.threads[i].maps, NEW n \in Pages, m.start \notin X
       PROVE  ClosedPage(new, m, n)
  <2>1. i \in Slots /\ i # t /\ m.start \in Areas /\ m.flags \in Flags
    BY <1>2, <1>7, <1>11 DEF Used
  <2>2. m.start \notin Starts(opening)
    BY <1>2, <1>4, <1>10, <2>1 DEF Starts
  <2>3. CASE m \in closing
    <3>1. \A l \in closing : l.start = m.start => l = m
      BY <1>9, <1>10, <2>1
    <3>2. CASE n \in Walked(k, m.start)
      <4>1. pte[m.start][n] = SiblingEntry(m.flags)
        <5>1. m.start \in Starts(closing)
          BY <2>3 DEF Starts
        <5>2. (CHOOSE l \in closing : l.start = m.start) = m
          BY <2>3, <3>1
        <5> QED BY <1>5, <2>1, <2>2, <3>2, <5>1, <5>2 DEF do_page_walk
      <4> QED BY <1>6, <2>1, <4>1 DEF ClosedPage, SiblingEntry, Flags, NOACCESS, RDONLY, RDWR,
                                      SUPERVISOR, READ, READWRITE
    <3>3. CASE n \notin Walked(k, m.start)
      <4>1. k.pte[m.start][n] = ABSENT
        BY <1>11, <2>1, <3>3 DEF InOrder
      <4>2. pte[m.start][n] = ABSENT
        BY <1>5, <1>9, <2>1, <4>1, PageWalk DEF SamePages
      <4> QED BY <1>6, <4>2 DEF ClosedPage, ABSENT, READ, READWRITE
    <3> QED BY <3>2, <3>3
  <2>4. CASE m \notin closing
    <3>1. PICK s \in Slots : k.threads[s].pid = cur /\ closing = k.threads[s].maps /\ cur \in ThreadPids
      BY <1>8, <1>11, <2>4
    <3>2. i # s
      BY <2>4, <3>1
    <3>3. k.threads[i].pid # cur
      BY <1>11, <2>1, <3>1, <3>2 DEF Alone
    <3>4. ClosedPage(k, m, n)
      BY <1>11, <3>1, <3>3 DEF Closed
    <3>5. m.start \notin Starts(closing)
      BY <1>10, <2>1, <3>1, <3>2 DEF Starts
    <3>6. pte[m.start][n] = k.pte[m.start][n]
      BY <1>5, <1>9, <2>1, <2>2, <3>5, PageWalk
    <3> QED BY <1>6, <3>4, <3>6 DEF ClosedPage
  <2> QED BY <2>3, <2>4
<1>12. Used(new) = Used(k) /\ \A i : Alone(new, i) <=> Alone(k, i)
  BY <1>6 DEF Used, Alone
<1> QED BY <1>6, <1>11, <1>12 DEF Closed

-----------------------------------------------------------------------------
\* The tables k may become new: nothing is opened to anybody.
KeepsPages(k, new) ==
  /\ MemInv(new) /\ PagesOK(new)
  /\ \A X : InOrder(k, X) => InOrder(new, X)
  /\ \A o, X : Closed(k, o, X) => Closed(new, o, X)

\* Areas are unmapped, slots get free.
LEMMA FewerPages ==
  ASSUME NEW k, PagesOK(k), NEW new, MemInv(new), Used(new) \subseteq Used(k),
         \A i \in Slots : /\ new.threads[i].pid = k.threads[i].pid
                          /\ new.threads[i].maps \subseteq k.threads[i].maps,
         new.pte \in [Areas -> [Pages -> Entries]],
         \A a \in Areas : \/ \A n \in Pages : new.pte[a][n] = ABSENT
                          \/ new.pte[a] = k.pte[a] /\ (a \notin new.mapped => a \notin k.mapped)
  PROVE  KeepsPages(k, new)
<1>1. PagesOK(new)
  BY DEF PagesOK
<1>2. ASSUME NEW X, InOrder(k, X) PROVE InOrder(new, X)
  <2> SUFFICES ASSUME NEW a \in Areas \ X, NEW n \in Pages, new.pte[a][n] # ABSENT
               PROVE  n \in Walked(new, a)
    BY DEF InOrder
  <2>1. new.pte[a] = k.pte[a] /\ n \in Walked(k, a)
    BY <1>2 DEF InOrder
  <2> QED BY <2>1 DEF Walked
<1>3. \A i \in Slots : Alone(new, i) => Alone(k, i)
  BY DEF Alone
<1>4. ASSUME NEW o, NEW X, Closed(k, o, X) PROVE Closed(new, o, X)
  <2> SUFFICES ASSUME NEW i \in Used(new), new.threads[i].pid # o, Alone(new, i),
                      NEW m \in new.threads[i].maps, NEW n \in Pages, m.start \notin X
               PROVE  ClosedPage(new, m, n)
    BY DEF Closed
  <2>1. /\ i \in Slots /\ i \in Used(k) /\ m \in k.threads[i].maps /\ k.threads[i].pid # o
        /\ Alone(k, i)
    BY <1>3 DEF Used
  <2>2. ClosedPage(k, m, n)
    BY <1>4, <2>1 DEF Closed
  <2>3. m.start \in Areas
    BY <2>1 DEF MemInv, SlotRecords
  <2>4. new.pte[m.start][n] = ABSENT \/ new.pte[m.start] = k.pte[m.start]
    BY <2>3
  <2> QED BY <2>2, <2>4 DEF ClosedPage, ABSENT, READ, READWRITE
<1> QED BY <1>1, <1>2, <1>4 DEF KeepsPages

LEMMA ExitPages ==
  ASSUME NEW k, MemInv(k), PagesOK(k), NEW p, HasSlot(k, p), NEW new, new = handle_thread_exit(k, p)
  PROVE  KeepsPages(k, new)
<1>1. /\ MemInv(new) /\ \A j \in Slots : new.threads[j].pid = k.threads[j].pid
      /\ Used(new) \subseteq Used(k)
  BY Exited
<1>2. PICK i \in Used(k) : i = find_thread_from_pid(k, p)
  BY FoundSlot
<1>3. /\ new.threads = [k.threads EXCEPT ![i].status = TH_UNUSED, ![i].maps = {}]
      /\ new.mapped = k.mapped \ Owned(k, i)
      /\ new.pte = [a \in Areas |-> IF a \in Owned(k, i) THEN [n \in Pages |-> ABSENT] ELSE k.pte[a]]
  BY <1>2 DEF handle_thread_exit, Owned
<1>4. \A j \in Slots : new.threads[j].maps \subseteq k.threads[j].maps
  BY <1>3 DEF MemInv, SlotRecords
<1>5. new.pte \in [Areas -> [Pages -> Entries]]
  <2>1. [n \in Pages |-> ABSENT] \in [Pages -> Entries]
    BY DEF Entries
  <2> QED BY <1>3, <2>1 DEF PagesOK
<1>6. \A a \in Areas : \/ \A n \in Pages : new.pte[a][n] = ABSENT
                       \/ new.pte[a] = k.pte[a] /\ (a \notin new.mapped => a \notin k.mapped)
  BY <1>3
<1> QED BY <1>1, <1>4, <1>5, <1>6, FewerPages

LEMMA UnmapPages ==
  ASSUME NEW k, MemInv(k), PagesOK(k), NEW p, NEW isProcess \in BOOLEAN, NEW a,
         isProcess \/ HasSlot(k, p), ~UnmapFaults(k, p, isProcess, a),
         NEW new, new = vm_area_unmap(k, p, isProcess, a)
  PROVE  KeepsPages(k, new)
<1>1. CASE a \notin k.mapped
  BY <1>1 DEF vm_area_unmap, KeepsPages
<1>2. CASE a \in k.mapped
  <2>1. /\ MemInv(new) /\ Used(new) = Used(k)
        /\ \A j \in Slots : new.threads[j].pid = k.threads[j].pid
    BY Unmapped
  <2>2. /\ new.threads = handle_thread_private_unmmap(k, p, isProcess, a)
        /\ new.mapped = k.mapped \ {a}
        /\ new.pte = [k.pte EXCEPT ![a] = [n \in Pages |-> ABSENT]]
    BY <1>2 DEF vm_area_unmap
  <2>3. \A j \in Slots : new.threads[j].maps \subseteq k.threads[j].maps
    <3>1. k.threads \in [Slots -> SlotRecords]
      BY DEF MemInv
    <3>2. PICK i : i = UnmapSlot(k, p, isProcess, a)
      OBVIOUS
    <3>3. \/ new.threads = k.threads
          \/ new.threads = [k.threads EXCEPT ![i].maps = {m \in @ : m.start # a}]
      BY <2>2, <3>2 DEF handle_thread_private_unmmap
    <3> QED BY <3>1, <3>3 DEF SlotRecords
  <2>4. new.pte \in [Areas -> [Pages -> Entries]]
    <3>1. [n \in Pages |-> ABSENT] \in [Pages -> Entries]
      BY DEF Entries
    <3> QED BY <2>2, <3>1 DEF PagesOK
  <2>5. \A b \in Areas : \/ \A n \in Pages : new.pte[b][n] = ABSENT
                         \/ new.pte[b] = k.pte[b] /\ (b \notin new.mapped => b \notin k.mapped)
    BY <2>2 DEF PagesOK
  <2> QED BY <2>1, <2>3, <2>4, <2>5, FewerPages
<1> QED BY <1>1, <1>2

LEMMA EmptiedPages ==
  ASSUME MemInv(kt), PagesOK(kt), NEW k, Emptied(k)
  PROVE  KeepsPages(kt, k)
<1>1. PagesOK(k)
  <2>1. [n \in Pages |-> ABSENT] \in [Pages -> Entries]
    BY DEF Entries
  <2>2. k.pte \in [Areas -> [Pages -> Entries]]
    BY <2>1 DEF Emptied, PagesOK
  <2> QED BY <2>2 DEF Emptied, PagesOK
<1>2. ASSUME NEW X, InOrder(kt, X) PROVE InOrder(k, X)
  <2> SUFFICES ASSUME NEW a \in Areas \ X, NEW n \in Pages, k.pte[a][n] # ABSENT
               PROVE  n \in Walked(k, a)
    BY DEF InOrder
  <2>1. a \notin kt.mapped /\ kt.pte[a][n] # ABSENT
    BY DEF Emptied
  <2> QED BY <2>1 DEF PagesOK
<1>3. \A o, X : Closed(k, o, X)
  BY DEF Closed, Emptied
<1> QED BY <1>1, <1>2, <1>3 DEF KeepsPages, Emptied

-----------------------------------------------------------------------------
\* A context gives up the CPU: what happens to the pages is one of three.
LEMMA SwitchHolder ==
  ASSUME NEW c \in ContextTable, NEW k, NEW p, p \in 0 .. NPid, SwitchFrom(c, k, p),
         saved \in Pids, NEW from, from = IF p = Swapper THEN saved ELSE p
  PROVE  /\ from \in Pids /\ saved' \in Pids
         /\ \A q \in Pids : Live(ctx', q) => Live(c, q)
         /\ \/ kt' = k /\ Holder' = from
            \/ /\ Holder' \in Pids /\ Holder' # from /\ Live(c, Holder')
               /\ kt' = handle_private_ctxswitch(k, from, Holder')
<1>1. PICK next : next = pick_next_context(c, p)
  OBVIOUS
<1>2. next = Swapper \/ (next \in Pids /\ c[next].state = READY)
  BY <1>1, Picked
<1>3. /\ current' = next /\ saved' = IF next = Swapper /\ p # Swapper THEN p ELSE saved
      /\ IF next = p THEN ctx' = c /\ kt' = k
         ELSE ctx' = SetState(c, next, RUNNING) /\ kt' = Switched(k, p, next)
  BY <1>1 DEF SwitchFrom
<1>4. from \in Pids /\ saved' \in Pids
  BY <1>3, SchedulerAssumption DEF Pids, Swapper
<1>5. \A q \in Pids : Live(ctx', q) => Live(c, q)
  BY <1>2, <1>3 DEF SetState, ContextTable, Live, READY, UNUSED, EXITING
<1>6. CASE next = Swapper
  <2>1. kt' = k
    BY <1>3, <1>6 DEF Switched
  <2>2. Holder' = from
    BY <1>3, <1>6 DEF Holder
  <2> QED BY <1>4, <1>5, <2>1, <2>2
<1>7. CASE next # Swapper
  <2>1. Holder' = next /\ next \in Pids /\ Live(c, next)
    BY <1>2, <1>3, <1>7 DEF Holder, Live, READY, UNUSED, EXITING
  <2>2. CASE next = from
    <3>1. kt' = k
      BY <1>3, <2>2 DEF Switched
    <3> QED BY <1>4, <1>5, <2>1, <2>2, <3>1
  <2>3. CASE next # from
    <3>1. next # p
      BY <1>7, <2>3
    <3>2. kt' = handle_private_ctxswitch(k, from, next)
      BY <1>3, <1>7, <2>3, <3>1 DEF Switched
    <3> QED BY <1>4, <1>5, <2>1, <2>3, <3>2
  <2> QED BY <2>2, <2>3
<1> QED BY <1>6, <1>7

\* The areas that are not mapped can be left out of those that are excused.
LEMMA MappedStray ==
  ASSUME NEW k, MemInv(k), PagesOK(k), NEW X, InOrder(k, X)
  PROVE  /\ InOrder(k, X \cap k.mapped)
         /\ \A o : Closed(k, o, X) => Closed(k, o, X \cap k.mapped)
<1>1. InOrder(k, X \cap k.mapped)
  <2> SUFFICES ASSUME NEW a \in Areas \ (X \cap k.mapped), NEW n \in Pages,
                      k.pte[a][n] # ABSENT
               PROVE  n \in Walked(k, a)
    BY DEF InOrder
  <2>1. a \in k.mapped
    BY DEF PagesOK
  <2> QED BY <2>1 DEF InOrder
<1>2. \A i \in Used(k) : \A m \in k.threads[i].maps : m.start \in k.mapped
  <2>1. \A i \in Used(k) : \A m \in k.threads[i].maps : m.start \in Owned(k, i)
    BY DEF Owned, Starts
  <2> QED BY <2>1 DEF MemInv
<1>3. ASSUME NEW o, Closed(k, o, X) PROVE Closed(k, o, X \cap k.mapped)
  BY <1>2, <1>3 DEF Closed
<1> QED BY <1>1, <1>3

\* The invariant after a step in which the context that runs gives up the CPU.
LEMMA SwitchPages ==
  ASSUME Inv, PageInv, NEW c \in ContextTable, NEW k, SwitchFrom(c, k, current),
         KeepsPages(kt, k), LiveSlots(c, k), stray' = stray \/ StrayKept
  PROVE  PageInv'
<1>1. PICK from : from = IF current = Swapper THEN saved ELSE current
  OBVIOUS
<1>2. from = Holder
  BY <1>1 DEF Holder
<1>3. current \in 0 .. NPid /\ saved \in Pids /\ MemInv(k) /\ PagesOK(k)
  BY DEF Inv, PageInv, KeepsPages
<1>4. PICK h : h = Holder'
  OBVIOUS
<1>5. /\ from \in Pids /\ saved' \in Pids
      /\ \A q \in Pids : Live(ctx', q) => Live(c, q)
      /\ \/ kt' = k /\ h = from
         \/ /\ h \in Pids /\ h # from /\ Live(c, h)
            /\ kt' = handle_private_ctxswitch(k, from, h)
  BY <1>1, <1>3, <1>4, SwitchHolder
<1>6. Used(kt') = Used(k) /\ kt'.threads = k.threads
  BY <1>3, Switch
<1>7. LiveSlots(ctx', kt')
  BY <1>5, <1>6, Pid DEF LiveSlots, HasSlot
<1>8. PagesOK(kt') /\ (InOrder(k, stray) => InOrder(kt', stray))
  BY <1>3, <1>5, SwitchWalk
<1>9. InOrder(k, stray)
  BY DEF PageInv, KeepsPages
<1>10. ASSUME h \in ThreadPids
       PROVE  Closed(kt', h, stray)
  <2>1. from \in ThreadPids => Closed(k, from, stray)
    BY <1>2 DEF PageInv, KeepsPages
  <2>2. CASE kt' = k /\ h = from
    BY <1>10, <2>1, <2>2
  <2>3. CASE /\ h # from /\ Live(c, h)
             /\ kt' = handle_private_ctxswitch(k, from, h)
    <3>1. HasSlot(k, h)
      BY <1>10, <2>3 DEF LiveSlots
    <3> QED BY <1>3, <1>5, <1>9, <1>10, <2>1, <2>3, <3>1, SwitchCloses
  <2> QED BY <1>5, <2>2, <2>3
<1>11. MemInv(kt') /\ InOrder(kt', stray)
  BY <1>3, <1>8, <1>9, Switch
<1>12. InOrder(kt', stray') /\ (h \in ThreadPids => Closed(kt', h, stray'))
  BY <1>8, <1>10, <1>11, MappedStray DEF StrayKept
<1> QED BY <1>4, <1>5, <1>7, <1>8, <1>12 DEF PageInv

\* The invariant after a step in which the same context goes on.
LEMMA SamePageHolder ==
  ASSUME PageInv, UNCHANGED <<current, saved>>, PagesOK(kt'), LiveSlots(ctx', kt'),
         InOrder(kt', stray'),
         Holder \in ThreadPids /\ Closed(kt, Holder, stray) => Closed(kt', Holder, stray')
  PROVE  PageInv'
<1>1. Holder' = Holder
  BY DEF Holder
<1> QED BY <1>1 DEF PageInv

LEMMA SameHolderLess ==
  ASSUME PageInv, UNCHANGED <<current, saved>>, KeepsPages(kt, kt'), LiveSlots(ctx', kt'),
         StrayKept
  PROVE  PageInv'
<1>1. /\ MemInv(kt') /\ PagesOK(kt') /\ InOrder(kt', stray)
      /\ Closed(kt, Holder, stray) => Closed(kt', Holder, stray)
  BY DEF PageInv, KeepsPages
<1>2. /\ InOrder(kt', stray')
      /\ Closed(kt', Holder, stray) => Closed(kt', Holder, stray')
  BY <1>1, MappedStray DEF StrayKept
<1> QED BY <1>1, <1>2, SamePageHolder

-----------------------------------------------------------------------------
\* The steps of the timer and of the process.
LEMMA SamePages_Kept == ASSUME Inv, PageInv PROVE KeepsPages(kt, kt)
  BY DEF KeepsPages, Inv, PageInv

LEMMA TickPages ==
  ASSUME Inv, PageInv, handle_timer_tick
  PROVE  PageInv'
<1>1. PICK d, c : d = do_sleep_and_alarm_account(ctx) /\ c = SetState(d, current, READY)
  OBVIOUS
<1>2. SwitchFrom(c, kt, current) /\ stray' = stray
  BY <1>1 DEF handle_timer_tick, Ticked
<1>3. c \in ContextTable
  BY <1>1, TickStates
<1>4. \A q \in ThreadPids : Live(c, q) => Live(ctx, q)
  <2>1. \A q \in Pids : d[q] = ctx[q] \/ ctx[q].state = WAITING
    BY <1>1 DEF do_sleep_and_alarm_account
  <2>2. \A q \in Pids : Live(d, q) => Live(ctx, q)
    BY <2>1 DEF Live, WAITING, UNUSED, EXITING
  <2>3. \A q \in Pids : Live(c, q) => Live(d, q) \/ (current = q /\ current # Swapper)
    BY <1>1 DEF SetState, Live
  <2>4. current # Swapper => Live(ctx, current)
    BY DEF Inv
  <2> QED BY <2>2, <2>3, <2>4, Pid
<1>5. LiveSlots(c, kt)
  BY <1>4 DEF PageInv, LiveSlots
<1> QED BY <1>2, <1>3, <1>5, SamePages_Kept, SwitchPages

LEMMA SleepPages ==
  ASSUME Inv, PageInv, NEW p \in Pids, NEW n \in 1 .. MaxSleep, do_sleep(p, n)
  PROVE  PageInv'
<1>1. PICK c : c = [ctx EXCEPT ![p] = [state |-> WAITING, ticks_to_sleep |-> n]]
  OBVIOUS
<1>2. ctx \in ContextTable /\ n \in Int
  BY SchedulerAssumption DEF Inv
<1>3. c \in ContextTable
  BY <1>1, <1>2 DEF ContextTable, States
<1>4. p = current /\ Live(ctx, p)
  BY Pid DEF do_sleep, Inv
<1>5. \A q \in ThreadPids : Live(c, q) => Live(ctx, q)
  <2>1. \A q \in ThreadPids \ {p} : c[q] = ctx[q]
    BY <1>1, <1>2, Pid DEF ContextTable
  <2> QED BY <1>4, <2>1 DEF Live
<1>6. SwitchFrom(c, kt, current) /\ stray' = stray
  BY <1>1, <1>4 DEF do_sleep
<1>7. LiveSlots(c, kt)
  BY <1>5 DEF PageInv, LiveSlots
<1> QED BY <1>3, <1>6, <1>7, SamePages_Kept, SwitchPages

\* The states change, and nobody gets alive.
LEMMA StatesPages ==
  ASSUME PageInv, UNCHANGED <<current, saved, kt, stray>>,
         \A q \in ThreadPids : Live(ctx', q) => Live(ctx, q)
  PROVE  PageInv'
<1>1. LiveSlots(ctx', kt')
  BY DEF PageInv, LiveSlots
<1>2. Holder' = Holder
  BY DEF Holder
<1> QED BY <1>1, <1>2 DEF PageInv

LEMMA WaitPages ==
  ASSUME Inv, PageInv, do_wait_for_thread
  PROVE  PageInv'
<1>0. ctx \in ContextTable /\ stray' = stray /\ current = Process
  BY DEF Inv, do_wait_for_thread
<1>1. CASE Gone(lib.pid) /\ ctx' = Reaped(lib.pid) /\ UNCHANGED <<current, saved, kt>>
  <2>1. PICK p : p = lib.pid
    OBVIOUS
  <2>2. ctx' = SetState(ctx, p, UNUSED)
    BY <1>1, <2>1 DEF Reaped
  <2>3. \A q \in ThreadPids : Live(ctx', q) => Live(ctx, q)
    BY <1>0, <2>2, Pid DEF SetState, ContextTable, Live
  <2> QED BY <1>0, <1>1, <2>3, StatesPages
<1>2. CASE SwitchFrom(SetState(ctx, Process, WAITING), kt, Process)
  <2>1. PICK c : c = SetState(ctx, Process, WAITING)
    OBVIOUS
  <2>2. c \in ContextTable /\ \A q \in ThreadPids : c[q].state = ctx[q].state
    BY <2>1, Pid DEF Inv, SetState, ContextTable, States
  <2>3. LiveSlots(c, kt)
    BY <2>2 DEF PageInv, LiveSlots, Live
  <2> QED BY <1>0, <1>2, <2>1, <2>2, <2>3, SamePages_Kept, SwitchPages
<1> QED BY <1>1, <1>2 DEF do_wait_for_thread

LEMMA ReadyPages ==
  ASSUME Inv, PageInv, do_make_thread_ready
  PROVE  PageInv'
<1>1. PICK p : p = lib.pid
  OBVIOUS
<1>2. ctx' = ctx \/ (ctx' = SetState(ctx, p, READY) /\ Live(ctx, p))
  BY <1>1 DEF do_make_thread_ready, Live
<1>3. \A q \in ThreadPids : Live(ctx', q) => Live(ctx, q)
  BY <1>2, Pid DEF Inv, SetState, ContextTable, Live
<1> QED BY <1>3, StatesPages DEF do_make_thread_ready

LEMMA ClonePages ==
  ASSUME Inv, PageInv, gthread_create_clone
  PROVE  PageInv'
<1>1. PICK pid : pid = Min(UnusedPids)
  OBVIOUS
<1>2. pid \in Pids /\ ctx[pid].state = UNUSED
  <2>1. UnusedPids \in SUBSET Nat /\ UnusedPids # {}
    BY DEF UnusedPids, Pids, gthread_create_clone
  <2> QED BY <1>1, <2>1, LeastNumber DEF UnusedPids
<1>3. PICK k, e : k = Cloned(kt, pid) /\ e = [ctx[Process] EXCEPT !.state = READY]
  OBVIOUS
<1>4. /\ current = Process /\ UNCHANGED <<current, saved, stray>> /\ FreeSlots(kt) # {}
      /\ kt' = k /\ ctx' = [ctx EXCEPT ![pid] = e]
  BY <1>1, <1>3 DEF gthread_create_clone
<1>5. MemInv(kt) /\ ~HasSlot(kt, pid) /\ pid # Process
  <2>1. Live(ctx, Process)
    BY <1>4, Pid DEF Inv
  <2> QED BY <1>2, <2>1 DEF HasSlot, Inv, Known, Live
<1>6. /\ MemInv(k) /\ HasSlot(k, pid)
      /\ \A j \in Used(kt) : j \in Used(k) /\ k.threads[j].pid = kt.threads[j].pid
  BY <1>2, <1>3, <1>4, <1>5, SlotGiven
<1>7. LiveSlots(ctx', kt')
  <2>1. \A q \in ThreadPids \ {pid} : ctx'[q] = ctx[q]
    BY <1>2, <1>4, Pid DEF Inv, ContextTable
  <2>2. \A q \in ThreadPids : HasSlot(kt, q) => HasSlot(k, q)
    BY <1>6 DEF HasSlot
  <2> QED BY <1>4, <1>6, <2>1, <2>2 DEF PageInv, LiveSlots, Live
<1>8. PICK i \in Slots \ Used(kt) :
        /\ k.threads = [kt.threads EXCEPT ![i].pid = pid, ![i].status = TH_USED]
        /\ k.mapped = kt.mapped /\ k.pte = kt.pte
  BY <1>3, <1>4, <1>5, GivenSlot
<1>9. PagesOK(k)
  <2>1. kt.threads \in [Slots -> SlotRecords]
    BY <1>5 DEF MemInv
  <2>2. \A j \in Slots : /\ k.threads[j].maps = kt.threads[j].maps
                         /\ k.threads[j].pid \in {kt.threads[j].pid, pid}
    BY <1>8, <2>1 DEF SlotRecords
  <2> QED BY <1>5, <1>8, <2>2 DEF PageInv, PagesOK
<1>10. InOrder(k, stray)
  BY <1>8 DEF PageInv, InOrder, Walked
<1>11. Holder \notin ThreadPids
  BY <1>4, Pid DEF Holder
<1> QED BY <1>4, <1>7, <1>9, <1>10, <1>11, SamePageHolder DEF PageInv

LEMMA UnmapAgainPages ==
  ASSUME Inv, PageInv, gthread_join_unmap
  PROVE  PageInv'
<1>1. PICK a : kt' = vm_area_unmap(kt, Process, TRUE, a)
  BY DEF gthread_join_unmap
<1>2. PICK isProcess \in BOOLEAN : isProcess
  OBVIOUS
<1>3. isProcess = TRUE
  BY <1>2
<1>4. PICK k : k = vm_area_unmap(kt, Process, isProcess, a)
  OBVIOUS
<1>5. MemInv(kt) /\ PagesOK(kt) /\ ~UnmapFaults(kt, Process, isProcess, a)
  BY <1>3 DEF UnmapFaults, Inv, PageInv
<1>6. KeepsPages(kt, k)
  BY <1>2, <1>4, <1>5, UnmapPages
<1>7. kt' = k /\ UNCHANGED <<ctx, current, saved>> /\ StrayKept
  BY <1>1, <1>3, <1>4 DEF gthread_join_unmap
<1>8. \A q \in ThreadPids : HasSlot(kt, q) => HasSlot(k, q)
  <2>1. isProcess \/ HasSlot(kt, Process)
    BY <1>2
  <2>2. /\ MemInv(k) /\ Used(k) = Used(kt)
        /\ \A j \in Slots : k.threads[j].pid = kt.threads[j].pid
    BY <1>4, <1>5, <2>1, Unmapped
  <2> QED BY <2>2 DEF HasSlot, Used
<1>9. LiveSlots(ctx', kt')
  BY <1>7, <1>8 DEF PageInv, LiveSlots
<1> QED BY <1>6, <1>7, <1>9, SameHolderLess

LEMMA CleanupPages ==
  ASSUME Inv, PageInv, cleanup_all_threads
  PROVE  PageInv'
<1>1. PICK c \in ContextTable :
        /\ \E k : SwitchFrom(c, k, Process) /\ Emptied(k)
        /\ \A q \in ThreadPids : HasSlot(kt, q) => ~Live(c, q)
        /\ \A q \in ThreadPids : Live(c, q) => Live(ctx, q)
  BY CleanupSwitch
<1>2. PICK k : SwitchFrom(c, k, Process) /\ Emptied(k)
  BY <1>1
<1>3. KeepsPages(kt, k)
  BY <1>2, EmptiedPages DEF Inv, PageInv
<1>4. LiveSlots(c, k)
  BY <1>1 DEF PageInv, LiveSlots
<1>5. current = Process /\ StrayKept
  BY DEF cleanup_all_threads
<1> QED BY <1>2, <1>3, <1>4, <1>5, SwitchPages

-----------------------------------------------------------------------------
\* The steps of a thread.
LEMMA GonePages ==
  ASSUME Inv, PageInv, NEW p \in ThreadPids, current = p, Lives(p), NEW normal,
         ThreadGone(p, normal), StrayKept
  PROVE  PageInv'
<1>1. PICK c \in ContextTable : /\ SwitchFrom(c, handle_thread_exit(kt, p), p)
                                /\ \A q \in ThreadPids \ {p} : c[q].state = ctx[q].state
                                /\ ~Live(c, p)
  BY GoneSwitch
<1>2. PICK k : k = handle_thread_exit(kt, p)
  OBVIOUS
<1>3. MemInv(kt) /\ PagesOK(kt) /\ HasSlot(kt, p)
  BY DEF Inv, PageInv, Lives
<1>4. KeepsPages(kt, k)
  BY <1>2, <1>3, ExitPages
<1>5. /\ \A j \in Slots : k.threads[j].pid = kt.threads[j].pid
      /\ Used(k) = {j \in Used(kt) : kt.threads[j].pid # p}
  BY <1>2, <1>3, Exited
<1>6. \A q \in ThreadPids \ {p} : HasSlot(kt, q) => HasSlot(k, q)
  BY <1>5 DEF HasSlot, Used
<1>7. LiveSlots(c, k)
  BY <1>1, <1>6 DEF PageInv, LiveSlots, Live
<1>8. SwitchFrom(c, k, current)
  BY <1>1, <1>2
<1> QED BY <1>4, <1>7, <1>8, SwitchPages

LEMMA MallocPages ==
  ASSUME Inv, PageInv, NEW p \in ThreadPids, NEW flags \in Flags, gmalloc(p, flags)
  PROVE  PageInv'
<1>1. /\ HasSlot(kt, p) /\ MemInv(kt) /\ PagesOK(kt) /\ UNCHANGED <<ctx, current, saved>>
      /\ current = p
  BY DEF gmalloc, InFunction, Inv, PageInv
<1>2. Holder = p
  BY <1>1 DEF Holder, Swapper, ThreadPids, Pids
<1>3. CASE ~(Cardinality(MapsOf(p)) < MAX_PRIVATE_AREAS)
  <2>1. kt' = kt /\ stray' = stray \ {MAP_ERR}
    BY <1>3 DEF gmalloc
  <2>2. InOrder(kt, stray \ {MAP_ERR})
    BY MemoryAssumption DEF PageInv, InOrder, MAP_ERR
  <2>3. Closed(kt, p, stray) => Closed(kt, p, stray \ {MAP_ERR})
    <3>1. \A i \in Used(kt) : \A m \in kt.threads[i].maps : m.start # MAP_ERR
      <4>1. \A i \in Used(kt) : \A m \in kt.threads[i].maps : m.start \in Areas
        BY <1>1 DEF MemInv, SlotRecords, Used
      <4> QED BY <4>1, MemoryAssumption DEF MAP_ERR
    <3> QED BY <3>1 DEF Closed
  <2> QED BY <1>1, <1>2, <2>1, <2>2, <2>3, SamePageHolder DEF PageInv
<1>4. CASE Cardinality(MapsOf(p)) < MAX_PRIVATE_AREAS
  <2>1. PICK a : a = Min(FreeAreas(kt))
    OBVIOUS
  <2>2. PICK k : k = handle_thread_private_mmap(kt, p, a, flags)
    OBVIOUS
  <2>3. kt' = k /\ stray' = stray \ {a}
    BY <1>4, <2>1, <2>2 DEF gmalloc
  <2>4. a \in FreeAreas(kt)
    <3>1. FreeAreas(kt) \in SUBSET Nat /\ FreeAreas(kt) # {}
      BY MemoryAssumption DEF FreeAreas, gmalloc
    <3> QED BY <2>1, <3>1, LeastNumber
  <2>5. a \in Areas /\ a \notin kt.mapped
    BY <2>4 DEF FreeAreas
  <2>6. PICK i \in Used(kt) : kt.threads[i].pid = p
    BY <1>1 DEF HasSlot
  <2>7. PICK maps : maps = With(kt.threads[i].maps, a, flags)
    OBVIOUS
  <2>8. /\ k.threads = Recording(kt.threads, i, maps) /\ k.pte = kt.pte
    BY <1>1, <2>2, <2>6, <2>7, OwnMapped
  <2>9. /\ MemInv(k) /\ Used(k) = Used(kt)
        /\ \A j \in Slots : k.threads[j].pid = kt.threads[j].pid
    BY <1>1, <2>2, <2>4, Mapped
  <2>10. k.threads[i].maps = maps /\ \A j \in Slots \ {i} : k.threads[j] = kt.threads[j]
    <3>1. kt.threads \in [Slots -> SlotRecords] /\ i \in Slots
      BY <1>1, <2>6 DEF MemInv, Used
    <3> QED BY <2>8, <3>1 DEF Recording, SlotRecords
  <2>11. kt.mapped \subseteq k.mapped
    <3>1. \A j \in Slots : kt.threads[j].maps \subseteq k.threads[j].maps
      BY <2>7, <2>10 DEF With
    <3>2. \A j \in Slots : Owned(kt, j) \subseteq Owned(k, j)
      BY <3>1 DEF Owned, Starts
    <3>3. \A j \in Used(kt) : j \in Slots /\ j \in Used(k)
      BY <2>9 DEF Used
    <3> QED BY <1>1, <2>9, <3>2, <3>3 DEF MemInv
  <2>12. \A l, m \in maps : l.start = m.start => l = m
    <3>1. \A m \in kt.threads[i].maps : m.start # a
      BY <1>1, <2>5, <2>6 DEF MemInv, Owned, Starts
    <3>2. i \in Slots
      BY <2>6 DEF Used
    <3>3. PICK m : m = [start |-> a, flags |-> flags]
      OBVIOUS
    <3>4. m.start = a /\ \A l \in maps : l \in kt.threads[i].maps \/ l = m
      BY <2>7, <3>3 DEF With
    <3> QED BY <1>1, <3>1, <3>2, <3>4 DEF PagesOK
  <2>13. PagesOK(k)
    BY <1>1, <2>8, <2>9, <2>10, <2>11, <2>12 DEF PagesOK
  <2>14. InOrder(k, stray \ {a})
    <3>1. \A n \in Pages : kt.pte[a][n] = ABSENT
      BY <1>1, <2>5 DEF PagesOK
    <3> QED BY <2>8, <3>1 DEF PageInv, InOrder, Walked
  <2>15. Closed(kt, p, stray) => Closed(k, p, stray \ {a})
    <3>1. \A j \in Used(k) : k.threads[j].pid # p => j \in Slots \ {i} /\ j \in Used(kt)
      BY <2>6, <2>9 DEF Used
    <3>2. \A j \in Slots : Alone(k, j) <=> Alone(kt, j)
      BY <2>9 DEF Alone
    <3>3. \A j \in Used(kt) : \A m \in kt.threads[j].maps : m.start # a
      BY <1>1, <2>5 DEF MemInv, Owned, Starts
    <3> QED BY <2>8, <2>10, <3>1, <3>2, <3>3 DEF Closed, ClosedPage
  <2>16. LiveSlots(ctx, k)
    BY <2>9 DEF PageInv, LiveSlots, HasSlot, Used
  <2> QED BY <1>1, <1>2, <2>3, <2>13, <2>14, <2>15, <2>16, SamePageHolder
<1> QED BY <1>3, <1>4

LEMMA FreePages ==
  ASSUME Inv, PageInv, NEW p \in ThreadPids, NEW a, gfree(p, a)
  PROVE  PageInv'
<1>1. Lives(p) /\ current = p /\ MemInv(kt) /\ PagesOK(kt) /\ HasSlot(kt, p)
  BY DEF gfree, InFunction, Inv, PageInv, Lives
<1>2. CASE ThreadGone(p, FALSE) /\ StrayKept
  BY <1>1, <1>2, GonePages
<1>3. CASE /\ ~UnmapFaults(kt, p, FALSE, a) /\ kt' = vm_area_unmap(kt, p, FALSE, a)
           /\ UNCHANGED <<ctx, current, saved>> /\ StrayKept
  <2>1. PICK isProcess \in BOOLEAN : ~isProcess
    OBVIOUS
  <2>2. isProcess = FALSE
    BY <2>1
  <2>3. ~UnmapFaults(kt, p, isProcess, a) /\ (isProcess \/ HasSlot(kt, p))
    BY <1>1, <1>3, <2>2
  <2>4. PICK k : k = vm_area_unmap(kt, p, isProcess, a)
    OBVIOUS
  <2>5. /\ MemInv(k) /\ Used(k) = Used(kt)
        /\ \A j \in Slots : k.threads[j].pid = kt.threads[j].pid
    BY <1>1, <2>3, <2>4, Unmapped
  <2>6. KeepsPages(kt, k)
    BY <1>1, <2>3, <2>4, UnmapPages
  <2>7. kt' = k
    BY <1>3, <2>2, <2>4
  <2>8. LiveSlots(ctx', kt')
    BY <1>3, <2>5, <2>7 DEF PageInv, LiveSlots, HasSlot, Used
  <2> QED BY <1>3, <2>6, <2>7, <2>8, SameHolderLess
<1> QED BY <1>2, <1>3 DEF gfree

\* A fault that is fixed: the page is there, for the thread that touched it.
LEMMA FixedPages ==
  ASSUME Inv, PageInv, NEW p \in ThreadPids, HasSlot(kt, p), current = p,
         NEW a \in Areas, NEW n \in Pages, TRUE \in handle_thread_private_fault(kt, p, a, n),
         kt' = Fixed(kt, a, n), UNCHANGED <<ctx, current, saved>>,
         stray' = IF \/ kt.pte[a][n] # ABSENT
                     \/ a \in Starts(MapsOf(p)) /\ 1 .. n - 1 \subseteq Walked(kt, a)
                  THEN stray ELSE stray \cup {a}
  PROVE  PageInv'
<1>1. MemInv(kt) /\ PagesOK(kt)
  BY DEF Inv, PageInv
<1>2. PICK threads, mapped, old : kt = [threads |-> threads, mapped |-> mapped, pte |-> old]
  BY <1>1 DEF MemInv
<1>3. PICK e : e = IF old[a][n] = ABSENT THEN READWRITE ELSE old[a][n]
  OBVIOUS
<1>4. old \in [Areas -> [Pages -> Entries]] /\ e \in Entries /\ e # ABSENT
  <2>1. old \in [Areas -> [Pages -> Entries]]
    BY <1>1, <1>2 DEF PagesOK
  <2>2. old[a][n] \in Entries
    BY <2>1
  <2> QED BY <1>3, <2>1, <2>2 DEF Entries, ABSENT, READWRITE
<1>5. kt'.threads = kt.threads /\ kt'.mapped = kt.mapped /\ kt'.pte = [old EXCEPT ![a][n] = e]
  BY <1>2, <1>3 DEF Fixed
<1>6. /\ kt'.pte \in [Areas -> [Pages -> Entries]]
      /\ kt'.pte[a][n] = e
      /\ \A b \in Areas, l \in Pages : b # a \/ l # n => kt'.pte[b][l] = kt.pte[b][l]
  <2>1. PICK row, new, was : /\ was = old[a] /\ row = [was EXCEPT ![n] = e]
                             /\ new = [old EXCEPT ![a] = row]
    OBVIOUS
  <2>2. was \in [Pages -> Entries]
    BY <1>4, <2>1
  <2>3. /\ row \in [Pages -> Entries] /\ row[n] = e
        /\ \A l \in Pages \ {n} : row[l] = was[l]
    BY <1>4, <2>1, <2>2
  <2>4. new \in [Areas -> [Pages -> Entries]] /\ new[a] = row /\ \A b \in Areas \ {a} : new[b] = old[b]
    BY <1>4, <2>1, <2>3
  <2>5. kt'.pte = new /\ kt.pte = old
    BY <1>2, <1>5, <2>1
  <2> QED BY <2>1, <2>3, <2>4, <2>5
<1>7. Used(kt') = Used(kt) /\ Holder = p
  BY <1>5 DEF Used, Holder, Swapper, ThreadPids, Pids
<1>8. a \in kt.mapped
  BY DEF handle_thread_private_fault
<1>9. PagesOK(kt')
  BY <1>1, <1>5, <1>6, <1>8 DEF PagesOK
<1>10. LiveSlots(ctx', kt')
  BY <1>5, <1>7 DEF PageInv, LiveSlots, HasSlot
<1>11. \A i \in Slots : Alone(kt', i) <=> Alone(kt, i)
  BY <1>5 DEF Alone
<1>12. \A i \in Used(kt) : i \in Slots /\ \A m \in kt.threads[i].maps : m.start \in Areas
  BY <1>1 DEF MemInv, SlotRecords, Used
<1>13. CASE kt.pte[a][n] # ABSENT
  <2>1. \A b \in Areas, l \in Pages : kt'.pte[b][l] = kt.pte[b][l]
    BY <1>2, <1>3, <1>6, <1>13
  <2>2. stray' = stray
    BY <1>13
  <2>3. InOrder(kt', stray)
    <3>1. SamePages(kt'.pte, kt.pte)
      BY <2>1 DEF SamePages
    <3> QED BY <3>1, SamePresence DEF PageInv
  <2>4. Closed(kt, p, stray) => Closed(kt', p, stray)
    BY <1>5, <1>7, <1>11, <1>12, <2>1 DEF Closed, ClosedPage
  <2> QED BY <1>7, <1>9, <1>10, <2>2, <2>3, <2>4, SamePageHolder
\* The other areas are as they were.
<1>14. ASSUME NEW b \in Areas \ {a}, NEW l \in Pages, NEW X, InOrder(kt, X), b \notin X,
              kt'.pte[b][l] # ABSENT
       PROVE  l \in Walked(kt', b)
  <2>1. l \in Walked(kt, b)
    BY <1>6, <1>14 DEF InOrder
  <2>2. \A j \in 1 .. l : j \in Pages
    BY MemoryAssumption DEF Pages
  <2> QED BY <1>6, <2>1, <2>2 DEF Walked
<1>15. CASE /\ kt.pte[a][n] = ABSENT
            /\ ~(a \in Starts(MapsOf(p)) /\ 1 .. n - 1 \subseteq Walked(kt, a))
  <2>1. stray' = stray \cup {a}
    BY <1>15
  <2>2. InOrder(kt', stray \cup {a})
    <3> SUFFICES ASSUME NEW b \in Areas \ (stray \cup {a}), NEW l \in Pages,
                        kt'.pte[b][l] # ABSENT
                 PROVE  l \in Walked(kt', b)
      BY DEF InOrder
    <3> QED BY <1>14 DEF PageInv
  <2>3. Closed(kt, p, stray) => Closed(kt', p, stray \cup {a})
    BY <1>5, <1>6, <1>7, <1>11, <1>12 DEF Closed, ClosedPage
  <2> QED BY <1>7, <1>9, <1>10, <2>1, <2>2, <2>3, SamePageHolder
<1>16. CASE /\ kt.pte[a][n] = ABSENT
            /\ a \in Starts(MapsOf(p)) /\ 1 .. n - 1 \subseteq Walked(kt, a)
  <2>1. stray' = stray
    BY <1>16
  <2>2. InOrder(kt', stray)
    <3> SUFFICES ASSUME NEW b \in Areas \ stray, NEW l \in Pages, kt'.pte[b][l] # ABSENT
                 PROVE  l \in Walked(kt', b)
      BY DEF InOrder
    <3>1. CASE b # a
      BY <1>14, <3>1 DEF PageInv
    <3>2. CASE b = a /\ l # n
      <4>1. kt.pte[a][l] # ABSENT
        BY <1>6, <3>2
      <4>2. \A j \in 1 .. l : kt.pte[a][j] # ABSENT
        BY <3>2, <4>1 DEF PageInv, InOrder, Walked
      <4>3. \A j \in 1 .. l : j \in Pages
        BY MemoryAssumption DEF Pages
      <4>4. \A j \in 1 .. l : kt'.pte[a][j] # ABSENT
        BY <1>4, <1>6, <4>2, <4>3
      <4> QED BY <3>2, <4>4 DEF Walked
    <3>3. CASE b = a /\ l = n
      <4>1. \A j \in 1 .. n - 1 : kt.pte[a][j] # ABSENT
        <5>1. \A j \in 1 .. n - 1 : j \in Walked(kt, a) /\ j \in 1 .. j
          BY <1>16 DEF Pages
        <5> QED BY <5>1 DEF Walked
      <4>2. \A j \in 1 .. n : j \in Pages /\ (j = n \/ j \in 1 .. n - 1)
        BY MemoryAssumption DEF Pages
      <4>3. \A j \in 1 .. l : kt'.pte[b][j] # ABSENT
        BY <1>4, <1>6, <3>3, <4>1, <4>2
      <4> QED BY <4>3 DEF Walked
    <3> QED BY <3>1, <3>2, <3>3
  <2>3. ASSUME Closed(kt, p, stray) PROVE Closed(kt', p, stray)
    <3>1. PICK j \in Used(kt) : j = find_thread_from_pid(kt, p) /\ kt.threads[j].pid = p
      BY <1>1, FoundSlot
    <3>2. a \in Owned(kt, j)
      BY <1>16, <3>1 DEF MapsOf, Owned
    <3> SUFFICES ASSUME NEW i \in Used(kt), kt.threads[i].pid # p, Alone(kt, i),
                        NEW m \in kt.threads[i].maps, NEW l \in Pages, m.start \notin stray
                 PROVE  ClosedPage(kt', m, l)
      BY <1>5, <1>7, <1>11, <1>12 DEF Closed
    <3>3. i \in Slots /\ j \in Slots /\ i # j
      BY <3>1 DEF Used
    <3>4. m.start \in Owned(kt, i) /\ m.start \in Areas
      BY <1>1, <3>3 DEF Owned, Starts, MemInv, SlotRecords
    <3>5. m.start # a
      BY <1>1, <3>2, <3>3, <3>4 DEF MemInv
    <3>6. ClosedPage(kt, m, l)
      BY <2>3 DEF Closed
    <3> QED BY <1>6, <3>4, <3>5, <3>6 DEF ClosedPage
  <2> QED BY <1>7, <1>9, <1>10, <2>1, <2>2, <2>3, SamePageHolder
<1> QED BY <1>13, <1>15, <1>16

LEMMA ThreadPages ==
  ASSUME Inv, PageInv, NEW p \in ThreadPids, ThreadStep(p)
  PROVE  PageInv'
<1>1. CASE do_exit(p) \/ return_unguarded(p)
  <2>1. /\ Lives(p) /\ (ThreadGone(p, TRUE) \/ ThreadGone(p, FALSE))
        /\ current = p /\ StrayKept
    BY <1>1 DEF do_exit, return_unguarded, InFunction, Lives
  <2> QED BY <2>1, GonePages
<1>2. CASE gthread_exit(p)
  <2>1. UNCHANGED <<current, saved, kt, stray, ctx>>
    BY <1>2 DEF gthread_exit
  <2> QED BY <2>1, StatesPages
<1>3. ASSUME NEW a \in Areas, NEW n \in Pages, NEW wr \in BOOLEAN, touch(p, a, n, wr)
      PROVE  PageInv'
  <2>1. Lives(p) /\ current = p /\ HasSlot(kt, p)
    BY <1>3 DEF touch, InFunction, Lives, Inv
  <2>2. CASE ThreadGone(p, FALSE) /\ StrayKept
    BY <2>1, <2>2, GonePages
  <2>3. CASE /\ TRUE \in handle_thread_private_fault(kt, p, a, n)
             /\ kt' = Fixed(kt, a, n) /\ UNCHANGED <<ctx, current, saved>>
             /\ stray' = IF \/ kt.pte[a][n] # ABSENT
                            \/ a \in Starts(MapsOf(p)) /\ 1 .. n - 1 \subseteq Walked(kt, a)
                         THEN stray ELSE stray \cup {a}
    BY <2>1, <2>3, FixedPages
  <2> QED BY <1>3, <2>2, <2>3 DEF touch
<1>4. CASE \E a \in Areas : gfree(p, a)
  BY <1>4, FreePages
<1>5. CASE \E flags \in Flags : gmalloc(p, flags)
  BY <1>5, MallocPages
<1> QED BY <1>1, <1>2, <1>3, <1>4, <1>5 DEF ThreadStep, ThreadEnds

LEMMA InitPages == Init => PageInv
<1> SUFFICES ASSUME Init PROVE PageInv
  OBVIOUS
<1>1. /\ kt.threads = [i \in Slots |-> [pid |-> 0, status |-> TH_UNUSED, maps |-> {}]]
      /\ kt.mapped = {} /\ kt.pte = [a \in Areas |-> [n \in Pages |-> ABSENT]]
      /\ ctx = [p \in Pids |-> [state |-> IF p = Process THEN RUNNING ELSE UNUSED,
                                ticks_to_sleep |-> 0]]
      /\ current = Process /\ saved = Process
  BY DEF Init, EmptyTables
<1>2. PagesOK(kt)
  BY <1>1 DEF PagesOK, Entries, Process
<1>3. LiveSlots(ctx, kt)
  BY <1>1, Pid DEF LiveSlots, Live
<1>4. InOrder(kt, stray)
  BY <1>1 DEF InOrder
<1>5. Holder \notin ThreadPids
  BY <1>1, Pid DEF Holder
<1> QED BY <1>1, <1>2, <1>3, <1>4, <1>5, Pid DEF PageInv

LEMMA NextPages == Inv /\ PageInv /\ [Next]_vars => PageInv'
<1> SUFFICES ASSUME Inv, PageInv, [Next]_vars PROVE PageInv'
  OBVIOUS
<1>1. CASE UNCHANGED <<ctx, current, saved, kt, stray>>
  BY <1>1, StatesPages
<1>2. CASE LibraryStep
  <2>1. CASE gthread_create_status \/ gthread_create_pid \/ gthread_create_guard \/ gthread_join_collect
    BY <1>1, <2>1 DEF gthread_create_status, gthread_create_pid, gthread_create_guard,
                      gthread_join_collect
  <2> QED BY <1>2, <2>1, ReadyPages, WaitPages, UnmapAgainPages DEF LibraryStep
<1>3. CASE ProcessStep
  <2>1. CASE \E i \in Slots : gthread_join(i)
    BY <1>1, <2>1 DEF gthread_join
  <2> QED BY <1>2, <1>3, <2>1, ClonePages, CleanupPages DEF ProcessStep
<1>4. CASE handle_timer_tick \/ \E p \in Pids, n \in 1 .. MaxSleep : do_sleep(p, n)
  BY <1>4, TickPages, SleepPages
<1>5. CASE UNCHANGED vars
  BY <1>1, <1>5 DEF vars
<1> QED BY <1>3, <1>4, <1>5, ThreadPages DEF Next

\* While a thread runs, in any program, the pages of every other thread are
\* closed to it as their flags ask, whatever the process, the swapper and the
\* exits did in between, but for the areas that another thread touched first, or
\* not page after page, and for a thread with the pid of a dead one's slot
\* (clone_threads.c:243, :253).
THEOREM PagesProtected == Spec => []Protected
<1>1. Inv /\ PageInv => Protected
  <2> SUFFICES ASSUME Inv, PageInv, current \in ThreadPids, NEW i \in Slots,
                      kt.threads[i].status = TH_USED, kt.threads[i].pid # current,
                      \A j \in Slots \ {i} : kt.threads[j].pid # kt.threads[i].pid,
                      NEW m \in kt.threads[i].maps, NEW n \in Pages, m.start \notin stray
               PROVE  /\ m.flags = NOACCESS => ~Permits(kt, m.start, n, FALSE)
                      /\ m.flags = RDONLY => ~Permits(kt, m.start, n, TRUE)
    BY DEF Protected
  <2>1. Holder = current
    BY DEF Holder, Swapper, ThreadPids, Pids
  <2>2. ClosedPage(kt, m, n)
    BY <2>1 DEF PageInv, Closed, Used, Alone
  <2> QED BY <2>2 DEF ClosedPage, Permits
<1>2. Init => Inv /\ PageInv
  BY InitInv, InitPages
<1>3. Inv /\ PageInv /\ [Next]_vars => Inv' /\ PageInv'
  BY NextInv, NextPages
<1> QED BY <1>1, <1>2, <1>3, PTL DEF Spec

-----------------------------------------------------------------------------
(***************************************************************************)
(* The bounds of the types: ticks, numbers of threads, areas of a slot.    *)
(***************************************************************************)
SmallSet(maps) == IsFiniteSet(maps) /\ Cardinality(maps) <= MAX_PRIVATE_AREAS

BoundsInv ==
  /\ ctx \in Contexts
  /\ \A p \in ThreadPids : th[p].num \in Numbers
  /\ \A i \in Slots : SmallSet(kt.threads[i].maps)

LEMMA SmallerSet ==
  ASSUME NEW T, SmallSet(T), NEW S \in SUBSET T
  PROVE  SmallSet(S)
<1>1. IsFiniteSet(S) /\ Cardinality(S) <= Cardinality(T)
  BY FS_Subset DEF SmallSet
<1>2. Cardinality(S) \in Nat /\ Cardinality(T) \in Nat
  BY <1>1, FS_CardinalityType DEF SmallSet
<1> QED BY <1>1, <1>2, MemoryAssumption DEF SmallSet

LEMMA KeptBounds ==
  ASSUME BoundsInv, ctx' \in Contexts, \A p \in ThreadPids : th'[p].num \in {0, th[p].num},
         \A i \in Slots : kt'.threads[i].maps \subseteq kt.threads[i].maps
  PROVE  BoundsInv'
<1>1. \A p \in ThreadPids : th'[p].num \in Numbers
  BY CreateAssumption DEF BoundsInv, Numbers
<1>2. \A i \in Slots : SmallSet(kt'.threads[i].maps)
  BY SmallerSet DEF BoundsInv
<1>3. (\A i \in Slots : SmallSet(kt.threads[i].maps))'
  BY <1>2 DEF SmallSet
<1> QED BY <1>1, <1>3 DEF BoundsInv

\* Ticks that are in the bounds make a table of contexts one of Contexts.
LEMMA Bounded ==
  ASSUME NEW c \in ContextTable, \A q \in Pids : c[q].ticks_to_sleep \in 0 .. MaxSleep
  PROVE  c \in Contexts
  BY DEF ContextTable, Contexts, States

LEMMA SwitchBounds ==
  ASSUME NEW c \in Contexts, NEW k, MemInv(k), NEW p \in 0 .. NPid, SwitchFrom(c, k, p)
  PROVE  ctx' \in Contexts /\ kt'.threads = k.threads
<1>1. c \in ContextTable
  BY SchedulerAssumption DEF ContextTable, Contexts, States
<1>2. ctx' \in ContextTable /\ kt'.threads = k.threads
  BY <1>1, Switch
<1>3. ctx' = c \/ \E q \in 0 .. NPid : ctx' = SetState(c, q, RUNNING)
  <2>1. PICK next : next = pick_next_context(c, p)
    OBVIOUS
  <2>2. next \in 0 .. NPid
    BY <1>1, <2>1, Picked, SchedulerAssumption DEF Pids, Swapper
  <2> QED BY <2>1, <2>2 DEF SwitchFrom
<1>4. \A q \in Pids : ctx'[q].ticks_to_sleep = c[q].ticks_to_sleep
  BY <1>3 DEF SetState, Contexts
<1>5. \A q \in Pids : ctx'[q].ticks_to_sleep \in 0 .. MaxSleep
  BY <1>4 DEF Contexts
<1> QED BY <1>2, <1>5, Bounded

LEMMA TickBounds ==
  ASSUME Inv, BoundsInv, handle_timer_tick
  PROVE  BoundsInv'
<1>1. PICK d, c : d = do_sleep_and_alarm_account(ctx) /\ c = SetState(d, current, READY)
  OBVIOUS
<1>2. SwitchFrom(c, kt, current) /\ th' = th
  BY <1>1 DEF handle_timer_tick, Ticked
<1>3. c \in ContextTable /\ d \in ContextTable
  BY <1>1, TickStates
<1>4. ASSUME NEW q \in Pids
      PROVE  c[q].ticks_to_sleep \in 0 .. MaxSleep
  <2>1. ctx[q].ticks_to_sleep \in 0 .. MaxSleep
    BY DEF BoundsInv, Contexts
  <2>2. PICK s : d[q] = ctx[q] \/ (/\ ctx[q].ticks_to_sleep > 0
                                   /\ d[q] = [state |-> s, ticks_to_sleep |-> ctx[q].ticks_to_sleep - 1])
    BY <1>1 DEF do_sleep_and_alarm_account
  <2>3. d[q].ticks_to_sleep \in 0 .. MaxSleep
    BY <2>1, <2>2, SchedulerAssumption
  <2>4. c[q].ticks_to_sleep = d[q].ticks_to_sleep
    BY <1>1, <1>3 DEF SetState, ContextTable
  <2> QED BY <2>3, <2>4
<1>5. c \in Contexts
  BY <1>3, <1>4, Bounded
<1>6. ctx' \in Contexts /\ kt'.threads = kt.threads
  BY <1>2, <1>5, SwitchBounds DEF Inv
<1> QED BY <1>2, <1>6, KeptBounds

LEMMA SleepBounds ==
  ASSUME Inv, BoundsInv, NEW p \in Pids, NEW n \in 1 .. MaxSleep, do_sleep(p, n)
  PROVE  BoundsInv'
<1>1. PICK c : c = [ctx EXCEPT ![p] = [state |-> WAITING, ticks_to_sleep |-> n]]
  OBVIOUS
<1>2. c \in Contexts
  <2>1. n \in 0 .. MaxSleep /\ ctx \in Contexts
    BY SchedulerAssumption DEF BoundsInv
  <2> QED BY <1>1, <2>1 DEF Contexts
<1>3. SwitchFrom(c, kt, p) /\ th' = th /\ p \in 0 .. NPid
  BY <1>1, Pid DEF do_sleep
<1>4. ctx' \in Contexts /\ kt'.threads = kt.threads
  BY <1>2, <1>3, SwitchBounds DEF Inv
<1> QED BY <1>3, <1>4, KeptBounds

LEMMA CallBounds ==
  ASSUME Inv, BoundsInv, do_wait_for_thread \/ do_make_thread_ready
  PROVE  BoundsInv'
<1>1. \A q, s : s \in States => SetState(ctx, q, s) \in Contexts
  BY DEF BoundsInv, SetState, Contexts, States
<1>2. PICK c : c = SetState(ctx, Process, WAITING)
  OBVIOUS
<1>3. c \in Contexts /\ th' = th
  BY <1>1, <1>2 DEF States, do_wait_for_thread, do_make_thread_ready
<1>4. (ctx' \in Contexts /\ kt' = kt) \/ SwitchFrom(c, kt, Process)
  BY <1>1, <1>2 DEF do_wait_for_thread, do_make_thread_ready, Reaped, BoundsInv, States
<1>5. ctx' \in Contexts /\ kt'.threads = kt.threads
  BY <1>3, <1>4, Pid, SwitchBounds DEF Inv
<1> QED BY <1>3, <1>5, KeptBounds

LEMMA CloneBounds ==
  ASSUME Inv, BoundsInv, gthread_create_clone
  PROVE  BoundsInv'
<1>1. PICK pid : pid = Min(UnusedPids)
  OBVIOUS
<1>2. pid \in Pids
  <2>1. UnusedPids \in SUBSET Nat /\ UnusedPids # {}
    BY DEF UnusedPids, Pids, gthread_create_clone
  <2> QED BY <1>1, <2>1, LeastNumber DEF UnusedPids
<1>3. PICK e, m : /\ e = [ctx[Process] EXCEPT !.state = READY]
                  /\ m = [at |-> "run", guard |-> FALSE, num |-> made + 1]
  OBVIOUS
<1>4. /\ ctx' = [ctx EXCEPT ![pid] = e] /\ th' = [th EXCEPT ![pid] = m]
      /\ kt' = Cloned(kt, pid) /\ made < MaxCreate /\ FreeSlots(kt) # {}
  BY <1>1, <1>3 DEF gthread_create_clone
<1>5. ctx' \in Contexts
  <2>1. ctx \in Contexts /\ ctx[Process] \in [state : States, ticks_to_sleep : 0 .. MaxSleep]
    BY Pid DEF BoundsInv, Contexts, States
  <2>2. e \in [state : States, ticks_to_sleep : 0 .. MaxSleep]
    BY <1>3, <2>1 DEF States
  <2> QED BY <1>4, <2>1, <2>2 DEF Contexts, States
<1>6. \A p \in ThreadPids : th'[p].num \in Numbers
  <2>1. m.num \in Numbers
    BY <1>3, <1>4, CreateAssumption DEF Inv, Numbers
  <2>2. \A p \in ThreadPids : th'[p] = th[p] \/ th'[p] = m
    BY <1>4 DEF Inv
  <2> QED BY <2>1, <2>2 DEF BoundsInv
<1>7. \A i \in Slots : kt'.threads[i].maps = kt.threads[i].maps
  <2>1. MemInv(kt) /\ kt.threads \in [Slots -> SlotRecords]
    BY DEF Inv, MemInv
  <2>2. PICK i \in Slots \ Used(kt) :
          kt'.threads = [kt.threads EXCEPT ![i].pid = pid, ![i].status = TH_USED]
    BY <1>4, <2>1, GivenSlot
  <2> QED BY <2>1, <2>2 DEF SlotRecords
<1>8. (\A i \in Slots : SmallSet(kt.threads[i].maps))'
  BY <1>7 DEF BoundsInv, SmallSet
<1> QED BY <1>5, <1>6, <1>8 DEF BoundsInv

LEMMA CleanupBounds ==
  ASSUME Inv, BoundsInv, cleanup_all_threads
  PROVE  BoundsInv'
<1>1. PICK c \in ContextTable :
        /\ \E k : SwitchFrom(c, k, Process) /\ Emptied(k)
        /\ \A q \in Pids : c[q].ticks_to_sleep = ctx[q].ticks_to_sleep
  BY CleanupSwitch
<1>2. PICK k : SwitchFrom(c, k, Process) /\ Emptied(k)
  BY <1>1
<1>3. c \in Contexts
  <2>1. \A q \in Pids : c[q].ticks_to_sleep \in 0 .. MaxSleep
    BY <1>1 DEF BoundsInv, Contexts
  <2> QED BY <2>1, Bounded
<1>4. ctx' \in Contexts /\ kt'.threads = k.threads
  BY <1>2, <1>3, Pid, SwitchBounds DEF Emptied
<1>5. \A i \in Slots : kt'.threads[i].maps = {}
  BY <1>2, <1>4 DEF Emptied
<1>6. \A p \in ThreadPids : th'[p].num = 0
  BY DEF cleanup_all_threads, NoThread
<1> QED BY <1>4, <1>5, <1>6, KeptBounds

LEMMA GoneBounds ==
  ASSUME Inv, BoundsInv, NEW p \in ThreadPids, Lives(p), NEW normal, ThreadGone(p, normal)
  PROVE  BoundsInv'
<1>1. PICK c \in ContextTable : /\ SwitchFrom(c, handle_thread_exit(kt, p), p)
                                /\ \A q \in Pids : c[q].ticks_to_sleep = ctx[q].ticks_to_sleep
  BY GoneSwitch
<1>2. PICK k : k = handle_thread_exit(kt, p)
  OBVIOUS
<1>3. c \in Contexts
  <2>1. \A q \in Pids : c[q].ticks_to_sleep \in 0 .. MaxSleep
    BY <1>1 DEF BoundsInv, Contexts
  <2> QED BY <2>1, Bounded
<1>4. MemInv(kt) /\ HasSlot(kt, p) /\ MemInv(k)
  <2>1. MemInv(kt) /\ HasSlot(kt, p)
    BY DEF Inv, Lives
  <2>2. MemInv(k)
    BY <1>2, <2>1, Exited
  <2> QED BY <2>1, <2>2
<1>5. ctx' \in Contexts /\ kt'.threads = k.threads
  BY <1>1, <1>2, <1>3, <1>4, Pid, SwitchBounds
<1>6. \A i \in Slots : k.threads[i].maps \subseteq kt.threads[i].maps
  <2>1. PICK j : k.threads = [kt.threads EXCEPT ![j].status = TH_UNUSED, ![j].maps = {}]
    BY <1>2 DEF handle_thread_exit
  <2>2. kt.threads \in [Slots -> SlotRecords]
    BY <1>4 DEF MemInv
  <2> QED BY <2>1, <2>2 DEF SlotRecords
<1>7. \A q \in ThreadPids : th'[q].num \in {0, th[q].num}
  <2>1. th' = [th EXCEPT ![p] = NoThread] /\ NoThread.num = 0
    BY DEF ThreadGone, NoThread
  <2> QED BY <2>1 DEF Inv
<1> QED BY <1>5, <1>6, <1>7, KeptBounds

LEMMA MallocBounds ==
  ASSUME Inv, BoundsInv, NEW p \in ThreadPids, NEW flags \in Flags, gmalloc(p, flags)
  PROVE  BoundsInv'
<1>1. HasSlot(kt, p) /\ MemInv(kt) /\ UNCHANGED <<ctx, th>>
  BY DEF gmalloc, InFunction, Inv
<1>2. CASE kt' = kt
  BY <1>1, <1>2, KeptBounds DEF BoundsInv
<1>3. CASE kt' # kt
  <2>1. PICK a : a = Min(FreeAreas(kt))
    OBVIOUS
  <2>2. PICK k : k = handle_thread_private_mmap(kt, p, a, flags)
    OBVIOUS
  <2>3. kt' = k /\ Cardinality(MapsOf(p)) < MAX_PRIVATE_AREAS
    BY <1>3, <2>1, <2>2 DEF gmalloc
  <2>4. PICK i \in Used(kt) : i = find_thread_from_pid(kt, p) /\ kt.threads[i].pid = p
    BY <1>1, FoundSlot
  <2>5. PICK maps : maps = With(kt.threads[i].maps, a, flags)
    OBVIOUS
  <2>6. k.threads = Recording(kt.threads, i, maps)
    BY <1>1, <2>2, <2>4, <2>5, OwnMapped
  <2>7. i \in Slots /\ k.threads[i].maps = maps /\ \A j \in Slots \ {i} : k.threads[j] = kt.threads[j]
    <3>1. kt.threads \in [Slots -> SlotRecords] /\ i \in Slots
      BY <1>1, <2>4 DEF MemInv, Used
    <3> QED BY <2>6, <3>1 DEF Recording, SlotRecords
  <2>8. SmallSet(maps)
    <3>1. PICK S, m : S = kt.threads[i].maps /\ m = [start |-> a, flags |-> flags]
      OBVIOUS
    <3>2. maps = S \cup {m}
      BY <2>5, <3>1 DEF With
    <3>3. IsFiniteSet(S) /\ Cardinality(S) < MAX_PRIVATE_AREAS
      BY <2>3, <2>4, <2>7, <3>1 DEF MapsOf, BoundsInv, SmallSet
    <3>4. /\ IsFiniteSet(S \cup {m})
          /\ Cardinality(S \cup {m}) = Cardinality(S) \/ Cardinality(S \cup {m}) = Cardinality(S) + 1
      BY <3>3, FS_AddElement
    <3>5. Cardinality(S) \in Nat
      BY <3>3, FS_CardinalityType
    <3> QED BY <3>2, <3>3, <3>4, <3>5, MemoryAssumption DEF SmallSet
  <2>9. \A j \in Slots : SmallSet(kt'.threads[j].maps)
    BY <2>3, <2>7, <2>8 DEF BoundsInv
  <2>10. (\A j \in Slots : SmallSet(kt.threads[j].maps))'
    BY <2>9 DEF SmallSet
  <2> QED BY <1>1, <2>10 DEF BoundsInv
<1> QED BY <1>2, <1>3

LEMMA UnmapSmaller ==
  ASSUME NEW k, MemInv(k), NEW p, NEW isProcess, NEW a, NEW i \in Slots
  PROVE  vm_area_unmap(k, p, isProcess, a).threads[i].maps \subseteq k.threads[i].maps
<1>1. PICK new, j : new = vm_area_unmap(k, p, isProcess, a) /\ j = UnmapSlot(k, p, isProcess, a)
  OBVIOUS
<1>2. \/ new.threads = k.threads
      \/ new.threads = [k.threads EXCEPT ![j].maps = {m \in @ : m.start # a}]
  BY <1>1 DEF vm_area_unmap, handle_thread_private_unmmap
<1>3. k.threads \in [Slots -> SlotRecords]
  BY DEF MemInv
<1>4. new.threads[i].maps \subseteq k.threads[i].maps
  BY <1>2, <1>3 DEF SlotRecords
<1> QED BY <1>1, <1>4

LEMMA ThreadBounds ==
  ASSUME Inv, BoundsInv, NEW p \in ThreadPids, ThreadStep(p)
  PROVE  BoundsInv'
<1>1. CASE do_exit(p) \/ return_unguarded(p)
  <2>1. Lives(p) /\ (ThreadGone(p, TRUE) \/ ThreadGone(p, FALSE))
    BY <1>1 DEF do_exit, return_unguarded, InFunction, Lives
  <2> QED BY <2>1, GoneBounds
<1>2. CASE gthread_exit(p)
  <2>1. UNCHANGED <<ctx, kt>> /\ th' = [th EXCEPT ![p].at = "result"]
    BY <1>2 DEF gthread_exit
  <2>2. \A q \in ThreadPids : th'[q].num = th[q].num
    BY <2>1 DEF Inv
  <2> QED BY <2>1, <2>2, KeptBounds DEF BoundsInv
<1>3. ASSUME NEW a, NEW n, NEW wr, touch(p, a, n, wr)
      PROVE  BoundsInv'
  <2>1. CASE ThreadGone(p, FALSE)
    BY <1>3, <2>1, GoneBounds DEF touch, InFunction, Lives
  <2>2. CASE kt' = Fixed(kt, a, n) /\ UNCHANGED <<ctx, th>>
    <3>1. PICK threads, mapped, pte : kt = [threads |-> threads, mapped |-> mapped, pte |-> pte]
      BY DEF Inv, MemInv
    <3>2. kt'.threads = kt.threads
      BY <2>2, <3>1 DEF Fixed
    <3> QED BY <2>2, <3>2, KeptBounds DEF BoundsInv
  <2> QED BY <1>3, <2>1, <2>2 DEF touch
<1>4. ASSUME NEW a, gfree(p, a)
      PROVE  BoundsInv'
  <2>1. CASE ThreadGone(p, FALSE)
    BY <1>4, <2>1, GoneBounds DEF gfree, InFunction, Lives
  <2>2. CASE kt' = vm_area_unmap(kt, p, FALSE, a) /\ UNCHANGED <<ctx, th>>
    <3>1. MemInv(kt)
      BY DEF Inv
    <3>2. PICK isProcess : isProcess = FALSE
      OBVIOUS
    <3>3. kt' = vm_area_unmap(kt, p, isProcess, a)
      BY <2>2, <3>2
    <3>4. \A i \in Slots : kt'.threads[i].maps \subseteq kt.threads[i].maps
      BY <3>1, <3>3, UnmapSmaller
    <3> QED BY <2>2, <3>4, KeptBounds DEF BoundsInv
  <2> QED BY <1>4, <2>1, <2>2 DEF gfree
<1> QED BY <1>1, <1>2, <1>3, <1>4, MallocBounds DEF ThreadStep, ThreadEnds

LEMMA ProcessBounds ==
  ASSUME Inv, BoundsInv, gthread_create_guard \/ gthread_join_unmap
  PROVE  BoundsInv'
<1>1. CASE gthread_create_guard
  <2>1. PICK g \in BOOLEAN : th' = [th EXCEPT ![lib.pid].guard = g]
    BY <1>1 DEF gthread_create_guard
  <2>2. \A q \in ThreadPids : th'[q].num = th[q].num
    BY <2>1 DEF Inv
  <2> QED BY <1>1, <2>2, KeptBounds DEF gthread_create_guard, BoundsInv
<1>2. CASE gthread_join_unmap
  <2>1. PICK a, isProcess : isProcess = TRUE /\ kt' = vm_area_unmap(kt, Process, isProcess, a)
    BY <1>2 DEF gthread_join_unmap
  <2>2. MemInv(kt)
    BY DEF Inv
  <2>3. \A i \in Slots : kt'.threads[i].maps \subseteq kt.threads[i].maps
    BY <2>1, <2>2, UnmapSmaller
  <2> QED BY <1>2, <2>3, KeptBounds DEF gthread_join_unmap, BoundsInv
<1> QED BY <1>1, <1>2

LEMMA InitBounds == Init => BoundsInv
<1> SUFFICES ASSUME Init PROVE BoundsInv
  OBVIOUS
<1>1. /\ kt.threads = [i \in Slots |-> [pid |-> 0, status |-> TH_UNUSED, maps |-> {}]]
      /\ ctx = [p \in Pids |-> [state |-> IF p = Process THEN RUNNING ELSE UNUSED,
                                ticks_to_sleep |-> 0]]
      /\ th = [p \in ThreadPids |-> NoThread]
  BY DEF Init, EmptyTables
<1>2. ctx \in Contexts
  BY <1>1, SchedulerAssumption DEF Contexts
<1>3. \A p \in ThreadPids : th[p].num \in Numbers
  BY <1>1, CreateAssumption DEF NoThread, Numbers
<1>4. SmallSet({})
  BY FS_EmptySet, MemoryAssumption DEF SmallSet
<1>5. \A i \in Slots : kt.threads[i].maps = {}
  BY <1>1
<1>6. \A i \in Slots : SmallSet(kt.threads[i].maps)
  BY <1>4, <1>5
<1> QED BY <1>2, <1>3, <1>6 DEF BoundsInv

LEMMA NextBounds == Inv /\ BoundsInv /\ [Next]_vars => BoundsInv'
<1> SUFFICES ASSUME Inv, BoundsInv, [Next]_vars PROVE BoundsInv'
  OBVIOUS
<1>1. CASE UNCHANGED <<ctx, kt, th>>
  BY <1>1, KeptBounds DEF BoundsInv
<1>2. CASE LibraryStep
  <2>1. CASE gthread_create_status \/ gthread_create_pid \/ gthread_join_collect
    BY <1>1, <2>1 DEF gthread_create_status, gthread_create_pid, gthread_join_collect
  <2> QED BY <1>2, <2>1, CallBounds, ProcessBounds DEF LibraryStep
<1>3. CASE ProcessStep
  <2>1. CASE \E i \in Slots : gthread_join(i)
    BY <1>1, <2>1 DEF gthread_join
  <2> QED BY <1>2, <1>3, <2>1, CloneBounds, CleanupBounds DEF ProcessStep
<1>4. CASE handle_timer_tick \/ \E p \in Pids, n \in 1 .. MaxSleep : do_sleep(p, n)
  BY <1>4, TickBounds, SleepBounds
<1>5. CASE UNCHANGED vars
  BY <1>1, <1>5 DEF vars
<1> QED BY <1>3, <1>4, <1>5, ThreadBounds DEF Next

\* The state has its type: no slot records more areas than it has room for, no
\* sleep counts below 0, and every number is that of a thread that was created
\* (context.h, clone_threads.h, gthread.h).
THEOREM TypesOK == Spec => []TypeOK
<1>1. Inv /\ JoinInv /\ PageInv /\ BoundsInv => TypeOK
  <2> SUFFICES ASSUME Inv, JoinInv, PageInv, BoundsInv PROVE TypeOK
    OBVIOUS
  <2>1. ctx \in Contexts /\ current \in 0 .. NPid /\ saved \in Pids
    BY DEF Inv, PageInv, BoundsInv
  <2>2. kt \in Tables(0 .. NPid)
    <3>1. PICK threads, mapped, pte :
            /\ kt = [threads |-> threads, mapped |-> mapped, pte |-> pte]
            /\ threads \in [Slots -> SlotRecords] /\ mapped \subseteq Areas
      BY DEF Inv, MemInv
    <3>2. pte \in [Areas -> [Pages -> Entries]]
      BY <3>1 DEF PageInv, PagesOK
    <3> QED BY <3>1, <3>2 DEF Tables, SlotRecords, Entries
  <2>3. \A i \in Slots : Cardinality(kt.threads[i].maps) <= MAX_PRIVATE_AREAS
    BY DEF BoundsInv, SmallSet
  <2>4. \A i \in Slots :
          /\ tinfo[i].status \in {NEW_ENTRY, TH_STATUS_ALIVE, TH_STATUS_USED}
          /\ tinfo[i].pid \in 0 .. NPid /\ tinfo[i].ret \in Numbers
          /\ tinfo[i].num \in Numbers /\ tinfo[i].areas \subseteq AreaRecords
          /\ tinfo[i].peers \subseteq Numbers
    BY DEF JoinInv, JoinTypes, EntryRecords
  <2>5. lib.entry \in Slots /\ made \in Numbers
    BY DEF JoinInv, JoinTypes, Calls
  <2>6. th \in [ThreadPids -> [at : {"none", "run", "result"}, guard : BOOLEAN, num : Numbers]]
    BY DEF Inv, BoundsInv
  <2> QED BY <2>1, <2>2, <2>3, <2>4, <2>5, <2>6 DEF TypeOK
<1>2. Init => Inv /\ JoinInv /\ PageInv /\ BoundsInv
  BY InitInv, InitJoin, InitPages, InitBounds
<1>3. Inv /\ JoinInv /\ PageInv /\ BoundsInv /\ [Next]_vars
        => Inv' /\ JoinInv' /\ PageInv' /\ BoundsInv'
  BY NextInv, NextJoin, NextPages, NextBounds
<1> QED BY <1>1, <1>2, <1>3, PTL DEF Spec
=============================================================================
