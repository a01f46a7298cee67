---------------------------- MODULE PrivateMemory ----------------------------
(***************************************************************************)
(* The thread table of a process and the pages that are private to its     *)
(* threads: what clone, exit, mmap and munmap record in it, and how the    *)
(* fault handler and the context switch set the permissions of the pages   *)
(* (clone_threads.c, clone_threads_helper.c).                              *)
(*                                                                         *)
(* A value k of the table is a record: threads[i] is a slot, mapped the    *)
(* areas that vm_area has, pte[a][n] the entry of page n of area a.  All   *)
(* areas have the same length, so an area is named by its start.           *)
(***************************************************************************)
EXTENDS Naturals, FiniteSetsExt

CONSTANTS MAX_THREADS, MAX_PRIVATE_AREAS,
          Areas,       \* the addresses an area can have
          AreaPages    \* pages of an area

ASSUME MemoryAssumption ==
    /\ MAX_THREADS \in Nat \ {0} /\ MAX_PRIVATE_AREAS \in Nat \ {0}
    /\ Areas \subseteq Nat \ {0} /\ AreaPages \in Nat

Slots == 1 .. MAX_THREADS
Pages == 1 .. AreaPages

TH_UNUSED == "TH_UNUSED"
TH_USED == "TH_USED"
NOACCESS == "NOACCESS"
RDONLY == "RDONLY"
RDWR == "RDWR"
Flags == {NOACCESS, RDONLY, RDWR}

\* A page-table entry: no page, 0x1, 0x5 or 0x7 in its low bits.
ABSENT == "absent"
SUPERVISOR == "1"
READ == "5"
READWRITE == "7"

Tables(pids) ==
    [threads : [Slots -> [pid : pids, status : {TH_UNUSED, TH_USED},
                          maps : SUBSET [start : Areas, flags : Flags]]],
     mapped : SUBSET Areas,
     pte : [Areas -> [Pages -> {ABSENT, SUPERVISOR, READ, READWRITE}]]]

EmptyTables ==
    [threads |-> [i \in Slots |-> [pid |-> 0, status |-> TH_UNUSED, maps |-> {}]],
     mapped |-> {}, pte |-> [a \in Areas |-> [n \in Pages |-> ABSENT]]]

Starts(maps) == {m.start : m \in maps}
SlotsOf(k, p) == {i \in Slots : k.threads[i].pid = p}
FreeSlots(k) == {i \in Slots : k.threads[i].status = TH_UNUSED}

\* The first slot with this pid, used or not; 0 if there is none.
find_thread_from_pid(k, p) == IF SlotsOf(k, p) = {} THEN 0 ELSE Min(SlotsOf(k, p))

-----------------------------------------------------------------------------
\* Mapping and unmapping.

\* The slot whose mapping the unmap of area a by p removes: the own slot of a
\* thread, any used slot with the area if p is the process; 0 if none.
UnmapSlot(k, p, isProcess, a) ==
    LET own == IF isProcess THEN {i \in Slots : k.threads[i].status = TH_USED}
                            ELSE {find_thread_from_pid(k, p)} \ {0}
        found == {i \in own : a \in Starts(k.threads[i].maps)}
    IN IF found = {} THEN 0 ELSE Min(found)

\* Mutant: the mapping of the owner is not removed.
X_handle_thread_private_unmmap(k, p, isProcess, a) == k.threads

handle_thread_private_unmmap(k, p, isProcess, a) ==
    LET i == UnmapSlot(k, p, isProcess, a)
    IN IF i = 0 THEN k.threads
       ELSE [k.threads EXCEPT ![i].maps = {m \in @ : m.start # a}]

\* A thread that unmaps an area that is mapped but not its own gets a fault.
UnmapFaults(k, p, isProcess, a) ==
    a \in k.mapped /\ ~isProcess /\ UnmapSlot(k, p, isProcess, a) = 0

vm_area_unmap(k, p, isProcess, a) ==
    IF a \notin k.mapped THEN k
    ELSE [threads |-> handle_thread_private_unmmap(k, p, isProcess, a),
          mapped |-> k.mapped \ {a},
          pte |-> [k.pte EXCEPT ![a] = [n \in Pages |-> ABSENT]]]

\* The lowest free address.
FreeAreas(k) == Areas \ k.mapped

\* mmap(MAP_TH_PRIVATE): the area is mapped and recorded for its owner.
handle_thread_private_mmap(k, p, a, flags) ==
    [k EXCEPT !.mapped = @ \cup {a},
              !.threads[find_thread_from_pid(k, p)].maps =
                  @ \cup {[start |-> a, flags |-> flags]}]

-----------------------------------------------------------------------------
\* Creation and end of a thread.

\* do_clone: the first unused slot.
Cloned(k, p) == LET i == Min(FreeSlots(k))
                IN [k EXCEPT !.threads[i].pid = p, !.threads[i].status = TH_USED]

\* Mutant: the areas of the thread stay mapped.
X_handle_thread_exit(k, p) ==
    LET i == find_thread_from_pid(k, p)
    IN [k EXCEPT !.threads[i].status = TH_UNUSED, !.threads[i].maps = {}]

handle_thread_exit(k, p) ==
    LET i == find_thread_from_pid(k, p)
        owned == Starts(k.threads[i].maps)
    IN [threads |-> [k.threads EXCEPT ![i].status = TH_UNUSED, ![i].maps = {}],
        mapped |-> k.mapped \ owned,
        pte |-> [a \in Areas |-> IF a \in owned THEN [n \in Pages |-> ABSENT]
                                                ELSE k.pte[a]]]

-----------------------------------------------------------------------------
\* Permissions.

\* The entry do_page_walk gives a page that is there.
SiblingEntry(flags) == CASE flags = NOACCESS -> SUPERVISOR
                         [] flags = RDONLY -> READ
                         [] flags = RDWR -> READWRITE

\* The pages a walk of the area reaches: it ends at the first that is not there.
Walked(k, a) == {n \in Pages : \A l \in 1 .. n : k.pte[a][l] # ABSENT}

\* The page walks of the areas in `closing' (cur = 1), then in `opening'.
do_page_walk(k, closing, opening) ==
    [a \in Areas |-> [n \in Pages |->
       IF n \in Walked(k, a) /\ a \in Starts(opening) THEN READWRITE
       ELSE IF n \in Walked(k, a) /\ a \in Starts(closing)
         THEN SiblingEntry((CHOOSE m \in closing : m.start = a).flags)
       ELSE k.pte[a][n]]]

\* Mutant: coming from the process, the areas of the siblings stay open.
X_handle_private_ctxswitch(k, cur, next) ==
    LET cth == SlotsOf(k, cur)
        nth == SlotsOf(k, next)
        maps(i) == k.threads[i].maps
    IN IF nth = {} \/ cth = {} THEN k
       ELSE [k EXCEPT !.pte = do_page_walk(k, maps(Max(cth)), maps(Max(nth)))]

\* From context cur to context next.  Of several slots with the pid the last
\* counts, used or not; a switch to the process changes nothing.
handle_private_ctxswitch(k, cur, next) ==
    LET cth == SlotsOf(k, cur)
        nth == SlotsOf(k, next)
        maps(i) == k.threads[i].maps
        closing == IF cth # {} THEN maps(Max(cth))
                   ELSE UNION {maps(i) : i \in {j \in Slots \ SlotsOf(k, next) :
                                                  k.threads[j].status = TH_USED}}
    IN IF nth = {} THEN k
       ELSE [k EXCEPT !.pte = do_page_walk(k, closing, maps(Max(nth)))]

\* May the thread p touch this page (a write if wr) without a fault?
Permits(k, a, n, wr) == k.pte[a][n] \in IF wr THEN {READWRITE} ELSE {READ, READWRITE}

\* The answers of the fault handler (TRUE: fixed) to thread p.  The search
\* ends at the first unused slot: then the index of the area is the one past
\* the end of the slot before, or, before the first slot, not initialised.
\* The read-only test looks at the bit of a present page, not of a write.
handle_thread_private_fault(k, p, a, n) ==
    LET stop == {i \in Slots : \/ k.threads[i].status = TH_UNUSED
                               \/ a \in Starts(k.threads[i].maps)}
        i == Min(stop)
        flags == (CHOOSE m \in k.threads[i].maps : m.start = a).flags
    IN IF a \notin k.mapped \/ stop = {} THEN {FALSE}
       ELSE IF k.threads[i].status = TH_UNUSED THEN IF i = 1 THEN BOOLEAN ELSE {FALSE}
       ELSE {\/ k.threads[i].pid = p
             \/ flags = RDWR
             \/ flags = RDONLY /\ k.pte[a][n] = ABSENT}

\* A fixed fault has a page; the entry of a page that was there is not changed.
Fixed(k, a, n) == [k EXCEPT !.pte[a][n] = IF @ = ABSENT THEN READWRITE ELSE @]
=============================================================================
