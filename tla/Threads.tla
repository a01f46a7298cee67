------------------------------- MODULE Threads -------------------------------
(***************************************************************************)
(* One process with its threads: the thread library (gthread.c) over the   *)
(* system calls (clone_threads.c, clone_threads_helper.c) and the          *)
(* scheduler.  A system call is one action, because the kernel is not      *)
(* interrupted; a library function is one action per system call, and one  *)
(* per write that another context may look at before the next write, since *)
(* a timer tick can fall between any two.                                  *)
(***************************************************************************)
EXTENDS Scheduler, PrivateMemory

CONSTANT MaxCreate   \* bound on the threads created

ASSUME CreateAssumption == MaxCreate \in Nat

Process == 1
ThreadPids == Pids \ {Process}

NEW_ENTRY == "NEW_ENTRY"   \* status 0 of an entry never used
TH_STATUS_ALIVE == "TH_STATUS_ALIVE"
TH_STATUS_USED == "TH_STATUS_USED"
MAP_ERR == 0               \* the address -1; the areas start at 1

VARIABLES saved,    \* the last context that ran before the swapper
          kt,       \* ctx_threads and the page table
          tinfo,    \* the library's thread table (tid i - 1 is entry i), with
                    \* the number of each thread, and of the one that had the
                    \* entry's old pid when the entry was made
          lib,      \* the process's position in a library call
          th,       \* the position of each thread in its function
          made,     \* threads created so far; a thread is named by its number
          joined,   \* the thread of the last join and the value it returned, until
                    \* the process's next call
          tidy,     \* no library call so far took the record of one thread for
                    \* that of another
          stray     \* the mapped areas of which a page was first touched by
                    \* another thread than the owner, or before the pages ahead of it

vars == <<ctx, current, saved, kt, tinfo, lib, th, made, joined, tidy, stray>>

NoThread == [at |-> "none", guard |-> FALSE, num |-> 0]
AtMain == [at |-> "main", entry |-> 1, pid |-> 0]
NoJoin == [num |-> 0, ret |-> 0, peers |-> {}]

\* The process runs and has no thread yet.
Init ==
    /\ ctx = [p \in Pids |-> [state |-> IF p = Process THEN RUNNING ELSE UNUSED,
                              ticks_to_sleep |-> 0]]
    /\ current = Process /\ saved = Process
    /\ kt = EmptyTables
    /\ tinfo = [i \in Slots |-> [status |-> NEW_ENTRY, pid |-> 0, ret |-> 0,
                                 areas |-> {}, num |-> 0, peers |-> {}]]
    /\ lib = AtMain
    /\ th = [p \in ThreadPids |-> NoThread]
    /\ made = 0 /\ joined = NoJoin
    /\ tidy = TRUE /\ stray = {}

-----------------------------------------------------------------------------
\* Giving up the CPU.

\* The tables after the switch from p to next; from the swapper it is the
\* switch from the context that ran before the swapper.
Switched(k, p, next) ==
    LET from == IF p = Swapper THEN saved ELSE p
    IN IF next = Swapper \/ from = next THEN k
       ELSE handle_private_ctxswitch(k, from, next)

\* The states are c, the tables k, p runs: schedule the next context.
SwitchFrom(c, k, p) ==
    LET next == pick_next_context(c, p)
    IN /\ current' = next
       /\ saved' = IF next = Swapper /\ p # Swapper THEN p ELSE saved
       /\ IF next = p THEN ctx' = c /\ kt' = k
          ELSE /\ ctx' = SetState(c, next, RUNNING)
               /\ kt' = Switched(k, p, next)

handle_timer_tick ==
    /\ SwitchFrom(Ticked(ctx, current), kt, current)
    /\ UNCHANGED <<tinfo, lib, th, made, joined, tidy, stray>>

\* sleep(n), of the process or a thread.
do_sleep(p, n) ==
    /\ current = p
    /\ IF p = Process THEN lib.at = "main" ELSE th[p].at = "run"
    /\ SwitchFrom([ctx EXCEPT ![p] = [state |-> WAITING, ticks_to_sleep |-> n]], kt, p)
    /\ UNCHANGED <<tinfo, lib, th, made, joined, tidy, stray>>

\* Mutant: the exit does not wake the process.
X_ThreadGone(p, normal) ==
    /\ th' = [th EXCEPT ![p] = NoThread]
    /\ SwitchFrom(SetState(ctx, p, IF normal THEN UNUSED ELSE EXITING),
                  handle_thread_exit(kt, p), p)

\* do_exit of thread p: its areas are unmapped, its slot is free, the process
\* is READY whatever it waited for.  A context that was killed is EXITING.
ThreadGone(p, normal) ==
    /\ th' = [th EXCEPT ![p] = NoThread]
    /\ SwitchFrom(SetState(SetState(ctx, p, IF normal THEN UNUSED ELSE EXITING),
                           Process, READY),
                  handle_thread_exit(kt, p), p)

MapsOf(p) == kt.threads[find_thread_from_pid(kt, p)].maps

\* What was touched in an area counts until it is unmapped.
StrayKept == stray' = stray \cap kt'.mapped

-----------------------------------------------------------------------------
\* The process: gthread_create, in the order of its calls and writes.

FreeEntries == {i \in Slots : tinfo[i].status # TH_STATUS_ALIVE}
UnusedPids == {p \in Pids : ctx[p].state = UNUSED}

\* The living thread, if any, that has the pid entry i still holds.
Peers(i) == {th[p].num : p \in {q \in ThreadPids : th[q].at # "none" /\ q = tinfo[i].pid}}

\* The numbers of the threads that have not ended.
Living == {th[p].num : p \in {q \in ThreadPids : th[q].at # "none"}}

\* do_clone copies the process's context and makes the copy READY at once.
gthread_create_clone ==
    /\ current = Process /\ lib.at = "main" /\ made < MaxCreate
    /\ FreeEntries # {} /\ UnusedPids # {} /\ FreeSlots(kt) # {}
    /\ LET pid == Min(UnusedPids)
       IN /\ ctx' = [ctx EXCEPT ![pid] = [ctx[Process] EXCEPT !.state = READY]]
          /\ kt' = Cloned(kt, pid)
          /\ th' = [th EXCEPT ![pid] = [at |-> "run", guard |-> FALSE, num |-> made + 1]]
          /\ lib' = [at |-> "cloned", entry |-> Min(FreeEntries), pid |-> pid]
          /\ made' = made + 1
    /\ joined' = NoJoin
    /\ UNCHANGED <<current, saved, tinfo, tidy, stray>>

gthread_create_status ==
    /\ current = Process /\ lib.at = "cloned"
    /\ tinfo' = [tinfo EXCEPT ![lib.entry].status = TH_STATUS_ALIVE,
                              ![lib.entry].num = made, ![lib.entry].peers = Peers(lib.entry)]
    /\ lib' = [lib EXCEPT !.at = "named"]
    /\ UNCHANGED <<ctx, current, saved, kt, th, made, joined, tidy, stray>>

gthread_create_pid ==
    /\ current = Process /\ lib.at = "named"
    /\ tinfo' = [tinfo EXCEPT ![lib.entry].pid = lib.pid]
    /\ lib' = [lib EXCEPT !.at = "recorded"]
    /\ UNCHANGED <<ctx, current, saved, kt, th, made, joined, tidy, stray>>

do_make_thread_ready ==
    /\ current = Process /\ lib.at = "recorded"
    /\ ctx' = IF ctx[lib.pid].state \in {EXITING, UNUSED} THEN ctx
              ELSE SetState(ctx, lib.pid, READY)
    /\ lib' = [lib EXCEPT !.at = "ready"]
    /\ UNCHANGED <<current, saved, kt, tinfo, th, made, joined, tidy, stray>>

\* The return address of the thread's function.
gthread_create_guard ==
    /\ current = Process /\ lib.at = "ready"
    /\ th' = [th EXCEPT ![lib.pid].guard = (th[lib.pid].at # "none")]
    /\ lib' = AtMain
    /\ UNCHANGED <<ctx, current, saved, kt, tinfo, made, joined, tidy, stray>>

-----------------------------------------------------------------------------
\* The process: gthread_join.

\* An entry has its tid from its first thread on, and 0 before, like the first
\* entry; whether the thread has been joined already is not looked at.
gthread_join(i) ==
    /\ current = Process /\ lib.at = "main" /\ (tinfo[i].status # NEW_ENTRY \/ i = 1)
    /\ lib' = [at |-> "join", entry |-> i, pid |-> tinfo[i].pid]
    /\ joined' = NoJoin
    /\ UNCHANGED <<ctx, current, saved, kt, tinfo, th, made, tidy, stray>>

\* There is no thread p to wait for; pid 0 is that of an entry never used.
Gone(p) == p \in Pids => ctx[p].state \in {UNUSED, EXITING}

\* Mutant: the context of a killed thread stays EXITING.
X_Reaped(p) == ctx

\* The context of a killed thread is reclaimed by the wait for it.
Reaped(p) == SetState(ctx, p, UNUSED)

\* Mutant: the join does not wait again when it is woken.
X_AfterWait == [lib EXCEPT !.at = "collect"]

\* gthread_join calls wait_for_thread until there is nothing to wait for.
AfterWait == lib

do_wait_for_thread ==
    /\ current = Process /\ lib.at = "join"
    /\ \/ /\ Gone(lib.pid)
          /\ ctx' = Reaped(lib.pid)
          /\ lib' = [lib EXCEPT !.at = "collect"]
          /\ UNCHANGED <<current, saved, kt>>
       \/ /\ ~Gone(lib.pid)
          /\ SwitchFrom(SetState(ctx, Process, WAITING), kt, Process)
          /\ lib' = AfterWait
    /\ UNCHANGED <<tinfo, th, made, joined, tidy, stray>>

\* Mutant: the value stays in the entry.
X_Collected(i) == [tinfo EXCEPT ![i].status = TH_STATUS_USED]

Collected(i) == [tinfo EXCEPT ![i].status = TH_STATUS_USED, ![i].ret = 0]

gthread_join_collect ==
    /\ current = Process /\ lib.at = "collect"
    /\ tinfo' = Collected(lib.entry)
    /\ joined' = [num |-> tinfo[lib.entry].num, ret |-> tinfo[lib.entry].ret,
                  peers |-> tinfo[lib.entry].peers]
    /\ lib' = IF tinfo[lib.entry].areas = {} THEN AtMain ELSE [lib EXCEPT !.at = "unmap"]
    /\ UNCHANGED <<ctx, current, saved, kt, th, made, tidy, stray>>

\* The areas recorded for the thread are unmapped once more, one call each.
gthread_join_unmap ==
    /\ current = Process /\ lib.at = "unmap"
    /\ \E m \in tinfo[lib.entry].areas :
         /\ kt' = vm_area_unmap(kt, Process, TRUE, m.start)
         /\ tinfo' = [tinfo EXCEPT ![lib.entry].areas = @ \ {m}]
         /\ lib' = IF tinfo[lib.entry].areas = {m} THEN AtMain ELSE lib
         /\ tidy' = (tidy /\ m.start \notin kt.mapped)
    /\ StrayKept
    /\ UNCHANGED <<ctx, current, saved, th, made, joined>>

\* The process ends; the threads with a slot end with it.
cleanup_all_threads ==
    /\ current = Process /\ lib.at = "main"
    /\ LET gone == {kt.threads[i].pid : i \in Slots \ FreeSlots(kt)}
           owned == UNION {Starts(kt.threads[i].maps) : i \in Slots \ FreeSlots(kt)}
           c == [p \in Pids |-> IF p = Process \/ p \in gone
                                THEN [ctx[p] EXCEPT !.state = UNUSED] ELSE ctx[p]]
           k == [threads |-> [i \in Slots |-> [kt.threads[i] EXCEPT !.status = TH_UNUSED,
                                                                    !.maps = {}]],
                 mapped |-> kt.mapped \ owned,
                 pte |-> [a \in Areas |-> IF a \in owned THEN [n \in Pages |-> ABSENT]
                                                         ELSE kt.pte[a]]]
       IN SwitchFrom(c, k, Process)
    /\ th' = [p \in ThreadPids |-> NoThread]
    /\ StrayKept
    /\ UNCHANGED <<tinfo, lib, made, joined, tidy>>

-----------------------------------------------------------------------------
\* A thread: memory of its own.

\* The entries of the library that say they are of thread p.
EntriesOf(p) == {i \in Slots : tinfo[i].status = TH_STATUS_ALIVE /\ tinfo[i].pid = p}

InFunction(p) == current = p /\ p # Swapper /\ p # Process /\ th[p].at = "run"

\* A thread whose entry is not yet written gets NULL, and so does one whose
\* entry is full.  If the kernel's table is full, mmap answers -1, which is
\* not NULL and is recorded as the start of an area.
gmalloc(p, flags) ==
    /\ InFunction(p) /\ EntriesOf(p) # {} /\ FreeAreas(kt) # {}
    /\ LET i == Min(EntriesOf(p))
           room == Cardinality(MapsOf(p)) < MAX_PRIVATE_AREAS
           a == IF room THEN Min(FreeAreas(kt)) ELSE MAP_ERR
       IN /\ Cardinality(tinfo[i].areas) < MAX_PRIVATE_AREAS
          /\ kt' = IF room THEN handle_thread_private_mmap(kt, p, a, flags) ELSE kt
          /\ tinfo' = [tinfo EXCEPT ![i].areas = @ \cup {[start |-> a, flags |-> flags]}]
          /\ tidy' = (tidy /\ tinfo[i].num = th[p].num)
          /\ stray' = stray \ {a}
    /\ UNCHANGED <<ctx, current, saved, lib, th, made, joined>>

\* The first entry with the address counts, and its pid has to be the caller's.
gfree(p, a) ==
    /\ InFunction(p)
    /\ LET found == {i \in Slots : a \in Starts(tinfo[i].areas)}
           i == Min(found)
       IN /\ found # {} /\ tinfo[i].pid = p
          /\ IF UnmapFaults(kt, p, FALSE, a)
             THEN ThreadGone(p, FALSE) /\ UNCHANGED <<tinfo, tidy>>
             ELSE /\ kt' = vm_area_unmap(kt, p, FALSE, a)
                  /\ tinfo' = [tinfo EXCEPT ![i].areas = {m \in @ : m.start # a}]
                  /\ tidy' = (tidy /\ tinfo[i].num = th[p].num)
                  /\ UNCHANGED <<ctx, current, saved, th>>
    /\ StrayKept
    /\ UNCHANGED <<lib, made, joined>>

\* Thread p touches page n of area a without permission.
touch(p, a, n, wr) ==
    /\ InFunction(p) /\ ~Permits(kt, a, n, wr)
    /\ \/ /\ TRUE \in handle_thread_private_fault(kt, p, a, n)
          /\ kt' = Fixed(kt, a, n)
          /\ stray' = IF \/ kt.pte[a][n] # ABSENT
                         \/ a \in Starts(MapsOf(p)) /\ 1 .. n - 1 \subseteq Walked(kt, a)
                      THEN stray ELSE stray \cup {a}
          /\ UNCHANGED <<ctx, current, saved, th>>
       \/ /\ FALSE \in handle_thread_private_fault(kt, p, a, n)
          /\ ThreadGone(p, FALSE) /\ StrayKept
    /\ UNCHANGED <<tinfo, lib, made, joined, tidy>>

-----------------------------------------------------------------------------
\* A thread: its end.

\* gthread_exit, called by the function or by call_exit when it returns,
\* stores the value in every entry that says it is of this thread.
gthread_exit(p) ==
    /\ InFunction(p)
    /\ tinfo' = [i \in Slots |-> IF i \in EntriesOf(p)
                                 THEN [tinfo[i] EXCEPT !.ret = th[p].num] ELSE tinfo[i]]
    /\ th' = [th EXCEPT ![p].at = "result"]
    /\ UNCHANGED <<ctx, current, saved, kt, lib, made, joined, tidy, stray>>

\* exit(0) at the end of gthread_exit.
do_exit(p) ==
    /\ current = p /\ p # Swapper /\ p # Process /\ th[p].at = "result"
    /\ ThreadGone(p, TRUE) /\ StrayKept
    /\ UNCHANGED <<tinfo, lib, made, joined, tidy>>

\* The function returns before its return address is there: a jump to 0.
return_unguarded(p) ==
    /\ InFunction(p) /\ ~th[p].guard
    /\ ThreadGone(p, FALSE) /\ StrayKept
    /\ UNCHANGED <<tinfo, lib, made, joined, tidy>>

-----------------------------------------------------------------------------
\* The rest of a library call of the process, once begun.
LibraryStep ==
    \/ gthread_create_status \/ gthread_create_pid \/ do_make_thread_ready
    \/ gthread_create_guard
    \/ do_wait_for_thread \/ gthread_join_collect \/ gthread_join_unmap

ProcessStep ==
    \/ gthread_create_clone
    \/ \E i \in Slots : gthread_join(i)
    \/ LibraryStep
    \/ cleanup_all_threads

ThreadEnds(p) == gthread_exit(p) \/ do_exit(p) \/ return_unguarded(p)

ThreadStep(p) ==
    \/ \E flags \in Flags : gmalloc(p, flags)
    \/ \E a \in Areas : gfree(p, a)
    \/ \E a \in Areas, n \in Pages, wr \in BOOLEAN : touch(p, a, n, wr)
    \/ ThreadEnds(p)

Next ==
    \/ handle_timer_tick
    \/ \E p \in Pids, n \in 1 .. MaxSleep : do_sleep(p, n)
    \/ ProcessStep
    \/ \E p \in ThreadPids : ThreadStep(p)

\* The timer does not stop; whoever gets the CPU again and again gets on with
\* its library call, and a thread with the end of its function.
Fairness ==
    /\ WF_vars(handle_timer_tick)
    /\ SF_vars(LibraryStep)
    /\ \A p \in ThreadPids : SF_vars(ThreadEnds(p))

Spec == Init /\ [][Next]_vars /\ Fairness
=============================================================================
