-------------------------- MODULE ThreadsProperties --------------------------
(***************************************************************************)
(* What the threads of a process may rely on.                              *)
(***************************************************************************)
EXTENDS Threads

Numbers == 0 .. MaxCreate
AreaRecords == [start : Areas \cup {MAP_ERR}, flags : Flags]

\* Types of the state (struct exec_context, ctx_thread_info,
\* process_thread_info); no table has more areas than it has room for.
TypeOK ==
    /\ ctx \in Contexts /\ current \in 0 .. NPid /\ saved \in Pids
    /\ kt \in Tables(0 .. NPid)
    /\ \A i \in Slots : Cardinality(kt.threads[i].maps) <= MAX_PRIVATE_AREAS
    /\ \A i \in Slots :
         /\ tinfo[i].status \in {NEW_ENTRY, TH_STATUS_ALIVE, TH_STATUS_USED}
         /\ tinfo[i].pid \in 0 .. NPid /\ tinfo[i].ret \in Numbers
         /\ tinfo[i].num \in Numbers /\ tinfo[i].areas \subseteq AreaRecords
         /\ tinfo[i].peers \subseteq Numbers
    /\ lib.entry \in Slots /\ made \in Numbers
    /\ th \in [ThreadPids -> [at : {"none", "run", "result"}, guard : BOOLEAN,
                              num : Numbers]]

\* When gthread_join returns, its thread has ended: neither the exit of another
\* thread nor the rest of a sleep that was cut short ends the wait.
JoinAfterDeath == joined.num = 0 \/ joined.num \notin Living

\* gthread_join never returns the value of a thread that had ended when its own
\* was created, joined or not: at most that of a later thread, or of the one with
\* the entry's old pid, if it exits between the entry's two writes (gthread.c:45, 47).
FreshResult == joined.ret = 0 \/ joined.ret >= joined.num \/ joined.ret \in joined.peers

\* gthread_join returns what its thread passed to gthread_exit, or NULL if it
\* passed nothing (the expected output of the test 2.07).
JoinReturnsOwn == joined.ret \in {0, joined.num}

\* While the library has an entry for another thread, the kernel has a context
\* and a slot for it, whichever threads exited, were killed or were joined: the
\* tables do not drift apart (gthread.c:30, clone_threads.c:111).
CanCreate ==
    (current = Process /\ lib.at = "main" /\ FreeEntries # {}) =>
        UnusedPids # {} /\ FreeSlots(kt) # {}

\* A join returns, if the threads end and the timer ticks.
JoinReturns == (lib.at = "join") ~> (lib.at # "join")

-----------------------------------------------------------------------------
\* Private memory.

\* While a thread runs, the pages of every other are closed to it as it asked,
\* whatever the process, the swapper and the exits did in between, and whatever
\* happened to other areas.  Two kinds are left out, where the code opens pages:
\* an area that was not first touched by its owner, page after page
\* (clone_threads.c:175, and the walk of :8), and the areas of a thread whose
\* pid is still in the slot of a dead one, which the switch takes (:253).
Protected ==
    current \in ThreadPids =>
      \A i \in Slots :
        (/\ kt.threads[i].status = TH_USED /\ kt.threads[i].pid # current
         /\ \A j \in Slots \ {i} : kt.threads[j].pid # kt.threads[i].pid) =>
          \A m \in kt.threads[i].maps, n \in Pages :
            m.start \notin stray =>
              /\ m.flags = NOACCESS => ~Permits(kt, m.start, n, FALSE)
              /\ m.flags = RDONLY => ~Permits(kt, m.start, n, TRUE)

\* In any program the library knows of every mapped area, and the kernel has it
\* for one thread.  Until a library call takes the record of one thread for
\* that of another (gmalloc or gfree that of a predecessor with the same pid,
\* gthread_join the area of a living thread for that of the joined one), both
\* have the same areas for every living thread, also after exits and kills of
\* threads that still held areas.
TablesAgree ==
    /\ kt.mapped \subseteq UNION {Starts(tinfo[i].areas) : i \in Slots}
    /\ \A i, j \in Slots : i # j =>
         Starts(kt.threads[i].maps) \cap Starts(kt.threads[j].maps) = {}
    /\ tidy => {<<kt.threads[i].pid, kt.threads[i].maps>> :
                   i \in {j \in Slots : kt.threads[j].maps # {}}}
                 = {<<tinfo[i].pid, tinfo[i].areas>> :
                       i \in {j \in Slots : tinfo[j].areas # {} /\ tinfo[j].num \in Living}}

\* Mapped private memory has an owner that lives: an exit, a kill, a join or the
\* end of the process leaves none behind, in any program.
NoOrphanArea ==
    kt.mapped = UNION {Starts(kt.threads[i].maps) :
                         i \in {j \in Slots : kt.threads[j].status = TH_USED}}
=============================================================================
