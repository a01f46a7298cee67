# GemOS: a verification project

The repository holds four operating-systems assignments: three extend the
teaching kernel GemOS (`Assignment_2`, `Assignment-3`, `Assignment-4`), one is a
set of ordinary Unix programs (`Assignment1`). This directory models them in
TLA+, checks the models with TLC on small instances, and proves the properties
that matter most with TLAPS for every size. `PROJECT.json` lists the runs, the
theorems, the lines of source behind every definition, the findings, and the
hazards of the code with the properties that cover them.

## 1. The system

| part | source | state | operations | what makes it right |
|---|---|---|---|---|
| pipe | `Assignment_2/190547/src/pipe.c` | a page with 16 slots (pid, two open flags) and a cyclic buffer (length, two positions); a 4096-byte page | create, read, write, close, fork handler | FIFO data; a slot, its flags and the descriptors of its process agree; the page lives as long as an end is open |
| persistent pipe | `Assignment_2/190547/src/ppipe.c` | as above with a read cursor per slot (two fields) | create, read, write, close, fork handler, flush | every reader reads everything at its own pace; flush reclaims just what all have read |
| descriptors and file objects | `Assignment_2/gemOS/src/file.c`, `Assignment-3/src/entry.c` | a table of 16 descriptors per process; file objects with a reference count | read, write, close, dup, dup2, fork and exit loops, standard and regular files, sendfile | the count covers the descriptors; no freed object is referred to; none is lost |
| buffer check | `pipe.c:229-290` | none (reads the process's segments) | is_valid_mem_range | accepts exactly the mapped ranges |
| debugger | `Assignment-3/Submission/src/debug.c` | per debugger: breakpoint list, active-function stack, registers; patched code of the child; states of both processes | become_debugger, set, remove and list breakpoints, wait_and_continue, INT3, fork and exit handlers | exactly one of the two runs; code restored; call stack exact |
| threads, kernel | `Assignment-4/gemOS/src/clone_threads.c`, `Assignment-4/template/clone_threads_helper.c` | thread table, private mappings with owner and flags, page permissions | clone, exit, private mmap/munmap, fault, context switch | a thread touches a private page only as its flags say; no area outlives its owner |
| threads, library | `Assignment-4/gemOS/src/user/gthread.c` | per process: thread table with statuses and return values, allocations | create, exit, join, gmalloc, gfree | join returns once, with the thread's value; slots are reused safely |
| scheduler | `Assignment-3/src/schedule.c` | process states, sleep and alarm counters | pick next, timer tick | a READY process is picked; a sleeper wakes once |
| world cup | `Assignment1/190547/Part3/utils.c`, `wc.c` | host, two group processes, eight team processes, two pipes per team, one per group | spawnTeams, match, teamPlay, endTeam, conductGroupMatches | everyone ends; each side reads what the other wrote; the result is that of the files |
| myTar | `Assignment1/190547/Part2/myTar.c` | an archive of 512-byte blocks | create, extract, extract one, list | extracting what was archived gives it back |
| root, double, square | `Assignment1/190547/Part1` | none | compute, exec the next program | - |

How they interact. A system call of the pipes goes `do_file_read` /
`do_file_write` / `do_close` (entry) -> the handler in the file object's `fops`
(`pipe_read`, ...) -> the pipe's page. `do_fork` copies the descriptor table and
calls `do_file_fork`, which counts a reference per descriptor and calls the
pipe's fork handler for each; `do_exit` calls `do_file_exit`, which calls the
close handler for each. The kernel is not preempted: the timer interrupts user
mode only, so system calls interleave but do not overlap. The debugger and the
threads hook into fork, exit, the fault handlers and the context switch. The
world cup uses real processes, which do run concurrently and block.

What is hard: one state kept twice (descriptor table and slot flags; read_pos
and bytes_read; ref_count and the tables) through fork, exit, close, dup and
reused pids; error returns half way through a handler; cyclic positions at
their limits; hand-over of control between debugger and debuggee; threads that
end before their creator has recorded them; processes that block on pipes whose
other ends they hold themselves.

## 2. The modules

| module | what it is |
|---|---|
| `RingBuffer` | the cyclic memory: the copy loops and the clamp of the four transfer handlers, as pure operators |
| `Pipe` | `pipe.c` with the descriptor layer of `file.c` and `entry.c` |
| `FifoChannel` | what a pipe promises: bounded FIFO channels with ends held by processes |
| `PipeProperties` | the properties of `Pipe`; the refinement mapping to `FifoChannel` |
| `PPipe` | `ppipe.c`: one persistent pipe shared by a family of processes |
| `BroadcastLog` | what a persistent pipe promises: a log that every reader reads in full |
| `PPipeProperties` | the properties of `PPipe`; the refinement mapping to `BroadcastLog` |
| `Debugger` | `debug.c`: debugger, debuggee, the bytes patched into the code and the stack, the hand-over of the CPU |
| `CallStack` | what the debuggee does when nobody debugs it |
| `DebuggerProperties` | the careful debugger, the properties of `Debugger`, the refinement mapping to `CallStack` |
| `DebuggerTests` | the 41 test programs of the assignment and their expected results, run on `Debugger` |
| `Scheduler` | `schedule.c`: the choice of the next context, sleepers, the tick, as operators on the states |
| `PrivateMemory` | the thread table and the private pages: clone, exit, mmap, munmap, fault, context switch |
| `Threads` | the composition: `gthread.c` over `PrivateMemory` and `Scheduler` |
| `ThreadsProperties` | the properties of `Threads` |
| `WorldCup` | host, groups and teams with their pipes |
| `WorldCupProperties` | its properties, and the result of the cup as a function of the files |
| `MCPipe`, `MCPPipe`, `MCDebugger`, `MCWorldCup` | instances for TLC (the `.cfg` files give the sizes; `Threads` needs no module of its own) |
| `RingBuffer_proofs` | lemmas on the cyclic memory: advances add up, what reads and writes around the end give |
| `Pipe_proofs` | types, buffer and reference counts of `Pipe`, for all programs |
| `PipeSlots_proofs` | slots, exact counts and the refinement of `FifoChannel`, for programs without dup |
| `PPipe_proofs` | cursors, reference counts and slots of `PPipe`; that it implements `BroadcastLog` |
| `Debugger_proofs` | the hand-over of control; under a careful debugger the bookkeeping, the backtrace and the refinement of `CallStack` |
| `Threads_proofs` | joins, results, room in the tables, ownership of private memory |
| `ThreadsTables_proofs` | agreement of the two tables of areas, protection of the pages, types |
| `WorldCup_proofs` | teams and matches in step; the winners are those of the files |

Operators named `X_Something` next to an operator `X` (their comments begin with
"Mutant:") are wrong versions of `X`, a plausible slip each; they are used only
to confirm that the property that should notice does.

### Pipe

`files[p][d]` is `exec_context.files`, `filep[f]` the file objects (the fields a
pipe uses), `pipe_per_proc` and `pipe_global` the two halves of `struct
pipe_info`, `allocated` the pipe pages in use. Actions have the names of the C
functions. A system call is one action; the loops of `do_file_fork` and
`do_file_exit` take a step per descriptor, recorded in `kernel`, because the
tables are out of step with the counts and slots between two rounds and because
each round may fail on its own. `pipe_close(p, f, fs)` is used by `do_close`, by
`do_file_exit` and by `fd_dup2`; its early `-EOTHERS` leaves the reference
counted. `create_pipe` allocates everything before it searches for descriptors
and undoes nothing.

`Next` has every call but `dup` and `dup2`; `Duplicate` is these two. `Spec` are
the programs that do not duplicate descriptors, `SpecDup` all of them: most
properties of the slots hold for the first kind only (section 5).

Process creation, the end of a process and page allocation are objects without
source. They are modelled from their use: the child gets the lowest unused pid,
a copied table and then `do_file_fork`; a fork whose file handlers fail leaves
the child in place; an exiting process closes its descriptors and its pid
becomes free.

### PPipe

One persistent pipe; of the tables only `held`, which process has a descriptor
for which end. A fork is one action here: the fork handler has the same effect
for each of the two file objects. An exit closes one end per step. `do_flush_ppipe`
reclaims `r` bytes, the least of the open readers' `bytes_read` and the buffer's
length. The statement `pid == -1;` at `ppipe.c:208` compares; the model keeps the
pid, too, so slots are never freed and are found again by later processes with
the same pid.

### Debugger

A function is its first two bytes and a body; `text[f]` are these bytes, which
debugger and debuggee share. `mem` is the debuggee's stack, word by word, with
return addresses and saved frame pointers, because `int3_handler` pushes the
address of `end_handler` onto it and walks the frames. `pc` is the instruction
pointer, `dbg` is `struct debug_info` (the breakpoint list is `head`, the
functions known to be active are `stack`, `minus` is how far `stack_count` is
below 0). The debuggee is an environment: it calls any function from any site
and returns. `int3_handler` is three actions, after what it tells apart:
`StopAtEntry`, `StopAtEnd` and `Resume`. `handle_timer_tick` is the scheduler as
far as these two processes see it. A call whose effect the code does not define
(a wait for a child that has exited, a removal from an empty list) sets `undef`
and ends the behaviour, and so does a stop that overruns an array: the walk
writes `backtrace[i++]` and the push `stack[stack_count]` without a look at their
64 elements (`debug.c:153`, `:168`), and what lies behind `backtrace[]` is `stack[]`.

`Spec` lets the debugger make any call. `CarefulSpec` are debuggers within the
assignment's assumptions (one child, that the debugger outlives and waits for
only while it lives) that leave out the calls after which the bytes and the list
differ in the code:

- a new breakpoint on a full list, or without memory for it: the call fails, but
  INT3 has been written (`debug.c:297`);
- a removal at the stop of the same function, or another set there, but for one
  that raises its end flag: the resuming handler writes INT3 back (`debug.c:135`);
- raising the end flag of an active function other than the one stopped at: the
  call takes its INT3 away (the branch writes `PUSHRBP`, whoever is stopped where).

Clearing the end flag of an active function away from its stop is allowed, and is
refused by the code. Of the test programs 2.12, 2.19, 2.21 and 2.26 are not
careful; what happens to programs like these is in section 5.

### Scheduler, PrivateMemory, Threads

`Scheduler` and `PrivateMemory` are operators on values: the states of the
contexts, and a record `k` of the thread table, the mapped areas and the page
entries. A system call in `Threads` applies several of them and then gives up
the CPU in one step (`SwitchFrom`), which switches the page permissions too.
The kernel is not interrupted, so a system call is one action; the library runs
in user mode, so each of its system calls and each write that another context may
look at before the next is an action: `gthread_create` is `gthread_create_clone`,
`_status`, `_pid`, `do_make_thread_ready` and `_guard`, in the order of the code,
with timer ticks between any two. `th[p].guard` says whether the return address
of the thread's function is written; before it is, a function that returns jumps
to 0 and is killed (`return_unguarded`).

`num` numbers the threads, which the code does not do: pids and entries are
reused, and the properties tell two threads with one pid apart. Two variables
are notes for the properties, and no step depends on them:

- `stray` holds the areas of which a page was first touched by another thread than
  the owner, or before the pages ahead of it, until they are unmapped. The switch walks the pages of an
  area from the first and stops at one that is not there (`clone_threads.c:8`),
  and a page comes in with full rights whoever touches it, so that these areas
  are not protected in the code. `Protected` leaves out these areas, one by one,
  and the threads whose pid is in a second slot; it holds for all others, in any
  program, whatever other threads do to areas of their own.
- `tidy` is true until a library call takes the record of one thread for that of
  another: a `gmalloc` or `gfree` that finds the entry of a dead predecessor with
  the same pid, or a join whose second unmap meets an area that has an owner again.
  After such a step the tables of kernel and library differ in the code, and
  `TablesAgree` compares them only before it. Exits and kills of threads that
  hold areas, accesses by siblings and pages touched in any order leave it alone.
  That every mapped area is recorded and has one thread is claimed in any program.

`joined` is the thread of the last join and the value it returned, until the
process's next create or join. A join looks for its entry by `tid`, as the code
does, and not at whether the thread has been joined already: a second join
waits for whatever thread has the old pid by then.

### WorldCup

A process per team, group and host. `commpipe[t]` and `matchpipe[t]` are the pipes
to and from a team, `grppipe[g]` the pipe of a group, `run[r]` the position of a
group or the host in its match. Every process holds both ends of every pipe, so a
read of an empty pipe waits for ever. `left` is what the stack holds behind the
one byte that is read into buffers of two: `"1"` followed by something else is not
the message `"1"`, and a digit followed by a digit is another number. The output
files may fail to open; a group for which they do exits with -1.

The innings, tosses and points are in `WorldCup` step by step as in `match`;
`WorldCupProperties` states the result as a function of the files `f` alone: an
innings ends at the least number of balls after which it may (`Ends`), its wickets
and runs are a cardinality and a sum over sets of balls (`Outs`, `Runs`), a match
(`Result`) gives a winner and how far both files are read, a group plays its matches
row by row (`Row`, `Rows`), and the final goes on where the finalists' groups
stopped (`FinalWinner`).

## 3. The runs

| run | instance | question |
|---|---|---|
| `refs` | 3 processes, 2 pipes, 2 descriptors | Do reference counts, slots, pages and descriptors agree when tables run full, creation fails and pids and pages are reused? |
| `fifo` | 2 processes, 1 pipe of 2 bytes, counts to 3 | Is the pipe a bounded FIFO channel, whatever wraps around or is clamped? |
| `dup` | 2 processes, 1 pipe, dup and dup2 | Which guarantees are left when descriptors are duplicated? |
| `log` | 2 processes, 2 bytes, counts to 3 | Is the persistent pipe a broadcast log, and do cursors, references, slots and descriptors agree? |
| `slots` | 3 processes, 2 slots | What is left when forks and closes fail for want of a slot? |
| `debug_careful` | 2 functions, 4 calls, 3 breakpoints set, 2 at a time, a `backtrace[]` of 4 | Do the patched bytes follow the list, are backtraces exact, does the debuggee compute what it would alone, does every wait end? |
| `debug_tests` | 35 of the 41 test programs | Does the model give the results of the `.output` files, and does each program end? |
| `debug_test_remove` | test 2.26 | The disagreement of section 5. |
| `threads_join` | 3 threads, 2 at a time, sleeps of a tick | Does every join return, after its own thread, with no value of a thread that had ended before its own was created, and does the kernel keep room for the next thread? |
| `threads_private` | 3 threads, 2 at a time, 2 areas of 2 pages | In any program: are private pages closed to the siblings at every moment, do kernel and library agree on the areas, is none left behind? |
| `threads_own` | 2 threads | The disagreement of section 5. |
| `worldcup` | two groups of 3 teams, 2 balls, 2 wickets | Do teams and matches stay in step, are the winners those the files determine, does every process end when nothing is wrong? |

The refinements are properties of runs: `ImplementsChannel` (`fifo`),
`ImplementsLog` (`log`), `Transparent` (`debug_careful`).

Bounds. A buffer of two bytes with transfers of up to three has every case of
the copy loops: none, part, full, across the end, clamped on either side. Two
descriptors and two pipes let `create_pipe` fail at both of its searches. Three
processes allow siblings, grandchildren, orphans and a pid that is reused while
others still hold the pipe. `MAX_COUNT` bounds the byte counts a program asks for,
`MAX_REFS` the references that programs with dup lose for good (a fork, dup or
dup2 beyond it is not taken); in the runs without dup it is out of reach. In the
header both kinds of pipe have 16 slots for 6 processes, so a slot is always
free; the checks for a full table are in the code all the same and `slots`
exercises them with fewer slots than processes. Pages are symmetric.

For the debugger, four calls of two functions allow recursion, a call inside a
function that is to stop at its end, two calls in a row after one, and a chain of
calls longer than `MAX_BACKTRACE`, so that the overrun is reached too; `MaxNum`
bounds the breakpoints ever set, `MaxDepth` the words of the stack, and is out of
reach of four calls. The test programs are run with the constants of the code. For the
threads, two slots and three threads make a slot, an entry and a pid be reused
while the thread that had them before is not joined; `MaxSleep` of one tick lets a
sleep be cut short. `threads_join` leaves out memory, `threads_private` sleep:
together they are too many states, and a sleeper differs for the memory from a
thread that waits for the CPU in nothing. In the world cup two balls and two wickets reach each
of the ends of an innings, three teams the second round of the outer loop of the
pairs; the files are four patterns, one of them too short, and the leftovers none,
a team's and a group's.

Deadlock is not checked: when the last process has exited nothing runs, a
debuggee killed by undefined behaviour goes nowhere, and the world cup ends.

Fairness. The pipes need none: their handlers always return and none of them
waits. For the debugger, `WF` of `DebuggeeStep` says that the CPU executes the
process that is current; the debugger itself may do nothing for ever. For the
threads, `WF` of `handle_timer_tick`: the timer does not stop. A program's progress
is by strong fairness, `SF` of `LibraryStep` and of each `ThreadEnds(p)`, because a
context runs only between two ticks: it is not enabled all the time, but again and
again, and some time slice is long enough for its next instruction. `ThreadEnds`
is assumed since a join of a thread that never ends never returns. For the world
cup, `WF` of each process: they run on an operating system that schedules them
fairly, and a process that can go on is not disabled by others.

## 4. What is proved

Every theorem holds for every value of the constants that the named assumptions
allow: any number of processes, slots, descriptors, threads, areas, teams, any
buffer size.

*Pipe* (`SizesAssumption`: sizes are naturals, the buffer is not empty;
`FdsAssumption`, `NullAssumption`).

- `TypeCorrect`, `TypeCorrectDup`: the types, which say also that positions and
  lengths never leave the buffer. `TypeOK` is inductive as it stands, because
  the clamp bounds each transfer by what there is or fits (`ReadType`,
  `WriteType`).
- `BufferCorrect`: `write_pos` is always `buff_len` bytes after `read_pos`. On
  top of the types it is inductive; the step is that two advances add up
  (`AdvanceTwice`, in `RingBuffer_proofs`), which needs that together they go
  round at most once.
- `RefCountNeverShort`, `FilesNeverDangle`: in every program `ref_count` is at
  least the number of descriptors, so none refers to a freed object. The
  invariant is `RefInv`: the counts alone say nothing of the child's descriptors
  that `do_file_fork` has not reached yet, so it adds (`PendingShared`) that
  they are shared with the parent, which holds a counted one. The steps count
  descriptors gained and lost (`HoldersCount`).

*Pipe, programs without dup* (also `EnoughSlots`: a slot for every process;
`MAX_PIPE_PROC` of `pipe.h` is 16, and the `MAX_PROCESSES` of `context.h` leaves 6
pids. With fewer slots forks fail half way, as run `slots` shows for the persistent
pipe).

- `RefCountsExact`, `PipesOutliveDescriptors`, `SlotsHaveDescriptors`,
  `DescriptorEndsOpen`, `SlotsUnique`, `ForksSucceed`: one invariant, since none of
  these is inductive alone. That a close finds its slot needs that the process has
  one descriptor for this end and one slot in the pipe; that the count reaches
  zero with the last descriptor needs that no close and no fork failed; that
  the pipe is removed no sooner than its last file object needs that the ends of
  every slot are those of descriptors. The exception is a `create_pipe` that ran
  out of descriptors: its end stays open in every slot that is ever taken in this
  pipe (`OrphanEndsOpen`), also in those of processes that got the pid of one
  that ended.
- `OnlyCreatesLeak`: the action property, from the same invariant: the step that
  leaves a file object without a descriptor is a `create_pipe` of a process with
  fewer than two free descriptors, and never a close, an exit or a fork, whatever
  else runs short meanwhile.
- `PipesAreChannels`: the refinement of `FifoChannel`, step by step. A fork of the
  model is many steps; the round that finds the child without a slot is the
  channel's `Inherit`, the next one of that pipe a stutter. The close of a
  descriptor, or a round of an exit, is its `Close`. Data rests on two
  lemmas of `RingBuffer_proofs`: what is read from the buffer after a write is what
  was in it followed by what was written, and after a read what was in it without
  its beginning, wherever the positions are.

*Persistent pipe* (`PPipeAssumption`).

- `PPipeTypeCorrect`, `CursorsCorrect`: here the types are not inductive. That a
  read stays within the buffer, and a flush within the counters, rests on the
  cursors, so `CursorsInv` is both together.
- `PPipeRefCountNeverShort`: with any number of slots, also when forks and closes
  fail half way. A fork counts before it searches for a slot; a close that finds
  none leaves the reference.
- `PPipeRefCountExact`, `PPipeSlotsMatch`: assume `EnoughSlots`, at least as many
  slots as processes (16 and 6 in the headers); without it both are false (`slots`
  shows only the weaker bound). `SlotsInv` says why nothing fails then: distinct
  used slots have distinct pids, so a process without one leaves one free.
- `PPipeIsLog`: the refinement of `BroadcastLog`, also from `EnoughSlots`. What the
  two levels share are the positions: `IsPositions` says that a function gives every
  process with the read end the count in its slot, and there is only one such
  function (`CursorsAre`, `CursorsFrom`), so each step has only to show that the
  log's next positions are one. `SlotsInv` makes the slot of a reader its only one;
  `CursorsInv` makes the bytes from `read_pos` those after the first `bytes_read`
  kept (`ReadInside`), and what a flush reclaims the least position. `FreshInv` adds
  that nobody holds an end before the pipe exists; afterwards its pages are never
  freed (`CloseKeepsPages`: the pid of a closed slot stays), so it is created once.

*Debugger.*

- `ControlIsHandedOver`: for any program of debugger and debuggee, also careless
  ones, and any number of breakpoints, up to a call whose effect is undefined.
  `ControlInv` strengthens
  `OneRuns` to the moments when only one of the two lives or the swapper runs,
  about which `OneRuns` says nothing.

*Debugger, careful* (`DebuggerAssumption`: the names of the functions are none of
`main`, `do_end_handler` and the marks of the two other kinds of words; `MAX_BACKTRACE`
is at least 1). Any number of functions, call sites and breakpoints and any size of
the arrays, up to a stop that overruns `backtrace[]` or `stack[]`: no claim is made of
chains of calls that do not fit.

- `DebuggerTypes`, `ArmedAsListed`, `PlantedAreRecorded`, `StackCountNotNegative`,
  `RdxChangeIsExact`: one invariant, `CareInv`, since a step of the debuggee over
  patched code touches all of them. `PlaceInv` is the shape of the debuggee's
  stack, word over word (`Follows`), and what is on its top before each
  instruction: without it a `ret` could take anything for a return address.
  `StageInv` says where the debuggee is while the debugger runs: at its start, at
  a stop, or at its end. That is why no call of the debugger meets it between
  the two bytes of a stop, where the bytes say something else than the list
  (`TextInv`). `DueInv` maps the planted words to entries of the bookkeeping, in
  the order of the stack; the order is what makes the search from the top find
  the right one of two entries with one return address. One more is due, for
  which nothing is on the stack, from the `ret` that takes `end_handler` up to its INT3
  (`Due`). `PlantedRecorded` says what is left of this without the invariant: an
  entry of its own for each planted word, in this order, so that the function is
  known to be active and a clearing of its end flag is refused. That its removal
  is refused does not follow, because the code tests the flag of the entry before
  it in the list (`debug.c:403`).
- `BacktraceIsExact`: `BackInv` says of the last stop what the property says of
  every moment until the next.
  The core is that the walk of `int3_handler` along the saved frame pointers
  visits each return address once (`WalkIsUpto`). The walk and the list of
  return addresses are both defined by recursion, on frames and on words, and are
  compared at the least place where they differ (`LeastNumber`, `UptoFrame`):
  below a frame there is a return address or a planted word on one.
- `DebuggingIsTransparent`: the refinement of `CallStack`, step by step. A `ret` into
  `end_handler` is the return of the program; the `ret` out of it is a stutter,
  as are the stops and everything the debugger does.

*Threads* (`SchedulerAssumption`, `MemoryAssumption`).

- `MemoryHasOwner`: in any program every mapped area is recorded in
  one used slot. The search for a pid looks at unused slots too, and slots keep
  the pids of dead threads, so the invariant has to say (`MemInv`) that no slot
  before a used one has its pid, which follows from where `do_clone` puts a thread
  and from `Known`: used slots are those of contexts that live, so that a new
  pid is in none of them. The disjointness of the slots' areas makes the second
  unmap in `gthread_join` harmless to the other slots.
- `JoinsAfterDeath`, `FreshResults`: in any program. `JoinInv` follows a join
  through its steps: while it waits, its thread is in the entry, or has ended; a
  wait is cut short by an exit only if the exit was that of the thread waited for;
  and what an entry holds as result is of its own thread, of a later one, or of the
  one that lived with the entry's old pid when the entry was made ALIVE. This proof corrected the property: it used to say that a
  result is at least as new as the joined thread. With four creations it is not:
  `gthread_create` makes an entry ALIVE before it stores the new pid
  (`gthread.c:45`, `:47`), so a thread that has the old pid of that entry and exits
  between the two writes leaves its result in the entry of the thread that is
  being created. Run `threads_join` creates three threads and does not reach
  this; `FreshResult` now allows it, and nothing else (`peers` is at most the one
  thread that lived with the entry's old pid then).
- `TablesInStep`: assumes `EnoughContexts`, more contexts than entries
  (`MAX_PROCESSES` is 7 and `MAX_THREADS` 4), without which the library has an entry
  and the kernel no context. Used slots are those of entries that are ALIVE, and
  one for the thread that is being created.
- `RecordsAgree`: in any program a mapped area is recorded in some entry
  (`RecordedInv`) and in one slot at most. While `tidy` holds, whatever areas the
  entry of a living thread or a slot of the kernel records, the other table has
  them for the same thread (`AgreeInv`, `Tells`, `OfLiving`). Entries of dead
  threads may still record areas until their join, and `EmptyInv` says that an entry
  that is free again has none, but for those the join under way has yet to unmap.
  Threads are told apart by their numbers, not their pids: `NumbersInv` says that a
  number is in one entry at most.
- `PagesProtected`: the context switch opens the pages of the thread it switches to
  and closes the others', by a walk that stops at the first page that is not
  there. So `PageInv` says that the present pages of an area that is not stray are
  its first ones (`InOrder`), that only mapped areas have pages (`PagesOK`), that a
  context that lives has a slot (`LiveSlots`), and that the pages of areas that are
  not stray are closed, but for those of one holder and of slots that share their
  pid (`Closed`, `Alone`). The holder is not the thread that runs: the swapper has no page
  table of its own, and keeps that of the thread before it (`Holder`).
- `TypesOK`: rests on all of these: a slot has room for its areas because the
  library counts them (`BoundsInv`).

*World cup* (`WorldCupAssumption`).

- `TeamsInStep`: for any number of teams, balls and wickets, any files and any
  leftovers, and whichever groups fail. `Inv` lists the four situations of a team
  that listens (`TeamInv`), and why they exclude each other's damage: a group
  matches two different teams of its own and has ended none (`GroupInv`), the
  host one of each group that were retained (`HostInv`), and the two groups have
  no team in common. That a group has a leader at all, needed before its losers
  are ended, is the existence of a least upper bound of the points
  (`LeastNumber`, `Leaders`).
- `ResultsExact`: if nothing is left over on the stacks, the winners of the groups
  and of the cup are functions of the files, whatever the order in which eleven
  processes (for 4 teams a group) run. `ResultInv` says where every process is:
  - `DataInv`: what a team has sent is the next score of its file, and all but the
    one in its pipe have been taken (`Taken`);
  - `MatchInv`: a match that began when both teams had read `x` is at its toss, or
    `k` balls into one innings, with the wickets and runs of `k` balls and no end
    before, or over with the two totals, and each team is ahead of `x` by the balls
    played (`Drawn`), the one whose score is read first by one more in between.
    One lemma a step of a match: `MatchAsk`, `MatchRead1`, `MatchRead2` (`TossDecided`,
    `FirstBall`, `SecondBall`), `MatchOpen`, and `MatchResult` for the end;
  - `GroupAt`: points and bytes read are those of the table before the match under
    way (`Before`), which `NextPair` moves on by one `Played` match (`Tables`). The
    steps of others leave it alone (`GroupFrame`), since the groups share no team;
  - `FinalAt`: the final is between the winners the files give, from where their
    groups have taken them.

  The sum over a set (`SumFunctionOnSet`) and the tables (`Row`, `Rows`) are
  recursive functions. The induction theorems of the library cannot be used (they
  take an operator), so that such functions exist at all is proved from `LeastNumber`,
  with one choice of values after the other (`StepsExist`, `SumsExist`, `RowExists`),
  and so is that the order of a sum does not matter (`LeastSet`, `SumsOrder`).

Checked by TLC only: liveness (`WaitReturns`, `TestsEnd`, `JoinReturns`,
`JoinReturnsOwn`, `EveryoneEnds`), which is out of the prover's reach; and
`ResultsAsExpected`, which is about 35 given programs.

## 5. Findings

Two runs end in a violation:

- `debug_test_remove`: the debuggee goes on after a stop through a second INT3,
  whose handler writes INT3 back over the first byte of the function, also when
  the function is not in the list any more (`debug.c:190`). A breakpoint that is
  removed while the debuggee is stopped at it therefore fires again; test 2.26
  expects that it does not.
- `threads_own`: `gthread_exit` stores its value in every entry that is ALIVE with
  its pid (`gthread.c:61`). A thread that ends before it is joined leaves its pid
  to the next; the exit of that one overwrites the value, and the join of the
  first returns it.

Disagreements met while modelling that the models show, for which no run is
listed:

- Tests 1.03, 2.12, 2.19, 2.28 and 4.05 are not passed either, and are left out of
  `debug_tests`. In 1.03 the debugger waits without a child and is never woken. In
  2.12 and 2.19 a change of the end flag is refused, but INT3 is written first
  (`debug.c:297`), so that the function at which the debuggee is stopped stops
  once more. 2.28 and 4.05 wait once more after the child's exit: the CPU goes to
  a context that has been freed (`debug.c:484`), of which nothing is defined.
- A chain of calls deeper than `backtrace[]` overruns it at the next stop
  (`debug.c:156`).
- After `dup`, closing one descriptor closes that end for the process; the other
  descriptor's close then meets a closed end, or no slot and `-EOTHERS`.
  `pipe.c:189` assumes this cannot happen. For the same reason the pipe may be
  freed while a duplicated descriptor is still open.
- `create_pipe` that fails for want of a descriptor leaves a pipe with an end
  nobody can close; it is never removed (`pipe.c:209` says it is).
- A persistent pipe is never deleted (`ppipe.c:208` against the comment at
  `ppipe.c:181`).
- The host compares the status of `waitpid` with -1, which the status of `exit(-1)`
  is not (`utils.c:369`): it does not notice that a group failed, and waits for
  ever for its winner.
- The messages of the world cup are one byte read into two; the second is not
  initialised (`utils.c:44`).
- The handler of a private page fault looks for the owner only up to the first
  unused slot, and its read-only test looks at the wrong bit (`clone_threads.c:145`,
  `:175`); the context switch takes the last slot with a pid, used or not
  (`:253`); `gmalloc` takes the -1 of a full table for an address, and the entry of
  a dead thread with its pid for its own (`gthread.c:139`); the second unmap of a
  join may take an area that belongs to a living thread by then (`:99`). What
  `Protected` and the last part of `TablesAgree` leave out, `stray` and `tidy` of
  section 2, is just these.

## 6. Limits

- Memory is never exhausted; `FileIds` and `PipeIds` only bound the pages.
- A freed page is handed out again as a page of the same kind, with its old
  contents. After `dup`, a descriptor may refer to a freed pipe; what another
  kind of page would do to it is not modelled.
- The standard descriptors stay open and hold no pipe.
- Whether a user buffer is valid is a free choice.
- `PPipe` has one persistent pipe, and does not run out of descriptors.
- One debuggee, which does not fork. Its code is reduced to the two bytes the
  debugger patches; of its registers the instruction, stack and frame pointers
  are kept. A dereferenced missing `dbg` is undefined behaviour. A process calls
  `become_debugger` once and with an `end_handler`, as every test does; the calls
  with NULL, or a second time, are left out, and so is a second child.
- One process with threads. It touches no private page itself; areas have one
  length; `gmalloc`, `gfree` and `gthread_exit` are one action each. So a kernel
  mmap or munmap and the library's writes after it are one step: a tick between
  them, in which an address just unmapped may be given to another thread while
  the first one's entry still has it, is left out. The areas an entry records are a set: two
  failed maps (address -1) with the same flags are one element of it. A join is
  given a tid that some entry has. Alarms are left out.
- World cup: the text of the output files is left out; `fork` and `pipe` do not
  fail; a team file that is missing is a short one; the byte behind the winner
  that the host reads is no digit.

## 7. Not modelled

- The user buffer check (`is_valid_mem_range`): a few comparisons without state.
- Standard and regular files, `sendfile`: the disk calls they make are objects
  without source; of what they share with pipes, the counts and tables are in
  `Pipe`.
- `myTar`, `root`, `double`, `square`: sequential programs on strings and blocks,
  with no state between two calls.
- The rest of `entry.c` (dispatch, exec, signals), boot code, the user library and
  the kernel parts without source: dispatch, assembly and calls into objects. What
  the models need of them is marked external in `PROJECT.json`.
- The unfilled templates of the assignments.
