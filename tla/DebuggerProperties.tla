------------------------- MODULE DebuggerProperties -------------------------
(***************************************************************************)
(* What the debugger promises, for a debugger process that keeps the       *)
(* assignment's assumptions: one debuggee, that the debugger outlives and  *)
(* waits for only while it lives.                                          *)
(***************************************************************************)
EXTENDS Debugger

ChildLives == state["dbe"] # UNUSED

\* The debugger's calls under the assumptions of the assignment, without those
\* that leave a byte of the code in disagreement with the list (to raise the end
\* flag of another active function than the one stopped at, to set one on a full
\* list or without memory), or patch the instruction the debuggee is stopped at (to
\* remove it, or to set it again but for raising its flag).
Stopped(f) == ChildLives /\ pc = <<f, 0>>
Careful ==
    \/ ~dbg.alive /\ do_become_debugger(TRUE)
    \/ dbg.alive /\ do_fork
    \/ \E f \in Fns, flag \in 0 .. 1 :
         /\ dbg.last_num < MaxNum
         /\ \A i \in Pos(f) : LET raise == dbg.head[i].end_enable = 0 /\ flag = 1
                              IN /\ Stopped(f) => raise
                                 /\ raise /\ OnStack(f) => Stopped(f)
         /\ ~Listed(f) => Len(dbg.head) < MAX_BREAKPOINTS
         /\ do_set_breakpoint(f, flag, TRUE)
    \/ \E f \in Fns : dbg.head # <<>> /\ ~Stopped(f) /\ do_remove_breakpoint(f)
    \/ do_info_breakpoints \/ do_info_registers \/ do_backtrace
    \/ ChildLives /\ do_wait_and_continue
    \/ dbg.forked /\ ~ChildLives /\ debugger_exit

CarefulSpec == Init /\ [][Careful \/ DebuggeeStep \/ handle_timer_tick]_vars
                    /\ WF_vars(DebuggeeStep)

-----------------------------------------------------------------------------
Byte2 == {INT3, PUSHRBP, INSN}

\* Types of the state (struct exec_context, struct debug_info).
TypeOK ==
    /\ state \in [{"dbg", "dbe"} -> {UNUSED, READY, RUNNING, WAITING}]
    /\ current \in {"dbg", "dbe", "swapper", "off"}
    /\ text \in [Addr -> Byte2 \X Byte2]
    /\ pc \in Addr \X (0 .. 2)
    /\ rbp \in 1 .. Len(mem)
    /\ Len(dbg.head) <= MAX_BREAKPOINTS /\ Len(dbg.stack) <= MAX_BACKTRACE
    /\ Len(dbg.backtrace) <= MAX_BACKTRACE
    /\ dbg.minus \in Nat /\ calls \in 0 .. MaxCalls /\ undef \in BOOLEAN

\* Control is with exactly one of the two: when one can run the other waits,
\* so a breakpoint, an exit, a wait or a timer tick between them never leaves
\* both running or both waiting (int3_handler, do_wait_and_continue, do_exit).
OneRuns ==
    (ChildLives /\ state["dbg"] # UNUSED /\ current # "swapper" /\ ~undef) =>
        /\ \E p \in {"dbg", "dbe"} : /\ state[p] \in {READY, RUNNING} /\ current = p
                                     /\ \A q \in {"dbg", "dbe"} \ {p} : state[q] = WAITING

\* Under a careful debugger the INT3 bytes over the code and the breakpoint list
\* agree: a listed function stops at its next call and another one does not,
\* except where the debuggee is between a stop and the instruction after push
\* rbp.  It is the handler that could go wrong here: it puts INT3 back from what
\* it remembers, without a look at the list (debug.c:135, :190).
ArmedIffListed ==
    \A f \in Fns : (dbg.alive /\ pc # <<f, 0>> /\ pc # <<f, 1>> /\ ~undef) =>
                     (text[f][1] = INT3 <=> Listed(f))

\* The return addresses on the stack m, innermost first.
ReturnAddresses(m) ==
    LET upto[i \in 0 .. Len(m)] ==
          IF i = 0 THEN <<>>
          ELSE IF m[i][1] \in Fns \cup {Main} THEN <<m[i]>> \o upto[i - 1]
          ELSE upto[i - 1]
    IN upto[Len(m)]

Chain == ReturnAddresses(mem)

\* In end_handler the function it was planted in has returned already.
Program == INSTANCE CallStack WITH
             Main <- Main,
             chain <- IF pc[1] = EndHandler THEN Tail(Chain) ELSE Chain,
             running <- IF pc[1] = EndHandler THEN Chain[1][1] ELSE pc[1]

\* Careful debugging does not change what the program does: whatever is set,
\* removed and planted on its stack, the debuggee calls and returns as it would
\* alone.
Transparent == Program!Spec

\* At a stop the backtrace is the debuggee's chain of return addresses, with
\* the function's own address before it at an entry, and without planted ones.
BacktraceExact ==
    (ChildLives /\ state["dbe"] = WAITING /\ calls > 0 /\ ~undef) =>
        IF pc[1] = EndHandler THEN dbg.backtrace = Chain
        ELSE dbg.backtrace = <<<<pc[1], 0>>>> \o Chain

Planted == {i \in DOMAIN mem : mem[i] = EHWord}

\* The function on whose frame position i of the stack m is, f being the one
\* that executes: the one that the next return address above it leads into.
Owner(m, f, i) == IF i + 2 <= Len(m) THEN m[i + 2][1] ELSE f

\* Every function that has an end_handler planted has an entry of its own in
\* the handler's stack, with its address and the return address put aside, in
\* the order of the calls: whatever returned, stopped or was raised between,
\* its end finds its own entry, and it is known to be active, so that clearing
\* its end flag is refused (that a removal is refused does not follow: the
\* code tests the flag of another entry of the list).
PlantedRecorded ==
    ~undef => \E at \in [Planted -> DOMAIN dbg.stack] :
        /\ \A i \in Planted : dbg.stack[at[i]] = [start |-> Owner(mem, pc[1], i), ret |-> mem[i - 1]]
        /\ \A i, j \in Planted : i < j => at[i] < at[j]

\* The stack of active functions is never popped below empty.
StackNotBelowEmpty == dbg.minus = 0

\* rdx_change is 8 for every end_handler planted and not yet reached.
RdxChangeCounts ==
    ~undef => dbg.rdx_change =
       8 * (Cardinality(Planted) + IF pc = <<EndHandler, 0>> /\ current = "dbe"
                                      /\ text[EndHandler][1] = INT3 THEN 1 ELSE 0)

\* A debugger that waits for its child gets control back, by a stop or by the
\* child's exit, as long as the CPU executes the child, unless a stop overruns
\* backtrace[] or stack[].
WaitReturns == (state["dbg"] = WAITING) ~> (current = "dbg" \/ undef)
=============================================================================
