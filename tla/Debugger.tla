------------------------------ MODULE Debugger ------------------------------
(***************************************************************************)
(* The debugger of gemOS: the debugger process and its one debuggee, the   *)
(* INT3 bytes written over the code both share, the stack of the debuggee  *)
(* and the bookkeeping of struct debug_info (Assignment-3/Submission,      *)
(* debug.c; fork and exit in Assignment-3/src/entry.c).                    *)
(*                                                                         *)
(* A function's code is its first two bytes (push rbp, and the first byte  *)
(* of what follows) and a body.  The stack is a sequence of words that     *)
(* grows to the right, and rbp is an index into it.  The body of a         *)
(* function is any sequence of calls: the debuggee is the environment.     *)
(***************************************************************************)
EXTENDS Integers, Sequences, SequencesExt, FiniteSets

CONSTANTS Fns,              \* functions of the debuggee, main excepted
          Sites,            \* call sites of a function
          MAX_BREAKPOINTS, MAX_BACKTRACE,
          MaxDepth,         \* bound: words on the debuggee's stack
          MaxCalls,         \* bound: calls the debuggee makes
          MaxNum            \* bound: breakpoints ever set

Main == "main"
EndHandler == "do_end_handler"
Addr == Fns \cup {Main, EndHandler}
END_ADDR == <<"crt", 0>>                \* the return address of main
EHWord == <<EndHandler, 0>>             \* end_handler as a word on the stack
FrameWord(r) == <<"rbp", r>>            \* a saved frame pointer

\* Functions have addresses of their own.
ASSUME DebuggerAssumption ==
  /\ Fns \cap {Main, EndHandler, END_ADDR[1], FrameWord(0)[1]} = {}
  /\ MAX_BREAKPOINTS \in Nat /\ MAX_BACKTRACE \in Nat \ {0}
  /\ MaxDepth \in Nat /\ MaxCalls \in Nat /\ MaxNum \in Nat

UNUSED == "UNUSED"
READY == "READY"
RUNNING == "RUNNING"
WAITING == "WAITING"
INT3 == "INT3"
PUSHRBP == "PUSHRBP"
INSN == "INSN"

VARIABLES state,    \* exec_context.state of "dbg" and "dbe"
          current,  \* who runs: "dbg", "dbe", "swapper", or "off"
          dbg,      \* the debugger's struct debug_info
          text,     \* the two first bytes of each function
          pc,       \* the debuggee's rip: <<function, offset>>, 2 is the body
          mem, rbp, \* the debuggee's stack and frame pointer
          res,      \* the last result handed to the debugger: <<call, value>>
          calls,    \* number of calls made by the debuggee
          undef     \* a call whose effect the code does not define was made

vars == <<state, current, dbg, text, pc, mem, rbp, res, calls, undef>>
debuggee == <<pc, mem, rbp, calls>>

NoDbg == [alive |-> FALSE, head |-> <<>>, last_num |-> 0, stack |-> <<>>,
          minus |-> 0, backtrace |-> <<>>, nxt_instr |-> INSN, rdx_change |-> 0,
          regs |-> <<>>, forked |-> FALSE]

Init == /\ state = [p \in {"dbg", "dbe"} |-> IF p = "dbg" THEN RUNNING ELSE UNUSED]
        /\ current = "dbg"
        /\ dbg = NoDbg
        /\ text = [f \in Addr |-> <<PUSHRBP, INSN>>]
        /\ pc = <<Main, 2>> /\ mem = <<END_ADDR, FrameWord(0)>> /\ rbp = 2
        /\ res = <<"start", 0>> /\ calls = 0 /\ undef = FALSE

-----------------------------------------------------------------------------
Dbg == current = "dbg" /\ ~undef
Dbe == current = "dbe" /\ ~undef

\* schedule: the process becomes RUNNING, whatever its state was.
Switch(from, st, to) ==
    /\ state' = [state EXCEPT ![from] = st, ![to] = RUNNING]
    /\ current' = to

Undefined == undef' = TRUE /\ UNCHANGED <<state, current, dbg, text, debuggee, res>>

Return(op, v) == res' = <<op, v>> /\ UNCHANGED <<state, current, debuggee, undef>>

\* Calls of the debugger, in the order of debug.c.  It becomes one once, and with
\* an end_handler, which the test programs always pass.
do_become_debugger(alloc) ==
    /\ Dbg
    /\ IF alloc
       THEN /\ dbg' = [NoDbg EXCEPT !.alive = TRUE]
            /\ text' = [text EXCEPT ![EndHandler][1] = INT3]
            /\ Return("become", 0)
       ELSE dbg' = NoDbg /\ UNCHANGED text /\ Return("become", -1)

\* The child waits until the debugger does; its pid is kept in dbg.
debugger_on_fork == /\ state' = [state EXCEPT !["dbe"] = WAITING]
                    /\ dbg' = [dbg EXCEPT !.forked = TRUE]

\* The parent's dbg is dereferenced without a test.
do_fork ==
    /\ Dbg /\ state["dbe"] = UNUSED /\ ~dbg.forked
    /\ \/ /\ dbg.alive
          /\ debugger_on_fork
          /\ res' = <<"fork", "pid">>
          /\ UNCHANGED <<current, text, debuggee, undef>>
       \/ ~dbg.alive /\ Undefined

Pos(f) == {i \in DOMAIN dbg.head : dbg.head[i].addr = f}
Listed(f) == Pos(f) # {}
OnStack(f) == \E i \in DOMAIN dbg.stack : dbg.stack[i].start = f

\* Mutant: set_breakpoint does not care which functions are active.
X_do_set_breakpoint(f, flag, alloc) ==
    /\ Dbg /\ dbg.alive
    /\ text' = [text EXCEPT ![f][1] = INT3]
    /\ IF Listed(f)
       THEN /\ dbg' = [dbg EXCEPT !.head = [i \in DOMAIN @ |->
                          IF i \in Pos(f) THEN [@[i] EXCEPT !.end_enable = flag] ELSE @[i]]]
            /\ Return("set", 0)
       ELSE /\ dbg' = [dbg EXCEPT !.last_num = @ + 1,
                     !.head = Append(@, [num |-> dbg.last_num + 1, addr |-> f, end_enable |-> flag])]
            /\ Return("set", 0)

\* INT3 is written before anything is checked.
do_set_breakpoint(f, flag, alloc) ==
    /\ Dbg /\ dbg.alive
    /\ LET armed == [text EXCEPT ![f][1] = INT3]
       IN \/ \E i \in Pos(f) :
               LET old == dbg.head[i].end_enable
                   set == [dbg EXCEPT !.head[i].end_enable = flag]
               IN \/ /\ OnStack(f) /\ old = 1 /\ flag = 0
                     /\ text' = armed /\ UNCHANGED dbg /\ Return("set", -1)
                  \/ /\ OnStack(f) /\ old = 0 /\ flag = 1
                     /\ text' = [text EXCEPT ![f][1] = PUSHRBP]
                     /\ dbg' = set /\ Return("set", 0)
                  \/ /\ ~OnStack(f) \/ old = flag
                     /\ text' = armed /\ dbg' = set /\ Return("set", 0)
          \/ /\ ~Listed(f)
             /\ text' = armed
             /\ IF ~alloc \/ Len(dbg.head) = MAX_BREAKPOINTS
                THEN UNCHANGED dbg /\ Return("set", -1)
                ELSE /\ dbg' = [dbg EXCEPT !.last_num = @ + 1,
                             !.head = Append(@, [num |-> dbg.last_num + 1, addr |-> f,
                                                 end_enable |-> flag])]
                     /\ Return("set", 0)

\* Which entry's end flag refuses the removal: that of the first entry for the
\* first entry, that of the entry before it for any other.
FlagTested(i) == dbg.head[IF i = 1 THEN 1 ELSE i - 1].end_enable

do_remove_breakpoint(f) ==
    /\ Dbg /\ dbg.alive
    /\ \/ dbg.head = <<>> /\ Undefined
       \/ /\ dbg.head # <<>> /\ ~Listed(f)
          /\ UNCHANGED <<dbg, text>> /\ Return("remove", -1)
       \/ \E i \in Pos(f) :
            IF FlagTested(i) = 1 /\ OnStack(f)
            THEN UNCHANGED <<dbg, text>> /\ Return("remove", -1)
            ELSE /\ dbg' = [dbg EXCEPT !.head = RemoveAt(@, i)]
                 /\ text' = [text EXCEPT ![f][1] = PUSHRBP]
                 /\ Return("remove", 0)

do_info_breakpoints ==
    Dbg /\ dbg.alive /\ UNCHANGED <<dbg, text>> /\ Return("list", dbg.head)

do_info_registers ==
    Dbg /\ dbg.alive /\ UNCHANGED <<dbg, text>> /\ Return("regs", dbg.regs)

\* The array is read up to a 0, which a full one does not have.
do_backtrace ==
    /\ Dbg /\ dbg.alive
    /\ IF Len(dbg.backtrace) = MAX_BACKTRACE THEN Undefined
       ELSE UNCHANGED <<dbg, text>> /\ Return("backtrace", dbg.backtrace)

\* Mutant: the waiting debugger stays READY.
X_do_wait_and_continue ==
    /\ Dbg /\ dbg.forked /\ state["dbe"] # UNUSED
    /\ Switch("dbg", READY, "dbe")
    /\ res' = <<"wait", "none">>
    /\ UNCHANGED <<dbg, text, debuggee, undef>>

\* Without a child dbg.pid is 0, the swapper, which never gives the CPU back.
do_wait_and_continue ==
    /\ Dbg /\ dbg.alive
    /\ \/ /\ dbg.forked /\ state["dbe"] # UNUSED
          /\ Switch("dbg", WAITING, "dbe")
          /\ res' = <<"wait", "none">>
          /\ UNCHANGED <<dbg, text, debuggee, undef>>
       \/ /\ ~dbg.forked
          /\ state' = [state EXCEPT !["dbg"] = WAITING] /\ current' = "swapper"
          /\ res' = <<"wait", "none">>
          /\ UNCHANGED <<dbg, text, debuggee, undef>>
       \/ dbg.forked /\ state["dbe"] = UNUSED /\ Undefined   \* an exited child is revived

-----------------------------------------------------------------------------
\* The debuggee's instructions.
Byte == text[pc[1]][pc[2] + 1]
Trap == Dbe /\ pc[2] < 2 /\ Byte = INT3

push_rbp == /\ Dbe /\ pc[2] = 0 /\ Byte = PUSHRBP
            /\ mem' = Append(mem, FrameWord(rbp)) /\ pc' = <<pc[1], 1>>
            /\ UNCHANGED <<state, current, dbg, text, rbp, res, calls, undef>>

\* Mutant: the frame pointer is one word off.
X_mov_rbp == /\ Dbe /\ pc[2] = 1 /\ Byte # INT3
             /\ rbp' = Len(mem) + 1 /\ pc' = <<pc[1], 2>>
             /\ UNCHANGED <<state, current, dbg, text, mem, res, calls, undef>>

mov_rbp == /\ Dbe /\ pc[2] = 1 /\ Byte # INT3
           /\ rbp' = Len(mem) /\ pc' = <<pc[1], 2>>
           /\ UNCHANGED <<state, current, dbg, text, mem, res, calls, undef>>

call(g, s) == /\ Dbe /\ pc[2] = 2 /\ pc[1] # EndHandler
              /\ Len(mem) < MaxDepth /\ calls < MaxCalls
              /\ mem' = Append(mem, <<pc[1], s>>) /\ pc' = <<g, 0>>
              /\ calls' = calls + 1
              /\ UNCHANGED <<state, current, dbg, text, rbp, res, undef>>

\* leave and ret; the return address may be end_handler.
ret == /\ Dbe /\ pc[2] = 2 /\ mem[rbp - 1] # END_ADDR
       /\ mem' = SubSeq(mem, 1, rbp - 2) /\ rbp' = mem[rbp][2]
       /\ pc' = <<mem[rbp - 1][1], IF mem[rbp - 1] = EHWord THEN 0 ELSE 2>>
       /\ UNCHANGED <<state, current, dbg, text, res, calls, undef>>

\* Where the frames of m begin: the words that are saved frame pointers.
Frames(m) == {r \in 2 .. Len(m) : m[r][1] = FrameWord(0)[1]}

\* Mutant: a planted end_handler is reported as a return address.
X_WalkFrames(m) ==
    LET walk[r \in Frames(m)] ==
          IF m[r - 1] = END_ADDR THEN <<>> ELSE <<m[r - 1]>> \o walk[m[r][2]]
    IN walk[rbp]

\* The return addresses found by following the saved frame pointers up to
\* main's frame; the word above a planted end_handler is the real one.
WalkFrames(m) ==
    LET walk[r \in Frames(m)] ==
          IF m[r - 1] = END_ADDR THEN <<>>
          ELSE <<IF m[r - 1] = EHWord THEN m[r - 2] ELSE m[r - 1]>> \o walk[m[r][2]]
    IN walk[rbp]

\* The walk ends where it begins: the function was called from main.
FromMain == mem[rbp - 1] = END_ADDR

Handover(addr) == Switch("dbe", WAITING, "dbg") /\ res' = <<"wait", addr>>

\* Registers as handed to the debugger: rdx is off by rdx_change.
Regs == [rip |-> pc[1], rsp |-> Len(mem), rbp |-> rbp, rdx_off |-> dbg.rdx_change]

\* The bytes of a function where the debuggee is stopped: push rbp, then INT3.
Stepping == [text EXCEPT ![pc[1]] = <<PUSHRBP, INT3>>]

\* Mutant: end_handler takes the place of the return address.
X_StopAtEntry ==
    /\ Trap /\ pc[2] = 0
    /\ \E i \in Pos(pc[1]) :
         LET bt   == <<<<pc[1], 0>>, Last(mem)>> \o WalkFrames(mem)
             ends == dbg.head[i].end_enable = 1
         IN IF Len(bt) <= MAX_BACKTRACE /\ Len(dbg.stack) # MAX_BACKTRACE
            THEN /\ dbg' = [dbg EXCEPT
                       !.backtrace = bt,
                       !.stack = Append(@, [start |-> pc[1], ret |-> Last(mem)]),
                       !.nxt_instr = text[pc[1]][2], !.regs = Regs]
                 /\ text' = Stepping
                 /\ mem' = IF ends THEN [mem EXCEPT ![Len(mem)] = EHWord] ELSE mem
                 /\ Handover(pc[1])
                 /\ UNCHANGED <<pc, rbp, calls, undef>>
            ELSE Undefined

\* int3_handler at the first byte of a function with a breakpoint.  Neither the
\* walk nor the push looks at the size of its array, backtrace[] or stack[].
StopAtEntry ==
    /\ Trap /\ pc[2] = 0
    /\ \E i \in Pos(pc[1]) :
         LET bt    == <<<<pc[1], 0>>, Last(mem)>> \o WalkFrames(mem)
             entry == [start |-> pc[1], ret |-> Last(mem)]
             ends  == dbg.head[i].end_enable = 1
         IN IF Len(bt) <= MAX_BACKTRACE /\ (FromMain \/ Len(dbg.stack) # MAX_BACKTRACE)
            THEN /\ dbg' = [dbg EXCEPT
                       !.backtrace = bt,
                       !.stack = IF FromMain THEN <<entry>>
                                 ELSE IF dbg.minus > 0 THEN @ ELSE Append(@, entry),
                       !.minus = IF FromMain \/ @ = 0 THEN 0 ELSE @ - 1,
                       !.nxt_instr = text[pc[1]][2],
                       !.regs = Regs,
                       !.rdx_change = IF ends THEN @ + 8 ELSE @]
                 /\ text' = Stepping
                 /\ mem' = IF ends THEN Append(mem, EHWord) ELSE mem
                 /\ Handover(pc[1])
                 /\ UNCHANGED <<pc, rbp, calls, undef>>
            ELSE Undefined

\* Mutant: the stack is searched from its bottom, rdx_change never goes back.
X_StopAtEnd ==
    /\ Trap /\ pc[2] = 0 /\ ~Listed(pc[1])
    /\ LET bt == <<Last(mem)>> \o WalkFrames(mem)
           i  == SelectInSeq(dbg.stack, LAMBDA e : e.ret = Last(mem))
       IN IF Len(bt) <= MAX_BACKTRACE
          THEN /\ dbg' = [dbg EXCEPT
                     !.backtrace = bt,
                     !.stack = SubSeq(@, 1, i - 1), !.minus = IF i = 0 THEN @ + 1 ELSE 0,
                     !.nxt_instr = text[pc[1]][2], !.regs = Regs]
               /\ text' = Stepping
               /\ Handover(pc[1])
               /\ UNCHANGED <<debuggee, undef>>
          ELSE Undefined

\* int3_handler at a first byte that has no breakpoint: taken for end_handler.
\* The stack is cut at the last entry with this return address; without one
\* stack_count goes below 0, by the amount kept in minus.
StopAtEnd ==
    /\ Trap /\ pc[2] = 0 /\ ~Listed(pc[1])
    /\ LET bt == <<Last(mem)>> \o WalkFrames(mem)
           i  == SelectLastInSeq(dbg.stack, LAMBDA e : e.ret = Last(mem))
       IN IF Len(bt) <= MAX_BACKTRACE
          THEN /\ dbg' = [dbg EXCEPT
                     !.backtrace = bt,
                     !.stack = SubSeq(@, 1, i - 1), !.minus = IF i = 0 THEN @ + 1 ELSE 0,
                     !.nxt_instr = text[pc[1]][2],
                     !.regs = Regs, !.rdx_change = @ - 8]
               /\ text' = Stepping
               /\ Handover(pc[1])
               /\ UNCHANGED <<debuggee, undef>>
          ELSE Undefined

\* Mutant: the breakpoint is not put back.
X_Resume ==
    /\ Trap /\ pc[2] = 1
    /\ text' = [text EXCEPT ![pc[1]] = <<PUSHRBP, dbg.nxt_instr>>]
    /\ state' = [state EXCEPT !["dbg"] = WAITING, !["dbe"] = RUNNING]
    /\ UNCHANGED <<current, dbg, debuggee, res, undef>>

\* int3_handler one byte further, after push rbp: put the bytes back and go on.
Resume ==
    /\ Trap /\ pc[2] = 1
    /\ IF text[pc[1]][1] = PUSHRBP
       THEN /\ text' = [text EXCEPT ![pc[1]] = <<INT3, dbg.nxt_instr>>]
            /\ state' = [state EXCEPT !["dbg"] = WAITING, !["dbe"] = RUNNING]
            /\ UNCHANGED <<current, dbg, debuggee, res, undef>>
       ELSE Undefined          \* the handler would patch the bytes after push rbp

-----------------------------------------------------------------------------
\* Mutant: the exit of the debuggee does not wake the debugger.
X_debuggee_exit ==
    /\ Dbe /\ pc = <<Main, 2>> /\ mem[rbp - 1] = END_ADDR
    /\ state' = [state EXCEPT !["dbe"] = UNUSED] /\ current' = "swapper"
    /\ res' = <<"wait", "CHILD_EXIT">>
    /\ UNCHANGED <<dbg, text, debuggee, undef>>

\* do_exit and debugger_on_exit.
debuggee_exit ==
    /\ Dbe /\ pc = <<Main, 2>> /\ mem[rbp - 1] = END_ADDR
    /\ Switch("dbe", UNUSED, "dbg")
    /\ res' = <<"wait", "CHILD_EXIT">>
    /\ UNCHANGED <<dbg, text, debuggee, undef>>

debugger_exit ==
    /\ Dbg
    /\ dbg' = NoDbg
    /\ state' = [state EXCEPT !["dbg"] = UNUSED]
    /\ current' = IF state["dbe"] = UNUSED THEN "off" ELSE "swapper"
    /\ res' = <<"exit", 0>>
    /\ UNCHANGED <<text, debuggee, undef>>

\* The other process, if it is READY; otherwise p itself is picked again.
pick_next_context(p) == {q \in {"dbg", "dbe"} \ {p} : state[q] = READY}

\* handle_timer_tick: the process interrupted is READY, the next READY one runs.
handle_timer_tick ==
    /\ ~undef /\ current \in {"dbg", "dbe", "swapper"}
    /\ LET others == pick_next_context(current)
       IN IF others = {}
          THEN /\ UNCHANGED current
               /\ state' = [p \in DOMAIN state |-> IF p = current THEN READY ELSE state[p]]
          ELSE \E n \in others :
               /\ current' = n
               /\ state' = [p \in DOMAIN state |-> IF p = n THEN RUNNING
                              ELSE IF p = current THEN READY ELSE state[p]]
    /\ UNCHANGED <<dbg, text, debuggee, res, undef>>

\* Bound: nothing is set again once as many stops at one place have piled up.
Room == Len(mem) < MaxDepth /\ dbg.minus < MAX_BACKTRACE
        /\ dbg.rdx_change > -8 * MAX_BACKTRACE

DebuggerStep ==
    \/ \E ok \in BOOLEAN : ~dbg.alive /\ do_become_debugger(ok)
    \/ do_fork
    \/ \E f \in Fns, flag \in 0 .. 1, ok \in BOOLEAN :
         dbg.last_num < MaxNum /\ Room /\ do_set_breakpoint(f, flag, ok)
    \/ \E f \in Fns : do_remove_breakpoint(f)
    \/ do_info_breakpoints \/ do_info_registers \/ do_backtrace
    \/ do_wait_and_continue
    \/ debugger_exit

DebuggeeStep ==
    \/ push_rbp \/ mov_rbp \/ ret
    \/ \E g \in Fns, s \in Sites : call(g, s)
    \/ StopAtEntry \/ StopAtEnd \/ Resume
    \/ debuggee_exit

Next == DebuggerStep \/ DebuggeeStep \/ handle_timer_tick

Spec == Init /\ [][Next]_vars
=============================================================================
