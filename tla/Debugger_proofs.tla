--------------------------- MODULE Debugger_proofs ---------------------------
(***************************************************************************)
(* The debugger, proved.  In any program, also one that breaks the         *)
(* assumptions of the assignment, debugger and debuggee are never both     *)
(* able to run.  Under a careful debugger the bookkeeping of debug.c is    *)
(* exact, the backtrace is the debuggee's chain of return addresses, and   *)
(* what is written over its code and stack does not change what it does.   *)
(***************************************************************************)
EXTENDS DebuggerProperties, FiniteSetTheorems, SequenceTheorems, TLAPS

States == {UNUSED, READY, RUNNING, WAITING}
Runnable == {READY, RUNNING}

\* What makes OneRuns inductive: it says nothing of a process that is alone.
ControlInv ==
    ~undef =>
      /\ state \in [{"dbg", "dbe"} -> States]
      /\ current = "dbg" => state["dbg"] \in Runnable /\ state["dbe"] \in {UNUSED, WAITING}
      /\ current = "dbe" => state["dbe"] \in Runnable /\ state["dbg"] = WAITING
      /\ current \in {"swapper", "off"} => \A p \in {"dbg", "dbe"} : state[p] \in {UNUSED, WAITING}
      /\ current = "off" => state["dbg"] = UNUSED
      /\ current \in {"dbg", "dbe", "swapper", "off"}

LEMMA ControlInit == Init => ControlInv
  BY DEF Init, ControlInv, States, Runnable, UNUSED, READY, RUNNING, WAITING

\* The calls that leave both where they are.
LEMMA StayStep ==
  ASSUME ControlInv, UNCHANGED <<state, current>>, undef' = undef \/ undef'
  PROVE  ControlInv'
  BY DEF ControlInv

\* The debugger's calls, careful or not.
AnyCall ==
    \/ \E ok \in BOOLEAN : do_become_debugger(ok)
    \/ do_fork
    \/ \E f \in Fns, flag \in 0 .. 1, ok \in BOOLEAN : do_set_breakpoint(f, flag, ok)
    \/ \E f \in Fns : do_remove_breakpoint(f)
    \/ do_info_breakpoints \/ do_info_registers \/ do_backtrace
    \/ do_wait_and_continue
    \/ debugger_exit

LEMMA AnyCallKeeps == ControlInv /\ AnyCall => ControlInv'
<1> SUFFICES ASSUME ControlInv, AnyCall PROVE ControlInv'
  OBVIOUS
<1> USE DEF UNUSED, READY, RUNNING, WAITING, States, Runnable
<1>1. ASSUME NEW ok \in BOOLEAN, do_become_debugger(ok) PROVE ControlInv'
  BY <1>1, StayStep DEF do_become_debugger, Return
<1>2. CASE do_fork
  BY <1>2 DEF do_fork, ControlInv, debugger_on_fork, Undefined, Dbg, debuggee
<1>3. ASSUME NEW f \in Fns, NEW flag \in 0 .. 1, NEW ok \in BOOLEAN,
             do_set_breakpoint(f, flag, ok)
      PROVE  ControlInv'
  <2>1. UNCHANGED <<state, current, undef>>
    BY <1>3 DEF do_set_breakpoint, Return
  <2> QED BY <2>1, StayStep
<1>4. ASSUME NEW f \in Fns, do_remove_breakpoint(f) PROVE ControlInv'
  <2>1. UNCHANGED <<state, current>> /\ (undef' = undef \/ undef')
    BY <1>4 DEF do_remove_breakpoint, Return, Undefined
  <2> QED BY <2>1, StayStep
<1>5. CASE do_info_breakpoints \/ do_info_registers \/ do_backtrace
  <2>1. UNCHANGED <<state, current>> /\ (undef' = undef \/ undef')
    BY <1>5 DEF do_info_breakpoints, do_info_registers, do_backtrace, Return, Undefined
  <2> QED BY <2>1, StayStep
<1>6. CASE do_wait_and_continue
  BY <1>6 DEF do_wait_and_continue, ControlInv, Dbg, Switch, Undefined, debuggee
<1>7. CASE debugger_exit
  BY <1>7 DEF debugger_exit, ControlInv, Dbg
<1> QED BY <1>1, <1>2, <1>3, <1>4, <1>5, <1>6, <1>7 DEF AnyCall

LEMMA DebuggeeStepKeeps == ControlInv /\ DebuggeeStep => ControlInv'
<1> SUFFICES ASSUME ControlInv, DebuggeeStep PROVE ControlInv'
  OBVIOUS
<1> USE DEF UNUSED, READY, RUNNING, WAITING, States, Runnable
<1>1. CASE push_rbp \/ mov_rbp \/ ret \/ \E g \in Fns, s \in Sites : call(g, s)
  BY <1>1, StayStep DEF push_rbp, mov_rbp, ret, call
<1>2. ASSUME NEW a, Handover(a), UNCHANGED undef, Dbe PROVE ControlInv'
  BY <1>2 DEF Handover, Switch, ControlInv, Dbe
<1>3. CASE StopAtEntry
  <2>1. Dbe /\ (Undefined \/ (Handover(pc[1]) /\ UNCHANGED undef))
    BY <1>3 DEF StopAtEntry, Trap
  <2>2. Undefined => ControlInv'
    BY DEF Undefined, ControlInv
  <2> QED BY <2>1, <2>2, <1>2
<1>4. CASE StopAtEnd
  <2>1. Dbe /\ (Undefined \/ (Handover(pc[1]) /\ UNCHANGED undef))
    BY <1>4 DEF StopAtEnd, Trap
  <2>2. Undefined => ControlInv'
    BY DEF Undefined, ControlInv
  <2> QED BY <2>1, <2>2, <1>2
<1>5. CASE Resume
  BY <1>5 DEF Resume, Trap, Dbe, ControlInv, Undefined
<1>6. CASE debuggee_exit
  BY <1>6 DEF debuggee_exit, Dbe, ControlInv, Switch
<1> QED BY <1>1, <1>3, <1>4, <1>5, <1>6 DEF DebuggeeStep

LEMMA TickKeeps == ControlInv /\ handle_timer_tick => ControlInv'
  BY DEF ControlInv, handle_timer_tick, pick_next_context,
         UNUSED, READY, RUNNING, WAITING, States, Runnable

LEMMA ControlStep == ControlInv /\ [Next]_vars => ControlInv'
<1> SUFFICES ASSUME ControlInv, [Next]_vars PROVE ControlInv'
  OBVIOUS
<1>1. CASE UNCHANGED vars
  BY <1>1, StayStep DEF vars
<1>2. DebuggerStep => AnyCall
  BY DEF DebuggerStep, AnyCall
<1> QED BY <1>1, <1>2, AnyCallKeeps, DebuggeeStepKeeps, TickKeeps DEF Next

\* While both live, one of debugger and debuggee runs and the other waits,
\* after any sequence of calls, breakpoints, exits and timer ticks
\* (int3_handler, do_wait_and_continue, do_exit).
THEOREM ControlIsHandedOver == Spec => []OneRuns
<1>1. ControlInv => OneRuns
  BY DEF ControlInv, OneRuns, ChildLives, States, Runnable, UNUSED, READY, RUNNING, WAITING
<1> QED BY ControlInit, ControlStep, <1>1, PTL DEF Spec

-----------------------------------------------------------------------------
\* A careful debugger: the words on the debuggee's stack.
Returns == (Fns \cup {Main}) \X Sites
SavedFrames == {FrameWord(r) : r \in Nat}
Words == Returns \cup SavedFrames \cup {END_ADDR, EHWord}

\* A word and the one below it: a return address is pushed on a frame, the next
\* frame on it or on the end_handler planted on it.
Follows(m, i) ==
  \/ m[i] \in Returns /\ m[i - 1] \in SavedFrames
  \/ m[i] = EHWord /\ m[i - 1] \in Returns
  \/ m[i] = FrameWord(i - 2) /\ m[i - 1] \in Returns
  \/ m[i] = FrameWord(i - 3) /\ m[i - 1] = EHWord

StackShape(m) ==
  /\ m \in Seq(Words) /\ Len(m) >= 2
  /\ m[1] = END_ADDR /\ m[2] = FrameWord(0)
  /\ \A i \in 3 .. Len(m) : Follows(m, i)

\* The top of the stack and the frame pointer, by the instruction that is next.
\* Nothing is planted where end_handler was entered.
Top(m, b, p) ==
  /\ p[2] = 2 => m[Len(m)] \in SavedFrames /\ b = Len(m)
  /\ p[2] = 1 => m[Len(m)] = FrameWord(b)
  /\ p[2] = 0 => \/ m[Len(m)] \in Returns /\ b = Len(m) - 1
                 \/ m[Len(m)] = EHWord /\ b = Len(m) - 2 /\ p[1] # EndHandler
  /\ p[1] = EndHandler /\ p[2] > 0 => m[Len(m) - 1] \in Returns

PlaceInv ==
  /\ pc \in Addr \X (0 .. 2) /\ (pc[1] = Main => pc[2] = 2)
  /\ calls \in 0 .. MaxCalls
  /\ StackShape(mem) /\ Top(mem, rbp, pc) /\ rbp \in 2 .. Len(mem)

\* The debugger's own data.
Breakpoints == [num : Nat, addr : Fns, end_enable : 0 .. 1]
Entries == [start : Fns, ret : Returns]
Fields == {"alive", "head", "last_num", "stack", "minus", "backtrace", "nxt_instr",
           "rdx_change", "regs", "forked"}
DbgShape ==
  /\ DOMAIN dbg = Fields
  /\ dbg.alive \in BOOLEAN /\ dbg.last_num \in Nat /\ dbg.minus = 0
  /\ dbg.nxt_instr = INSN /\ dbg.forked \in BOOLEAN
  /\ dbg.head \in Seq(Breakpoints) /\ Len(dbg.head) <= MAX_BREAKPOINTS
  /\ \A i, j \in DOMAIN dbg.head : dbg.head[i].addr = dbg.head[j].addr => i = j
  /\ dbg.stack \in Seq(Entries) /\ Len(dbg.stack) <= MAX_BACKTRACE
  /\ Len(dbg.backtrace) <= MAX_BACKTRACE

\* Who runs when, and where the debuggee is while the debugger runs: at its
\* start, at a stop, or at its end.
AtStop == current = "dbg" /\ ChildLives /\ pc[2] = 0
StageInv ==
  /\ ControlInv /\ undef \in BOOLEAN /\ current \in {"dbg", "dbe", "off"}
  /\ state \in [{"dbg", "dbe"} -> States]
  /\ ~undef /\ current = "off" => ~dbg.alive
  /\ ChildLives => dbg.alive /\ dbg.forked
  /\ current # "off" /\ ~dbg.alive => dbg = NoDbg /\ text = [f \in Addr |-> <<PUSHRBP, INSN>>]
  /\ ~dbg.forked /\ current # "off" => calls = 0
  /\ ~ChildLives => pc = <<Main, 2>> /\ Len(mem) = 2
  /\ current = "dbg" /\ ChildLives => (pc = <<Main, 2>> /\ calls = 0) \/ pc[2] = 0
  /\ AtStop /\ pc[1] \in Fns => OnStack(pc[1])

\* The bytes of a function: as the list says, or those of a stop at it.
Armed(f) == f = EndHandler \/ Listed(f)
Bytes(f) ==
  \/ text[f] = <<IF Armed(f) THEN INT3 ELSE PUSHRBP, INSN>> /\ ~(AtStop /\ pc[1] = f)
  \/ text[f] = <<PUSHRBP, INT3>> /\ Armed(f) /\ pc \in {<<f, 0>>, <<f, 1>>}
TextInv ==
  /\ text \in [Addr -> Byte2 \X Byte2] /\ text[Main] = <<PUSHRBP, INSN>>
  /\ dbg.alive => \A f \in Fns \cup {EndHandler} : Bytes(f)
  /\ mem[Len(mem)] = EHWord => text[pc[1]][1] = PUSHRBP

\* The positions above the return addresses that an end_handler keeps from being
\* used: where it is planted, or was until ret took it from there.
Reached == pc = <<EndHandler, 0>> /\ current = "dbe" /\ text[EndHandler][1] = INT3
Due == Planted \cup (IF Reached THEN {Len(mem) + 1} ELSE {})

\* The functions to stop at are known, in the order in which they were called:
\* at D by their return address, at P, where they have not returned, by their
\* own address as well.
Record(D, P, m, f, stack) ==
  \E at \in [D -> DOMAIN stack] :
    /\ \A i \in D : stack[at[i]].ret = m[i - 1]
    /\ \A i \in D : i \in P => stack[at[i]].start = Owner(m, f, i)
    /\ \A i, j \in D : i < j => at[i] < at[j]
DueInv == /\ Record(Due, Planted, mem, pc[1], dbg.stack)
          /\ dbg.rdx_change = 8 * Cardinality(Due)

CareInv == PlaceInv /\ DbgShape /\ StageInv /\ TextInv /\ DueInv

-----------------------------------------------------------------------------
LEMMA Kinds ==
  /\ Main \notin Fns /\ EndHandler \notin Fns /\ Main # EndHandler
  /\ END_ADDR \notin Returns \cup SavedFrames /\ EHWord \notin Returns \cup SavedFrames
  /\ END_ADDR # EHWord /\ Returns \cap SavedFrames = {}
  /\ \A r, q : FrameWord(r) = FrameWord(q) => r = q
  /\ \A r \in Nat : FrameWord(r) \in SavedFrames
  /\ \A r : FrameWord(r) \notin Returns \cup {END_ADDR, EHWord}
<1> USE DebuggerAssumption DEF Main, EndHandler, END_ADDR, EHWord, FrameWord
<1>1. Main \notin Fns /\ EndHandler \notin Fns /\ Main # EndHandler
  OBVIOUS
<1>2. \A w \in Returns : w[1] \in Fns \cup {Main}
  BY DEF Returns
<1>3. \A w \in SavedFrames : w[1] = "rbp"
  BY DEF SavedFrames
<1>4. END_ADDR[1] = "crt" /\ EHWord[1] = "do_end_handler"
  OBVIOUS
<1>5. "rbp" \notin Fns /\ "crt" \notin Fns
  OBVIOUS
<1>6. \A r \in Nat : FrameWord(r) \in SavedFrames
  BY DEF SavedFrames
<1>7. \A r, q : FrameWord(r) = FrameWord(q) => r = q
  OBVIOUS
<1>8. END_ADDR # EHWord
  BY <1>4
<1>9. Returns \cap SavedFrames = {}
  BY <1>2, <1>3, <1>5
<1>10. END_ADDR \notin Returns \cup SavedFrames /\ EHWord \notin Returns \cup SavedFrames
  BY <1>1, <1>2, <1>3, <1>4, <1>5
<1>11. \A r : FrameWord(r) \notin Returns \cup {END_ADDR, EHWord}
  <2>1. \A r : FrameWord(r)[1] = "rbp"
    OBVIOUS
  <2> HIDE DEF FrameWord, END_ADDR, EHWord
  <2> QED BY <1>1, <1>2, <1>4, <1>5, <2>1
<1> QED BY <1>1, <1>6, <1>7, <1>8, <1>9, <1>10, <1>11

\* Pushing and popping.
LEMMA Pushed ==
  ASSUME NEW m, StackShape(m), NEW w \in Words, NEW n, n = Append(m, w),
         Follows(n, Len(m) + 1)
  PROVE  StackShape(n)
<1>1. m \in Seq(Words) /\ Len(m) \in Nat
  BY DEF StackShape
<1>2. n \in Seq(Words) /\ Len(n) = Len(m) + 1
  BY <1>1
<1>3. n[Len(m) + 1] = w /\ \A i \in 1 .. Len(m) : n[i] = m[i]
  BY <1>1
<1>4. ASSUME NEW i \in 3 .. Len(m) PROVE Follows(n, i)
  <2>1. n[i] = m[i] /\ n[i - 1] = m[i - 1]
    BY <1>1, <1>3
  <2>2. Follows(m, i)
    BY DEF StackShape
  <2> QED BY <2>1, <2>2 DEF Follows
<1>5. \A i \in 3 .. Len(n) : Follows(n, i)
  BY <1>1, <1>2, <1>4
<1>6. Len(n) >= 2 /\ n[1] = END_ADDR /\ n[2] = FrameWord(0)
  BY <1>1, <1>2, <1>3 DEF StackShape
<1> QED BY <1>2, <1>3, <1>5, <1>6 DEF StackShape

LEMMA Popped ==
  ASSUME NEW m, StackShape(m), NEW k \in 2 .. Len(m), NEW n, n = SubSeq(m, 1, k)
  PROVE  StackShape(n)
<1>1. m \in Seq(Words) /\ Len(m) \in Nat
  BY DEF StackShape
<1>2. n \in Seq(Words) /\ Len(n) = k
  BY <1>1
<1>3. \A i \in 1 .. k : n[i] = m[i]
  BY <1>1
<1>4. ASSUME NEW i \in 3 .. k PROVE Follows(n, i)
  <2>1. n[i] = m[i] /\ n[i - 1] = m[i - 1]
    BY <1>1, <1>3
  <2>2. Follows(m, i)
    BY <1>1 DEF StackShape
  <2> QED BY <2>1, <2>2 DEF Follows
<1>5. n[1] = END_ADDR /\ n[2] = FrameWord(0)
  BY <1>3 DEF StackShape
<1> QED BY <1>2, <1>3, <1>4, <1>5 DEF StackShape

\* What is below a frame.
LEMMA BelowFrame ==
  ASSUME NEW m, StackShape(m), NEW r \in 3 .. Len(m), m[r] \in SavedFrames
  PROVE  /\ r >= 4 /\ m[r - 1] # END_ADDR
         /\ \/ m[r - 1] \in Returns /\ m[r - 2] \in SavedFrames /\ m[r] = FrameWord(r - 2)
            \/ m[r - 1] = EHWord /\ m[r - 2] \in Returns /\ m[r - 3] \in SavedFrames
               /\ m[r] = FrameWord(r - 3) /\ r >= 5
<1>1. Len(m) \in Nat /\ m[1] = END_ADDR /\ m[2] = FrameWord(0) /\ \A i \in 3 .. Len(m) : Follows(m, i)
  BY DEF StackShape
<1>2. m[2] \in SavedFrames
  BY <1>1, Kinds
<1>3. \/ m[r] = FrameWord(r - 2) /\ m[r - 1] \in Returns
      \/ m[r] = FrameWord(r - 3) /\ m[r - 1] = EHWord
  BY <1>1, Kinds DEF Follows
<1>4. r - 1 # 2
  BY <1>2, <1>3, Kinds
<1>5. r - 1 \in 3 .. Len(m)
  BY <1>1, <1>4
<1>6. Follows(m, r - 1)
  BY <1>1, <1>5
<1>7. CASE m[r] = FrameWord(r - 2) /\ m[r - 1] \in Returns
  <2>1. m[r - 1 - 1] \in SavedFrames
    BY <1>6, <1>7, Kinds DEF Follows
  <2> QED BY <1>5, <1>7, <2>1, Kinds
<1>8. CASE m[r] = FrameWord(r - 3) /\ m[r - 1] = EHWord
  <2>1. m[r - 1 - 1] \in Returns
    BY <1>6, <1>8, Kinds DEF Follows
  <2>2. r - 2 # 2
    BY <1>2, <2>1, Kinds
  <2>3. r - 2 \in 3 .. Len(m)
    BY <1>1, <1>5, <2>2
  <2>4. Follows(m, r - 2)
    BY <1>1, <2>3
  <2>5. m[r - 2 - 1] \in SavedFrames
    <3>1. m[r - 2] \in Returns
      BY <2>1
    <3> QED BY <2>4, <3>1, Kinds DEF Follows
  <2> QED BY <1>5, <1>8, <2>1, <2>3, <2>5, Kinds
<1> QED BY <1>3, <1>7, <1>8

\* The debuggee's instructions keep its stack in shape.
LEMMA PlaceKept ==
  ASSUME PlaceInv, UNCHANGED debuggee
  PROVE  PlaceInv'
  BY DEF PlaceInv, debuggee, StackShape, Top, Follows

LEMMA PlaceSet ==
  ASSUME NEW m, NEW b, NEW p, NEW c, mem' = m, rbp' = b, pc' = p, calls' = c,
         p \in Addr \X (0 .. 2), p[1] = Main => p[2] = 2, c \in 0 .. MaxCalls,
         StackShape(m), Top(m, b, p), b \in 2 .. Len(m)
  PROVE  PlaceInv'
<1>1. StackShape(mem)'
  BY DEF StackShape, Follows
<1>2. Top(mem, rbp, pc)'
  BY DEF Top
<1> QED BY <1>1, <1>2 DEF PlaceInv

LEMMA PlaceFacts ==
  ASSUME PlaceInv
  PROVE  /\ Len(mem) \in Nat /\ rbp \in Nat /\ Len(mem) >= 2 /\ rbp <= Len(mem)
         /\ pc = <<pc[1], pc[2]>> /\ pc[1] \in Addr /\ pc[2] \in 0 .. 2
         /\ StackShape(mem)
  BY DEF PlaceInv, StackShape

LEMMA PushPlace ==
  ASSUME PlaceInv, push_rbp
  PROVE  PlaceInv'
<1>1. PICK m : m = Append(mem, FrameWord(rbp))
  OBVIOUS
<1>2. pc[2] = 0 /\ mem' = m /\ pc' = <<pc[1], 1>> /\ UNCHANGED <<rbp, calls>>
  BY <1>1 DEF push_rbp
<1>3. FrameWord(rbp) \in Words
  BY PlaceFacts, Kinds DEF Words
<1>4. \/ mem[Len(mem)] \in Returns /\ rbp = Len(mem) - 1
      \/ mem[Len(mem)] = EHWord /\ rbp = Len(mem) - 2 /\ pc[1] # EndHandler
  BY <1>2 DEF PlaceInv, Top
<1>5. Follows(m, Len(mem) + 1)
  <2>1. m[Len(mem) + 1] = FrameWord(rbp) /\ m[Len(mem)] = mem[Len(mem)]
    BY <1>1, PlaceFacts DEF PlaceInv, StackShape
  <2>2. CASE mem[Len(mem)] \in Returns /\ rbp = Len(mem) - 1
    <3>1. Len(mem) + 1 - 2 = rbp /\ Len(mem) + 1 - 1 = Len(mem)
      BY <2>2, PlaceFacts
    <3> QED BY <2>1, <2>2, <3>1 DEF Follows
  <2>3. CASE mem[Len(mem)] = EHWord /\ rbp = Len(mem) - 2
    <3>1. Len(mem) + 1 - 3 = rbp /\ Len(mem) + 1 - 1 = Len(mem)
      BY <2>3, PlaceFacts
    <3> QED BY <2>1, <2>3, <3>1 DEF Follows
  <2> QED BY <1>4, <2>2, <2>3
<1>6. StackShape(m) /\ Len(m) = Len(mem) + 1 /\ m[Len(mem) + 1] = FrameWord(rbp)
      /\ \A i \in 1 .. Len(mem) : m[i] = mem[i]
  <2>1. StackShape(m)
    BY <1>1, <1>3, <1>5, PlaceFacts, Pushed
  <2> QED BY <1>1, <2>1, PlaceFacts DEF StackShape
<1>7. Top(m, rbp, <<pc[1], 1>>)
  <2>1. pc[1] = EndHandler => m[Len(m) - 1] \in Returns
    BY <1>4, <1>6, PlaceFacts
  <2> QED BY <1>6, <2>1 DEF Top
<1>8. <<pc[1], 1>> \in Addr \X (0 .. 2) /\ (pc[1] # Main)
  BY <1>2, PlaceFacts DEF PlaceInv
<1>9. rbp \in 2 .. Len(m) /\ calls \in 0 .. MaxCalls
  BY <1>6, PlaceFacts DEF PlaceInv
<1> QED BY <1>2, <1>6, <1>7, <1>8, <1>9, PlaceSet

LEMMA MovePlace ==
  ASSUME PlaceInv, mov_rbp
  PROVE  PlaceInv'
<1>1. pc[2] = 1 /\ pc' = <<pc[1], 2>> /\ UNCHANGED <<mem, calls>> /\ rbp' = Len(mem)
  BY DEF mov_rbp
<1>2. Top(mem, Len(mem), <<pc[1], 2>>)
  <2>1. mem[Len(mem)] \in SavedFrames /\ (pc[1] = EndHandler => mem[Len(mem) - 1] \in Returns)
    BY <1>1, PlaceFacts, Kinds DEF PlaceInv, Top
  <2> QED BY <2>1 DEF Top
<1>3. <<pc[1], 2>> \in Addr \X (0 .. 2) /\ Len(mem) \in 2 .. Len(mem)
  BY PlaceFacts
<1>4. StackShape(mem) /\ calls \in 0 .. MaxCalls
  BY DEF PlaceInv
<1> QED BY <1>1, <1>2, <1>3, <1>4, PlaceSet

LEMMA CallPlace ==
  ASSUME PlaceInv, NEW g \in Fns, NEW s \in Sites, call(g, s)
  PROVE  PlaceInv'
<1>1. PICK w, m : w = <<pc[1], s>> /\ m = Append(mem, w)
  OBVIOUS
<1>2. pc[2] = 2 /\ pc[1] # EndHandler /\ mem' = m /\ pc' = <<g, 0>> /\ UNCHANGED rbp
      /\ calls < MaxCalls /\ calls' = calls + 1
  BY <1>1 DEF call
<1>3. w \in Returns /\ w \in Words
  BY <1>1, <1>2, PlaceFacts DEF Returns, Words, Addr
<1>4. mem[Len(mem)] \in SavedFrames /\ rbp = Len(mem)
  BY <1>2 DEF PlaceInv, Top
<1>5. Follows(m, Len(mem) + 1)
  <2>1. m[Len(mem) + 1] = w /\ m[Len(mem)] = mem[Len(mem)]
    BY <1>1, PlaceFacts DEF PlaceInv, StackShape
  <2>2. Len(mem) + 1 - 1 = Len(mem)
    BY PlaceFacts
  <2> QED BY <1>3, <1>4, <2>1, <2>2 DEF Follows
<1>6. StackShape(m) /\ Len(m) = Len(mem) + 1 /\ m[Len(mem) + 1] = w
  <2>1. StackShape(m)
    BY <1>1, <1>3, <1>5, PlaceFacts, Pushed
  <2>2. m = Append(mem, w)
    BY <1>1
  <2> QED BY <1>3, <2>1, <2>2, PlaceFacts DEF StackShape
<1>7. Top(m, rbp, <<g, 0>>)
  <2>1. g # EndHandler /\ rbp = Len(m) - 1
    BY <1>4, <1>6, Kinds, PlaceFacts
  <2> QED BY <1>3, <1>6, <2>1 DEF Top
<1>8. <<g, 0>> \in Addr \X (0 .. 2) /\ g # Main
  BY Kinds DEF Addr
<1>9. rbp \in 2 .. Len(m) /\ calls + 1 \in 0 .. MaxCalls
  BY <1>2, <1>6, PlaceFacts, DebuggerAssumption DEF PlaceInv
<1> QED BY <1>2, <1>6, <1>7, <1>8, <1>9, PlaceSet

\* What a ret finds: its frame is the top of the stack, a return address or a
\* planted end_handler below it, and below that the caller's frame.
Unplanted == mem[rbp - 1] \in Returns /\ mem[rbp] = FrameWord(rbp - 2) /\ mem[rbp - 2] \in SavedFrames
PlantedHere == mem[rbp - 1] = EHWord /\ mem[rbp] = FrameWord(rbp - 3) /\ mem[rbp - 2] \in Returns
               /\ pc[1] # EndHandler /\ rbp >= 5

LEMMA RetCases ==
  ASSUME PlaceInv, ret
  PROVE  rbp = Len(mem) /\ rbp >= 4 /\ (Unplanted \/ PlantedHere)
<1>1. pc[2] = 2 /\ mem[rbp - 1] # END_ADDR
  BY DEF ret
<1>2. rbp = Len(mem) /\ mem[rbp] \in SavedFrames
  BY <1>1 DEF PlaceInv, Top
<1>3. rbp # 2
  BY <1>1 DEF PlaceInv, StackShape
<1>4. rbp \in 3 .. Len(mem)
  BY <1>2, <1>3, PlaceFacts DEF PlaceInv
<1>5. /\ rbp >= 4
      /\ \/ mem[rbp - 1] \in Returns /\ mem[rbp - 2] \in SavedFrames /\ mem[rbp] = FrameWord(rbp - 2)
         \/ mem[rbp - 1] = EHWord /\ mem[rbp - 2] \in Returns /\ mem[rbp - 3] \in SavedFrames
            /\ mem[rbp] = FrameWord(rbp - 3) /\ rbp >= 5
  BY <1>2, <1>4, BelowFrame DEF PlaceInv
<1>6. pc[1] = EndHandler => mem[rbp - 1] \in Returns
  BY <1>1, <1>2 DEF PlaceInv, Top
<1> QED BY <1>2, <1>5, <1>6, Kinds DEF Unplanted, PlantedHere

LEMMA RetPlace ==
  ASSUME PlaceInv, ret
  PROVE  /\ PlaceInv' /\ Len(mem') = Len(mem) - 2 /\ \A i \in 1 .. Len(mem) - 2 : mem'[i] = mem[i]
         /\ Unplanted => pc' = <<mem[rbp - 1][1], 2>> /\ rbp' = rbp - 2
         /\ PlantedHere => pc' = <<EndHandler, 0>> /\ rbp' = rbp - 3
<1>1. PICK m : m = SubSeq(mem, 1, rbp - 2)
  OBVIOUS
<1>2. mem' = m /\ rbp' = mem[rbp][2] /\ calls' = calls
      /\ pc' = <<mem[rbp - 1][1], IF mem[rbp - 1] = EHWord THEN 0 ELSE 2>>
  BY <1>1 DEF ret
<1>3. rbp = Len(mem) /\ rbp >= 4 /\ (Unplanted \/ PlantedHere) /\ rbp - 2 \in 2 .. Len(mem)
  BY RetCases, PlaceFacts
<1>4. StackShape(m) /\ Len(m) = rbp - 2 /\ \A i \in 1 .. rbp - 2 : m[i] = mem[i]
  <2>1. StackShape(m)
    BY <1>1, <1>3, PlaceFacts, Popped
  <2> QED BY <1>1, <1>3, <2>1, PlaceFacts DEF StackShape
<1>5. ASSUME Unplanted
      PROVE  /\ pc' = <<mem[rbp - 1][1], 2>> /\ rbp' = rbp - 2
             /\ <<mem[rbp - 1][1], 2>> \in Addr \X (0 .. 2) /\ Top(m, rbp - 2, <<mem[rbp - 1][1], 2>>)
  <2>1. mem[rbp - 1] # EHWord /\ mem[rbp - 1][1] \in Fns \cup {Main}
    BY <1>5, Kinds DEF Unplanted, Returns
  <2>2. rbp' = rbp - 2
    BY <1>2, <1>5 DEF Unplanted, FrameWord
  <2>3. m[Len(m)] \in SavedFrames
    BY <1>3, <1>4, <1>5, PlaceFacts DEF Unplanted
  <2>4. Top(m, rbp - 2, <<mem[rbp - 1][1], 2>>)
    BY <1>4, <2>1, <2>3, Kinds DEF Top
  <2> QED BY <1>2, <2>1, <2>2, <2>4 DEF Addr
<1>6. ASSUME PlantedHere
      PROVE  pc' = <<EndHandler, 0>> /\ rbp' = rbp - 3 /\ Top(m, rbp - 3, <<EndHandler, 0>>)
  <2>1. mem[rbp - 1][1] = EndHandler
    BY <1>6 DEF PlantedHere, EHWord
  <2>2. rbp' = rbp - 3
    BY <1>2, <1>6 DEF PlantedHere, FrameWord
  <2>3. m[Len(m)] \in Returns
    BY <1>3, <1>4, <1>6, PlaceFacts DEF PlantedHere
  <2>4. rbp - 3 = Len(m) - 1
    BY <1>4, PlaceFacts
  <2>5. Top(m, rbp - 3, <<EndHandler, 0>>)
    BY <2>3, <2>4 DEF Top
  <2> QED BY <1>2, <1>6, <2>1, <2>2, <2>5 DEF PlantedHere
<1>7. calls \in 0 .. MaxCalls
  BY DEF PlaceInv
<1>8. CASE Unplanted
  <2>1. rbp - 2 \in 2 .. Len(m)
    BY <1>3, <1>4, PlaceFacts
  <2> QED BY <1>2, <1>3, <1>4, <1>5, <1>7, <1>8, <2>1, Kinds, PlaceSet DEF Unplanted, PlantedHere
<1>9. CASE PlantedHere
  <2>1. rbp - 3 \in 2 .. Len(m)
    BY <1>3, <1>4, <1>9, PlaceFacts DEF PlantedHere
  <2>2. <<EndHandler, 0>> \in Addr \X (0 .. 2) /\ EndHandler # Main
    BY Kinds DEF Addr
  <2> QED BY <1>2, <1>3, <1>4, <1>6, <1>7, <1>9, <2>1, <2>2, Kinds, PlaceSet DEF Unplanted, PlantedHere
<1> QED BY <1>3, <1>8, <1>9

-----------------------------------------------------------------------------
\* The other parts of the invariant, action by action.
Rest == DbgShape /\ StageInv /\ TextInv

LEMMA Bytes3 == INT3 # PUSHRBP /\ INT3 # INSN /\ PUSHRBP # INSN
  BY DEF INT3, PUSHRBP, INSN

LEMMA SameRest ==
  ASSUME Rest, UNCHANGED <<state, current, dbg, text, debuggee, undef>>
  PROVE  Rest'
<1> USE DEF debuggee
<1>1. DbgShape'
  BY DEF Rest, DbgShape
<1>2. StageInv'
  BY StayStep DEF Rest, StageInv, AtStop, ChildLives, OnStack
<1>3. TextInv'
  BY DEF Rest, TextInv, Bytes, Armed, Listed, Pos, AtStop, ChildLives
<1> QED BY <1>1, <1>2, <1>3 DEF Rest

LEMMA UndefinedRest ==
  ASSUME Rest, Undefined
  PROVE  Rest'
<1> USE DEF debuggee, Undefined
<1>1. DbgShape'
  BY DEF Rest, DbgShape
<1>2. StageInv'
  BY StayStep DEF Rest, StageInv, AtStop, ChildLives, OnStack
<1>3. TextInv'
  BY DEF Rest, TextInv, Bytes, Armed, Listed, Pos, AtStop, ChildLives
<1> QED BY <1>1, <1>2, <1>3 DEF Rest

\* While the debuggee runs.
LEMMA WhenDebuggeeRuns ==
  ASSUME StageInv, Dbe
  PROVE  /\ current = "dbe" /\ ~undef /\ ChildLives /\ dbg.alive /\ dbg.forked
         /\ state["dbe"] \in Runnable /\ state["dbg"] = WAITING
  BY DEF StageInv, Dbe, ControlInv, ChildLives, Runnable, READY, RUNNING, UNUSED

LEMMA ListedFns ==
  ASSUME DbgShape, NEW f, Listed(f)
  PROVE  f \in Fns
<1>1. PICK i \in DOMAIN dbg.head : dbg.head[i].addr = f
  BY DEF Listed, Pos
<1>2. dbg.head[i] \in Breakpoints
  BY DEF DbgShape
<1> QED BY <1>1, <1>2 DEF Breakpoints

\* At a trap the bytes tell whether the function was entered or stepped into.
LEMMA AtTrap ==
  ASSUME PlaceInv, Rest, Trap
  PROVE  /\ pc[1] \in Fns \cup {EndHandler} /\ Armed(pc[1])
         /\ pc[2] = 0 => text[pc[1]] = <<INT3, INSN>> /\ mem[Len(mem)] \in Returns /\ rbp = Len(mem) - 1
         /\ pc[2] # 0 => pc[2] = 1 /\ text[pc[1]] = <<PUSHRBP, INT3>>
<1>1. dbg.alive /\ pc[2] \in {0, 1} /\ text[pc[1]][pc[2] + 1] = INT3
  BY WhenDebuggeeRuns, PlaceFacts DEF Rest, Trap, Byte
<1>2. pc[1] \in Fns \cup {EndHandler}
  BY <1>1, PlaceFacts DEF PlaceInv, Addr
<1>3. Bytes(pc[1])
  BY <1>1, <1>2 DEF Rest, TextInv
<1>4. CASE pc[2] = 0
  <2>1. text[pc[1]][1] = INT3
    BY <1>1, <1>4
  <2>2. text[pc[1]] = <<INT3, INSN>> /\ Armed(pc[1])
    BY <1>3, <2>1, Bytes3 DEF Bytes
  <2>3. mem[Len(mem)] # EHWord
    BY <2>1, Bytes3 DEF Rest, TextInv
  <2>4. mem[Len(mem)] \in Returns /\ rbp = Len(mem) - 1
    BY <1>4, <2>3 DEF PlaceInv, Top
  <2> QED BY <1>2, <1>4, <2>2, <2>4
<1>5. CASE pc[2] = 1
  <2>1. text[pc[1]][2] = INT3
    BY <1>1, <1>5
  <2>2. text[pc[1]] = <<PUSHRBP, INT3>> /\ Armed(pc[1])
    BY <1>3, <2>1, Bytes3 DEF Bytes
  <2> QED BY <1>2, <1>5, <2>2
<1> QED BY <1>1, <1>4, <1>5

LEMMA InstructionRest ==
  ASSUME PlaceInv, PlaceInv', Rest,
         push_rbp \/ mov_rbp \/ ret \/ \E g \in Fns, s \in Sites : call(g, s)
  PROVE  Rest'
<1>1. Dbe /\ UNCHANGED <<state, current, dbg, text, undef>>
  BY DEF push_rbp, mov_rbp, ret, call
<1>2. /\ current = "dbe" /\ ~undef /\ ChildLives /\ dbg.alive /\ dbg.forked
      /\ current' = "dbe" /\ dbg'.forked
  BY <1>1, WhenDebuggeeRuns DEF Rest
<1>3. DbgShape'
  BY <1>1 DEF Rest, DbgShape
<1>4. StageInv'
  <2>1. ControlInv'
    BY <1>1, StayStep DEF Rest, StageInv
  <2> QED BY <1>1, <1>2, <2>1 DEF Rest, StageInv, AtStop, ChildLives
<1>5. ASSUME NEW f \in Fns \cup {EndHandler} PROVE Bytes(f)'
  <2>1. Bytes(f)
    BY <1>2 DEF Rest, TextInv
  <2>2. CASE text[f] = <<IF Armed(f) THEN INT3 ELSE PUSHRBP, INSN>>
    BY <1>1, <1>2, <2>2 DEF Bytes, Armed, Listed, Pos, AtStop
  <2>3. CASE text[f] = <<PUSHRBP, INT3>> /\ Armed(f) /\ pc = <<f, 0>>
    <3>1. push_rbp
      BY <2>3 DEF mov_rbp, ret, call
    <3>2. pc' = <<f, 1>>
      BY <2>3, <3>1 DEF push_rbp
    <3> QED BY <1>1, <2>3, <3>2 DEF Bytes, Armed, Listed, Pos
  <2>4. CASE text[f] = <<PUSHRBP, INT3>> /\ Armed(f) /\ pc = <<f, 1>>
    <3>1. Byte = INT3 /\ pc[2] = 1
      BY <2>4 DEF Byte
    <3> QED BY <3>1 DEF push_rbp, mov_rbp, ret, call
  <2> QED BY <2>1, <2>2, <2>3, <2>4 DEF Bytes
<1>6. mem'[Len(mem')] # EHWord
  <2>1. CASE pc'[2] # 0
    <3>1. pc'[2] \in {1, 2}
      BY <2>1 DEF PlaceInv
    <3>2. rbp' \in Nat
      BY PlaceFacts DEF PlaceInv, StackShape
    <3>3. mem'[Len(mem')] \in SavedFrames
      BY <3>1, <3>2, Kinds DEF PlaceInv, Top
    <3> QED BY <3>3, Kinds
  <2>2. ASSUME NEW g \in Fns, NEW s \in Sites, call(g, s) PROVE mem'[Len(mem')] # EHWord
    <3>1. PICK w : w = <<pc[1], s>>
      OBVIOUS
    <3>2. w \in Returns
      BY <2>2, <3>1, PlaceFacts DEF call, Returns, Addr
    <3>3. mem' = Append(mem, w)
      BY <2>2, <3>1 DEF call
    <3>4. mem'[Len(mem')] = w
      BY <3>3, PlaceFacts DEF StackShape
    <3> QED BY <3>2, <3>4, Kinds
  <2>3. ASSUME ret, PlantedHere PROVE mem'[Len(mem')] # EHWord
    <3>1. pc' = <<EndHandler, 0>>
      BY <2>3, RetPlace
    <3>2. mem'[Len(mem')] \in Returns
      BY <3>1 DEF PlaceInv, Top
    <3> QED BY <3>2, Kinds
  <2>4. ret /\ Unplanted => pc'[2] # 0
    BY RetPlace
  <2>5. push_rbp \/ mov_rbp => pc'[2] # 0
    BY DEF push_rbp, mov_rbp
  <2> QED BY <2>1, <2>2, <2>3, <2>4, <2>5, RetCases
<1>7. TextInv'
  BY <1>1, <1>5, <1>6 DEF Rest, TextInv
<1> QED BY <1>3, <1>4, <1>7 DEF Rest

\* The debugger gets control.
LEMMA HandoverStage ==
  ASSUME PlaceInv, Rest, Dbe, pc[2] = 0, NEW a, Handover(a), UNCHANGED <<debuggee, undef>>
         \/ (UNCHANGED <<pc, calls, undef>>),
         dbg'.alive, dbg'.forked, pc[1] \in Fns => OnStack(pc[1])'
  PROVE  StageInv'
<1> USE DEF debuggee
<1>1. /\ current = "dbe" /\ ~undef /\ ChildLives /\ dbg.alive /\ dbg.forked
  BY WhenDebuggeeRuns DEF Rest
<1>2. ControlInv
  BY DEF Rest, StageInv
<1>3. state' = [state EXCEPT !["dbe"] = WAITING, !["dbg"] = RUNNING] /\ current' = "dbg"
  BY DEF Handover, Switch
<1>4. state' \in [{"dbg", "dbe"} -> States] /\ state'["dbe"] = WAITING /\ state'["dbg"] = RUNNING
  BY <1>3 DEF Rest, StageInv, States
<1>5. ControlInv'
  BY <1>1, <1>3, <1>4 DEF ControlInv, Runnable, READY, RUNNING, WAITING, UNUSED
<1>6. ChildLives' /\ undef' = undef /\ pc' = pc /\ calls' = calls
  BY <1>4 DEF ChildLives, WAITING, UNUSED
<1> QED BY <1>1, <1>3, <1>4, <1>5, <1>6 DEF Rest, StageInv, AtStop

LEMMA StepBytes ==
  ASSUME PlaceInv, Rest, Trap, pc[2] = 0, text' = Stepping, pc' = pc, dbg'.head = dbg.head
  PROVE  /\ text' \in [Addr -> Byte2 \X Byte2] /\ text'[Main] = <<PUSHRBP, INSN>>
         /\ \A f \in Fns \cup {EndHandler} : Bytes(f)'
         /\ text'[pc[1]] = <<PUSHRBP, INT3>>
<1>1. pc[1] \in Fns \cup {EndHandler} /\ Armed(pc[1]) /\ pc[1] # Main
  BY AtTrap, Kinds
<1>2. text \in [Addr -> Byte2 \X Byte2] /\ text[Main] = <<PUSHRBP, INSN>>
  BY DEF Rest, TextInv
<1>3. text' = [text EXCEPT ![pc[1]] = <<PUSHRBP, INT3>>] /\ pc[1] \in Addr
  BY <1>1 DEF Stepping, Addr
<1>4. text' \in [Addr -> Byte2 \X Byte2] /\ text'[Main] = <<PUSHRBP, INSN>>
      /\ text'[pc[1]] = <<PUSHRBP, INT3>> /\ \A f \in Addr \ {pc[1]} : text'[f] = text[f]
  BY <1>1, <1>2, <1>3 DEF Byte2
<1>5. ASSUME NEW f \in Fns \cup {EndHandler} PROVE Bytes(f)'
  <2>1. Armed(f)' <=> Armed(f)
    BY DEF Armed, Listed, Pos
  <2>2. CASE f = pc[1]
    <3>1. pc' = <<f, 0>>
      BY <2>2, PlaceFacts
    <3> QED BY <1>1, <1>4, <2>1, <2>2, <3>1 DEF Bytes
  <2>3. CASE f # pc[1]
    <3>1. text'[f] = text[f] /\ Bytes(f)
      BY <1>4, <2>3, WhenDebuggeeRuns DEF Addr, Rest, TextInv, Trap
    <3>2. text[f] = <<IF Armed(f) THEN INT3 ELSE PUSHRBP, INSN>>
      BY <2>3, <3>1 DEF Bytes
    <3> QED BY <2>1, <2>3, <3>1, <3>2 DEF Bytes, AtStop
  <2> QED BY <2>2, <2>3
<1> QED BY <1>4, <1>5

\* What the handler records at a stop.
Recorded ==
  /\ DOMAIN dbg' = Fields /\ dbg'.minus = 0 /\ dbg'.nxt_instr = INSN
  /\ dbg'.alive = dbg.alive /\ dbg'.head = dbg.head /\ dbg'.last_num = dbg.last_num
  /\ dbg'.forked = dbg.forked
  /\ text' = Stepping /\ Handover(pc[1]) /\ UNCHANGED <<pc, rbp, calls, undef>>

TopEntry == [start |-> pc[1], ret |-> mem[Len(mem)]]

LEMMA EntryData ==
  ASSUME PlaceInv, Rest, StopAtEntry, ~Undefined
  PROVE  \E i \in Pos(pc[1]) :
           /\ Recorded
           /\ dbg'.stack = IF FromMain THEN <<TopEntry>> ELSE Append(dbg.stack, TopEntry)
           /\ dbg'.backtrace = <<<<pc[1], 0>>, mem[Len(mem)]>> \o WalkFrames(mem)
           /\ dbg'.rdx_change = IF dbg.head[i].end_enable = 1 THEN dbg.rdx_change + 8 ELSE dbg.rdx_change
           /\ mem' = IF dbg.head[i].end_enable = 1 THEN Append(mem, EHWord) ELSE mem
           /\ ~FromMain => Len(dbg.stack) # MAX_BACKTRACE
           /\ Len(dbg'.backtrace) <= MAX_BACKTRACE
<1>1. text[pc[1]][2] = INSN /\ dbg.minus = 0 /\ DOMAIN dbg = Fields
  BY AtTrap DEF StopAtEntry, Rest, DbgShape
<1>2. PICK i \in Pos(pc[1]) :
        /\ ~FromMain => Len(dbg.stack) # MAX_BACKTRACE
        /\ Len(<<<<pc[1], 0>>, Last(mem)>> \o WalkFrames(mem)) <= MAX_BACKTRACE
        /\ dbg' = [dbg EXCEPT
                       !.backtrace = <<<<pc[1], 0>>, Last(mem)>> \o WalkFrames(mem),
                       !.stack = IF FromMain THEN <<[start |-> pc[1], ret |-> Last(mem)]>>
                                 ELSE IF dbg.minus > 0 THEN @ ELSE Append(@, [start |-> pc[1], ret |-> Last(mem)]),
                       !.minus = IF FromMain \/ @ = 0 THEN 0 ELSE @ - 1,
                       !.nxt_instr = text[pc[1]][2],
                       !.regs = Regs,
                       !.rdx_change = IF dbg.head[i].end_enable = 1 THEN @ + 8 ELSE @]
        /\ text' = Stepping
        /\ mem' = IF dbg.head[i].end_enable = 1 THEN Append(mem, EHWord) ELSE mem
        /\ Handover(pc[1])
        /\ UNCHANGED <<pc, rbp, calls, undef>>
  BY DEF StopAtEntry
<1>3. PICK stack, bt, rdx, regs, minus, nxt :
        /\ bt = <<<<pc[1], 0>>, Last(mem)>> \o WalkFrames(mem)
        /\ stack = IF FromMain THEN <<[start |-> pc[1], ret |-> Last(mem)]>>
                   ELSE IF dbg.minus > 0 THEN dbg.stack
                   ELSE Append(dbg.stack, [start |-> pc[1], ret |-> Last(mem)])
        /\ minus = IF FromMain \/ dbg.minus = 0 THEN 0 ELSE dbg.minus - 1
        /\ nxt = text[pc[1]][2]
        /\ regs = Regs
        /\ rdx = IF dbg.head[i].end_enable = 1 THEN dbg.rdx_change + 8 ELSE dbg.rdx_change
  OBVIOUS
<1>4. dbg' = [dbg EXCEPT !.backtrace = bt, !.stack = stack, !.minus = minus, !.nxt_instr = nxt,
                         !.regs = regs, !.rdx_change = rdx]
  BY <1>2, <1>3
<1>5. minus = 0 /\ nxt = INSN
  BY <1>1, <1>3
<1>6. /\ dbg'.backtrace = bt /\ dbg'.stack = stack /\ dbg'.minus = minus /\ dbg'.nxt_instr = nxt
      /\ dbg'.rdx_change = rdx /\ DOMAIN dbg' = Fields
      /\ dbg'.alive = dbg.alive /\ dbg'.head = dbg.head /\ dbg'.last_num = dbg.last_num
      /\ dbg'.forked = dbg.forked
  BY <1>1, <1>4 DEF Fields
<1>7. stack = IF FromMain THEN <<TopEntry>> ELSE Append(dbg.stack, TopEntry)
  BY <1>1, <1>3 DEF Last, TopEntry
<1>8. bt = <<<<pc[1], 0>>, mem[Len(mem)]>> \o WalkFrames(mem)
  BY <1>3 DEF Last
<1>9. Recorded
  BY <1>2, <1>5, <1>6 DEF Recorded
<1>10. Len(bt) <= MAX_BACKTRACE
  BY <1>2, <1>3
<1> QED BY <1>2, <1>3, <1>6, <1>7, <1>8, <1>9, <1>10

LEMMA EntryPlace ==
  ASSUME PlaceInv, Rest, StopAtEntry, ~Undefined
  PROVE  PlaceInv'
<1>1. PICK i \in Pos(pc[1]) :
        mem' = (IF dbg.head[i].end_enable = 1 THEN Append(mem, EHWord) ELSE mem) /\ Recorded
  BY EntryData
<1>2. UNCHANGED <<pc, rbp, calls>> /\ pc[2] = 0 /\ mem[Len(mem)] \in Returns /\ rbp = Len(mem) - 1
  BY <1>1, AtTrap DEF Recorded, StopAtEntry
<1>3. pc[1] \in Fns
  <2>1. Listed(pc[1])
    BY <1>1 DEF Listed
  <2> QED BY <2>1, ListedFns DEF Rest
<1>4. CASE mem' = mem
  BY <1>2, <1>4, PlaceKept DEF debuggee
<1>5. CASE mem' = Append(mem, EHWord)
  <2>1. PICK m : m = Append(mem, EHWord)
    OBVIOUS
  <2>2. m[Len(mem) + 1] = EHWord /\ m[Len(mem)] = mem[Len(mem)] /\ Len(m) = Len(mem) + 1
    BY <2>1, PlaceFacts DEF StackShape
  <2>3. EHWord \in Words
    BY DEF Words
  <2>4. Follows(m, Len(mem) + 1)
    <3>1. Len(mem) + 1 - 1 = Len(mem)
      BY PlaceFacts
    <3> QED BY <1>2, <2>2, <3>1 DEF Follows
  <2>5. StackShape(m)
    BY <2>1, <2>3, <2>4, PlaceFacts, Pushed
  <2>6. Top(m, rbp, pc)
    <3>1. rbp = Len(m) - 2 /\ pc[1] # EndHandler
      BY <1>2, <1>3, <2>2, Kinds, PlaceFacts
    <3> QED BY <1>2, <2>2, <3>1 DEF Top
  <2>7. rbp \in 2 .. Len(m)
    BY <2>2, PlaceFacts DEF PlaceInv
  <2>8. pc \in Addr \X (0 .. 2) /\ (pc[1] = Main => pc[2] = 2) /\ calls \in 0 .. MaxCalls
    BY DEF PlaceInv
  <2> QED BY <1>2, <1>5, <2>1, <2>5, <2>6, <2>7, <2>8, PlaceSet
<1> QED BY <1>1, <1>4, <1>5

LEMMA StoppedRest ==
  ASSUME PlaceInv, Rest, Trap, pc[2] = 0, Recorded, mem' = mem \/ mem' = Append(mem, EHWord),
         dbg'.stack \in Seq(Entries), Len(dbg'.stack) <= MAX_BACKTRACE,
         Len(dbg'.backtrace) <= MAX_BACKTRACE,
         pc[1] \in Fns => \E e \in DOMAIN dbg'.stack : dbg'.stack[e].start = pc[1]
  PROVE  Rest'
<1>1. DbgShape'
  BY DEF Rest, DbgShape, Recorded
<1>2. dbg.alive /\ dbg.forked /\ Dbe /\ pc' = pc
  BY WhenDebuggeeRuns DEF Rest, Trap, Recorded
<1>3. StageInv'
  <2>1. pc[1] \in Fns => OnStack(pc[1])'
    BY <1>2 DEF OnStack
  <2>2. dbg'.alive /\ dbg'.forked /\ Handover(pc[1]) /\ UNCHANGED <<pc, calls, undef>>
    BY <1>2 DEF Recorded
  <2> QED BY <1>2, <2>1, <2>2, HandoverStage
<1>4. TextInv'
  <2>1. text' = Stepping /\ dbg'.head = dbg.head
    BY DEF Recorded
  <2>2. /\ text' \in [Addr -> Byte2 \X Byte2] /\ text'[Main] = <<PUSHRBP, INSN>>
        /\ \A f \in Fns \cup {EndHandler} : Bytes(f)'
        /\ text'[pc[1]] = <<PUSHRBP, INT3>>
    BY <1>2, <2>1, StepBytes
  <2>3. text'[pc'[1]][1] = PUSHRBP
    BY <1>2, <2>2
  <2> QED BY <2>2, <2>3 DEF TextInv
<1> QED BY <1>1, <1>3, <1>4 DEF Rest

LEMMA EntryRest ==
  ASSUME PlaceInv, Rest, StopAtEntry, ~Undefined
  PROVE  Rest'
<1>1. PICK i \in Pos(pc[1]) :
           /\ Recorded
           /\ dbg'.stack = IF FromMain THEN <<TopEntry>> ELSE Append(dbg.stack, TopEntry)
           /\ mem' = IF dbg.head[i].end_enable = 1 THEN Append(mem, EHWord) ELSE mem
           /\ ~FromMain => Len(dbg.stack) # MAX_BACKTRACE
           /\ Len(dbg'.backtrace) <= MAX_BACKTRACE
  BY EntryData
<1>2. Trap /\ pc[2] = 0 /\ mem[Len(mem)] \in Returns
  BY AtTrap DEF StopAtEntry
<1>3. Listed(pc[1])
  BY <1>1 DEF Listed
<1>4. TopEntry \in Entries /\ TopEntry.start = pc[1]
  BY <1>2, <1>3, ListedFns DEF Rest, TopEntry, Entries
<1>5. dbg.stack \in Seq(Entries) /\ Len(dbg.stack) <= MAX_BACKTRACE
  BY DEF Rest, DbgShape
<1>6. /\ dbg'.stack \in Seq(Entries) /\ Len(dbg'.stack) <= MAX_BACKTRACE
      /\ \E e \in DOMAIN dbg'.stack : dbg'.stack[e].start = pc[1]
  <2>1. PICK t : t = TopEntry
    OBVIOUS
  <2>2. PICK stack : stack = dbg.stack
    OBVIOUS
  <2>3. CASE FromMain
    <3>1. dbg'.stack = <<t>>
      BY <1>1, <2>1, <2>3
    <3>2. <<t>> \in Seq(Entries) /\ Len(<<t>>) = 1 /\ 1 \in DOMAIN <<t>> /\ <<t>>[1] = t
      BY <1>4, <2>1
    <3> QED BY <1>4, <2>1, <3>1, <3>2, DebuggerAssumption
  <2>4. CASE ~FromMain
    <3>1. dbg'.stack = Append(stack, t) /\ Len(stack) # MAX_BACKTRACE
      BY <1>1, <2>1, <2>2, <2>4
    <3>2. /\ Append(stack, t) \in Seq(Entries) /\ Len(Append(stack, t)) = Len(stack) + 1
          /\ Append(stack, t)[Len(stack) + 1] = t /\ Len(stack) + 1 \in DOMAIN Append(stack, t)
          /\ Len(stack) \in Nat
      BY <1>4, <1>5, <2>1, <2>2
    <3> QED BY <1>4, <1>5, <2>1, <2>2, <3>1, <3>2, DebuggerAssumption
  <2> QED BY <2>3, <2>4
<1>7. mem' = mem \/ mem' = Append(mem, EHWord)
  BY <1>1
<1> QED BY <1>1, <1>2, <1>6, <1>7, StoppedRest

\* The last entry with a return address.
LEMMA LeastNumber ==
  ASSUME NEW S \in SUBSET Nat, S # {}
  PROVE  \E n \in S : \A m \in S : n <= m
<1>1. \E n \in S : \A m \in S : ~(m < n)
  <2>1. \E n \in S : \A m \in S : <<m, n>> \notin OpToRel(<, Nat)
    BY NatLessThanWellFounded, WFMin
  <2> QED BY <2>1 DEF OpToRel
<1> QED BY <1>1

LEMMA GreatestNumber ==
  ASSUME NEW top \in Nat, NEW S \in SUBSET (1 .. top), S # {}
  PROVE  Max(S) \in S /\ \A m \in S : m <= Max(S)
<1> DEFINE below == {top - i : i \in S}
<1>1. below \in SUBSET Nat /\ below # {}
  <2>1. \A i \in S : top - i \in Nat
    OBVIOUS
  <2> QED BY <2>1
<1> HIDE DEF below
<1>2. PICK n \in below : \A m \in below : n <= m
  BY <1>1, LeastNumber
<1>3. PICK i \in S : n = top - i
  BY <1>2 DEF below
<1>4. \A j \in S : j <= i
  <2>1. \A j \in S : top - i <= top - j
    BY <1>2, <1>3 DEF below
  <2> QED BY <2>1
<1>5. \E x \in S : \A y \in S : x >= y
  BY <1>4
<1> QED BY <1>5 DEF Max

LEMMA LastEntry ==
  ASSUME NEW top \in Nat, NEW S \in SUBSET (1 .. top), NEW i, i = IF S # {} THEN Max(S) ELSE 0
  PROVE  i \in 0 .. top /\ \A e \in S : e <= i
<1>1. CASE S = {}
  <2>1. i = 0
    BY <1>1
  <2> QED BY <1>1, <2>1
<1>2. CASE S # {}
  <2>1. Max(S) \in S /\ \A m \in S : m <= Max(S)
    BY <1>2, GreatestNumber
  <2>2. i = Max(S)
    BY <1>2
  <2>3. i \in 1 .. top
    BY <2>1, <2>2
  <2> QED BY <2>1, <2>2, <2>3
<1> QED BY <1>1, <1>2

\* What the handler records at an end, if it finds an entry.
LEMMA EndData ==
  ASSUME PlaceInv, Rest, StopAtEnd, ~Undefined,
         \E e \in DOMAIN dbg.stack : dbg.stack[e].ret = mem[Len(mem)]
  PROVE  /\ Recorded /\ UNCHANGED mem /\ pc[1] = EndHandler
         /\ Len(dbg'.backtrace) <= MAX_BACKTRACE
         /\ dbg'.backtrace = <<mem[Len(mem)]>> \o WalkFrames(mem)
         /\ dbg'.rdx_change = dbg.rdx_change - 8
         /\ \E i \in 1 .. Len(dbg.stack) :
              /\ dbg'.stack = SubSeq(dbg.stack, 1, i - 1)
              /\ \A e \in DOMAIN dbg.stack : dbg.stack[e].ret = mem[Len(mem)] => e <= i
<1>1. /\ text[pc[1]][2] = INSN /\ dbg.minus = 0 /\ DOMAIN dbg = Fields /\ DbgShape
      /\ pc[1] = EndHandler
  BY AtTrap DEF StopAtEnd, Rest, DbgShape, Armed
<1>2. PICK i : i = SelectLastInSeq(dbg.stack, LAMBDA e : e.ret = mem[Len(mem)])
  OBVIOUS
<1>3. i \in 0 .. Len(dbg.stack) /\ \A e \in DOMAIN dbg.stack : dbg.stack[e].ret = mem[Len(mem)] => e <= i
  <2>1. PICK S : S = {e \in 1 .. Len(dbg.stack) : dbg.stack[e].ret = mem[Len(mem)]}
    OBVIOUS
  <2>2. i = IF S # {} THEN Max(S) ELSE 0
    BY <1>2, <2>1 DEF SelectLastInSeq
  <2>3. Len(dbg.stack) \in Nat /\ S \in SUBSET (1 .. Len(dbg.stack)) /\ DOMAIN dbg.stack = 1 .. Len(dbg.stack)
    BY <1>1, <2>1 DEF DbgShape
  <2>4. i \in 0 .. Len(dbg.stack) /\ \A e \in S : e <= i
    BY <2>2, <2>3, LastEntry
  <2> QED BY <2>1, <2>3, <2>4
<1>4. i \in 1 .. Len(dbg.stack)
  BY <1>3, <1>1 DEF DbgShape
<1>5. /\ dbg' = [dbg EXCEPT
             !.backtrace = <<Last(mem)>> \o WalkFrames(mem),
             !.stack = SubSeq(@, 1, i - 1), !.minus = IF i = 0 THEN @ + 1 ELSE 0,
             !.nxt_instr = text[pc[1]][2],
             !.regs = Regs, !.rdx_change = @ - 8]
      /\ text' = Stepping /\ Handover(pc[1]) /\ UNCHANGED <<debuggee, undef>>
      /\ Len(<<Last(mem)>> \o WalkFrames(mem)) <= MAX_BACKTRACE
  BY <1>2 DEF StopAtEnd, Last
<1>6. PICK bt, regs, minus, nxt :
        /\ bt = <<Last(mem)>> \o WalkFrames(mem) /\ regs = Regs /\ nxt = text[pc[1]][2]
        /\ minus = IF i = 0 THEN dbg.minus + 1 ELSE 0
  OBVIOUS
<1>7. dbg' = [dbg EXCEPT !.backtrace = bt, !.stack = SubSeq(@, 1, i - 1), !.minus = minus,
                         !.nxt_instr = nxt, !.regs = regs, !.rdx_change = @ - 8]
  BY <1>5, <1>6
<1>8. minus = 0 /\ nxt = INSN
  BY <1>1, <1>4, <1>6
<1>9. /\ dbg'.backtrace = bt /\ dbg'.stack = SubSeq(dbg.stack, 1, i - 1) /\ dbg'.minus = minus
      /\ dbg'.nxt_instr = nxt /\ dbg'.rdx_change = dbg.rdx_change - 8 /\ DOMAIN dbg' = Fields
      /\ dbg'.alive = dbg.alive /\ dbg'.head = dbg.head /\ dbg'.last_num = dbg.last_num
      /\ dbg'.forked = dbg.forked
  BY <1>1, <1>7 DEF Fields
<1>10. Recorded /\ UNCHANGED mem
  BY <1>5, <1>8, <1>9 DEF Recorded, debuggee
<1>11. dbg'.backtrace = <<mem[Len(mem)]>> \o WalkFrames(mem)
  BY <1>6, <1>9 DEF Last
<1>12. Len(bt) <= MAX_BACKTRACE
  BY <1>5, <1>6
<1> QED BY <1>1, <1>3, <1>4, <1>9, <1>10, <1>11, <1>12

LEMMA EndRest ==
  ASSUME PlaceInv, Rest, StopAtEnd, ~Undefined,
         \E e \in DOMAIN dbg.stack : dbg.stack[e].ret = mem[Len(mem)]
  PROVE  Rest' /\ PlaceInv'
<1>1. PICK i \in 1 .. Len(dbg.stack) : dbg'.stack = SubSeq(dbg.stack, 1, i - 1)
  BY EndData
<1>2. Recorded /\ UNCHANGED mem /\ pc[1] = EndHandler /\ Len(dbg'.backtrace) <= MAX_BACKTRACE
  BY EndData
<1>3. dbg'.stack \in Seq(Entries) /\ Len(dbg'.stack) <= MAX_BACKTRACE
  <2>1. dbg.stack \in Seq(Entries) /\ Len(dbg.stack) <= MAX_BACKTRACE /\ Len(dbg.stack) \in Nat
    BY DEF Rest, DbgShape
  <2> QED BY <1>1, <2>1, DebuggerAssumption
<1>4. Trap /\ pc[2] = 0
  BY DEF StopAtEnd
<1>5. Rest'
  BY <1>2, <1>3, <1>4, Kinds, StoppedRest
<1>6. PlaceInv'
  BY <1>2, PlaceKept DEF Recorded, debuggee
<1> QED BY <1>5, <1>6

LEMMA ResumeRest ==
  ASSUME PlaceInv, Rest, Resume
  PROVE  Rest' /\ PlaceInv' /\ ~Undefined
<1>1. /\ Dbe /\ text[pc[1]] = <<PUSHRBP, INT3>> /\ Armed(pc[1]) /\ pc[1] \in Fns \cup {EndHandler} /\ pc[2] = 1
  BY AtTrap DEF Resume, Trap
<1>2. /\ text' = [text EXCEPT ![pc[1]] = <<INT3, dbg.nxt_instr>>]
      /\ state' = [state EXCEPT !["dbg"] = WAITING, !["dbe"] = RUNNING]
      /\ UNCHANGED <<current, dbg, debuggee, res, undef>>
  BY <1>1 DEF Resume
<1>3. /\ current = "dbe" /\ ~undef /\ ChildLives /\ dbg.alive /\ dbg.forked
  BY <1>1, WhenDebuggeeRuns DEF Rest
<1>4. text' = [text EXCEPT ![pc[1]] = <<INT3, INSN>>] /\ pc[1] \in Addr
  BY <1>1, <1>2 DEF Rest, DbgShape, Addr
<1>5. DbgShape'
  BY <1>2 DEF Rest, DbgShape
<1>6. ControlInv'
  BY <1>1, DebuggeeStepKeeps DEF DebuggeeStep, Rest, StageInv
<1>7. StageInv'
  <2>1. state' \in [{"dbg", "dbe"} -> States] /\ state'["dbe"] = RUNNING
    BY <1>2 DEF Rest, StageInv, States
  <2>2. ChildLives'
    BY <2>1 DEF ChildLives, RUNNING, UNUSED
  <2> QED BY <1>2, <1>3, <1>6, <2>1, <2>2 DEF Rest, StageInv, AtStop, debuggee
<1>8. TextInv'
  <2>1. text \in [Addr -> Byte2 \X Byte2] /\ text[Main] = <<PUSHRBP, INSN>> /\ pc[1] # Main
    BY <1>1, Kinds DEF Rest, TextInv
  <2>2. text' \in [Addr -> Byte2 \X Byte2] /\ text'[Main] = <<PUSHRBP, INSN>>
        /\ text'[pc[1]] = <<INT3, INSN>> /\ \A f \in Addr \ {pc[1]} : text'[f] = text[f]
    BY <1>4, <2>1 DEF Byte2, Addr
  <2>3. ASSUME NEW f \in Fns \cup {EndHandler} PROVE Bytes(f)'
    <3>1. Armed(f)' <=> Armed(f)
      BY <1>2 DEF Armed, Listed, Pos
    <3>2. CASE f = pc[1]
      BY <1>1, <1>2, <1>3, <2>2, <3>1, <3>2 DEF Bytes, AtStop
    <3>3. CASE f # pc[1]
      <4>1. text'[f] = text[f] /\ Bytes(f)
        BY <1>3, <2>2, <3>3 DEF Addr, Rest, TextInv
      <4> QED BY <1>2, <1>3, <3>1, <3>3, <4>1 DEF Bytes, AtStop, debuggee
    <3> QED BY <3>2, <3>3
  <2>4. mem[Len(mem)] # EHWord
    <3>1. mem[Len(mem)] = FrameWord(rbp)
      BY <1>1 DEF PlaceInv, Top
    <3> QED BY <3>1, Kinds
  <2>5. mem'[Len(mem')] # EHWord
    BY <1>2, <2>4 DEF debuggee
  <2> QED BY <2>2, <2>3, <2>5 DEF TextInv
<1>9. PlaceInv'
  BY <1>2, PlaceKept
<1>10. ~Undefined
  BY <1>2, <1>3 DEF Undefined
<1> QED BY <1>5, <1>7, <1>8, <1>9, <1>10 DEF Rest

LEMMA ExitRest ==
  ASSUME PlaceInv, Rest, debuggee_exit
  PROVE  Rest' /\ PlaceInv'
<1>1. /\ Dbe /\ pc = <<Main, 2>>
      /\ state' = [state EXCEPT !["dbe"] = UNUSED, !["dbg"] = RUNNING] /\ current' = "dbg"
      /\ UNCHANGED <<dbg, text, debuggee, undef>>
  BY DEF debuggee_exit, Switch
<1>2. /\ current = "dbe" /\ ~undef /\ ChildLives /\ dbg.alive /\ dbg.forked
  BY <1>1, WhenDebuggeeRuns DEF Rest
<1>3. ControlInv'
  BY DebuggeeStepKeeps DEF DebuggeeStep, Rest, StageInv
<1>4. state' \in [{"dbg", "dbe"} -> States] /\ ~ChildLives'
  BY <1>1 DEF Rest, StageInv, States, ChildLives
<1>5. DbgShape'
  BY <1>1 DEF Rest, DbgShape
<1>10. Len(mem) = 2
  <2>1. mem[rbp - 1] = END_ADDR /\ mem[rbp] \in SavedFrames /\ rbp = Len(mem)
    BY <1>1 DEF debuggee_exit, PlaceInv, Top
  <2>2. rbp \notin 3 .. Len(mem)
    BY <2>1, PlaceFacts, BelowFrame
  <2> QED BY <2>1, <2>2, PlaceFacts
<1>6. StageInv'
  BY <1>1, <1>2, <1>3, <1>4, <1>10 DEF Rest, StageInv, AtStop, debuggee
<1>7. ASSUME NEW f \in Fns \cup {EndHandler} PROVE Bytes(f)'
  <2>1. Bytes(f) /\ f # Main /\ (Armed(f)' <=> Armed(f))
    BY <1>1, <1>2, Kinds DEF Rest, TextInv, Armed, Listed, Pos
  <2> QED BY <1>1, <1>4, <2>1 DEF Bytes, AtStop, debuggee
<1>8. TextInv'
  BY <1>1, <1>7 DEF Rest, TextInv, debuggee
<1>9. PlaceInv'
  BY <1>1, PlaceKept
<1> QED BY <1>5, <1>6, <1>8, <1>9 DEF Rest

\* One of the two waits, so a tick only puts the other back where it was.
LEMMA TickRest ==
  ASSUME PlaceInv, Rest, handle_timer_tick
  PROVE  Rest' /\ PlaceInv' /\ current' = current
<1> USE DEF UNUSED, READY, RUNNING, WAITING
<1>1. ~undef /\ current \in {"dbg", "dbe"} /\ UNCHANGED <<dbg, text, debuggee, undef>> /\ ControlInv
  BY DEF handle_timer_tick, Rest, StageInv
<1>2. pick_next_context(current) = {}
  BY <1>1 DEF ControlInv, pick_next_context
<1>3. current' = current /\ state' = [p \in DOMAIN state |-> IF p = current THEN READY ELSE state[p]]
  BY <1>2 DEF handle_timer_tick
<1>4. state' \in [{"dbg", "dbe"} -> States] /\ (ChildLives' <=> ChildLives)
  BY <1>1, <1>3 DEF ControlInv, States, ChildLives, Runnable
<1>5. ControlInv'
  BY <1>1, TickKeeps
<1>6. DbgShape'
  BY <1>1 DEF Rest, DbgShape
<1>7. StageInv'
  BY <1>1, <1>3, <1>4, <1>5 DEF Rest, StageInv, AtStop, debuggee, OnStack
<1>8. ASSUME NEW f \in Fns \cup {EndHandler}, dbg'.alive PROVE Bytes(f)'
  <2>1. Bytes(f) /\ (Armed(f)' <=> Armed(f))
    BY <1>1, <1>8 DEF Rest, TextInv, Armed, Listed, Pos
  <2> QED BY <1>1, <1>3, <1>4, <2>1 DEF Bytes, AtStop, debuggee
<1>9. TextInv'
  BY <1>1, <1>8 DEF Rest, TextInv, debuggee
<1> QED BY <1>1, <1>3, <1>6, <1>7, <1>9, PlaceKept DEF Rest

-----------------------------------------------------------------------------
\* The debugger's calls.
LEMMA NoEntry ==
  ASSUME NEW e, e = << >>
  PROVE  Len(e) = 0 /\ DOMAIN e = {} /\ \A S : e \in Seq(S)
  OBVIOUS

LEMMA EmptyShape ==
  ASSUME NEW h, h = << >>, NEW s, s = << >>, NEW d,
         DOMAIN d = Fields, d.alive \in BOOLEAN, d.last_num = 0, d.minus = 0,
         d.nxt_instr = INSN, d.forked \in BOOLEAN, d.head = h, d.stack = s, d.backtrace = s, dbg' = d
  PROVE  DbgShape'
<1>1. h \in Seq(Breakpoints) /\ Len(h) = 0 /\ DOMAIN h = {}
  BY NoEntry
<1>2. s \in Seq(Entries) /\ Len(s) = 0
  BY NoEntry
<1>3. /\ DOMAIN dbg' = Fields /\ dbg'.alive \in BOOLEAN /\ dbg'.last_num \in Nat /\ dbg'.minus = 0
      /\ dbg'.nxt_instr = INSN /\ dbg'.forked \in BOOLEAN /\ dbg'.head = h /\ dbg'.stack = s
      /\ dbg'.backtrace = s
  OBVIOUS
<1>4. Len(h) <= MAX_BREAKPOINTS /\ Len(s) <= MAX_BACKTRACE
  BY <1>1, <1>2, DebuggerAssumption
<1>5. \A i, j \in DOMAIN h : h[i].addr = h[j].addr => i = j
  BY <1>1
<1>6. Len(dbg'.head) <= MAX_BREAKPOINTS /\ dbg'.head \in Seq(Breakpoints)
  BY <1>1, <1>3, <1>4
<1>7. /\ Len(dbg'.stack) <= MAX_BACKTRACE /\ dbg'.stack \in Seq(Entries)
      /\ Len(dbg'.backtrace) <= MAX_BACKTRACE
  BY <1>2, <1>3, <1>4
<1>8. \A i, j \in DOMAIN dbg'.head : dbg'.head[i].addr = dbg'.head[j].addr => i = j
  BY <1>3, <1>5
<1> QED BY <1>3, <1>6, <1>7, <1>8 DEF DbgShape

LEMMA BecomeRest ==
  ASSUME PlaceInv, Rest, ~dbg.alive, do_become_debugger(TRUE)
  PROVE  Rest' /\ PlaceInv'
<1>1. /\ Dbg /\ dbg' = [NoDbg EXCEPT !.alive = TRUE] /\ text' = [text EXCEPT ![EndHandler][1] = INT3]
      /\ UNCHANGED <<state, current, debuggee, undef>>
  BY DEF do_become_debugger, Return
<1>2. /\ text = [f \in Addr |-> <<PUSHRBP, INSN>>] /\ dbg = NoDbg /\ ~ChildLives /\ pc = <<Main, 2>>
      /\ current = "dbg" /\ ~undef
  BY <1>1 DEF Rest, StageInv, Dbg
<1>3. /\ DOMAIN dbg' = Fields /\ dbg'.alive /\ dbg'.head = <<>> /\ dbg'.last_num = 0 /\ dbg'.stack = <<>>
      /\ dbg'.minus = 0 /\ dbg'.nxt_instr = INSN /\ dbg'.forked = FALSE /\ dbg'.alive \in BOOLEAN
      /\ dbg'.backtrace = <<>>
  BY <1>1 DEF NoDbg, Fields
<1>5. DbgShape'
  BY <1>3, EmptyShape
<1>6. StageInv'
  <2>1. calls = 0
    BY <1>2 DEF Rest, StageInv, NoDbg
  <2>2. ControlInv'
    BY <1>1, StayStep DEF Rest, StageInv
  <2> QED BY <1>1, <1>2, <1>3, <2>1, <2>2 DEF Rest, StageInv, AtStop, ChildLives, debuggee
<1>7. TextInv'
  <2>1. /\ text' \in [Addr -> Byte2 \X Byte2] /\ text'[EndHandler] = <<INT3, INSN>>
        /\ \A f \in Addr \ {EndHandler} : text'[f] = <<PUSHRBP, INSN>>
    BY <1>1, <1>2 DEF Addr, Byte2
  <2>2. ASSUME NEW f \in Fns \cup {EndHandler} PROVE Bytes(f)'
    <3>1. ~Listed(f)'
      BY <1>3 DEF Listed, Pos
    <3>2. ~AtStop'
      BY <1>1, <1>2 DEF AtStop, debuggee
    <3> QED BY <2>1, <3>1, <3>2, Kinds DEF Bytes, Armed, Addr
  <2>3. text'[Main] = <<PUSHRBP, INSN>> /\ pc'[1] = Main
    BY <1>1, <1>2, <2>1, Kinds DEF debuggee, Addr
  <2> QED BY <2>1, <2>2, <2>3 DEF TextInv
<1> QED BY <1>1, <1>5, <1>6, <1>7, PlaceKept DEF Rest

LEMMA ForkRest ==
  ASSUME PlaceInv, Rest, dbg.alive, do_fork
  PROVE  Rest' /\ PlaceInv' /\ DOMAIN dbg' = Fields /\ dbg'.stack = dbg.stack /\ dbg'.rdx_change = dbg.rdx_change
         /\ UNCHANGED <<text, current, mem, pc>>
<1>1. /\ Dbg /\ ~ChildLives /\ ~dbg.forked /\ state' = [state EXCEPT !["dbe"] = WAITING]
      /\ dbg' = [dbg EXCEPT !.forked = TRUE] /\ UNCHANGED <<current, text, debuggee, undef>>
  BY DEF do_fork, debugger_on_fork, ChildLives
<1>2. pc = <<Main, 2>> /\ calls = 0 /\ current = "dbg" /\ ~undef
  BY <1>1 DEF Rest, StageInv, Dbg
<1>3. /\ DOMAIN dbg' = Fields /\ dbg'.forked = TRUE /\ dbg'.alive = dbg.alive /\ dbg'.head = dbg.head
      /\ dbg'.last_num = dbg.last_num /\ dbg'.stack = dbg.stack /\ dbg'.minus = dbg.minus
      /\ dbg'.nxt_instr = dbg.nxt_instr /\ dbg'.rdx_change = dbg.rdx_change
      /\ dbg'.backtrace = dbg.backtrace
  BY <1>1 DEF Rest, DbgShape, Fields
<1>4. DbgShape'
  BY <1>3 DEF Rest, DbgShape
<1>5. ControlInv'
  BY AnyCallKeeps DEF AnyCall, Rest, StageInv
<1>6. state' \in [{"dbg", "dbe"} -> States]
  BY <1>1 DEF Rest, StageInv, States
<1>7. StageInv'
  BY <1>1, <1>2, <1>3, <1>5, <1>6 DEF Rest, StageInv, AtStop, ChildLives, debuggee
<1>8. ASSUME NEW f \in Fns \cup {EndHandler} PROVE Bytes(f)'
  <2>1. Bytes(f) /\ (Armed(f)' <=> Armed(f)) /\ f # Main
    BY <1>3, Kinds DEF Rest, TextInv, Armed, Listed, Pos
  <2> QED BY <1>1, <1>2, <2>1 DEF Bytes, AtStop, debuggee
<1>9. TextInv'
  BY <1>1, <1>8 DEF Rest, TextInv, debuggee
<1> QED BY <1>1, <1>3, <1>4, <1>7, <1>9, PlaceKept DEF Rest, debuggee

LEMMA WaitRest ==
  ASSUME PlaceInv, Rest, ChildLives, do_wait_and_continue
  PROVE  Rest' /\ PlaceInv' /\ current' = "dbe" /\ current = "dbg" /\ UNCHANGED <<dbg, text, debuggee>>
<1>1. Dbg /\ dbg.alive /\ dbg.forked /\ state["dbe"] # UNUSED
  BY DEF do_wait_and_continue, Rest, StageInv, ChildLives
<1>2. /\ state' = [state EXCEPT !["dbg"] = WAITING, !["dbe"] = RUNNING] /\ current' = "dbe"
      /\ UNCHANGED <<dbg, text, debuggee, undef>>
  BY <1>1 DEF do_wait_and_continue, Switch
<1>3. current = "dbg" /\ ~undef
  BY <1>1 DEF Dbg
<1>4. ControlInv'
  BY AnyCallKeeps DEF AnyCall, Rest, StageInv
<1>5. state' \in [{"dbg", "dbe"} -> States] /\ ChildLives'
  BY <1>2 DEF Rest, StageInv, States, ChildLives, RUNNING, UNUSED
<1>6. StageInv'
  BY <1>1, <1>2, <1>3, <1>4, <1>5 DEF Rest, StageInv, AtStop, debuggee
<1>7. DbgShape'
  BY <1>2 DEF Rest, DbgShape
<1>8. ASSUME NEW f \in Fns \cup {EndHandler} PROVE Bytes(f)'
  <2>1. Bytes(f) /\ (Armed(f)' <=> Armed(f))
    BY <1>1, <1>2 DEF Rest, TextInv, Armed, Listed, Pos
  <2> QED BY <1>2, <2>1 DEF Bytes, AtStop, debuggee
<1>9. TextInv'
  BY <1>2, <1>8 DEF Rest, TextInv, debuggee
<1> QED BY <1>2, <1>3, <1>6, <1>7, <1>9, PlaceKept DEF Rest

LEMMA LeaveRest ==
  ASSUME PlaceInv, Rest, dbg.forked, ~ChildLives, debugger_exit
  PROVE  Rest' /\ PlaceInv' /\ dbg' = NoDbg /\ UNCHANGED <<mem, pc>> /\ current' = "off"
<1>1. /\ Dbg /\ dbg' = NoDbg /\ state' = [state EXCEPT !["dbg"] = UNUSED] /\ current' = "off"
      /\ UNCHANGED <<text, debuggee, undef>>
  BY DEF debugger_exit, ChildLives
<1>2. ControlInv'
  BY AnyCallKeeps DEF AnyCall, Rest, StageInv
<1>3. state' \in [{"dbg", "dbe"} -> States] /\ ~ChildLives'
  BY <1>1 DEF Rest, StageInv, States, ChildLives
<1>4. /\ DOMAIN dbg' = Fields /\ dbg'.alive = FALSE /\ dbg'.head = <<>> /\ dbg'.last_num = 0 /\ dbg'.stack = <<>>
      /\ dbg'.minus = 0 /\ dbg'.nxt_instr = INSN /\ dbg'.forked = FALSE
      /\ dbg'.backtrace = <<>>
  BY <1>1 DEF NoDbg, Fields
<1>6. DbgShape'
  BY <1>4, EmptyShape
<1>7. StageInv'
  BY <1>1, <1>2, <1>3, <1>4 DEF Rest, StageInv, AtStop, debuggee
<1>8. TextInv'
  BY <1>1, <1>4 DEF Rest, TextInv, debuggee
<1> QED BY <1>1, <1>6, <1>7, <1>8, PlaceKept DEF Rest, debuggee

\* While the debugger runs the debuggee is not between a stop and the next
\* instruction.
LEMMA WhenDebuggerRuns ==
  ASSUME PlaceInv, Rest, Dbg, NEW f \in Fns
  PROVE  /\ current = "dbg" /\ ~undef /\ pc # <<f, 1>> /\ (Stopped(f) <=> AtStop /\ pc[1] = f)
         /\ Stopped(f) => OnStack(f)
         /\ dbg.alive /\ Stopped(f) => text[f] = <<PUSHRBP, INT3>> /\ Listed(f)
         /\ dbg.alive /\ ~Stopped(f) => text[f] = <<IF Listed(f) THEN INT3 ELSE PUSHRBP, INSN>>
<1>1. current = "dbg" /\ ~undef
  BY DEF Dbg
<1>2. f # Main /\ f # EndHandler
  BY Kinds
<1>3. pc # <<f, 1>>
  BY <1>1, <1>2 DEF Rest, StageInv
<1>4. Stopped(f) <=> AtStop /\ pc[1] = f
  BY <1>1, PlaceFacts DEF Stopped, AtStop
<1>5. Stopped(f) => OnStack(f)
  BY <1>4 DEF Rest, StageInv
<1>6. dbg.alive => Bytes(f)
  BY DEF Rest, TextInv
<1>7. Armed(f) <=> Listed(f)
  BY <1>2 DEF Armed
<1>8. dbg.alive /\ Stopped(f) => text[f] = <<PUSHRBP, INT3>> /\ Listed(f)
  BY <1>4, <1>6, <1>7 DEF Bytes
<1>9. pc = <<f, 0>> /\ ~ChildLives => FALSE
  BY <1>2 DEF Rest, StageInv
<1>10. dbg.alive /\ ~Stopped(f) => text[f] = <<IF Listed(f) THEN INT3 ELSE PUSHRBP, INSN>>
  BY <1>3, <1>6, <1>7, <1>9 DEF Bytes, Stopped
<1> QED BY <1>1, <1>3, <1>4, <1>5, <1>8, <1>10

\* A call that changes the breakpoint of f and no other, and leaves the list h.
Has(h, g) == \E i \in DOMAIN h : h[i].addr = g
GoodList(h) ==
  /\ h \in Seq(Breakpoints) /\ Len(h) <= MAX_BREAKPOINTS
  /\ \A i, j \in DOMAIN h : h[i].addr = h[j].addr => i = j
Others(f, h) == \A g \in Fns \ {f} : Has(h, g) <=> Listed(g)
ListChange(h) ==
  /\ DOMAIN dbg' = Fields /\ dbg'.head = h /\ dbg'.last_num \in Nat /\ dbg'.alive = dbg.alive
  /\ dbg'.stack = dbg.stack /\ dbg'.minus = dbg.minus /\ dbg'.nxt_instr = dbg.nxt_instr
  /\ dbg'.forked = dbg.forked /\ dbg'.rdx_change = dbg.rdx_change /\ dbg'.backtrace = dbg.backtrace
CodeChange(f, b1, b2) ==
  /\ text' \in [Addr -> Byte2 \X Byte2] /\ text'[f] = <<b1, b2>>
  /\ \A g \in Addr \ {f} : text'[g] = text[g]

LEMMA NewList ==
  ASSUME PlaceInv, Rest, Dbg, dbg.alive, NEW f \in Fns, NEW h,
         UNCHANGED <<state, current, debuggee, undef>>,
         GoodList(h), Others(f, h), ListChange(h), NEW b1, NEW b2, CodeChange(f, b1, b2),
         Stopped(f) => b1 = PUSHRBP /\ b2 = INT3 /\ Has(h, f),
         ~Stopped(f) => (b1 = INT3 <=> Has(h, f)) /\ (b1 = PUSHRBP <=> ~Has(h, f)) /\ b2 = INSN
  PROVE  Rest' /\ PlaceInv'
<1> USE DEF debuggee
<1>1. current = "dbg" /\ ~undef /\ f # Main /\ f # EndHandler /\ f \in Addr
  BY Kinds DEF Dbg, Addr
<1>2. DbgShape'
  BY DEF Rest, DbgShape, GoodList, ListChange
<1>3. StageInv'
  <2>1. dbg'.alive = dbg.alive /\ dbg'.forked = dbg.forked /\ dbg'.stack = dbg.stack
    BY DEF ListChange
  <2> QED BY <2>1, StayStep DEF Rest, StageInv, AtStop, ChildLives, OnStack
<1>4. \A g : Listed(g)' <=> Has(h, g)
  BY DEF Listed, Pos, ListChange, Has
<1>5. /\ text' \in [Addr -> Byte2 \X Byte2] /\ text'[Main] = <<PUSHRBP, INSN>>
      /\ text'[f] = <<b1, b2>> /\ \A g \in Addr \ {f} : text'[g] = text[g]
  BY <1>1 DEF Rest, TextInv, Addr, CodeChange
<1>11. \A g \in Fns \ {f} : Has(h, g) <=> Listed(g)
  BY DEF Others
<1>6. AtStop' <=> AtStop
  BY DEF AtStop, ChildLives
<1>7. ASSUME NEW g \in Fns \cup {EndHandler} PROVE Bytes(g)'
  <2>1. CASE g = f
    <3>1. Armed(f)' <=> Has(h, f)
      BY <1>1, <1>4 DEF Armed
    <3>2. CASE Stopped(f)
      BY <1>5, <2>1, <3>1, <3>2 DEF Bytes, Stopped
    <3>3. CASE ~Stopped(f)
      <4>1. ~(AtStop' /\ pc'[1] = f)
        BY <1>6, <3>3, WhenDebuggerRuns
      <4> QED BY <1>5, <2>1, <3>1, <3>3, <4>1 DEF Bytes
    <3> QED BY <3>2, <3>3
  <2>2. CASE g # f
    <3>1. Armed(g)' <=> Armed(g)
      BY <1>4, <1>11, <2>2 DEF Armed
    <3>2. Bytes(g) /\ text'[g] = text[g]
      BY <1>5, <2>2 DEF Rest, TextInv, Addr
    <3> QED BY <1>6, <3>1, <3>2 DEF Bytes
  <2> QED BY <2>1, <2>2
<1>8. mem'[Len(mem')] = EHWord => text'[pc'[1]][1] = PUSHRBP
  <2>1. CASE pc[1] = f /\ mem[Len(mem)] = EHWord
    <3>1. pc[2] = 0
      BY <2>1, PlaceFacts, Kinds DEF PlaceInv, Top
    <3>2. Stopped(f)
      <4>1. pc = <<f, 0>>
        BY <2>1, <3>1, PlaceFacts
      <4> QED BY <1>1, <4>1 DEF Stopped, Rest, StageInv
    <3> QED BY <1>5, <2>1, <3>2
  <2>2. CASE pc[1] # f /\ mem[Len(mem)] = EHWord
    <3>1. text'[pc[1]] = text[pc[1]]
      BY <1>5, <2>2, PlaceFacts
    <3> QED BY <2>2, <3>1 DEF Rest, TextInv
  <2> QED BY <2>1, <2>2
<1>9. TextInv'
  BY <1>5, <1>7, <1>8 DEF TextInv
<1>10. PlaceInv'
  BY PlaceKept
<1> QED BY <1>2, <1>3, <1>9, <1>10 DEF Rest

LEMMA Poked ==
  ASSUME Rest, NEW f \in Fns, NEW b1 \in Byte2, NEW a, NEW b2, text[f] = <<a, b2>>,
         text' = [text EXCEPT ![f][1] = b1]
  PROVE  CodeChange(f, b1, b2)
<1>1. text \in [Addr -> Byte2 \X Byte2] /\ f \in Addr
  BY DEF Rest, TextInv, Addr
<1>2. text[f] \in Byte2 \X Byte2
  BY <1>1
<1>3. PICK w : w = [text[f] EXCEPT ![1] = b1]
  OBVIOUS
<1>4. w = <<b1, b2>> /\ w \in Byte2 \X Byte2
  BY <1>2, <1>3
<1>5. text' = [text EXCEPT ![f] = w]
  BY <1>3
<1> QED BY <1>1, <1>4, <1>5 DEF CodeChange

\* The breakpoints that the calls leave: one with its end flag set, one added
\* at the end of the list, one removed from it.
LEMMA SetEntry ==
  ASSUME DbgShape, NEW f \in Fns, NEW i \in Pos(f), NEW flag \in 0 .. 1, NEW h,
         h = [dbg.head EXCEPT ![i].end_enable = flag]
  PROVE  GoodList(h) /\ Has(h, f) /\ Others(f, h)
<1>1. dbg.head \in Seq(Breakpoints) /\ i \in DOMAIN dbg.head /\ Len(dbg.head) <= MAX_BREAKPOINTS
      /\ \A j, k \in DOMAIN dbg.head : dbg.head[j].addr = dbg.head[k].addr => j = k
  BY DEF DbgShape, Pos
<1>2. PICK e : e = [dbg.head[i] EXCEPT !.end_enable = flag]
  OBVIOUS
<1>3. dbg.head[i] \in Breakpoints
  BY <1>1
<1>4. e \in Breakpoints /\ e.addr = dbg.head[i].addr
  BY <1>2, <1>3 DEF Breakpoints
<1>5. h = [dbg.head EXCEPT ![i] = e]
  BY <1>2
<1>6. h \in Seq(Breakpoints) /\ DOMAIN h = DOMAIN dbg.head /\ Len(h) = Len(dbg.head)
  BY <1>1, <1>4, <1>5
<1>7. \A j \in DOMAIN h : h[j].addr = dbg.head[j].addr
  BY <1>1, <1>4, <1>5
<1>8. \A g : (\E j \in DOMAIN h : h[j].addr = g) <=> Listed(g)
  BY <1>6, <1>7 DEF Listed, Pos
<1>9. \A j, k \in DOMAIN h : h[j].addr = h[k].addr => j = k
  BY <1>1, <1>6, <1>7
<1>10. Listed(f)
  BY DEF Listed
<1>11. Has(h, f) /\ Others(f, h)
  BY <1>8, <1>10 DEF Has, Others
<1> QED BY <1>1, <1>6, <1>9, <1>11 DEF GoodList

LEMMA AddEntry ==
  ASSUME DbgShape, NEW f \in Fns, ~Listed(f), Len(dbg.head) < MAX_BREAKPOINTS,
         NEW e \in Breakpoints, e.addr = f, NEW h, h = Append(dbg.head, e)
  PROVE  GoodList(h) /\ Has(h, f) /\ Others(f, h)
<1>1. dbg.head \in Seq(Breakpoints) /\ Len(dbg.head) \in Nat
      /\ \A j, k \in DOMAIN dbg.head : dbg.head[j].addr = dbg.head[k].addr => j = k
  BY DEF DbgShape
<1>2. PICK d, n : d = dbg.head /\ n = Len(d) + 1
  OBVIOUS
<1>3. /\ h \in Seq(Breakpoints) /\ Len(h) = n /\ DOMAIN h = 1 .. n /\ h[n] = e
      /\ \A j \in 1 .. Len(d) : h[j] = d[j]
  BY <1>1, <1>2
<1>4. DOMAIN d = 1 .. Len(d) /\ Len(d) \in Nat
  BY <1>1, <1>2
<1>5. \A j \in DOMAIN d : d[j].addr # f
  BY <1>2 DEF Listed, Pos
<1>6. Len(h) <= MAX_BREAKPOINTS
  BY <1>2, <1>3, <1>4, DebuggerAssumption
<1>7. ASSUME NEW j \in DOMAIN h, NEW k \in DOMAIN h, h[j].addr = h[k].addr PROVE j = k
  <2>1. CASE j # n /\ k # n
    <3>1. j \in DOMAIN d /\ k \in DOMAIN d /\ h[j] = d[j] /\ h[k] = d[k]
      BY <1>2, <1>3, <1>4, <2>1
    <3> QED BY <1>1, <1>2, <1>7, <3>1
  <2>2. CASE j = n /\ k # n
    <3>1. k \in DOMAIN d /\ h[k] = d[k]
      BY <1>2, <1>3, <1>4, <2>2
    <3> QED BY <1>3, <1>5, <1>7, <2>2, <3>1
  <2>3. CASE j # n /\ k = n
    <3>1. j \in DOMAIN d /\ h[j] = d[j]
      BY <1>2, <1>3, <1>4, <2>3
    <3> QED BY <1>3, <1>5, <1>7, <2>3, <3>1
  <2> QED BY <2>1, <2>2, <2>3
<1>8. ASSUME NEW g PROVE (\E j \in DOMAIN h : h[j].addr = g) <=> (Listed(g) \/ g = f)
  <2>1. ASSUME NEW j \in DOMAIN h, h[j].addr = g PROVE Listed(g) \/ g = f
    <3>1. CASE j = n
      BY <1>3, <2>1, <3>1
    <3>2. CASE j # n
      <4>1. j \in DOMAIN d /\ h[j] = d[j]
        BY <1>2, <1>3, <1>4, <3>2
      <4> QED BY <1>2, <2>1, <4>1 DEF Listed, Pos
    <3> QED BY <3>1, <3>2
  <2>2. ASSUME Listed(g) PROVE \E j \in DOMAIN h : h[j].addr = g
    <3>1. PICK j \in DOMAIN d : d[j].addr = g
      BY <1>2, <2>2 DEF Listed, Pos
    <3>2. j \in DOMAIN h /\ h[j] = d[j]
      BY <1>2, <1>3, <1>4
    <3> QED BY <3>1, <3>2
  <2>3. g = f => \E j \in DOMAIN h : h[j].addr = g
    <3>1. n \in DOMAIN h
      BY <1>2, <1>3, <1>4
    <3> QED BY <1>3, <3>1
  <2> QED BY <2>1, <2>2, <2>3
<1>9. Has(h, f) /\ Others(f, h)
  BY <1>8 DEF Has, Others
<1> QED BY <1>3, <1>6, <1>7, <1>9 DEF GoodList

LEMMA DropEntry ==
  ASSUME DbgShape, NEW f \in Fns, NEW i \in Pos(f), NEW h, h = RemoveAt(dbg.head, i)
  PROVE  GoodList(h) /\ ~Has(h, f) /\ Others(f, h)
<1>1. dbg.head \in Seq(Breakpoints) /\ Len(dbg.head) \in Nat /\ Len(dbg.head) <= MAX_BREAKPOINTS
      /\ \A j, k \in DOMAIN dbg.head : dbg.head[j].addr = dbg.head[k].addr => j = k
  BY DEF DbgShape
<1>2. PICK d, n : d = dbg.head /\ n = Len(d)
  OBVIOUS
<1>3. i \in 1 .. n /\ d[i].addr = f /\ n \in Nat /\ d \in Seq(Breakpoints) /\ DOMAIN d = 1 .. n
  BY <1>1, <1>2 DEF Pos
<1>4. /\ h \in Seq(Breakpoints) /\ Len(h) = n - 1 /\ DOMAIN h = 1 .. n - 1
      /\ \A j \in 1 .. n - 1 : h[j] = IF j < i THEN d[j] ELSE d[j + 1]
  <2>1. h = SubSeq(d, 1, i - 1) \o SubSeq(d, i + 1, n)
    BY <1>2 DEF RemoveAt
  <2>2. PICK a, b : a = SubSeq(d, 1, i - 1) /\ b = SubSeq(d, i + 1, n)
    OBVIOUS
  <2>3. a \in Seq(Breakpoints) /\ Len(a) = i - 1 /\ \A j \in 1 .. i - 1 : a[j] = d[j]
    BY <1>3, <2>2
  <2>4. b \in Seq(Breakpoints) /\ Len(b) = n - i /\ \A j \in 1 .. n - i : b[j] = d[i + j]
    BY <1>3, <2>2
  <2>5. h = a \o b
    BY <2>1, <2>2
  <2>6. h \in Seq(Breakpoints) /\ Len(h) = n - 1 /\ DOMAIN h = 1 .. n - 1
    <3>0. a \in Seq(Breakpoints) /\ b \in Seq(Breakpoints)
      BY <2>3, <2>4
    <3>1. h \in Seq(Breakpoints)
      BY <3>0, <2>5
    <3>2. Len(h) = Len(a) + Len(b)
      BY <3>0, <2>5
    <3>3. Len(h) = n - 1
      BY <1>3, <2>3, <2>4, <3>2
    <3> QED BY <3>1, <3>3
  <2>7. ASSUME NEW j \in 1 .. n - 1 PROVE h[j] = IF j < i THEN d[j] ELSE d[j + 1]
    <3>1. CASE j < i
      <4>1. h[j] = a[j]
        BY <1>3, <2>3, <2>4, <2>5, <3>1
      <4> QED BY <1>3, <2>3, <3>1, <4>1
    <3>2. CASE j >= i
      <4>1. h[j] = b[j - (i - 1)] /\ j - (i - 1) \in 1 .. n - i
        BY <1>3, <2>3, <2>4, <2>5, <3>2
      <4>2. i + (j - (i - 1)) = j + 1
        BY <1>3
      <4> QED BY <1>3, <2>4, <3>2, <4>1, <4>2
    <3> QED BY <1>3, <3>1, <3>2
  <2> QED BY <2>6, <2>7
<1>5. PICK old : old = [j \in 1 .. n - 1 |-> IF j < i THEN j ELSE j + 1]
  OBVIOUS
<1>6. \A j \in DOMAIN h : old[j] \in DOMAIN d /\ old[j] # i /\ h[j] = d[old[j]]
  BY <1>3, <1>4, <1>5
<1>7. \A j, k \in DOMAIN h : old[j] = old[k] => j = k
  BY <1>3, <1>4, <1>5
<1>8. \A j \in DOMAIN d : j # i => \E k \in DOMAIN h : old[k] = j
  <2> SUFFICES ASSUME NEW j \in DOMAIN d, j # i PROVE \E k \in DOMAIN h : old[k] = j
    OBVIOUS
  <2>1. CASE j < i
    <3>1. j \in 1 .. n - 1 /\ old[j] = j
      BY <1>3, <1>5, <2>1
    <3> QED BY <1>4, <3>1
  <2>2. CASE j > i
    <3>1. j - 1 \in 1 .. n - 1 /\ old[j - 1] = j
      BY <1>3, <1>5, <2>2
    <3> QED BY <1>4, <3>1
  <2> QED BY <1>3, <2>1, <2>2
<1>9. \A j, k \in DOMAIN d : d[j].addr = d[k].addr => j = k
  BY <1>1, <1>2
<1>10. Len(h) <= MAX_BREAKPOINTS
  BY <1>1, <1>2, <1>3, <1>4, DebuggerAssumption
<1>11. \A j, k \in DOMAIN h : h[j].addr = h[k].addr => j = k
  BY <1>6, <1>7, <1>9
<1>12. ASSUME NEW g PROVE (\E j \in DOMAIN h : h[j].addr = g) <=> (Listed(g) /\ g # f)
  <2>1. ASSUME NEW j \in DOMAIN h, h[j].addr = g PROVE Listed(g) /\ g # f
    BY <1>2, <1>3, <1>6, <1>9, <2>1 DEF Listed, Pos
  <2>2. ASSUME Listed(g), g # f PROVE \E j \in DOMAIN h : h[j].addr = g
    <3>1. PICK j \in DOMAIN d : d[j].addr = g
      BY <1>2, <2>2 DEF Listed, Pos
    <3> QED BY <1>3, <1>6, <1>8, <2>2, <3>1
  <2> QED BY <2>1, <2>2
<1>13. ~Has(h, f) /\ Others(f, h)
  BY <1>12 DEF Has, Others
<1> QED BY <1>4, <1>10, <1>11, <1>13 DEF GoodList

SameRecord == UNCHANGED <<dbg.stack, dbg.rdx_change, dbg.backtrace, text[EndHandler], state, current, debuggee>>

LEMMA NewListKeeps ==
  ASSUME PlaceInv, Rest, Dbg, dbg.alive, NEW f \in Fns, NEW h,
         UNCHANGED <<state, current, debuggee, undef>>,
         GoodList(h), Others(f, h), ListChange(h), NEW b1, NEW b2, CodeChange(f, b1, b2),
         Stopped(f) => b1 = PUSHRBP /\ b2 = INT3 /\ Has(h, f),
         ~Stopped(f) => (b1 = INT3 <=> Has(h, f)) /\ (b1 = PUSHRBP <=> ~Has(h, f)) /\ b2 = INSN
  PROVE  Rest' /\ PlaceInv' /\ SameRecord
<1>1. text'[EndHandler] = text[EndHandler]
  BY Kinds DEF CodeChange, Addr
<1>2. dbg'.stack = dbg.stack /\ dbg'.rdx_change = dbg.rdx_change /\ dbg'.backtrace = dbg.backtrace
  BY DEF ListChange
<1>3. SameRecord
  BY <1>1, <1>2 DEF SameRecord
<1>4. Rest' /\ PlaceInv'
  BY NewList
<1> QED BY <1>3, <1>4

LEMMA SetRest ==
  ASSUME PlaceInv, Rest, NEW f \in Fns, NEW flag \in 0 .. 1,
         \A i \in Pos(f) : LET raise == dbg.head[i].end_enable = 0 /\ flag = 1
                           IN /\ Stopped(f) => raise
                              /\ raise /\ OnStack(f) => Stopped(f),
         ~Listed(f) => Len(dbg.head) < MAX_BREAKPOINTS,
         do_set_breakpoint(f, flag, TRUE)
  PROVE  Rest' /\ PlaceInv' /\ SameRecord
<1> DEFINE Armed1 == text' = [text EXCEPT ![f][1] = INT3]
<1>1. Dbg /\ dbg.alive /\ UNCHANGED <<state, current, debuggee, undef>>
  BY DEF do_set_breakpoint, Return
<1>2. DbgShape /\ DOMAIN dbg = Fields
  BY DEF Rest, DbgShape
<1>3. /\ Stopped(f) => OnStack(f)
      /\ Stopped(f) => text[f] = <<PUSHRBP, INT3>> /\ Listed(f)
      /\ ~Stopped(f) => text[f] = <<IF Listed(f) THEN INT3 ELSE PUSHRBP, INSN>>
  BY <1>1, WhenDebuggerRuns
<1>4. INT3 # PUSHRBP /\ INT3 \in Byte2 /\ PUSHRBP \in Byte2
  BY Bytes3 DEF Byte2
<1>5. ASSUME Armed1, ~Stopped(f) PROVE CodeChange(f, INT3, INSN)
  <2>1. PICK a : text[f] = <<a, INSN>>
    BY <1>3, <1>5
  <2> QED BY <1>4, <1>5, <2>1, Poked
<1>6. ASSUME NEW i \in Pos(f), NEW h, h = [dbg.head EXCEPT ![i].end_enable = flag],
             dbg' = [dbg EXCEPT !.head = h]
      PROVE  GoodList(h) /\ Has(h, f) /\ Others(f, h) /\ ListChange(h)
  <2>1. GoodList(h) /\ Has(h, f) /\ Others(f, h)
    BY <1>2, <1>6, SetEntry
  <2>2. ListChange(h)
    BY <1>2, <1>6 DEF Fields, DbgShape, ListChange
  <2> QED BY <2>1, <2>2
<1>7. ASSUME NEW i \in Pos(f), Armed1, UNCHANGED dbg, ~Stopped(f)
      PROVE  Rest' /\ PlaceInv' /\ SameRecord
  <2>1. PICK h : h = dbg.head
    OBVIOUS
  <2>2. GoodList(h)
    BY <1>2, <2>1 DEF DbgShape, GoodList
  <2>3. Has(h, f) /\ Others(f, h)
    BY <1>7, <2>1 DEF Has, Others, Listed, Pos
  <2>4. ListChange(h)
    BY <1>2, <1>7, <2>1 DEF ListChange, DbgShape
  <2> QED BY <1>1, <1>4, <1>5, <1>7, <2>2, <2>3, <2>4, NewListKeeps
<1>8. ASSUME NEW i \in Pos(f), ~OnStack(f) \/ dbg.head[i].end_enable = flag,
             Armed1, dbg' = [dbg EXCEPT !.head[i].end_enable = flag]
      PROVE  Rest' /\ PlaceInv' /\ SameRecord
  <2>1. PICK h : h = [dbg.head EXCEPT ![i].end_enable = flag]
    OBVIOUS
  <2>2. dbg' = [dbg EXCEPT !.head = h]
    BY <1>8, <2>1
  <2>3. GoodList(h) /\ Has(h, f) /\ Others(f, h) /\ ListChange(h)
    BY <1>6, <2>1, <2>2
  <2>4. ~Stopped(f)
    BY <1>3, <1>8
  <2> QED BY <1>1, <1>4, <1>5, <1>8, <2>3, <2>4, NewListKeeps
<1>9. ASSUME NEW i \in Pos(f), dbg.head[i].end_enable = 0, flag = 1, OnStack(f),
             text' = [text EXCEPT ![f][1] = PUSHRBP], dbg' = [dbg EXCEPT !.head[i].end_enable = flag]
      PROVE  Rest' /\ PlaceInv' /\ SameRecord
  <2>1. PICK h : h = [dbg.head EXCEPT ![i].end_enable = flag]
    OBVIOUS
  <2>2. dbg' = [dbg EXCEPT !.head = h]
    BY <1>9, <2>1
  <2>3. GoodList(h) /\ Has(h, f) /\ Others(f, h) /\ ListChange(h)
    BY <1>6, <2>1, <2>2
  <2>4. Stopped(f)
    BY <1>9
  <2>5. text[f] = <<PUSHRBP, INT3>>
    BY <1>3, <2>4
  <2>6. CodeChange(f, PUSHRBP, INT3)
    BY <1>4, <1>9, <2>5, Poked
  <2> QED BY <1>1, <2>3, <2>4, <2>6, NewListKeeps
<1>10. ASSUME ~Listed(f), Armed1,
              NEW e, e = [num |-> dbg.last_num + 1, addr |-> f, end_enable |-> flag],
              dbg' = [dbg EXCEPT !.last_num = @ + 1, !.head = Append(@, e)]
       PROVE  Rest' /\ PlaceInv' /\ SameRecord
  <2>1. PICK h : h = Append(dbg.head, e)
    OBVIOUS
  <2>2. e \in Breakpoints /\ e.addr = f
    BY <1>2, <1>10 DEF Breakpoints, DbgShape
  <2>3. GoodList(h) /\ Has(h, f) /\ Others(f, h)
    BY <1>2, <1>10, <2>1, <2>2, AddEntry
  <2>4. dbg' = [dbg EXCEPT !.last_num = @ + 1, !.head = h]
    BY <1>10, <2>1
  <2>5. ListChange(h)
    BY <1>2, <2>4 DEF Fields, DbgShape, ListChange
  <2>6. ~Stopped(f)
    BY <1>3, <1>10
  <2> QED BY <1>1, <1>4, <1>5, <1>10, <2>3, <2>5, <2>6, NewListKeeps
<1>11. ASSUME NEW i \in Pos(f), dbg.head[i].end_enable = 1, flag = 0, Armed1, UNCHANGED dbg
       PROVE  Rest' /\ PlaceInv' /\ SameRecord
  <2>1. ~Stopped(f)
    BY <1>11
  <2> QED BY <1>7, <1>11, <2>1
<1>12. \/ \E i \in Pos(f) :
            \/ dbg.head[i].end_enable = 1 /\ flag = 0 /\ OnStack(f) /\ Armed1 /\ UNCHANGED dbg
            \/ /\ OnStack(f) /\ dbg.head[i].end_enable = 0 /\ flag = 1
               /\ text' = [text EXCEPT ![f][1] = PUSHRBP]
               /\ dbg' = [dbg EXCEPT !.head[i].end_enable = flag]
            \/ /\ ~OnStack(f) \/ dbg.head[i].end_enable = flag
               /\ Armed1 /\ dbg' = [dbg EXCEPT !.head[i].end_enable = flag]
       \/ /\ ~Listed(f) /\ Armed1
          /\ \E e : /\ e = [num |-> dbg.last_num + 1, addr |-> f, end_enable |-> flag]
                    /\ dbg' = [dbg EXCEPT !.last_num = @ + 1, !.head = Append(@, e)]
  <2>1. ~Listed(f) => Len(dbg.head) # MAX_BREAKPOINTS
    BY <1>2, DebuggerAssumption DEF DbgShape
  <2> QED BY <2>1 DEF do_set_breakpoint
<1> HIDE DEF Armed1
<1> QED BY <1>7, <1>8, <1>9, <1>10, <1>11, <1>12

LEMMA RemoveRest ==
  ASSUME PlaceInv, Rest, NEW f \in Fns, dbg.head # <<>>, ~Stopped(f), do_remove_breakpoint(f)
  PROVE  Rest' /\ PlaceInv' /\ SameRecord
<1>1. Dbg /\ dbg.alive /\ UNCHANGED <<state, current, debuggee>> /\ UNCHANGED undef
  BY DEF do_remove_breakpoint, Return, Undefined
<1>2. DbgShape /\ DOMAIN dbg = Fields
  BY DEF Rest, DbgShape
<1>3. CASE UNCHANGED <<dbg, text>>
  BY <1>1, <1>3, SameRest, PlaceKept DEF SameRecord
<1>4. ASSUME NEW i \in Pos(f), dbg' = [dbg EXCEPT !.head = RemoveAt(@, i)],
             text' = [text EXCEPT ![f][1] = PUSHRBP]
      PROVE  Rest' /\ PlaceInv' /\ SameRecord
  <2>1. PICK h : h = RemoveAt(dbg.head, i)
    OBVIOUS
  <2>2. GoodList(h) /\ ~Has(h, f) /\ Others(f, h)
    BY <1>2, <2>1, DropEntry
  <2>3. dbg' = [dbg EXCEPT !.head = h]
    BY <1>4, <2>1
  <2>4. ListChange(h)
    BY <1>2, <2>3 DEF Fields, DbgShape, ListChange
  <2>5. PICK a : text[f] = <<a, INSN>>
    BY <1>1, WhenDebuggerRuns
  <2>6. PUSHRBP \in Byte2 /\ PUSHRBP # INT3
    BY Bytes3 DEF Byte2
  <2>7. CodeChange(f, PUSHRBP, INSN)
    BY <1>4, <2>5, <2>6, Poked
  <2> QED BY <1>1, <2>2, <2>4, <2>6, <2>7, NewListKeeps
<1> QED BY <1>1, <1>3, <1>4 DEF do_remove_breakpoint

-----------------------------------------------------------------------------
\* Which end_handlers are due.
LEMMA PlantedFacts ==
  ASSUME PlaceInv
  PROVE  /\ Planted \in SUBSET (3 .. Len(mem)) /\ IsFiniteSet(Planted) /\ Len(mem) + 1 \notin Planted
         /\ Due \in SUBSET (3 .. Len(mem) + 1)
<1>1. mem[1] # EHWord /\ mem[2] # EHWord /\ DOMAIN mem = 1 .. Len(mem) /\ Len(mem) \in Nat /\ Len(mem) >= 2
  BY Kinds DEF PlaceInv, StackShape
<1>2. Planted \in SUBSET (3 .. Len(mem))
  BY <1>1 DEF Planted
<1>3. IsFiniteSet(Planted)
  <2>1. IsFiniteSet(3 .. Len(mem))
    BY <1>1, FS_Interval
  <2>2. Planted \subseteq 3 .. Len(mem)
    BY <1>2
  <2> QED BY <2>1, <2>2, FS_Subset
<1>4. Len(mem) + 1 \notin 3 .. Len(mem)
  BY <1>1
<1>5. Due \in SUBSET (3 .. Len(mem) + 1)
  <2>1. \A i \in Planted : i \in 3 .. Len(mem) + 1
    BY <1>1, <1>2
  <2>2. Len(mem) + 1 \in 3 .. Len(mem) + 1
    BY <1>1
  <2> QED BY <2>1, <2>2 DEF Due
<1> QED BY <1>2, <1>3, <1>4, <1>5

LEMMA DueKept ==
  ASSUME PlaceInv, DueInv, Due' = Due, dbg'.stack = dbg.stack, dbg'.rdx_change = dbg.rdx_change,
         \A i \in Due : mem'[i - 1] = mem[i - 1],
         \A i \in Planted' : i \in Planted /\ Owner(mem', pc'[1], i) = Owner(mem, pc[1], i)
  PROVE  DueInv'
<1>1. PICK D, P, Q, m, f, st : D = Due /\ P = Planted /\ Q = Planted' /\ m = mem' /\ f = pc'[1] /\ st = dbg.stack
  OBVIOUS
<1>2. /\ Record(D, P, mem, pc[1], st) /\ \A i \in D : m[i - 1] = mem[i - 1]
      /\ \A i \in Q : i \in P /\ Owner(m, f, i) = Owner(mem, pc[1], i)
  BY <1>1 DEF DueInv
<1>3. Record(D, Q, m, f, st)
  <2>1. PICK at \in [D -> DOMAIN st] :
          /\ \A i \in D : st[at[i]].ret = mem[i - 1]
          /\ \A i \in D : i \in P => st[at[i]].start = Owner(mem, pc[1], i)
          /\ \A i, j \in D : i < j => at[i] < at[j]
    BY <1>2 DEF Record
  <2>2. \A i \in D : st[at[i]].ret = m[i - 1]
    BY <1>2, <2>1
  <2>3. \A i \in D : i \in Q => st[at[i]].start = Owner(m, f, i)
    BY <1>2, <2>1
  <2> QED BY <2>1, <2>2, <2>3 DEF Record
<1>4. Record(Due, Planted, mem, pc[1], dbg.stack)'
  BY <1>1, <1>3 DEF Record, Owner
<1>5. dbg'.rdx_change = 8 * Cardinality(Due')
  BY DEF DueInv
<1> QED BY <1>4, <1>5 DEF DueInv

LEMMA NotReached ==
  ASSUME pc[2] # 0 \/ pc[1] # EndHandler \/ current # "dbe" \/ text[EndHandler][1] # INT3
  PROVE  ~Reached /\ Due = Planted
  BY DEF Reached, Due

LEMMA NotReachedNext ==
  ASSUME pc'[2] # 0 \/ pc'[1] # EndHandler \/ current' # "dbe" \/ text'[EndHandler][1] # INT3
  PROVE  ~Reached' /\ Due' = Planted'
  BY DEF Reached, Due

\* A call that keeps the record, the stack and who runs.
LEMMA SameDue ==
  ASSUME PlaceInv, DueInv, SameRecord
  PROVE  DueInv'
<1>1. Due' = Due /\ Planted' = Planted
  BY DEF SameRecord, debuggee, Due, Planted, Reached
<1>2. mem' = mem /\ pc' = pc
  BY DEF SameRecord, debuggee
<1> QED BY <1>1, <1>2, DueKept DEF SameRecord

LEMMA PushedPlanted ==
  ASSUME PlaceInv, NEW w, w # EHWord, w \in Words, mem' = Append(mem, w)
  PROVE  Planted' = Planted /\ \A i \in 1 .. Len(mem) : mem'[i] = mem[i]
<1>1. mem \in Seq(Words) /\ Len(mem) \in Nat
  BY DEF PlaceInv, StackShape
<1>2. DOMAIN mem' = 1 .. Len(mem) + 1 /\ mem'[Len(mem) + 1] = w /\ \A i \in 1 .. Len(mem) : mem'[i] = mem[i]
  BY <1>1
<1>3. DOMAIN mem = 1 .. Len(mem)
  BY <1>1
<1> QED BY <1>1, <1>2, <1>3 DEF Planted

\* Nothing is planted right below a return address or an end_handler.
LEMMA PlantedBelow ==
  ASSUME PlaceInv, NEW k \in 3 .. Len(mem), mem[k] \in Returns \/ mem[k] = EHWord
  PROVE  k - 1 \notin Planted
<1>1. Follows(mem, k)
  BY PlaceFacts DEF StackShape
<1>2. mem[k - 1] \in SavedFrames \cup Returns
  BY <1>1, Kinds DEF Follows
<1> QED BY <1>2, Kinds DEF Planted

\* The owners when a word is pushed that is not planted.
LEMMA PushedOwners ==
  ASSUME PlaceInv, NEW w, mem' = Append(mem, w), NEW i \in Planted,
         \/ pc'[1] = pc[1] /\ i # Len(mem) - 1
         \/ w[1] = pc[1] /\ i # Len(mem)
  PROVE  Owner(mem', pc'[1], i) = Owner(mem, pc[1], i)
<1>1. PICK k, n : k = Len(mem) /\ n = mem'
  OBVIOUS
<1>2. mem \in Seq(Words) /\ k \in Nat /\ i \in 3 .. k
  BY <1>1, PlantedFacts, PlaceFacts DEF StackShape
<1>3. Len(n) = k + 1 /\ n[k + 1] = w /\ \A j \in 1 .. k : n[j] = mem[j]
  BY <1>1, <1>2
<1>4. CASE i + 2 <= k
  BY <1>1, <1>2, <1>3, <1>4 DEF Owner
<1>5. CASE i + 2 = k + 1
  <2>1. w[1] = pc[1]
    BY <1>1, <1>2, <1>5
  <2>2. n[i + 2] = w /\ i + 2 <= Len(n) /\ ~(i + 2 <= k)
    BY <1>2, <1>3, <1>5
  <2> QED BY <1>1, <2>1, <2>2 DEF Owner
<1>6. CASE i + 2 > k + 1
  <2>1. pc'[1] = pc[1]
    BY <1>1, <1>2, <1>6
  <2>2. ~(i + 2 <= Len(n)) /\ ~(i + 2 <= k)
    BY <1>2, <1>3, <1>6
  <2> QED BY <1>1, <2>1, <2>2 DEF Owner
<1> QED BY <1>2, <1>4, <1>5, <1>6

\* The owners when a frame is popped down to k words.
LEMMA PoppedOwners ==
  ASSUME PlaceInv, NEW k \in Nat, Len(mem) = k + 2, Len(mem') = k, \A j \in 1 .. k : mem'[j] = mem[j],
         NEW i \in Planted, i < k,
         i # k - 1 \/ pc'[1] = mem[k + 1][1]
  PROVE  Owner(mem', pc'[1], i) = Owner(mem, pc[1], i)
<1>1. i \in 3 .. k + 2
  BY PlantedFacts
<1>2. CASE i + 2 <= k
  BY <1>1, <1>2 DEF Owner
<1>3. CASE i + 2 = k + 1
  <2>1. i = k - 1 /\ i + 2 <= Len(mem) /\ ~(i + 2 <= Len(mem')) /\ i + 2 = k + 1
    BY <1>1, <1>3
  <2> QED BY <2>1 DEF Owner
<1> QED BY <1>1, <1>2, <1>3

LEMMA InstructionDue ==
  ASSUME PlaceInv, Rest, DueInv, push_rbp \/ mov_rbp \/ ret \/ \E g \in Fns, s \in Sites : call(g, s)
  PROVE  DueInv'
<1>1. Dbe /\ UNCHANGED <<state, current, dbg, text, undef>> /\ current = "dbe" /\ dbg.alive
  BY WhenDebuggeeRuns DEF push_rbp, mov_rbp, ret, call, Rest
<1>2. Planted \in SUBSET (3 .. Len(mem)) /\ Len(mem) \in Nat
  BY PlantedFacts, PlaceFacts
<1>3. ASSUME Due' = Due, Due = Planted, \A i \in 1 .. Len(mem) - 1 : mem'[i] = mem[i],
             Planted' = Planted, \A i \in Planted : Owner(mem', pc'[1], i) = Owner(mem, pc[1], i)
      PROVE  DueInv'
  BY <1>1, <1>2, <1>3, DueKept
<1>4. CASE push_rbp
  <2>1. text[EndHandler][1] # INT3 \/ pc[1] # EndHandler
    BY <1>4, Bytes3 DEF push_rbp, Byte
  <2>2. Due = Planted
    BY <2>1, NotReached
  <2>3. pc'[2] # 0
    BY <1>4 DEF push_rbp
  <2>4. Due' = Planted'
    BY <2>3, NotReachedNext
  <2>5. PICK w : w = FrameWord(rbp)
    OBVIOUS
  <2>6. w \in Words /\ w # EHWord /\ mem' = Append(mem, w)
    BY <1>4, <2>5, Kinds, PlaceFacts DEF Words, push_rbp
  <2>7. Planted' = Planted /\ \A i \in 1 .. Len(mem) : mem'[i] = mem[i]
    BY <2>6, PushedPlanted
  <2>8. Len(mem) - 1 \notin Planted
    <3>1. mem[Len(mem)] \in Returns \/ mem[Len(mem)] = EHWord
      BY <1>4 DEF push_rbp, PlaceInv, Top
    <3>2. Len(mem) = 2 => mem[Len(mem)] \in SavedFrames
      BY Kinds DEF PlaceInv, StackShape, SavedFrames
    <3>3. Len(mem) \in 3 .. Len(mem)
      BY <3>1, <3>2, PlaceFacts, Kinds DEF StackShape
    <3> QED BY <3>1, <3>3, PlantedBelow
  <2>9. pc'[1] = pc[1]
    BY <1>4 DEF push_rbp
  <2>10. \A i \in Planted : Owner(mem', pc'[1], i) = Owner(mem, pc[1], i)
    BY <2>6, <2>8, <2>9, PushedOwners
  <2> QED BY <1>2, <1>3, <2>2, <2>4, <2>7, <2>10
<1>5. CASE mov_rbp
  <2>1. pc[2] # 0 /\ pc'[2] # 0 /\ mem' = mem /\ pc'[1] = pc[1]
    BY <1>5 DEF mov_rbp
  <2>2. Due = Planted /\ Due' = Planted'
    BY <2>1, NotReached, NotReachedNext
  <2> QED BY <1>3, <2>1, <2>2 DEF Planted
<1>6. ASSUME NEW g \in Fns, NEW s \in Sites, call(g, s) PROVE DueInv'
  <2>1. pc[2] # 0 /\ pc'[1] # EndHandler
    BY <1>6, Kinds DEF call
  <2>2. Due = Planted /\ Due' = Planted'
    BY <2>1, NotReached, NotReachedNext
  <2>3. PICK w : w = <<pc[1], s>>
    OBVIOUS
  <2>4. w \in Returns
    BY <1>6, <2>3, PlaceFacts DEF call, Returns, Addr
  <2>5. w \in Words /\ w # EHWord /\ mem' = Append(mem, w)
    BY <1>6, <2>3, <2>4, Kinds DEF Words, call
  <2>6. Planted' = Planted /\ \A i \in 1 .. Len(mem) : mem'[i] = mem[i]
    BY <2>5, PushedPlanted
  <2>7. Len(mem) \notin Planted
    <3>1. mem[Len(mem)] \in SavedFrames
      BY <1>6 DEF call, PlaceInv, Top
    <3> QED BY <3>1, Kinds DEF Planted
  <2>8. \A i \in Planted : Owner(mem', pc'[1], i) = Owner(mem, pc[1], i)
    BY <2>3, <2>5, <2>7, PushedOwners
  <2> QED BY <1>2, <1>3, <2>2, <2>6, <2>8
<1>7. CASE ret
  <2>1. pc[2] # 0
    BY <1>7 DEF ret
  <2>2. Due = Planted
    BY <2>1, NotReached
  <2>3. rbp = Len(mem) /\ rbp >= 4 /\ (Unplanted \/ PlantedHere)
    BY <1>7, RetCases
  <2>4. PlaceInv' /\ Len(mem') = Len(mem) - 2 /\ \A i \in 1 .. Len(mem) - 2 : mem'[i] = mem[i]
    BY <1>7, RetPlace
  <2>5. DOMAIN mem' = 1 .. Len(mem) - 2 /\ DOMAIN mem = 1 .. Len(mem)
    BY <2>4 DEF PlaceInv, StackShape
  <2>6. Planted' = {i \in Planted : i <= Len(mem) - 2}
    BY <1>2, <2>4, <2>5 DEF Planted
  <2>7. Len(mem) \notin Planted
    <3>1. mem[Len(mem)] \in SavedFrames
      BY <2>1, <2>3, PlaceFacts, Kinds DEF Unplanted, PlantedHere
    <3> QED BY <3>1, Kinds DEF Planted
  <2>8. CASE Unplanted
    <3>1. Len(mem) - 1 \notin Planted
      BY <2>3, <2>8, Kinds DEF Unplanted, Planted
    <3>2. Planted' = Planted
      <4>1. \A i \in Planted : i <= Len(mem) - 2
        BY <1>2, <2>7, <3>1
      <4> QED BY <2>6, <4>1
    <3>3. pc'[2] # 0
      BY <1>7, <2>8, RetPlace
    <3>4. Due' = Due
      BY <2>2, <3>2, <3>3, NotReachedNext
    <3>5. \A i \in Due : mem'[i - 1] = mem[i - 1]
      BY <1>2, <2>2, <2>4, <2>7, <3>1
    <3>6. Len(mem) - 2 \notin Planted
      BY <2>3, <2>8, Kinds DEF Unplanted, Planted
    <3>7. pc'[1] = mem[Len(mem) - 1][1]
      BY <1>7, <2>3 DEF ret
    <3>8. PICK k : k = Len(mem) - 2
      OBVIOUS
    <3>9. k \in Nat /\ Len(mem) = k + 2 /\ Len(mem') = k /\ Len(mem) - 1 = k + 1
      BY <1>2, <2>3, <2>4, <3>8
    <3>10. \A i \in Planted : i < k
      BY <1>2, <2>7, <3>1, <3>6, <3>8
    <3>11. \A i \in Planted : Owner(mem', pc'[1], i) = Owner(mem, pc[1], i)
      BY <2>4, <3>7, <3>8, <3>9, <3>10, PoppedOwners
    <3> QED BY <1>1, <3>2, <3>4, <3>5, <3>11, DueKept
  <2>9. CASE PlantedHere
    <3>1. pc' = <<EndHandler, 0>> /\ pc[1] # EndHandler
      BY <1>7, <2>9, RetPlace DEF PlantedHere
    <3>2. text[EndHandler][1] = INT3
      <4>1. Bytes(EndHandler)
        BY <1>1 DEF Rest, TextInv
      <4> QED BY <3>1, <4>1 DEF Bytes, Armed
    <3>3. Reached'
      BY <1>1, <3>1, <3>2 DEF Reached
    <3>4. Len(mem) - 1 \in Planted
      BY <2>3, <2>5, <2>9 DEF PlantedHere, Planted
    <3>5. Due' = Planted' \cup {Len(mem) - 1}
      <4>1. Due' = Planted' \cup {Len(mem') + 1}
        BY <3>3 DEF Due
      <4>2. Len(mem') + 1 = Len(mem) - 1
        BY <1>2, <2>4
      <4> QED BY <4>1, <4>2
    <3>6. Due' = Due
      <4>1. \A i \in Planted : i <= Len(mem) - 2 \/ i = Len(mem) - 1
        BY <1>2, <2>7
      <4>2. \A i : i \in Planted' => i \in Planted
        BY <2>6
      <4>3. \A i : i \in Due' <=> i \in Planted
        BY <2>6, <3>4, <3>5, <4>1, <4>2
      <4> QED BY <2>2, <4>3
    <3>7. \A i \in Due : mem'[i - 1] = mem[i - 1]
      BY <1>2, <2>2, <2>4, <2>7
    <3>8. PICK k : k = Len(mem) - 2
      OBVIOUS
    <3>9. k \in Nat /\ k \in 1 .. Len(mem) /\ Len(mem) = k + 2 /\ Len(mem') = k /\ Len(mem) - 1 = k + 1
      BY <1>2, <2>3, <2>4, <3>8
    <3>10. mem[k] \in Returns
      BY <2>3, <2>9, <3>8 DEF PlantedHere
    <3>11. k \notin Planted /\ k - 1 \notin Planted
      <4>1. k # 2
        BY <3>10, Kinds DEF PlaceInv, StackShape
      <4>2. k \in 3 .. Len(mem)
        BY <2>3, <3>8, <3>9, <4>1
      <4> QED BY <3>10, <4>2, PlantedBelow, Kinds DEF Planted
    <3>12. \A i \in Planted' : i \in Planted /\ i < k /\ i # k - 1
      <4>1. \A i \in Planted' : i \in Planted /\ i <= k
        BY <2>6, <3>8
      <4>2. ASSUME NEW i \in Planted' PROVE i \in Planted /\ i < k /\ i # k - 1
        <5>1. i \in Planted /\ i <= k /\ i # k /\ i # k - 1
          BY <3>11, <4>1
        <5>2. i \in Int
          BY <1>2, <5>1
        <5> QED BY <3>9, <5>1, <5>2
      <4> QED BY <4>2
    <3>13. \A i \in Planted' : i \in Planted /\ Owner(mem', pc'[1], i) = Owner(mem, pc[1], i)
      BY <2>4, <3>8, <3>9, <3>12, PoppedOwners
    <3> QED BY <1>1, <3>6, <3>7, <3>13, DueKept
  <2> QED BY <2>3, <2>8, <2>9
<1> QED BY <1>4, <1>5, <1>6, <1>7

\* A stop at an entry: the function is recorded above all others.
LEMMA RecordTop ==
  ASSUME NEW top \in Nat, NEW D \in SUBSET (3 .. top), NEW m, NEW n, NEW s \in Seq(Entries),
         NEW t \in Seq(Entries), NEW e, t = Append(s, e), NEW f,
         Record(D, D, m, f, s), \A i \in D : n[i - 1] = m[i - 1], e.ret = n[top],
         \A i \in D : Owner(n, f, i) = Owner(m, f, i), e.start = Owner(n, f, top + 1)
  PROVE  Record(D, D, n, f, t) /\ Record(D \cup {top + 1}, D \cup {top + 1}, n, f, t)
<1>1. PICK at \in [D -> DOMAIN s] :
        /\ \A i \in D : s[at[i]].ret = m[i - 1]
        /\ \A i \in D : s[at[i]].start = Owner(m, f, i)
        /\ \A i, j \in D : i < j => at[i] < at[j]
  BY DEF Record
<1>2. PICK k : k = Len(s) + 1
  OBVIOUS
<1>3. /\ Len(s) \in Nat /\ DOMAIN s = 1 .. Len(s) /\ Len(t) = k /\ DOMAIN t = 1 .. k /\ t[k] = e
      /\ \A j \in 1 .. Len(s) : t[j] = s[j]
  <2>1. Len(s) \in Nat /\ DOMAIN s = 1 .. Len(s)
    OBVIOUS
  <2>2. Len(t) = k /\ DOMAIN t = 1 .. k
    BY <1>2
  <2>3. t[k] = e /\ \A j \in 1 .. Len(s) : t[j] = s[j]
    BY <1>2
  <2> QED BY <2>1, <2>2, <2>3
<1>4. \A i \in D : at[i] \in 1 .. Len(s) /\ t[at[i]] = s[at[i]]
  BY <1>1, <1>3
<1>5. at \in [D -> DOMAIN t]
  BY <1>1, <1>2, <1>3
<1>6. Record(D, D, n, f, t)
  <2>1. \A i \in D : t[at[i]].ret = n[i - 1] /\ t[at[i]].start = Owner(n, f, i)
    BY <1>1, <1>4
  <2> QED BY <1>1, <1>5, <2>1 DEF Record
<1>7. PICK to : to = [i \in D \cup {top + 1} |-> IF i = top + 1 THEN k ELSE at[i]]
  OBVIOUS
<1>8. \A i \in D : i < top + 1
  OBVIOUS
<1>9. to[top + 1] = k /\ \A i \in D : to[i] = at[i]
  BY <1>7, <1>8
<1>10. to \in [D \cup {top + 1} -> DOMAIN t]
  <2>1. k \in DOMAIN t
    BY <1>2, <1>3
  <2> QED BY <1>5, <1>7, <1>8, <2>1
<1>11. \A i \in D \cup {top + 1} : t[to[i]].ret = n[i - 1] /\ t[to[i]].start = Owner(n, f, i)
  <2>1. \A i \in D : t[to[i]].ret = n[i - 1] /\ t[to[i]].start = Owner(n, f, i)
    BY <1>1, <1>4, <1>9
  <2>2. top + 1 - 1 = top
    OBVIOUS
  <2> QED BY <1>3, <1>9, <2>1, <2>2
<1>12. ASSUME NEW i \in D \cup {top + 1}, NEW j \in D \cup {top + 1}, i < j PROVE to[i] < to[j]
  <2>1. i \in D
    <3>1. j < top + 1 \/ j = top + 1
      BY <1>8
    <3>2. i # top + 1
      BY <1>12, <3>1
    <3> QED BY <3>2
  <2>2. CASE j \in D
    BY <1>1, <1>9, <1>12, <2>1, <2>2
  <2>3. CASE j = top + 1
    BY <1>2, <1>3, <1>4, <1>9, <2>1, <2>3
  <2> QED BY <2>2, <2>3
<1>13. Record(D \cup {top + 1}, D \cup {top + 1}, n, f, t)
  BY <1>10, <1>11, <1>12 DEF Record
<1> QED BY <1>6, <1>13

\* Called from main, nothing is planted.
LEMMA FromMainFacts ==
  ASSUME PlaceInv, mem[Len(mem)] \in Returns, rbp = Len(mem) - 1, FromMain
  PROVE  Planted = {} /\ Len(mem) = 3 /\ rbp = 2
<1>1. Len(mem) # 2
  BY Kinds DEF PlaceInv, StackShape
<1>0. Len(mem) \in Nat /\ Len(mem) >= 2 /\ rbp \in 2 .. Len(mem)
  BY DEF PlaceInv, StackShape
<1>2. Len(mem) \in 3 .. Len(mem)
  BY <1>0, <1>1
<1>3. Follows(mem, Len(mem))
  BY <1>2, PlaceFacts DEF StackShape
<1>4. mem[rbp] \in SavedFrames
  BY <1>3, Kinds DEF Follows
<1>5. rbp \notin 3 .. Len(mem)
  BY <1>4, PlaceFacts, BelowFrame DEF FromMain
<1>6. rbp = 2 /\ Len(mem) = 3
  BY <1>0, <1>1, <1>5
<1>7. 3 \notin Planted
  BY <1>6, Kinds DEF Planted
<1>8. Planted \in SUBSET (3 .. 3)
  BY <1>6, PlantedFacts
<1>9. \A i \in 3 .. 3 : i = 3
  OBVIOUS
<1>10. Planted = {}
  BY <1>7, <1>8, <1>9
<1> QED BY <1>6, <1>10

LEMMA EntryDue ==
  ASSUME PlaceInv, Rest, DueInv, StopAtEntry, ~Undefined
  PROVE  DueInv'
<1>1. PICK f \in Pos(pc[1]) :
           /\ Recorded
           /\ dbg'.stack = IF FromMain THEN <<TopEntry>> ELSE Append(dbg.stack, TopEntry)
           /\ dbg'.rdx_change = IF dbg.head[f].end_enable = 1 THEN dbg.rdx_change + 8 ELSE dbg.rdx_change
           /\ mem' = IF dbg.head[f].end_enable = 1 THEN Append(mem, EHWord) ELSE mem
  BY EntryData
<1>2. Trap /\ pc[2] = 0 /\ mem[Len(mem)] \in Returns /\ rbp = Len(mem) - 1
  BY AtTrap DEF StopAtEntry
<1>3. Listed(pc[1])
  BY <1>1 DEF Listed
<1>4. pc[1] \in Fns /\ pc[1] # EndHandler /\ pc' = pc
  BY <1>1, <1>3, ListedFns, Kinds DEF Rest, Recorded
<1>5. Due = Planted /\ Due' = Planted'
  BY <1>4, NotReached, NotReachedNext
<1>6. PICK t, top, e : t = dbg'.stack /\ top = Len(mem) /\ e = TopEntry
  OBVIOUS
<1>7. top \in Nat /\ Planted \in SUBSET (3 .. top) /\ IsFiniteSet(Planted) /\ top + 1 \notin Planted
  BY <1>6, PlantedFacts, PlaceFacts
<1>8. PICK s : s = IF FromMain THEN << >> ELSE dbg.stack
  OBVIOUS
<1>9. s \in Seq(Entries) /\ e \in Entries /\ t = Append(s, e) /\ t \in Seq(Entries)
      /\ Record(Planted, Planted, mem, pc[1], s)
  <2>1. e \in Entries
    BY <1>2, <1>4, <1>6 DEF TopEntry, Entries
  <2>2. CASE FromMain
    <3>1. Planted = {}
      BY <1>2, <2>2, FromMainFacts
    <3>2. s = << >>
      BY <1>8, <2>2
    <3>3. s \in Seq(Entries) /\ DOMAIN s = {}
      BY <3>2, NoEntry
    <3>4. t = Append(s, e)
      <4>1. t = <<e>>
        BY <1>1, <1>6, <2>2
      <4> QED BY <3>2, <4>1
    <3>5. Record(Planted, Planted, mem, pc[1], s)
      <4>1. \E at \in [{} -> DOMAIN s] : TRUE
        <5>1. [i \in {} |-> 0] \in [{} -> DOMAIN s]
          OBVIOUS
        <5> QED BY <5>1
      <4> QED BY <3>1, <4>1 DEF Record
    <3> QED BY <2>1, <3>3, <3>4, <3>5
  <2>3. CASE ~FromMain
    <3>1. s = dbg.stack /\ t = Append(s, e)
      BY <1>1, <1>6, <1>8, <2>3
    <3>2. s \in Seq(Entries) /\ Record(Planted, Planted, mem, pc[1], s)
      BY <1>5, <3>1 DEF Rest, DbgShape, DueInv
    <3> QED BY <2>1, <3>1, <3>2
  <2> QED BY <2>2, <2>3
<1>10. PICK n : n = mem'
  OBVIOUS
<1>11. n[top] = mem[top] /\ \A i \in Planted : n[i - 1] = mem[i - 1]
  <2>1. mem \in Seq(Words) /\ Len(mem) \in Nat /\ Len(mem) >= 2
    BY DEF PlaceInv, StackShape
  <2>2. \A i \in 1 .. Len(mem) : Append(mem, EHWord)[i] = mem[i]
    BY <2>1
  <2>3. \A i \in 1 .. top : n[i] = mem[i]
    BY <1>1, <1>6, <1>10, <2>2
  <2>4. top \in 1 .. top /\ \A i \in Planted : i - 1 \in 1 .. top
    BY <1>6, <1>7, <2>1
  <2> QED BY <2>3, <2>4
<1>12. e.ret = n[top]
  BY <1>6, <1>11 DEF TopEntry
<1>17. PICK g : g = pc[1]
  OBVIOUS
<1>18. \A i \in Planted : Owner(n, g, i) = Owner(mem, g, i)
  <2>1. CASE mem' = mem
    BY <1>10, <2>1
  <2>2. CASE mem' = Append(mem, EHWord)
    <3>1. top \in 3 .. Len(mem)
      <4>1. Len(mem) # 2
        BY <1>2, Kinds DEF PlaceInv, StackShape
      <4> QED BY <1>6, <4>1, PlaceFacts DEF StackShape
    <3>2. top - 1 \notin Planted
      BY <1>2, <1>6, <3>1, PlantedBelow
    <3>3. PICK w : w = EHWord
      OBVIOUS
    <3>4. pc'[1] = pc[1] /\ mem' = Append(mem, w)
      BY <1>4, <2>2, <3>3
    <3> QED BY <1>4, <1>6, <1>10, <1>17, <3>2, <3>4, PushedOwners
  <2> QED BY <1>1, <2>1, <2>2
<1>19. e.start = Owner(n, g, top + 1)
  <2>1. mem \in Seq(Words)
    BY DEF PlaceInv, StackShape
  <2>2. Len(n) = top \/ Len(n) = top + 1
    BY <1>1, <1>6, <1>10, <2>1
  <2>3. ~((top + 1) + 2 <= Len(n))
    BY <1>7, <2>2
  <2> QED BY <1>6, <1>17, <2>3 DEF Owner, TopEntry
<1>20. Record(Planted, Planted, mem, g, s)
  BY <1>9, <1>17
<1>13. /\ Record(Planted, Planted, n, g, t)
       /\ Record(Planted \cup {top + 1}, Planted \cup {top + 1}, n, g, t)
  BY <1>7, <1>9, <1>11, <1>12, <1>18, <1>19, <1>20, RecordTop
<1>14. dbg.rdx_change = 8 * Cardinality(Planted) /\ Cardinality(Planted) \in Nat
  BY <1>5, <1>7, FS_CardinalityType DEF DueInv
<1>15. CASE dbg.head[f].end_enable = 1
  <2>1. mem' = Append(mem, EHWord) /\ dbg'.rdx_change = dbg.rdx_change + 8
    BY <1>1, <1>15
  <2>2. mem \in Seq(Words) /\ Len(mem) \in Nat /\ EHWord \in Words
    BY DEF PlaceInv, StackShape, Words
  <2>3. DOMAIN mem' = 1 .. top + 1 /\ mem'[top + 1] = EHWord /\ \A i \in 1 .. top : mem'[i] = mem[i]
    BY <1>6, <2>1, <2>2
  <2>4. Planted' = Planted \cup {top + 1}
    <3>1. \A i : i \in 1 .. top + 1 <=> i \in 1 .. top \/ i = top + 1
      BY <1>7
    <3>2. \A i : i \in Planted' <=> (i \in 1 .. top /\ mem[i] = EHWord) \/ i = top + 1
      BY <2>3, <3>1 DEF Planted
    <3>3. \A i : i \in Planted <=> i \in 1 .. top /\ mem[i] = EHWord
      BY <1>6, <2>2 DEF Planted
    <3> QED BY <3>2, <3>3
  <2>5. Cardinality(Planted \cup {top + 1}) = Cardinality(Planted) + 1
    BY <1>7, FS_AddElement
  <2>6. dbg'.rdx_change = 8 * Cardinality(Due')
    BY <1>5, <1>14, <2>1, <2>4, <2>5
  <2>7. Record(Due, Planted, mem, pc[1], dbg.stack)'
    <3>1. Record(Due', Planted', n, g, t)
      BY <1>5, <1>13, <2>4
    <3> QED BY <1>4, <1>6, <1>10, <1>17, <3>1 DEF Record, Owner
  <2> QED BY <2>6, <2>7 DEF DueInv
<1>16. CASE dbg.head[f].end_enable # 1
  <2>1. mem' = mem /\ dbg'.rdx_change = dbg.rdx_change
    BY <1>1, <1>16
  <2>2. Planted' = Planted
    BY <2>1 DEF Planted
  <2>3. dbg'.rdx_change = 8 * Cardinality(Due')
    BY <1>5, <1>14, <2>1, <2>2
  <2>4. Record(Due, Planted, mem, pc[1], dbg.stack)'
    <3>1. Record(Due', Planted', n, g, t)
      BY <1>5, <1>13, <2>2
    <3> QED BY <1>4, <1>6, <1>10, <1>17, <3>1 DEF Record, Owner
  <2> QED BY <2>3, <2>4 DEF DueInv
<1> QED BY <1>15, <1>16

\* A stop at an end: what is recorded from there up is dropped.
LEMMA EndDue ==
  ASSUME PlaceInv, Rest, DueInv, StopAtEnd, ~Undefined
  PROVE  Rest' /\ PlaceInv' /\ DueInv'
<1>1. /\ Trap /\ pc[2] = 0 /\ pc[1] = EndHandler /\ text[pc[1]] = <<INT3, INSN>>
  BY AtTrap DEF StopAtEnd, Armed
<1>2. pc = <<EndHandler, 0>> /\ current = "dbe" /\ text[EndHandler][1] = INT3
  BY <1>1, PlaceFacts DEF Trap, Dbe
<1>3. Reached
  BY <1>2 DEF Reached
<1>4. PICK top, s : top = Len(mem) + 1 /\ s = dbg.stack
  OBVIOUS
<1>5. Due = Planted \cup {top}
  BY <1>3, <1>4 DEF Due
<1>6. top \in Nat /\ Planted \in SUBSET (3 .. Len(mem)) /\ IsFiniteSet(Planted) /\ top \notin Planted
      /\ top - 1 = Len(mem)
  BY <1>4, PlantedFacts, PlaceFacts
<1>7. s \in Seq(Entries) /\ Len(s) \in Nat /\ DOMAIN s = 1 .. Len(s)
  BY <1>4 DEF Rest, DbgShape
<1>8. PICK at \in [Due -> DOMAIN s] :
        /\ \A i \in Due : s[at[i]].ret = mem[i - 1]
        /\ \A i \in Due : i \in Planted => s[at[i]].start = Owner(mem, pc[1], i)
        /\ \A i, j \in Due : i < j => at[i] < at[j]
  BY <1>4 DEF DueInv, Record
<1>9. at[top] \in DOMAIN s /\ s[at[top]].ret = mem[Len(mem)]
  BY <1>5, <1>6, <1>8
<1>10. \E e \in DOMAIN dbg.stack : dbg.stack[e].ret = mem[Len(mem)]
  BY <1>4, <1>9
<1>11. Rest' /\ PlaceInv'
  BY <1>10, EndRest
<1>12. PICK k \in 1 .. Len(s) : /\ dbg'.stack = SubSeq(s, 1, k - 1)
                                /\ \A e \in DOMAIN s : s[e].ret = mem[Len(mem)] => e <= k
  BY <1>4, <1>10, EndData
<1>13. Recorded /\ UNCHANGED mem /\ dbg'.rdx_change = dbg.rdx_change - 8
  BY <1>10, EndData
<1>14. current' # "dbe"
  BY <1>13 DEF Recorded, Handover, Switch
<1>15. Due' = Planted
  BY <1>13, <1>14, NotReachedNext DEF Planted
<1>16. dbg'.rdx_change = 8 * Cardinality(Due')
  <2>1. Cardinality(Planted \cup {top}) = Cardinality(Planted) + 1 /\ Cardinality(Planted) \in Nat
    BY <1>6, FS_AddElement, FS_CardinalityType
  <2>2. dbg.rdx_change = 8 * (Cardinality(Planted) + 1)
    BY <1>5, <2>1 DEF DueInv
  <2> QED BY <1>13, <1>15, <2>1, <2>2
<1>17. PICK t : t = SubSeq(s, 1, k - 1)
  OBVIOUS
<1>18. DOMAIN t = 1 .. k - 1 /\ \A j \in 1 .. k - 1 : t[j] = s[j]
  BY <1>7, <1>17
<1>19. PICK to : to = [i \in Planted |-> at[i]]
  OBVIOUS
<1>20. \A i \in Planted : i \in Due /\ i < top /\ top \in Due
  BY <1>4, <1>5, <1>6, PlaceFacts
<1>21. \A i \in Planted : to[i] = at[i] /\ at[i] \in 1 .. k - 1
  <2>1. at[top] <= k
    BY <1>9, <1>12
  <2>2. \A i \in Planted : at[i] < at[top] /\ at[i] \in 1 .. Len(s)
    BY <1>7, <1>8, <1>20
  <2>3. at[top] \in 1 .. Len(s)
    BY <1>7, <1>9
  <2> QED BY <1>7, <1>12, <1>19, <2>1, <2>2, <2>3
<1>22. Record(Planted, Planted, mem, pc[1], t)
  <2>1. to \in [Planted -> DOMAIN t]
    BY <1>18, <1>19, <1>21
  <2>2. \A i \in Planted : t[to[i]].ret = mem[i - 1] /\ t[to[i]].start = Owner(mem, pc[1], i)
    BY <1>8, <1>18, <1>20, <1>21
  <2>3. \A i, j \in Planted : i < j => to[i] < to[j]
    BY <1>8, <1>20, <1>21
  <2> QED BY <2>1, <2>2, <2>3 DEF Record
<1>23. Record(Due, Planted, mem, pc[1], dbg.stack)'
  <2>1. Planted' = Planted /\ pc' = pc
    BY <1>13 DEF Planted, Recorded
  <2>2. PICK f : f = pc[1]
    OBVIOUS
  <2>3. dbg'.stack = t /\ Due' = Planted /\ mem' = mem /\ pc'[1] = f
    BY <1>12, <1>13, <1>15, <1>17, <2>1, <2>2
  <2>4. Record(Planted, Planted, mem, f, t)
    BY <1>22, <2>2
  <2>5. Record(Due', Planted', mem', pc'[1], t)
    BY <2>1, <2>3, <2>4
  <2> QED BY <2>3, <2>5 DEF Record, Owner
<1> QED BY <1>11, <1>16, <1>23 DEF DueInv

\* Resume, an exit and a tick.
LEMMA SameStackDue ==
  ASSUME PlaceInv, DueInv, UNCHANGED <<dbg, debuggee>>, ~Reached, ~Reached'
  PROVE  DueInv'
<1>1. Due' = Due /\ Planted' = Planted
  BY DEF debuggee, Due, Planted
<1>2. mem' = mem /\ pc' = pc
  BY DEF debuggee
<1> QED BY <1>1, <1>2, DueKept

LEMMA CareDebuggee ==
  ASSUME CareInv, DebuggeeStep
  PROVE  CareInv'
<1>1. PlaceInv /\ Rest /\ DueInv
  BY DEF CareInv, Rest
<1>2. CASE push_rbp \/ mov_rbp \/ ret \/ \E g \in Fns, s \in Sites : call(g, s)
  <2>1. PlaceInv'
    BY <1>1, <1>2, PushPlace, MovePlace, RetPlace, CallPlace
  <2>2. Rest' /\ DueInv'
    BY <1>1, <1>2, <2>1, InstructionRest, InstructionDue
  <2> QED BY <2>1, <2>2 DEF CareInv, Rest
<1>3. CASE StopAtEntry /\ ~Undefined
  BY <1>1, <1>3, EntryPlace, EntryRest, EntryDue DEF CareInv, Rest
<1>4. CASE Undefined
  <2>1. PlaceInv' /\ Rest'
    BY <1>1, <1>4, PlaceKept, UndefinedRest DEF Undefined
  <2>2. DueInv'
    BY <1>1, <1>4, SameDue DEF Undefined, SameRecord
  <2> QED BY <2>1, <2>2 DEF CareInv, Rest
<1>5. CASE StopAtEnd /\ ~Undefined
  BY <1>1, <1>5, EndDue DEF CareInv, Rest
<1>6. CASE Resume
  <2>1. Rest' /\ PlaceInv' /\ ~Undefined
    BY <1>1, <1>6, ResumeRest
  <2>2. pc[2] = 1 /\ UNCHANGED <<dbg, debuggee>>
    BY <1>6, <2>1 DEF Resume
  <2>3. ~Reached /\ ~Reached'
    BY <2>2 DEF Reached, debuggee
  <2> QED BY <1>1, <2>1, <2>2, <2>3, SameStackDue DEF CareInv, Rest
<1>7. CASE debuggee_exit
  <2>1. Rest' /\ PlaceInv'
    BY <1>1, <1>7, ExitRest
  <2>2. pc[2] = 2 /\ UNCHANGED <<dbg, debuggee>>
    BY <1>7 DEF debuggee_exit
  <2>3. ~Reached /\ ~Reached'
    BY <2>2 DEF Reached, debuggee
  <2> QED BY <1>1, <2>1, <2>2, <2>3, SameStackDue DEF CareInv, Rest
<1> QED BY <1>2, <1>3, <1>4, <1>5, <1>6, <1>7 DEF DebuggeeStep

LEMMA CareTick ==
  ASSUME CareInv, handle_timer_tick
  PROVE  CareInv'
<1>1. PlaceInv /\ Rest /\ DueInv
  BY DEF CareInv, Rest
<1>2. Rest' /\ PlaceInv' /\ current' = current
  BY <1>1, TickRest
<1>3. UNCHANGED <<dbg, text, debuggee>>
  BY DEF handle_timer_tick
<1>4. Due' = Due /\ Planted' = Planted
  BY <1>2, <1>3 DEF debuggee, Due, Planted, Reached
<1>5. DueInv'
  <2>1. mem' = mem /\ pc' = pc
    BY <1>3 DEF debuggee
  <2> QED BY <1>1, <1>3, <1>4, <2>1, DueKept
<1> QED BY <1>2, <1>5 DEF CareInv, Rest

\* Nothing is planted on a stack that is main's alone.
LEMMA NothingDue ==
  ASSUME PlaceInv, Len(mem) = 2, pc = <<Main, 2>>
  PROVE  Due = {}
<1>1. Due = Planted
  BY NotReached
<1>2. Planted \in SUBSET (3 .. 2)
  BY PlantedFacts
<1> QED BY <1>1, <1>2

LEMMA FreshDue ==
  ASSUME PlaceInv, Len(mem) = 2, pc = <<Main, 2>>, UNCHANGED debuggee, NEW s, s = << >>, dbg'.stack = s, dbg'.rdx_change = 0
  PROVE  DueInv'
<1>1. Due' = {}
  <2>1. Due = {} /\ Due = Planted
    BY NothingDue, NotReached
  <2>2. Due' = Planted'
    BY NotReachedNext DEF debuggee
  <2> QED BY <2>1, <2>2 DEF debuggee, Planted
<1>2. Record({}, Planted', mem', pc'[1], s)
  <2>1. [i \in {} |-> 0] \in [{} -> DOMAIN s]
    OBVIOUS
  <2> QED BY <2>1 DEF Record
<1>3. Record(Due, Planted, mem, pc[1], dbg.stack)'
  BY <1>1, <1>2 DEF Record, Owner
<1>4. dbg'.rdx_change = 8 * Cardinality(Due')
  BY <1>1, FS_EmptySet
<1> QED BY <1>3, <1>4 DEF DueInv

LEMMA CareCall ==
  ASSUME CareInv, Careful
  PROVE  CareInv'
<1>1. PlaceInv /\ Rest /\ DueInv
  BY DEF CareInv, Rest
<1>2. ASSUME Rest', PlaceInv', SameRecord PROVE CareInv'
  BY <1>1, <1>2, SameDue DEF CareInv, Rest
<1>3. CASE ~dbg.alive /\ do_become_debugger(TRUE)
  <2>1. Rest' /\ PlaceInv'
    BY <1>1, <1>3, BecomeRest
  <2>2. dbg' = [NoDbg EXCEPT !.alive = TRUE] /\ Dbg /\ UNCHANGED debuggee
    BY <1>3 DEF do_become_debugger, Return
  <2>3. ~ChildLives
    BY <1>1, <1>3 DEF Rest, StageInv
  <2>4. pc = <<Main, 2>> /\ Len(mem) = 2
    BY <1>1, <2>3 DEF Rest, StageInv
  <2>5. dbg'.stack = << >> /\ dbg'.rdx_change = 0
    BY <2>2 DEF NoDbg
  <2>6. DueInv'
    BY <1>1, <2>2, <2>4, <2>5, FreshDue
  <2> QED BY <2>1, <2>6 DEF CareInv, Rest
<1>4. CASE dbg.alive /\ do_fork
  <2>1. Rest' /\ PlaceInv' /\ dbg'.stack = dbg.stack /\ dbg'.rdx_change = dbg.rdx_change
        /\ UNCHANGED <<text, current, mem, pc>>
    BY <1>1, <1>4, ForkRest
  <2>2. Due' = Due /\ Planted' = Planted
    BY <2>1 DEF Due, Planted, Reached
  <2>3. DueInv'
    BY <1>1, <2>1, <2>2, DueKept
  <2> QED BY <2>1, <2>3 DEF CareInv, Rest
<1>5. ASSUME NEW f \in Fns, NEW flag \in 0 .. 1,
         \A i \in Pos(f) : LET raise == dbg.head[i].end_enable = 0 /\ flag = 1
                           IN /\ Stopped(f) => raise
                              /\ raise /\ OnStack(f) => Stopped(f),
         ~Listed(f) => Len(dbg.head) < MAX_BREAKPOINTS,
         do_set_breakpoint(f, flag, TRUE)
      PROVE  CareInv'
  BY <1>1, <1>2, <1>5, SetRest
<1>6. ASSUME NEW f \in Fns, dbg.head # <<>>, ~Stopped(f), do_remove_breakpoint(f) PROVE CareInv'
  BY <1>1, <1>2, <1>6, RemoveRest
<1>7. CASE do_info_breakpoints \/ do_info_registers \/ do_backtrace
  <2>1. UNCHANGED <<state, current, dbg, text, debuggee, undef>> \/ Undefined
    BY <1>7 DEF do_info_breakpoints, do_info_registers, do_backtrace, Return
  <2>2. SameRecord /\ UNCHANGED debuggee
    BY <2>1 DEF SameRecord, Undefined
  <2> QED BY <1>1, <1>2, <2>1, <2>2, SameRest, UndefinedRest, PlaceKept
<1>8. CASE ChildLives /\ do_wait_and_continue
  <2>1. Rest' /\ PlaceInv' /\ current' = "dbe" /\ current = "dbg" /\ UNCHANGED <<dbg, text, debuggee>>
    BY <1>1, <1>8, WaitRest
  <2>2. ~Reached
    BY <2>1 DEF Reached
  <2>3. ~Reached'
    <3>1. ASSUME pc = <<EndHandler, 0>> PROVE text[EndHandler][1] # INT3
      <4>1. AtStop /\ pc[1] = EndHandler /\ dbg.alive
        BY <1>1, <1>8, <2>1, <3>1 DEF AtStop, Rest, StageInv
      <4>2. Bytes(EndHandler)
        BY <1>1, <4>1 DEF Rest, TextInv
      <4>3. text[EndHandler] = <<PUSHRBP, INT3>>
        BY <4>1, <4>2 DEF Bytes
      <4> QED BY <4>3, Bytes3
    <3> QED BY <2>1, <3>1 DEF Reached, debuggee
  <2> QED BY <1>1, <2>1, <2>2, <2>3, SameStackDue DEF CareInv, Rest
<1>9. CASE dbg.forked /\ ~ChildLives /\ debugger_exit
  <2>1. Rest' /\ PlaceInv' /\ dbg' = NoDbg
    BY <1>1, <1>9, LeaveRest
  <2>2. pc = <<Main, 2>> /\ Len(mem) = 2 /\ UNCHANGED debuggee
    BY <1>1, <1>9 DEF Rest, StageInv, debugger_exit
  <2>3. dbg'.stack = << >> /\ dbg'.rdx_change = 0
    BY <2>1 DEF NoDbg
  <2>4. DueInv'
    BY <1>1, <2>2, <2>3, FreshDue
  <2> QED BY <2>1, <2>4 DEF CareInv, Rest
<1> QED BY <1>3, <1>4, <1>5, <1>6, <1>7, <1>8, <1>9 DEF Careful

LEMMA CareInit == Init => CareInv
<1> SUFFICES ASSUME Init PROVE CareInv
  OBVIOUS
<1>1. /\ state = [p \in {"dbg", "dbe"} |-> IF p = "dbg" THEN RUNNING ELSE UNUSED]
      /\ current = "dbg" /\ dbg = NoDbg /\ text = [f \in Addr |-> <<PUSHRBP, INSN>>]
      /\ pc = <<Main, 2>> /\ rbp = 2 /\ calls = 0 /\ undef = FALSE
  BY DEF Init
<1>2. PICK a, b : a = END_ADDR /\ b = FrameWord(0)
  OBVIOUS
<1>3. mem = <<a, b>> /\ a \in Words /\ b \in Words /\ b \in SavedFrames
  BY <1>2, Kinds DEF Init, Words
<1>4. mem \in Seq(Words) /\ Len(mem) = 2 /\ mem[1] = a /\ mem[2] = b
  BY <1>3
<1>5. StackShape(mem)
  BY <1>2, <1>4 DEF StackShape
<1>6. PlaceInv
  <2>1. Top(mem, 2, <<Main, 2>>)
    BY <1>3, <1>4, Kinds DEF Top
  <2>2. <<Main, 2>> \in Addr \X (0 .. 2)
    BY DEF Addr
  <2> QED BY <1>1, <1>4, <1>5, <2>1, <2>2, DebuggerAssumption DEF PlaceInv
<1>7. PICK s : s = << >>
  OBVIOUS
<1>8. /\ DOMAIN dbg = Fields /\ dbg.alive = FALSE /\ dbg.last_num = 0 /\ dbg.minus = 0 /\ dbg.nxt_instr = INSN
      /\ dbg.forked = FALSE /\ dbg.head = s /\ dbg.stack = s /\ dbg.rdx_change = 0
      /\ dbg.backtrace = s
  BY <1>1, <1>7 DEF NoDbg, Fields
<1>9. s \in Seq(Breakpoints) /\ s \in Seq(Entries) /\ Len(s) = 0 /\ DOMAIN s = {}
  BY <1>7, NoEntry
<1>10. DbgShape
  <2>1. Len(s) <= MAX_BREAKPOINTS /\ Len(s) <= MAX_BACKTRACE
    BY <1>9, DebuggerAssumption
  <2>2. dbg.head \in Seq(Breakpoints) /\ Len(dbg.head) <= MAX_BREAKPOINTS
    BY <1>8, <1>9, <2>1
  <2>3. /\ dbg.stack \in Seq(Entries) /\ Len(dbg.stack) <= MAX_BACKTRACE
        /\ Len(dbg.backtrace) <= MAX_BACKTRACE
    BY <1>8, <1>9, <2>1
  <2>4. \A i, j \in DOMAIN dbg.head : dbg.head[i].addr = dbg.head[j].addr => i = j
    BY <1>8, <1>9
  <2>5. dbg.alive \in BOOLEAN /\ dbg.forked \in BOOLEAN
    BY <1>1 DEF NoDbg
  <2>6. DOMAIN dbg = Fields /\ dbg.minus = 0 /\ dbg.nxt_instr = INSN /\ dbg.last_num \in Nat
    BY <1>8
  <2> QED BY <2>2, <2>3, <2>4, <2>5, <2>6 DEF DbgShape
<1>11. StageInv
  <2>1. ControlInv
    BY ControlInit
  <2>2. state \in [{"dbg", "dbe"} -> States] /\ ~ChildLives
    BY <1>1 DEF States, ChildLives
  <2> QED BY <1>1, <1>4, <1>8, <2>1, <2>2 DEF StageInv, AtStop
<1>12. TextInv
  <2>1. Main # EndHandler /\ mem[Len(mem)] # EHWord
    BY <1>3, <1>4, Kinds
  <2> QED BY <1>1, <1>8, <2>1 DEF TextInv, Addr, Byte2
<1>13. DueInv
  <2>1. Due = {}
    BY <1>1, <1>4, <1>6, NothingDue
  <2>2. [i \in {} |-> 0] \in [{} -> DOMAIN s]
    OBVIOUS
  <2>3. Record(Due, Planted, mem, pc[1], dbg.stack)
    BY <1>8, <2>1, <2>2 DEF Record
  <2> QED BY <1>8, <2>1, <2>3, FS_EmptySet DEF DueInv
<1> QED BY <1>6, <1>10, <1>11, <1>12, <1>13 DEF CareInv

LEMMA CareStep == CareInv /\ [Careful \/ DebuggeeStep \/ handle_timer_tick]_vars => CareInv'
<1> SUFFICES ASSUME CareInv, [Careful \/ DebuggeeStep \/ handle_timer_tick]_vars PROVE CareInv'
  OBVIOUS
<1>1. CASE UNCHANGED vars
  <2>1. PlaceInv /\ Rest /\ DueInv
    BY DEF CareInv, Rest
  <2>2. UNCHANGED <<state, current, dbg, text, debuggee, undef>>
    BY <1>1 DEF vars, debuggee
  <2> QED BY <2>1, <2>2, SameRest, PlaceKept, SameDue DEF SameRecord, CareInv, Rest
<1> QED BY <1>1, CareCall, CareDebuggee, CareTick

LEMMA CareHolds == CarefulSpec => []CareInv
  BY CareInit, CareStep, PTL DEF CarefulSpec

-----------------------------------------------------------------------------
\* The types of the state, in a program whose debugger is careful.
THEOREM DebuggerTypes == CarefulSpec => []TypeOK
<1>1. CareInv => TypeOK
  BY DEF CareInv, PlaceInv, StackShape, DbgShape, StageInv, TextInv, TypeOK, States
<1> QED BY <1>1, CareHolds, PTL

\* Under a careful debugger, one that neither sets on a full list nor removes or
\* sets again what the debuggee is stopped at nor raises the end flag of another
\* active function, the INT3 bytes and the breakpoint list agree, except between
\* a stop and the instruction after push rbp (do_set_breakpoint,
\* do_remove_breakpoint and the bytes int3_handler writes).
THEOREM ArmedAsListed == CarefulSpec => []ArmedIffListed
<1>1. CareInv => ArmedIffListed
  <2> SUFFICES ASSUME CareInv, NEW f \in Fns, dbg.alive, pc # <<f, 0>>, pc # <<f, 1>>
               PROVE  text[f][1] = INT3 <=> Listed(f)
    BY DEF ArmedIffListed
  <2>1. Bytes(f) /\ f # EndHandler
    BY Kinds DEF CareInv, TextInv
  <2> QED BY <2>1, Bytes3 DEF Bytes, Armed
<1> QED BY <1>1, CareHolds, PTL

\* Every function whose end_handler is on the stack of the debuggee has an
\* entry of its own, with its address and its return address, in the order of
\* the calls (int3_handler's stack of active functions), for any length of that
\* stack, until a stop overruns backtrace[] or stack[].
THEOREM PlantedAreRecorded == CarefulSpec => []PlantedRecorded
<1>1. CareInv => PlantedRecorded
  <2> SUFFICES ASSUME CareInv PROVE PlantedRecorded
    OBVIOUS
  <2>1. PICK at \in [Due -> DOMAIN dbg.stack] :
          /\ \A i \in Due : dbg.stack[at[i]].ret = mem[i - 1]
          /\ \A i \in Due : i \in Planted => dbg.stack[at[i]].start = Owner(mem, pc[1], i)
          /\ \A i, j \in Due : i < j => at[i] < at[j]
    BY DEF CareInv, DueInv, Record
  <2>2. \A i \in Planted : i \in Due
    BY DEF Due
  <2>3. PICK to : to = [i \in Planted |-> at[i]]
    OBVIOUS
  <2>4. to \in [Planted -> DOMAIN dbg.stack] /\ \A i \in Planted : to[i] = at[i]
    BY <2>2, <2>3
  <2>5. ASSUME NEW i \in Planted
        PROVE  dbg.stack[to[i]] = [start |-> Owner(mem, pc[1], i), ret |-> mem[i - 1]]
    <3>1. PICK e : e = dbg.stack[at[i]]
      OBVIOUS
    <3>2. e \in Entries
      BY <2>1, <2>2, <3>1 DEF CareInv, DbgShape
    <3>3. e.ret = mem[i - 1] /\ e.start = Owner(mem, pc[1], i)
      BY <2>1, <2>2, <3>1
    <3>4. e = [start |-> Owner(mem, pc[1], i), ret |-> mem[i - 1]]
      BY <3>2, <3>3 DEF Entries
    <3> QED BY <2>4, <3>1, <3>4
  <2>6. \A i, j \in Planted : i < j => to[i] < to[j]
    BY <2>1, <2>2, <2>4
  <2> QED BY <2>4, <2>5, <2>6 DEF PlantedRecorded
<1> QED BY <1>1, CareHolds, PTL

\* stack_count never goes below 0, until a stop overruns backtrace[] or
\* stack[]: a function that ends was recorded.
THEOREM StackCountNotNegative == CarefulSpec => []StackNotBelowEmpty
<1>1. CareInv => StackNotBelowEmpty
  BY DEF CareInv, DbgShape, StackNotBelowEmpty
<1> QED BY <1>1, CareHolds, PTL

\* rdx_change, by which info registers corrects rdx, is 8 for every end_handler
\* planted and not yet reached.
THEOREM RdxChangeIsExact == CarefulSpec => []RdxChangeCounts
<1>1. CareInv => RdxChangeCounts
  <2> SUFFICES ASSUME CareInv PROVE RdxChangeCounts
    OBVIOUS
  <2>1. /\ dbg.rdx_change = 8 * Cardinality(Due) /\ PlaceInv
        /\ IsFiniteSet(Planted) /\ Len(mem) + 1 \notin Planted
    BY PlantedFacts DEF CareInv, DueInv
  <2>2. Cardinality(Planted) \in Nat /\ Cardinality(Planted \cup {Len(mem) + 1}) = Cardinality(Planted) + 1
    BY <2>1, FS_AddElement, FS_CardinalityType
  <2>3. CASE Reached
    <3>1. Due = Planted \cup {Len(mem) + 1}
      BY <2>3 DEF Due
    <3> QED BY <2>1, <2>2, <2>3, <3>1 DEF Reached, RdxChangeCounts
  <2>4. CASE ~Reached
    <3>1. Due = Planted
      BY <2>4 DEF Due
    <3> QED BY <2>1, <2>2, <2>4, <3>1 DEF Reached, RdxChangeCounts
  <2> QED BY <2>3, <2>4
<1> QED BY <1>1, CareHolds, PTL

-----------------------------------------------------------------------------
\* The function that ReturnAddresses is defined by, up to the k-th word.
IsUpto(u, m, k) ==
  u = [i \in 0 .. k |-> IF i = 0 THEN <<>>
                        ELSE IF m[i][1] \in Fns \cup {Main} THEN <<m[i]>> \o u[i - 1]
                        ELSE u[i - 1]]

LEMMA UptoStart == ASSUME NEW m PROVE \E u : IsUpto(u, m, 0)
<1>1. PICK u : u = [i \in 0 .. 0 |-> <<>>]
  OBVIOUS
<1>2. \A i \in 0 .. 0 : i = 0
  OBVIOUS
<1>3. IsUpto(u, m, 0)
  BY <1>1, <1>2 DEF IsUpto
<1> QED BY <1>3

LEMMA UptoNext ==
  ASSUME NEW m, NEW k \in Nat, NEW v, IsUpto(v, m, k)
  PROVE  \E u : IsUpto(u, m, k + 1)
<1>1. PICK x : x = IF m[k + 1][1] \in Fns \cup {Main} THEN <<m[k + 1]>> \o v[k] ELSE v[k]
  OBVIOUS
<1>2. PICK u : u = [i \in 0 .. k + 1 |-> IF i = k + 1 THEN x ELSE v[i]]
  OBVIOUS
<1>3. DOMAIN u = 0 .. k + 1 /\ u[k + 1] = x /\ \A i \in 0 .. k : u[i] = v[i]
  BY <1>2
<1>4. ASSUME NEW i \in 0 .. k + 1
      PROVE  u[i] = IF i = 0 THEN <<>>
                    ELSE IF m[i][1] \in Fns \cup {Main} THEN <<m[i]>> \o u[i - 1] ELSE u[i - 1]
  <2>1. CASE i = k + 1
    <3>1. i # 0 /\ i - 1 = k /\ u[i - 1] = v[k]
      BY <1>3, <2>1
    <3> QED BY <1>1, <1>3, <2>1, <3>1
  <2>2. CASE i \in 0 .. k
    <3>1. v[i] = IF i = 0 THEN <<>>
                 ELSE IF m[i][1] \in Fns \cup {Main} THEN <<m[i]>> \o v[i - 1] ELSE v[i - 1]
      BY <2>2 DEF IsUpto
    <3>2. i # 0 => i - 1 \in 0 .. k
      BY <2>2
    <3> QED BY <1>3, <2>2, <3>1, <3>2
  <2> QED BY <2>1, <2>2
<1>5. u = [i \in 0 .. k + 1 |-> u[i]]
  BY <1>2
<1>6. IsUpto(u, m, k + 1)
  BY <1>4, <1>5 DEF IsUpto
<1> QED BY <1>6

LEMMA UptoExists == ASSUME NEW m, NEW k \in Nat PROVE \E u : IsUpto(u, m, k)
<1> SUFFICES ASSUME ~\E u : IsUpto(u, m, k) PROVE FALSE
  OBVIOUS
<1>1. PICK S : S = {j \in Nat : ~\E u : IsUpto(u, m, j)}
  OBVIOUS
<1>2. S \in SUBSET Nat /\ k \in S
  BY <1>1
<1>3. PICK n \in S : \A j \in S : n <= j
  BY <1>2, LeastNumber
<1>4. n \in Nat /\ ~\E u : IsUpto(u, m, n)
  BY <1>1, <1>3
<1>5. n # 0
  BY <1>4, UptoStart
<1>6. n - 1 \in Nat /\ n - 1 \notin S /\ n = (n - 1) + 1
  BY <1>3, <1>4, <1>5
<1>7. PICK v : IsUpto(v, m, n - 1)
  BY <1>1, <1>6
<1>8. \E u : IsUpto(u, m, (n - 1) + 1)
  BY <1>6, <1>7, UptoNext
<1> QED BY <1>4, <1>6, <1>8

LEMMA Chosen ==
  ASSUME NEW m, Len(m) \in Nat
  PROVE  \E u : IsUpto(u, m, Len(m)) /\ ReturnAddresses(m) = u[Len(m)]
<1>0. \E u : IsUpto(u, m, Len(m))
  BY UptoExists
<1>1. PICK u : u = CHOOSE v : IsUpto(v, m, Len(m))
  OBVIOUS
<1>2. IsUpto(u, m, Len(m))
  BY <1>0, <1>1
<1>3. ReturnAddresses(m) = u[Len(m)]
  BY <1>1 DEF ReturnAddresses, IsUpto
<1> QED BY <1>2, <1>3

\* Each value of u is the one before it, with a return address in front or not.
IsStepwise(u, m, k) ==
  /\ \A i \in 1 .. k : m[i][1] \in Fns \cup {Main} => u[i] = Cons(m[i], u[i - 1])
  /\ \A i \in 1 .. k : m[i][1] \notin Fns \cup {Main} => u[i] = u[i - 1]

LEMMA UptoSteps ==
  ASSUME NEW m, NEW k \in Nat, NEW u, IsUpto(u, m, k)
  PROVE  u[0] = <<>> /\ IsStepwise(u, m, k)
<1>1. \A i \in 1 .. k : i \in 0 .. k /\ i # 0
  OBVIOUS
<1>2. 0 \in 0 .. k
  OBVIOUS
<1>3. \A i \in 0 .. k : u[i] = IF i = 0 THEN <<>>
                 ELSE IF m[i][1] \in Fns \cup {Main} THEN Cons(m[i], u[i - 1]) ELSE u[i - 1]
  BY DEF IsUpto, Cons
<1> QED BY <1>1, <1>2, <1>3 DEF IsStepwise

LEMMA UptoAt ==
  ASSUME NEW m, NEW k \in Nat, NEW u, IsUpto(u, m, k)
  PROVE  /\ u[0] = <<>>
         /\ \A i \in 1 .. k : m[i][1] \in Fns \cup {Main} => u[i] = Cons(m[i], u[i - 1])
         /\ \A i \in 1 .. k : m[i][1] \notin Fns \cup {Main} => u[i] = u[i - 1]
<1>1. u[0] = <<>> /\ IsStepwise(u, m, k)
  BY UptoSteps
<1> QED BY <1>1 DEF IsStepwise

\* Two stacks with the same words at the bottom.
LEMMA UptoSame ==
  ASSUME NEW m, NEW n, NEW k \in Nat, NEW l \in Nat, NEW u, NEW v, IsUpto(u, m, k), IsUpto(v, n, l),
         NEW b \in Nat, b <= k, b <= l, \A i \in 1 .. b : m[i] = n[i]
  PROVE  u[b] = v[b]
<1> SUFFICES ASSUME u[b] # v[b] PROVE FALSE
  OBVIOUS
<1>1. PICK S : S = {j \in 0 .. b : u[j] # v[j]}
  OBVIOUS
<1>2. S \in SUBSET Nat /\ b \in S
  BY <1>1
<1>3. PICK x \in S : \A j \in S : x <= j
  BY <1>2, LeastNumber
<1>4. x \in 0 .. b /\ u[x] # v[x]
  BY <1>1, <1>3
<1>5. u[0] = v[0]
  BY UptoAt
<1>6. x \in 1 .. k /\ x \in 1 .. l /\ x \in 1 .. b /\ m[x] = n[x]
  BY <1>4, <1>5
<1>7. u[x - 1] = v[x - 1]
  <2>1. x - 1 \in 0 .. b /\ ~(x <= x - 1)
    BY <1>6
  <2>2. x - 1 \notin S
    BY <1>3, <2>1
  <2> QED BY <1>1, <2>1, <2>2
<1>8. CASE m[x][1] \in Fns \cup {Main}
  <2>1. u[x] = Cons(m[x], u[x - 1])
    BY <1>6, <1>8, UptoAt
  <2>2. v[x] = Cons(n[x], v[x - 1])
    BY <1>6, <1>8, UptoAt
  <2> QED BY <1>4, <1>6, <1>7, <2>1, <2>2
<1>9. CASE m[x][1] \notin Fns \cup {Main}
  <2>1. u[x] = u[x - 1]
    BY <1>6, <1>9, UptoAt
  <2>2. v[x] = v[x - 1]
    BY <1>6, <1>9, UptoAt
  <2> QED BY <1>4, <1>7, <2>1, <2>2
<1> QED BY <1>8, <1>9

LEMMA AddressesGrown ==
  ASSUME NEW m, NEW n, NEW k \in Nat, NEW l \in Nat, l = k + 1, k = Len(m), l = Len(n),
         \A i \in 1 .. k : m[i] = n[i]
  PROVE  /\ n[l][1] \in Fns \cup {Main} => ReturnAddresses(n) = Cons(n[l], ReturnAddresses(m))
         /\ n[l][1] \notin Fns \cup {Main} => ReturnAddresses(n) = ReturnAddresses(m)
<1>2. k <= l /\ k <= k /\ l \in 1 .. l /\ l - 1 = k
  OBVIOUS
<1>4. PICK u : IsUpto(u, m, k) /\ ReturnAddresses(m) = u[k]
  BY Chosen
<1>5. PICK v : IsUpto(v, n, l) /\ ReturnAddresses(n) = v[l]
  BY Chosen
<1>6. u[k] = v[k]
  BY <1>2, <1>4, <1>5, UptoSame
<1>7. IsStepwise(v, n, l)
  BY <1>5, UptoSteps
<1>8. /\ n[l][1] \in Fns \cup {Main} => v[l] = Cons(n[l], v[k])
      /\ n[l][1] \notin Fns \cup {Main} => v[l] = v[k]
  BY <1>2, <1>7 DEF IsStepwise
<1> QED BY <1>4, <1>5, <1>6, <1>8

LEMMA AddressesPushed ==
  ASSUME NEW T, NEW m \in Seq(T), NEW w \in T, NEW n, n = Append(m, w)
  PROVE  /\ w[1] \in Fns \cup {Main} => ReturnAddresses(n) = Cons(w, ReturnAddresses(m))
         /\ w[1] \notin Fns \cup {Main} => ReturnAddresses(n) = ReturnAddresses(m)
<1>1. PICK k, l : k = Len(m) /\ l = k + 1
  OBVIOUS
<1>2. k \in Nat /\ l \in Nat /\ l = Len(n) /\ n[l] = w
  BY <1>1
<1>3. \A i \in 1 .. k : m[i] = n[i]
  BY <1>1
<1>4. /\ n[l][1] \in Fns \cup {Main} => ReturnAddresses(n) = Cons(n[l], ReturnAddresses(m))
      /\ n[l][1] \notin Fns \cup {Main} => ReturnAddresses(n) = ReturnAddresses(m)
  BY <1>1, <1>2, <1>3, AddressesGrown
<1> QED BY <1>2, <1>4

LEMMA AddressesTop ==
  ASSUME NEW T, NEW m \in Seq(T), Len(m) # 0, NEW n, n = SubSeq(m, 1, Len(m) - 1)
  PROVE  /\ m[Len(m)][1] \in Fns \cup {Main} => ReturnAddresses(m) = Cons(m[Len(m)], ReturnAddresses(n))
         /\ m[Len(m)][1] \notin Fns \cup {Main} => ReturnAddresses(m) = ReturnAddresses(n)
<1>1. PICK k, l : l = Len(m) /\ k = l - 1
  OBVIOUS
<1>2. k \in Nat /\ l \in Nat /\ l = k + 1 /\ k = Len(n)
  BY <1>1
<1>3. \A i \in 1 .. k : n[i] = m[i]
  BY <1>1
<1>4. /\ m[l][1] \in Fns \cup {Main} => ReturnAddresses(m) = Cons(m[l], ReturnAddresses(n))
      /\ m[l][1] \notin Fns \cup {Main} => ReturnAddresses(m) = ReturnAddresses(n)
  BY <1>1, <1>2, <1>3, AddressesGrown
<1> QED BY <1>1, <1>4

-----------------------------------------------------------------------------
\* A word is a return address or one of the others by its first part.
LEMMA WordKinds ==
  ASSUME NEW w \in Words
  PROVE  /\ w[1] \in Fns \cup {Main} <=> w \in Returns
         /\ w[1] = FrameWord(0)[1] <=> w \in SavedFrames
<1> USE DebuggerAssumption DEF Main, EndHandler, END_ADDR, EHWord, FrameWord
<1>1. "rbp" \notin Fns /\ "crt" \notin Fns /\ "do_end_handler" \notin Fns
  OBVIOUS
<1>2. \A x \in Returns : x[1] \in Fns \cup {Main}
  BY DEF Returns
<1>3. \A x \in SavedFrames : x[1] = "rbp"
  BY DEF SavedFrames
<1>4. END_ADDR[1] = "crt" /\ EHWord[1] = "do_end_handler" /\ FrameWord(0)[1] = "rbp"
  OBVIOUS
<1>5. w \in Returns \/ w \in SavedFrames \/ w = END_ADDR \/ w = EHWord
  BY DEF Words
<1> HIDE DEF END_ADDR, EHWord, FrameWord
<1>6. CASE w \in Returns
  BY <1>1, <1>2, <1>3, <1>4, <1>6
<1>7. CASE w \in SavedFrames
  BY <1>1, <1>2, <1>3, <1>4, <1>7
<1>8. CASE w = END_ADDR \/ w = EHWord
  BY <1>1, <1>2, <1>3, <1>4, <1>8
<1> QED BY <1>5, <1>6, <1>7, <1>8

\* The return addresses are found whatever is planted between them.
LEMMA UptoReturns ==
  ASSUME NEW m \in Seq(Words), NEW k \in Nat, k = Len(m), NEW u, IsUpto(u, m, k)
  PROVE  \A b \in 0 .. k : u[b] \in Seq(Returns)
<1> SUFFICES ASSUME NEW b \in 0 .. k, u[b] \notin Seq(Returns) PROVE FALSE
  OBVIOUS
<1>1. PICK S : S = {j \in 0 .. k : u[j] \notin Seq(Returns)}
  OBVIOUS
<1>2. S \in SUBSET Nat /\ b \in S
  BY <1>1
<1>3. PICK x \in S : \A j \in S : x <= j
  BY <1>2, LeastNumber
<1>4. x \in 0 .. k /\ u[x] \notin Seq(Returns)
  BY <1>1, <1>3
<1>5. u[0] \in Seq(Returns)
  BY UptoAt, NoEntry
<1>6. x \in 1 .. k /\ x - 1 \in 0 .. k /\ ~(x <= x - 1)
  BY <1>4, <1>5
<1>7. u[x - 1] \in Seq(Returns)
  BY <1>1, <1>3, <1>6
<1>8. m[x] \in Words
  BY <1>6
<1>9. CASE m[x][1] \in Fns \cup {Main}
  <2>1. PICK v, w : v = u[x - 1] /\ w = m[x]
    OBVIOUS
  <2>2. u[x] = Cons(w, v)
    BY <1>6, <1>9, <2>1, UptoAt
  <2>3. w \in Returns
    BY <1>8, <1>9, <2>1, WordKinds
  <2>4. Cons(w, v) \in Seq(Returns)
    BY <1>7, <2>1, <2>3 DEF Cons
  <2> QED BY <1>4, <2>2, <2>4
<1>10. CASE m[x][1] \notin Fns \cup {Main}
  <2>1. u[x] = u[x - 1]
    BY <1>6, <1>10, UptoAt
  <2> QED BY <1>4, <1>7, <2>1
<1> QED BY <1>9, <1>10

LEMMA UptoOf ==
  ASSUME NEW m \in Seq(Words), NEW k \in Nat, k = Len(m), NEW u, IsUpto(u, m, k), NEW i \in 1 .. k
  PROVE  /\ m[i] \in Returns => u[i] = Cons(m[i], u[i - 1])
         /\ m[i] \notin Returns => u[i] = u[i - 1]
<1>1. m[i] \in Words
  OBVIOUS
<1>2. m[i] \in Returns <=> m[i][1] \in Fns \cup {Main}
  BY <1>1, WordKinds
<1>3. /\ m[i][1] \in Fns \cup {Main} => u[i] = Cons(m[i], u[i - 1])
      /\ m[i][1] \notin Fns \cup {Main} => u[i] = u[i - 1]
  BY UptoAt
<1> QED BY <1>2, <1>3

\* One frame of the walk.
Address(m, r) == IF m[r - 1] = EHWord THEN m[r - 2] ELSE m[r - 1]

LEMMA UptoFrame ==
  ASSUME NEW m, StackShape(m), NEW k \in Nat, k = Len(m), NEW u, IsUpto(u, m, k),
         NEW r \in Frames(m)
  PROVE  /\ m[r - 1] = END_ADDR => u[r] = <<>>
         /\ m[r - 1] # END_ADDR => /\ m[r][2] \in Frames(m) /\ m[r][2] < r
                                   /\ u[r] = Cons(Address(m, r), u[m[r][2]])
<1>1. m \in Seq(Words) /\ m[1] = END_ADDR /\ m[2] = FrameWord(0) /\ k >= 2
  BY DEF StackShape
<1>2. r \in 2 .. k /\ m[r][1] = FrameWord(0)[1] /\ m[r] \in Words
  BY <1>1 DEF Frames
<1>3. m[r] \in SavedFrames
  BY <1>2, WordKinds
<1>4. u[0] = <<>>
  BY UptoAt
<1>5. \A i \in 2 .. k : m[i] \in SavedFrames => i \in Frames(m)
  <2> SUFFICES ASSUME NEW i \in 2 .. k, m[i] \in SavedFrames PROVE i \in Frames(m)
    OBVIOUS
  <2>1. m[i] \in Words
    BY <1>1
  <2>2. m[i][1] = FrameWord(0)[1]
    BY <2>1, WordKinds
  <2> QED BY <2>2 DEF Frames
<1>6. m[r] \notin Returns /\ u[r] = u[r - 1]
  <2>1. m[r] \notin Returns
    BY <1>3, Kinds
  <2>2. r \in 1 .. k
    BY <1>2
  <2> QED BY <1>1, <2>1, <2>2, UptoOf
<1>7. CASE r = 2
  <2>1. 1 \in 1 .. k /\ m[1] \notin Returns
    BY <1>1, Kinds
  <2>2. u[1] = u[0]
    <3>1. u[1] = u[1 - 1]
      BY <1>1, <2>1, UptoOf
    <3> QED BY <3>1
  <2>3. r - 1 = 1
    BY <1>7
  <2> QED BY <1>1, <1>4, <1>6, <2>2, <2>3
<1>8. CASE r # 2
  <2>1. r \in 3 .. Len(m)
    BY <1>2, <1>8
  <2>2. /\ r >= 4 /\ m[r - 1] # END_ADDR
        /\ \/ m[r - 1] \in Returns /\ m[r - 2] \in SavedFrames /\ m[r] = FrameWord(r - 2)
           \/ m[r - 1] = EHWord /\ m[r - 2] \in Returns /\ m[r - 3] \in SavedFrames
              /\ m[r] = FrameWord(r - 3) /\ r >= 5
    BY <1>3, <2>1, BelowFrame
  <2>3. \A q : FrameWord(q)[2] = q
    BY DEF FrameWord
  <2>4. CASE m[r - 1] \in Returns /\ m[r - 2] \in SavedFrames /\ m[r] = FrameWord(r - 2)
    <3>1. m[r][2] = r - 2
      BY <2>3, <2>4
    <3>2. r - 2 \in Frames(m) /\ r - 2 < r
      <4>1. r - 2 \in 2 .. k
        BY <1>2, <2>2
      <4> QED BY <1>2, <1>5, <2>4, <4>1
    <3>3. u[r - 1] = Cons(m[r - 1], u[(r - 1) - 1])
      <4>1. r - 1 \in 1 .. k
        BY <1>2, <2>2
      <4> QED BY <1>1, <2>4, <4>1, UptoOf
    <3>4. (r - 1) - 1 = r - 2 /\ m[r - 1] # EHWord
      BY <1>2, <2>4, Kinds
    <3>5. u[r] = Cons(m[r - 1], u[m[r][2]])
      BY <1>6, <3>1, <3>3, <3>4
    <3> QED BY <2>2, <3>1, <3>2, <3>4, <3>5 DEF Address
  <2>5. CASE m[r - 1] = EHWord /\ m[r - 2] \in Returns /\ m[r - 3] \in SavedFrames
             /\ m[r] = FrameWord(r - 3) /\ r >= 5
    <3>1. m[r][2] = r - 3
      BY <2>3, <2>5
    <3>2. r - 3 \in Frames(m) /\ r - 3 < r
      <4>1. r - 3 \in 2 .. k
        BY <1>2, <2>5
      <4> QED BY <1>2, <1>5, <2>5, <4>1
    <3>3. u[r - 1] = u[(r - 1) - 1]
      <4>1. r - 1 \in 1 .. k /\ m[r - 1] \notin Returns
        BY <1>2, <2>2, <2>5, Kinds
      <4> QED BY <1>1, <4>1, UptoOf
    <3>4. u[r - 2] = Cons(m[r - 2], u[(r - 2) - 1])
      <4>1. r - 2 \in 1 .. k
        BY <1>2, <2>2
      <4> QED BY <1>1, <2>5, <4>1, UptoOf
    <3>5. (r - 1) - 1 = r - 2 /\ (r - 2) - 1 = r - 3
      BY <1>2
    <3>6. u[r] = Cons(m[r - 2], u[m[r][2]])
      BY <1>6, <3>1, <3>3, <3>4, <3>5
    <3> QED BY <2>2, <2>5, <3>1, <3>2, <3>6 DEF Address
  <2> QED BY <2>2, <2>4, <2>5
<1> QED BY <1>7, <1>8

\* The function that WalkFrames is defined by.
IsWalk(f, m) ==
  f = [r \in Frames(m) |-> IF m[r - 1] = END_ADDR THEN <<>>
                           ELSE <<IF m[r - 1] = EHWord THEN m[r - 2] ELSE m[r - 1]>> \o f[m[r][2]]]

LEMMA WalkExists ==
  ASSUME NEW m, StackShape(m), NEW k \in Nat, k = Len(m), NEW u, IsUpto(u, m, k)
  PROVE  \E f : IsWalk(f, m)
<1>1. PICK f : f = [r \in Frames(m) |-> u[r]]
  OBVIOUS
<1>2. ASSUME NEW r \in Frames(m)
      PROVE  f[r] = IF m[r - 1] = END_ADDR THEN <<>>
                    ELSE Cons(Address(m, r), f[m[r][2]])
  <2>1. f[r] = u[r]
    BY <1>1
  <2>2. CASE m[r - 1] = END_ADDR
    BY <2>1, <2>2, UptoFrame
  <2>3. CASE m[r - 1] # END_ADDR
    <3>1. m[r][2] \in Frames(m)
          /\ u[r] = Cons(Address(m, r), u[m[r][2]])
      BY <2>3, UptoFrame
    <3>2. f[m[r][2]] = u[m[r][2]]
      BY <1>1, <3>1
    <3> QED BY <2>1, <2>3, <3>1, <3>2
  <2> QED BY <2>2, <2>3
<1>3. IsWalk(f, m)
  BY <1>1, <1>2 DEF IsWalk, Address, Cons
<1> QED BY <1>3

LEMMA WalkIsUpto ==
  ASSUME NEW m, StackShape(m), NEW k \in Nat, k = Len(m), NEW u, IsUpto(u, m, k),
         NEW f, IsWalk(f, m), NEW b \in Frames(m)
  PROVE  f[b] = u[b]
<1> SUFFICES ASSUME f[b] # u[b] PROVE FALSE
  OBVIOUS
<1>1. PICK S : S = {j \in Frames(m) : f[j] # u[j]}
  OBVIOUS
<1>2. S \in SUBSET Nat /\ b \in S
  BY <1>1 DEF Frames
<1>3. PICK x \in S : \A j \in S : x <= j
  BY <1>2, LeastNumber
<1>4. x \in Frames(m) /\ f[x] # u[x] /\ x \in Nat
  BY <1>1, <1>2, <1>3
<1>5. f[x] = IF m[x - 1] = END_ADDR THEN <<>>
             ELSE Cons(Address(m, x), f[m[x][2]])
  BY <1>4 DEF IsWalk, Address, Cons
<1>6. CASE m[x - 1] = END_ADDR
  BY <1>4, <1>5, <1>6, UptoFrame
<1>7. CASE m[x - 1] # END_ADDR
  <2>1. /\ m[x][2] \in Frames(m) /\ m[x][2] < x
        /\ u[x] = Cons(Address(m, x), u[m[x][2]])
    BY <1>4, <1>7, UptoFrame
  <2>2. m[x][2] \in Nat /\ ~(x <= m[x][2])
    BY <1>4, <2>1 DEF Frames
  <2>3. f[m[x][2]] = u[m[x][2]]
    BY <1>1, <1>3, <2>1, <2>2
  <2> QED BY <1>4, <1>5, <1>7, <2>1, <2>3
<1> QED BY <1>6, <1>7

LEMMA WalkFramesIsUpto ==
  ASSUME NEW m, StackShape(m), NEW k \in Nat, k = Len(m), NEW u, IsUpto(u, m, k), rbp \in Frames(m)
  PROVE  WalkFrames(m) = u[rbp]
<1>0. \E f : IsWalk(f, m)
  BY WalkExists
<1>1. PICK f : f = CHOOSE v : IsWalk(v, m)
  OBVIOUS
<1>2. IsWalk(f, m)
  BY <1>0, <1>1
<1>3. WalkFrames(m) = f[rbp]
  BY <1>1 DEF WalkFrames, IsWalk
<1> QED BY <1>2, <1>3, WalkIsUpto

-----------------------------------------------------------------------------
\* The return addresses on a stack in shape.
LEMMA ChainType ==
  ASSUME NEW m, StackShape(m)
  PROVE  ReturnAddresses(m) \in Seq(Returns)
<1>1. PICK k : k = Len(m)
  OBVIOUS
<1>2. m \in Seq(Words) /\ k \in Nat /\ k \in 0 .. k
  BY <1>1 DEF StackShape
<1>3. PICK u : IsUpto(u, m, k) /\ ReturnAddresses(m) = u[k]
  BY <1>1, <1>2, Chosen
<1>4. \A b \in 0 .. k : u[b] \in Seq(Returns)
  BY <1>1, <1>2, <1>3, UptoReturns
<1> QED BY <1>2, <1>3, <1>4

LEMMA ChainPush ==
  ASSUME NEW m, StackShape(m), NEW w \in Words, NEW n, n = Append(m, w)
  PROVE  /\ w \in Returns => ReturnAddresses(n) = Cons(w, ReturnAddresses(m))
         /\ w \notin Returns => ReturnAddresses(n) = ReturnAddresses(m)
<1>1. m \in Seq(Words)
  BY DEF StackShape
<1>2. w \in Returns <=> w[1] \in Fns \cup {Main}
  BY WordKinds
<1>3. /\ w[1] \in Fns \cup {Main} => ReturnAddresses(n) = Cons(w, ReturnAddresses(m))
      /\ w[1] \notin Fns \cup {Main} => ReturnAddresses(n) = ReturnAddresses(m)
  BY <1>1, AddressesPushed
<1> QED BY <1>2, <1>3

LEMMA ChainPop ==
  ASSUME NEW m, StackShape(m), NEW k \in Nat, k = Len(m), NEW j \in Nat, k = j + 2,
         NEW n, j = Len(n), \A i \in 1 .. j : n[i] = m[i], m[k] \notin Returns
  PROVE  /\ m[j + 1] \in Returns => ReturnAddresses(m) = Cons(m[j + 1], ReturnAddresses(n))
         /\ m[j + 1] \notin Returns => ReturnAddresses(m) = ReturnAddresses(n)
<1>1. m \in Seq(Words)
  BY DEF StackShape
<1>2. PICK u : IsUpto(u, m, k) /\ ReturnAddresses(m) = u[k]
  BY Chosen
<1>3. PICK v : IsUpto(v, n, j) /\ ReturnAddresses(n) = v[j]
  BY Chosen
<1>4. v[j] = u[j]
  <2>1. j <= j /\ j <= k
    OBVIOUS
  <2> QED BY <1>2, <1>3, <2>1, UptoSame
<1>5. PICK i : i = j + 1
  OBVIOUS
<1>6. i \in 1 .. k /\ k \in 1 .. k /\ k - 1 = i /\ i - 1 = j
  BY <1>5
<1>7. u[k] = u[k - 1]
  BY <1>1, <1>2, <1>6, UptoOf
<1>8. /\ m[i] \in Returns => u[i] = Cons(m[i], u[i - 1])
      /\ m[i] \notin Returns => u[i] = u[i - 1]
  BY <1>1, <1>2, <1>6, UptoOf
<1> QED BY <1>2, <1>3, <1>4, <1>5, <1>6, <1>7, <1>8

\* Where a function has just been called, the chain is the return address on
\* top and what the walk from the frame pointer finds.
LEMMA ChainWalk ==
  ASSUME NEW m, StackShape(m), NEW k, k = Len(m), m[k] \in Returns, rbp = k - 1
  PROVE  /\ ReturnAddresses(m) = Cons(m[k], WalkFrames(m))
         /\ WalkFrames(m) \in Seq(Returns)
<1>1. m \in Seq(Words) /\ k \in Nat /\ k >= 2 /\ m[2] = FrameWord(0)
  BY DEF StackShape
<1>2. k # 2
  BY <1>1, Kinds
<1>3. k \in 3 .. Len(m) /\ k \in 1 .. k /\ rbp \in 2 .. Len(m) /\ rbp \in 0 .. k
  BY <1>1, <1>2
<1>4. Follows(m, k)
  BY <1>3 DEF StackShape
<1>5. m[rbp] \in SavedFrames
  BY <1>4, Kinds DEF Follows
<1>6. rbp \in Frames(m)
  <2>1. m[rbp] \in Words
    BY <1>1, <1>3
  <2>2. m[rbp][1] = FrameWord(0)[1]
    BY <1>5, <2>1, WordKinds
  <2> QED BY <1>3, <2>2 DEF Frames
<1>7. PICK u : IsUpto(u, m, k) /\ ReturnAddresses(m) = u[k]
  BY <1>1, Chosen
<1>8. WalkFrames(m) = u[rbp]
  BY <1>1, <1>6, <1>7, WalkFramesIsUpto
<1>9. u[k] = Cons(m[k], u[k - 1])
  BY <1>1, <1>3, <1>7, UptoOf
<1>10. \A b \in 0 .. k : u[b] \in Seq(Returns)
  BY <1>1, <1>7, UptoReturns
<1> QED BY <1>3, <1>7, <1>8, <1>9, <1>10

\* At a stop the backtrace is that of the debuggee's stack.
BackInv ==
  (ChildLives /\ state["dbe"] = WAITING /\ pc[2] = 0) =>
     dbg.backtrace = IF pc[1] = EndHandler THEN Chain ELSE Cons(<<pc[1], 0>>, Chain)

LEMMA TwoAhead ==
  ASSUME NEW S, NEW x \in S, NEW y \in S, NEW z \in Seq(S)
  PROVE  <<x, y>> \o z = Cons(x, Cons(y, z))
<1>1. PICK a, b, c : a = <<x>> /\ b = <<y>> /\ c = a \o b
  OBVIOUS
<1>2. a \in Seq(S) /\ b \in Seq(S)
  BY <1>1
<1>3. c = <<x, y>>
  <2>1. PICK d : d = <<x, y>>
    OBVIOUS
  <2>2. Len(a) = 1 /\ Len(b) = 1 /\ a[1] = x /\ b[1] = y
    BY <1>1
  <2>3. d \in Seq(S) /\ Len(d) = 2 /\ d[1] = x /\ d[2] = y
    BY <2>1
  <2>4. c \in Seq(S) /\ Len(c) = 2
    BY <1>1, <1>2, <2>2
  <2>5. c[1] = a[1] /\ c[2] = b[1]
    BY <1>1, <1>2, <2>2
  <2>6. \A i \in 1 .. 2 : i = 1 \/ i = 2
    OBVIOUS
  <2>7. \A i \in 1 .. Len(c) : c[i] = d[i]
    BY <2>2, <2>3, <2>4, <2>5, <2>6
  <2>8. c = d
    BY <2>3, <2>4, <2>7, SeqEqual
  <2> QED BY <2>1, <2>8
<1>4. (a \o b) \o z = a \o (b \o z)
  BY <1>2, ConcatAssociative
<1>5. Cons(x, Cons(y, z)) = a \o (b \o z)
  BY <1>1 DEF Cons
<1> QED BY <1>1, <1>3, <1>4, <1>5

LEMMA StopBack ==
  ASSUME PlaceInv, Rest, DueInv, StopAtEnd \/ StopAtEntry, ~Undefined
  PROVE  BackInv'
<1>1. Trap /\ pc[2] = 0 /\ mem[Len(mem)] \in Returns /\ rbp = Len(mem) - 1 /\ StackShape(mem)
  BY AtTrap DEF StopAtEnd, StopAtEntry, PlaceInv
<1>2. PICK top, W : top = mem[Len(mem)] /\ W = WalkFrames(mem)
  OBVIOUS
<1>3. Chain = Cons(top, W) /\ W \in Seq(Returns)
  BY <1>1, <1>2, ChainWalk DEF Chain
<1>4. CASE StopAtEnd
  <2>1. Reached /\ Len(mem) + 1 \in Due
    <3>1. pc[1] = EndHandler /\ text[EndHandler] = <<INT3, INSN>>
      BY <1>4, AtTrap DEF StopAtEnd, Armed
    <3>2. pc = <<EndHandler, 0>> /\ current = "dbe"
      BY <1>1, <3>1, PlaceFacts DEF Trap, Dbe
    <3> QED BY <3>1, <3>2 DEF Reached, Due
  <2>2. \E e \in DOMAIN dbg.stack : dbg.stack[e].ret = mem[Len(mem)]
    <3>1. (Len(mem) + 1) - 1 = Len(mem)
      BY PlaceFacts
    <3> QED BY <2>1, <3>1 DEF DueInv, Record
  <2>3. Recorded /\ UNCHANGED mem /\ pc[1] = EndHandler
        /\ dbg'.backtrace = <<mem[Len(mem)]>> \o WalkFrames(mem)
    BY <1>4, <2>2, EndData
  <2>4. dbg'.backtrace = Chain
    BY <1>2, <1>3, <2>3 DEF Cons
  <2> QED BY <2>3, <2>4 DEF BackInv, Recorded, Chain
<1>5. CASE StopAtEntry
  <2>1. PICK f \in Pos(pc[1]) :
           /\ Recorded
           /\ dbg'.backtrace = <<<<pc[1], 0>>, mem[Len(mem)]>> \o WalkFrames(mem)
           /\ mem' = IF dbg.head[f].end_enable = 1 THEN Append(mem, EHWord) ELSE mem
    BY <1>5, EntryData
  <2>2. pc[1] # EndHandler
    <3>1. Listed(pc[1])
      BY <2>1 DEF Listed
    <3> QED BY <3>1, ListedFns, Kinds DEF Rest
  <2>3. Chain' = Chain
    <3>1. PICK n : n = Append(mem, EHWord)
      OBVIOUS
    <3>2. EHWord \in Words /\ EHWord \notin Returns
      BY Kinds DEF Words
    <3>3. ReturnAddresses(n) = ReturnAddresses(mem)
      BY <1>1, <3>1, <3>2, ChainPush
    <3>4. mem' = n \/ mem' = mem
      BY <2>1, <3>1
    <3>5. Chain' = ReturnAddresses(mem')
      BY DEF Chain, ReturnAddresses
    <3>6. ReturnAddresses(mem') = ReturnAddresses(mem)
      BY <3>3, <3>4
    <3> QED BY <3>5, <3>6 DEF Chain
  <2>4. PICK a : a = <<pc[1], 0>>
    OBVIOUS
  <2>5. <<a, top>> \o W = Cons(a, Cons(top, W))
    <3>2. PICK S : S = Returns \cup {a, top}
      OBVIOUS
    <3>3. a \in S /\ top \in S /\ W \in Seq(S)
      BY <1>3, <3>2
    <3> QED BY <3>3, TwoAhead
  <2>6. dbg'.backtrace = Cons(a, Chain)
    BY <1>2, <1>3, <2>1, <2>4, <2>5
  <2> QED BY <2>1, <2>2, <2>3, <2>4, <2>6 DEF BackInv, Recorded
<1> QED BY <1>4, <1>5

\* Where nothing at a stop changes.
LEMMA SameBack ==
  ASSUME BackInv, SameRecord
  PROVE  BackInv'
<1>1. Chain' = Chain
  BY DEF SameRecord, debuggee, Chain, ReturnAddresses
<1> QED BY <1>1 DEF BackInv, SameRecord, debuggee, ChildLives

\* Where no debuggee waits.
LEMMA NoBack ==
  ASSUME state'["dbe"] # WAITING \/ pc'[2] # 0
  PROVE  BackInv'
  BY DEF BackInv

LEMMA BackDebuggee ==
  ASSUME CareInv, BackInv, DebuggeeStep
  PROVE  BackInv'
<1>1. PlaceInv /\ Rest /\ DueInv
  BY DEF CareInv, Rest
<1>2. Dbe
  BY DEF DebuggeeStep, push_rbp, mov_rbp, ret, call, StopAtEntry, StopAtEnd, Resume, Trap, debuggee_exit
<1>3. state["dbe"] \in Runnable
  BY <1>1, <1>2, WhenDebuggeeRuns DEF Rest
<1>4. READY # WAITING /\ RUNNING # WAITING /\ Runnable = {READY, RUNNING}
  BY DEF READY, RUNNING, WAITING, Runnable
<1>7. ASSUME push_rbp \/ mov_rbp \/ ret \/ \E g \in Fns, s \in Sites : call(g, s) PROVE BackInv'
  <2>1. state' = state
    BY <1>7 DEF push_rbp, mov_rbp, ret, call
  <2> QED BY <1>3, <1>4, <2>1, NoBack
<1>8. ASSUME StopAtEnd \/ StopAtEntry, ~Undefined PROVE BackInv'
  BY <1>1, <1>8, StopBack
<1>9. ASSUME Undefined PROVE BackInv'
  BY <1>3, <1>4, <1>9, NoBack DEF Undefined
<1>10. ASSUME Resume PROVE BackInv'
  <2>1. ~Undefined
    BY <1>1, <1>10, ResumeRest
  <2>2. pc[2] = 1 /\ pc' = pc
    BY <1>10, <2>1 DEF Resume, debuggee
  <2> QED BY <2>2, NoBack
<1>11. ASSUME debuggee_exit PROVE BackInv'
  <2>1. pc[2] = 2 /\ pc' = pc
    BY <1>11 DEF debuggee_exit, debuggee
  <2> QED BY <2>1, NoBack
<1> QED BY <1>7, <1>8, <1>9, <1>10, <1>11 DEF DebuggeeStep

LEMMA BackTick ==
  ASSUME CareInv, BackInv, handle_timer_tick
  PROVE  BackInv'
<1>1. UNCHANGED <<dbg, text, debuggee>>
  BY DEF handle_timer_tick
<1>3. READY # WAITING /\ RUNNING # WAITING
  BY DEF READY, RUNNING, WAITING
<1>4. state["dbe"] # WAITING => state'["dbe"] # WAITING
  <2>1. DOMAIN state = {"dbg", "dbe"}
    BY DEF CareInv, StageInv
  <2> QED BY <1>3, <2>1 DEF handle_timer_tick
<1>5. ASSUME state["dbe"] # WAITING PROVE BackInv'
  BY <1>4, <1>5, NoBack
<1>6. ASSUME state["dbe"] = WAITING /\ ChildLives PROVE BackInv'
  <2>1. Chain' = Chain
    BY <1>1 DEF debuggee, Chain, ReturnAddresses
  <2> QED BY <1>1, <1>6, <2>1 DEF BackInv, debuggee
<1>7. state["dbe"] = WAITING => ChildLives
  BY DEF ChildLives, WAITING, UNUSED
<1> QED BY <1>5, <1>6, <1>7

LEMMA BackCall ==
  ASSUME CareInv, BackInv, Careful
  PROVE  BackInv'
<1>1. PlaceInv /\ Rest /\ DueInv
  BY DEF CareInv, Rest
<1>3. UNUSED # WAITING /\ RUNNING # WAITING
  BY DEF UNUSED, RUNNING, WAITING
<1>5. CASE ~dbg.alive /\ do_become_debugger(TRUE)
  <2>1. ~ChildLives
    BY <1>1, <1>5 DEF Rest, StageInv
  <2>2. state' = state
    BY <1>5 DEF do_become_debugger, Return
  <2> QED BY <1>3, <2>1, <2>2, NoBack DEF ChildLives
<1>6. CASE dbg.alive /\ do_fork
  <2>1. ~ChildLives /\ pc' = pc
    BY <1>6 DEF do_fork, ChildLives, debuggee
  <2>2. pc = <<Main, 2>>
    BY <1>1, <2>1 DEF Rest, StageInv
  <2>3. pc'[2] # 0
    BY <2>1, <2>2
  <2> QED BY <2>3, NoBack
<1>7. ASSUME NEW f \in Fns, NEW flag \in 0 .. 1,
         \A i \in Pos(f) : LET raise == dbg.head[i].end_enable = 0 /\ flag = 1
                           IN /\ Stopped(f) => raise
                              /\ raise /\ OnStack(f) => Stopped(f),
         ~Listed(f) => Len(dbg.head) < MAX_BREAKPOINTS,
         do_set_breakpoint(f, flag, TRUE)
      PROVE  BackInv'
  <2>1. SameRecord
    BY <1>1, <1>7, SetRest
  <2> QED BY <2>1, SameBack
<1>8. ASSUME NEW f \in Fns, dbg.head # <<>>, ~Stopped(f), do_remove_breakpoint(f)
      PROVE  BackInv'
  <2>1. SameRecord
    BY <1>1, <1>8, RemoveRest
  <2> QED BY <2>1, SameBack
<1>9. CASE do_info_breakpoints \/ do_info_registers \/ do_backtrace
  <2>1. UNCHANGED <<state, current, dbg, text, debuggee>>
    BY <1>9 DEF do_info_breakpoints, do_info_registers, do_backtrace, Return, Undefined
  <2> QED BY <2>1, SameBack DEF SameRecord
<1>10. CASE ChildLives /\ do_wait_and_continue
  <2>1. dbg.forked
    BY <1>1, <1>10 DEF Rest, StageInv
  <2>2. state' = [state EXCEPT !["dbg"] = WAITING, !["dbe"] = RUNNING]
    BY <1>10, <2>1 DEF do_wait_and_continue, Switch, ChildLives
  <2>3. state'["dbe"] = RUNNING
    BY <1>1, <2>2 DEF Rest, StageInv
  <2> QED BY <1>3, <2>3, NoBack
<1>11. CASE dbg.forked /\ ~ChildLives /\ debugger_exit
  <2>1. state' = [state EXCEPT !["dbg"] = UNUSED] /\ state["dbe"] = UNUSED
    BY <1>11 DEF debugger_exit, ChildLives
  <2>2. state'["dbe"] = UNUSED
    BY <1>1, <2>1 DEF Rest, StageInv
  <2> QED BY <1>3, <2>2, NoBack
<1> QED BY <1>5, <1>6, <1>7, <1>8, <1>9, <1>10, <1>11 DEF Careful

LEMMA BackInit == Init => BackInv
<1> SUFFICES ASSUME Init PROVE BackInv
  OBVIOUS
<1>1. pc[2] # 0
  BY DEF Init
<1> QED BY <1>1 DEF BackInv

LEMMA BackStep ==
  CareInv /\ BackInv /\ [Careful \/ DebuggeeStep \/ handle_timer_tick]_vars => BackInv'
<1> SUFFICES ASSUME CareInv, BackInv, [Careful \/ DebuggeeStep \/ handle_timer_tick]_vars
             PROVE  BackInv'
  OBVIOUS
<1>1. CASE UNCHANGED vars
  BY <1>1, SameBack DEF vars, SameRecord, debuggee
<1> QED BY <1>1, BackCall, BackDebuggee, BackTick

\* At a stop the backtrace is the debuggee's chain of return addresses, with
\* the function's own address before it at an entry, and without the planted
\* ones: the walk of int3_handler over the saved frame pointers is exact, for
\* any length of backtrace[], until a chain is longer than it.
THEOREM BacktraceIsExact == CarefulSpec => []BacktraceExact
<1>1. CareInv /\ BackInv => BacktraceExact
  <2> SUFFICES ASSUME CareInv, BackInv, ChildLives, state["dbe"] = WAITING, calls > 0, ~undef
               PROVE  IF pc[1] = EndHandler THEN dbg.backtrace = Chain
                      ELSE dbg.backtrace = <<<<pc[1], 0>>>> \o Chain
    BY DEF BacktraceExact
  <2>2. current = "dbg"
    BY DEF CareInv, StageInv, ControlInv, Runnable, READY, RUNNING, WAITING
  <2>3. pc[2] = 0
    BY <2>2, DebuggerAssumption DEF CareInv, StageInv
  <2> QED BY <2>3 DEF BackInv, Cons
<1> QED BY <1>1, CareHolds, BackInit, BackStep, PTL DEF CarefulSpec

-----------------------------------------------------------------------------
\* The function that executes for the program, and those it returns to.
Running == IF pc[1] = EndHandler THEN Chain[1][1] ELSE pc[1]
Suspended == IF pc[1] = EndHandler THEN Tail(Chain) ELSE Chain

LEMMA ConsParts ==
  ASSUME NEW S, NEW x \in S, NEW z \in Seq(S)
  PROVE  Cons(x, z) # <<>> /\ Cons(x, z)[1] = x /\ Tail(Cons(x, z)) = z
<1>1. PICK a, c : a = <<x>> /\ c = a \o z
  OBVIOUS
<1>2. a \in Seq(S) /\ Len(a) = 1 /\ a[1] = x
  BY <1>1
<1>3. c \in Seq(S) /\ Len(c) = 1 + Len(z)
  BY <1>1, <1>2
<1>4. c[1] = x
  BY <1>1, <1>2
<1>5. c # <<>>
  BY <1>3, NoEntry
<1>6. PICK t : t = Tail(c)
  OBVIOUS
<1>7. t \in Seq(S) /\ Len(t) = Len(z)
  BY <1>3, <1>5, <1>6
<1>8. ASSUME NEW i \in 1 .. Len(z) PROVE t[i] = z[i]
  <2>1. t[i] = c[i + 1]
    BY <1>3, <1>5, <1>6, <1>7
  <2>2. c[i + 1] = z[i]
    BY <1>1, <1>2
  <2> QED BY <2>1, <2>2
<1>9. t = z
  BY <1>7, <1>8, SeqEqual
<1>10. Cons(x, z) = c
  BY <1>1 DEF Cons
<1> QED BY <1>4, <1>5, <1>6, <1>9, <1>10

LEMMA ChainTop ==
  ASSUME NEW m, StackShape(m), m[Len(m)] \in Returns
  PROVE  \E z \in Seq(Returns) : ReturnAddresses(m) = Cons(m[Len(m)], z)
<1>1. PICK k : k = Len(m)
  OBVIOUS
<1>2. m \in Seq(Words) /\ k \in Nat /\ k \in 1 .. k /\ k - 1 \in 0 .. k
  BY <1>1 DEF StackShape
<1>3. PICK u : IsUpto(u, m, k) /\ ReturnAddresses(m) = u[k]
  BY <1>1, <1>2, Chosen
<1>4. u[k] = Cons(m[k], u[k - 1])
  BY <1>1, <1>2, <1>3, UptoOf
<1>5. u[k - 1] \in Seq(Returns)
  BY <1>1, <1>2, <1>3, UptoReturns
<1> QED BY <1>1, <1>3, <1>4, <1>5

\* Steps the program does not see.
LEMMA Unseen ==
  ASSUME pc'[1] = pc[1], mem' = mem \/ Chain' = Chain
  PROVE  UNCHANGED <<Running, Suspended>>
<1>1. Chain' = Chain
  BY DEF Chain, ReturnAddresses
<1> QED BY <1>1 DEF Running, Suspended

LEMMA SeenCall ==
  ASSUME PlaceInv, NEW g \in Fns, NEW s \in Sites, call(g, s)
  PROVE  Program!Call(g, s)
<1>1. PICK w, m : w = <<pc[1], s>> /\ m = Append(mem, w)
  OBVIOUS
<1>2. pc[1] # EndHandler /\ mem' = m /\ pc' = <<g, 0>> /\ g # EndHandler
  BY <1>1, Kinds DEF call
<1>3. w \in Returns /\ w \in Words
  BY <1>1, <1>2, PlaceFacts DEF Returns, Words, Addr
<1>4. ReturnAddresses(m) = Cons(w, ReturnAddresses(mem))
  BY <1>1, <1>3, PlaceFacts, ChainPush
<1>5. Chain' = Cons(w, Chain)
  <2>1. Chain' = ReturnAddresses(m)
    BY <1>2 DEF Chain, ReturnAddresses
  <2> QED BY <1>4, <2>1 DEF Chain
<1>6. pc'[1] = g
  BY <1>2
<1> QED BY <1>1, <1>2, <1>5, <1>6 DEF Program!Call, Cons

LEMMA SeenReturn ==
  ASSUME PlaceInv, ret
  PROVE  Program!Return \/ UNCHANGED <<Running, Suspended>>
<1>1. rbp = Len(mem) /\ rbp >= 4 /\ (Unplanted \/ PlantedHere) /\ rbp \in Nat
  BY RetCases, PlaceFacts
<1>2. /\ PlaceInv' /\ Len(mem') = Len(mem) - 2 /\ \A i \in 1 .. Len(mem) - 2 : mem'[i] = mem[i]
      /\ Unplanted => pc' = <<mem[rbp - 1][1], 2>>
      /\ PlantedHere => pc' = <<EndHandler, 0>>
  BY RetPlace
<1>3. PICK k, j, n : k = Len(mem) /\ j = k - 2 /\ n = mem'
  OBVIOUS
<1>4. k \in Nat /\ j \in Nat /\ k = j + 2 /\ j = Len(n) /\ \A i \in 1 .. j : n[i] = mem[i]
  BY <1>1, <1>2, <1>3
<1>5. mem[k] \notin Returns
  BY <1>1, <1>3, Kinds DEF Unplanted, PlantedHere
<1>6. /\ mem[j + 1] \in Returns => ReturnAddresses(mem) = Cons(mem[j + 1], ReturnAddresses(n))
      /\ mem[j + 1] \notin Returns => ReturnAddresses(mem) = ReturnAddresses(n)
  BY <1>3, <1>4, <1>5, PlaceFacts, ChainPop
<1>7. j + 1 = rbp - 1 /\ j = rbp - 2 /\ Len(n) = rbp - 2
  BY <1>1, <1>3, <1>4
<1>8. Chain' = ReturnAddresses(n) /\ Chain = ReturnAddresses(mem)
  BY <1>3 DEF Chain, ReturnAddresses
<1>9. CASE Unplanted
  <2>1. PICK w : w = mem[rbp - 1]
    OBVIOUS
  <2>2. w \in Returns /\ w[1] \in Fns \cup {Main} /\ w[1] # EndHandler
    BY <1>9, <2>1, Kinds DEF Unplanted, Returns
  <2>3. Chain = Cons(w, Chain')
    BY <1>6, <1>7, <1>8, <2>1, <2>2
  <2>4. Chain' \in Seq(Returns)
    <3>1. StackShape(n)
      BY <1>2, <1>3 DEF PlaceInv, StackShape, Follows
    <3> QED BY <1>8, <3>1, ChainType
  <2>5. Chain # <<>> /\ Chain[1] = w /\ Tail(Chain) = Chain'
    BY <2>2, <2>3, <2>4, ConsParts
  <2>6. pc'[1] = w[1]
    BY <1>2, <1>9, <2>1
  <2>7. CASE pc[1] = EndHandler
    <3>1. UNCHANGED <<Running, Suspended>>
      BY <2>2, <2>5, <2>6, <2>7 DEF Running, Suspended
    <3> QED BY <3>1
  <2>8. CASE pc[1] # EndHandler
    BY <2>2, <2>5, <2>6, <2>8 DEF Program!Return
  <2> QED BY <2>7, <2>8
<1>10. CASE PlantedHere
  <2>1. mem[rbp - 1] \notin Returns /\ pc[1] # EndHandler /\ pc'[1] = EndHandler
    BY <1>2, <1>10, Kinds DEF PlantedHere
  <2>2. Chain' = Chain
    BY <1>6, <1>7, <1>8, <2>1
  <2>3. Chain # <<>>
    <3>1. StackShape(n)
      BY <1>2, <1>3 DEF PlaceInv, StackShape, Follows
    <3>2. n[Len(n)] \in Returns
      <4>1. n[j] = mem[j]
        BY <1>1, <1>4, <1>7
      <4> QED BY <1>4, <1>7, <1>10, <4>1 DEF PlantedHere
    <3>3. PICK z \in Seq(Returns) : ReturnAddresses(n) = Cons(n[Len(n)], z)
      BY <3>1, <3>2, ChainTop
    <3>4. PICK w : w = n[Len(n)]
      OBVIOUS
    <3>5. Cons(w, z) # <<>>
      BY <3>2, <3>4, ConsParts
    <3> QED BY <1>8, <2>2, <3>3, <3>4, <3>5
  <2> QED BY <2>1, <2>2, <2>3 DEF Program!Return
<1> QED BY <1>1, <1>9, <1>10

LEMMA SeenStop ==
  ASSUME PlaceInv, Rest, StopAtEntry \/ StopAtEnd
  PROVE  UNCHANGED <<Running, Suspended>>
<1>1. CASE StopAtEnd \/ Undefined
  <2>1. pc' = pc /\ mem' = mem
    BY <1>1 DEF StopAtEnd, Undefined, debuggee
  <2> QED BY <2>1, Unseen
<1>2. CASE StopAtEntry /\ ~Undefined
  <2>1. pc' = pc
    BY <1>2 DEF StopAtEntry
  <2>2. PICK n : n = Append(mem, EHWord)
    OBVIOUS
  <2>3. mem' = n \/ mem' = mem
    BY <1>2, <2>2 DEF StopAtEntry
  <2>4. EHWord \in Words /\ EHWord \notin Returns
    BY Kinds DEF Words
  <2>5. ReturnAddresses(n) = ReturnAddresses(mem)
    BY <2>2, <2>4, PlaceFacts, ChainPush
  <2>6. Chain' = ReturnAddresses(mem')
    BY DEF Chain, ReturnAddresses
  <2>7. Chain' = Chain
    BY <2>3, <2>5, <2>6 DEF Chain
  <2> QED BY <2>1, <2>7, Unseen
<1> QED BY <1>1, <1>2

LEMMA SeenDebuggee ==
  ASSUME CareInv, DebuggeeStep
  PROVE  Program!Next \/ UNCHANGED <<Running, Suspended>>
<1>1. PlaceInv /\ Rest
  BY DEF CareInv, Rest
<1>2. CASE push_rbp
  <2>1. PICK w, m : w = FrameWord(rbp) /\ m = Append(mem, w)
    OBVIOUS
  <2>2. mem' = m /\ pc'[1] = pc[1]
    BY <1>2, <2>1 DEF push_rbp
  <2>3. w \in Words /\ w \notin Returns
    BY <1>1, <2>1, PlaceFacts, Kinds DEF Words
  <2>4. ReturnAddresses(m) = ReturnAddresses(mem)
    BY <1>1, <2>1, <2>3, PlaceFacts, ChainPush
  <2>5. Chain' = ReturnAddresses(m)
    BY <2>2 DEF Chain, ReturnAddresses
  <2>6. Chain' = Chain
    BY <2>4, <2>5 DEF Chain
  <2> QED BY <2>2, <2>6, Unseen
<1>3. CASE mov_rbp
  <2>1. mem' = mem /\ pc'[1] = pc[1]
    BY <1>3 DEF mov_rbp
  <2> QED BY <2>1, Unseen
<1>4. CASE ret
  BY <1>1, <1>4, SeenReturn DEF Program!Next
<1>5. ASSUME NEW g \in Fns, NEW s \in Sites, call(g, s) PROVE Program!Next
  BY <1>1, <1>5, SeenCall DEF Program!Next
<1>6. CASE StopAtEntry \/ StopAtEnd
  BY <1>1, <1>6, SeenStop
<1>7. CASE Resume \/ debuggee_exit
  <2>1. mem' = mem /\ pc' = pc
    BY <1>7 DEF Resume, debuggee_exit, Undefined, debuggee
  <2> QED BY <2>1, Unseen
<1> QED BY <1>2, <1>3, <1>4, <1>5, <1>6, <1>7 DEF DebuggeeStep

LEMMA SeenStep ==
  CareInv /\ [Careful \/ DebuggeeStep \/ handle_timer_tick]_vars
     => [Program!Next]_<<Running, Suspended>>
<1> SUFFICES ASSUME CareInv, [Careful \/ DebuggeeStep \/ handle_timer_tick]_vars
             PROVE  Program!Next \/ UNCHANGED <<Running, Suspended>>
  OBVIOUS
<1>1. CASE Careful \/ handle_timer_tick \/ UNCHANGED vars
  <2>1. ASSUME NEW f, NEW flag, do_set_breakpoint(f, flag, TRUE) PROVE mem' = mem /\ pc' = pc
    BY <2>1 DEF do_set_breakpoint, Return, debuggee
  <2>2. ASSUME NEW f, do_remove_breakpoint(f) PROVE mem' = mem /\ pc' = pc
    BY <2>2 DEF do_remove_breakpoint, Return, Undefined, debuggee
  <2>3. CASE handle_timer_tick \/ UNCHANGED vars
    <3>1. mem' = mem /\ pc' = pc
      BY <2>3 DEF handle_timer_tick, vars, debuggee
    <3> QED BY <3>1, Unseen
  <2>4. do_become_debugger(TRUE) \/ do_fork => mem' = mem /\ pc' = pc
    BY DEF do_become_debugger, do_fork, Return, Undefined, debuggee
  <2>5. do_info_breakpoints \/ do_info_registers \/ do_backtrace => mem' = mem /\ pc' = pc
    BY DEF do_info_breakpoints, do_info_registers, do_backtrace, Return, Undefined, debuggee
  <2>6. do_wait_and_continue \/ debugger_exit => mem' = mem /\ pc' = pc
    BY DEF do_wait_and_continue, debugger_exit, Undefined, debuggee
  <2>7. Careful => mem' = mem /\ pc' = pc
    BY <2>1, <2>2, <2>4, <2>5, <2>6 DEF Careful
  <2> QED BY <1>1, <2>3, <2>7, Unseen
<1>2. CASE DebuggeeStep
  BY <1>2, SeenDebuggee
<1> QED BY <1>1, <1>2

LEMMA SeenInit == Init => Program!Init
<1> SUFFICES ASSUME Init PROVE Program!Init
  OBVIOUS
<1>1. pc[1] = Main /\ Main # EndHandler
  BY Kinds DEF Init
<1>2. PICK m : m = mem
  OBVIOUS
<1>3. m \in Seq(Words) /\ Len(m) = 2 /\ m[1] = END_ADDR /\ m[2] = FrameWord(0)
  <2>1. FrameWord(0) \in Words /\ END_ADDR \in Words
    BY Kinds DEF Words
  <2> QED BY <1>2, <2>1 DEF Init
<1>4. PICK k : k = Len(m)
  OBVIOUS
<1>5. k = 2 /\ k \in Nat
  BY <1>3, <1>4
<1>6. PICK u : IsUpto(u, m, k) /\ ReturnAddresses(m) = u[k]
  BY <1>4, <1>5, Chosen
<1>7. m[1] \notin Returns /\ m[2] \notin Returns /\ 1 \in 1 .. k /\ 2 \in 1 .. k
  BY <1>3, <1>5, Kinds
<1>8. u[1] = u[1 - 1] /\ u[2] = u[2 - 1]
  BY <1>3, <1>4, <1>5, <1>6, <1>7, UptoOf
<1>9. u[0] = <<>>
  BY <1>5, <1>6, UptoAt
<1>10. Chain = <<>>
  BY <1>2, <1>5, <1>6, <1>8, <1>9 DEF Chain
<1> QED BY <1>1, <1>10 DEF Program!Init

\* Careful debugging does not change what the program does: whatever is set,
\* removed and planted on its stack, every step of the debuggee, the debugger, the
\* handlers and the timer is a call or a return of the program alone, or none
\* of its business (int3_handler, do_set_breakpoint, do_remove_breakpoint).
THEOREM DebuggingIsTransparent == CarefulSpec => Transparent
<1>1. CareInv /\ [Careful \/ DebuggeeStep \/ handle_timer_tick]_vars
        => [Program!Next]_<<IF pc[1] = EndHandler THEN Chain[1][1] ELSE pc[1],
                            IF pc[1] = EndHandler THEN Tail(Chain) ELSE Chain>>
  BY SeenStep DEF Running, Suspended
<1> QED BY <1>1, SeenInit, CareHolds, PTL DEF CarefulSpec, Transparent, Program!Spec
=============================================================================
