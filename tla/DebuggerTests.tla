--------------------------- MODULE DebuggerTests ---------------------------
(***************************************************************************)
(* The test programs of Assignment-3/Assignment-3-Test_cases run on the    *)
(* model: for each, the calls its child makes, the calls its parent makes  *)
(* and the results that its .output file lets one see.  The debugger's     *)
(* calls become_debugger and fork at the start, the same in every test,    *)
(* are added by Script; the addresses printed are left out.                 *)
(***************************************************************************)
EXTENDS Debugger

CONSTANT TestSet            \* the tests to run

VARIABLES test,   \* the test program
          step,   \* the next call of its parent
          child   \* the calls and returns its child has still to make

tvars == <<vars, test, step, child>>

F1 == "fn_1"  F2 == "fn_2"  F3 == "fn_3"

\* What the child does: call a function from a call site, or return.
C(f, s) == <<f, s>>
R == <<"return", 0>>
Leaf(f, s) == <<C(f, s), R>>
Nest(f, s, inner) == <<C(f, s)>> \o inner \o <<R>>
\* fn_1 called from main, then twice by itself, and back.
Recursion == Nest(F1, 1, Nest(F1, 1, Leaf(F1, 1)))

\* What the parent calls and what it is to get.
Do(op, f, flag, expect) == [op |-> op, f |-> f, flag |-> flag, expect |-> expect]
Set(f, flag)    == Do("set", f, flag, 0)
SetFails(f, flag) == Do("set", f, flag, -1)
Removes(f)      == Do("remove", f, 0, 0)
RemoveFails(f)  == Do("remove", f, 0, -1)
Stop(f)         == Do("wait", "", 0, f)
Ends            == Stop(EndHandler)
Exits           == Stop("CHILD_EXIT")
WaitFails       == Stop("-1")
\* A wait after the child's exit, whose result is not printed: its effect is not
\* defined.
WaitsAgain      == Stop("not printed")
Backtrace(b)    == Do("backtrace", "", 0, b)
Registers(f, rsp, fp) ==
    Do("regs", "", 0, <<f, rsp, fp>>)
B(n, flag, f)   == [num |-> n, addr |-> f, end_enable |-> flag]
List(bps)       == Do("list", "", 0, bps)

Become  == Do("become", "", 0, 0)
Forks   == Do("fork", "", 0, "pid")
Alone(does) == [child |-> <<>>, does |-> <<Become>> \o does]
Script(calls_, does) == [child |-> calls_, does |-> <<Become, Forks>> \o does]
-----------------------------------------------------------------------------
\* become_debugger returns 0.
T1_01 == Alone(<<>>)
\* The child exits without a breakpoint.
T1_02 == Script(<<>>, <<Exits>>)
\* No child: the wait is an error.
T1_03 == Alone(<<WaitFails>>)
T2_01 == Script(Leaf(F1, 1) \o Leaf(F2, 2),
  <<Set(F1, 0), Set(F2, 0), Stop(F1), List(<<B(1, 0, F1), B(2, 0, F2)>>), Stop(F2),
    List(<<B(1, 0, F1), B(2, 0, F2)>>), Exits>>)
T2_02 == Script(Leaf(F1, 1) \o Leaf(F2, 2),
  <<Set(F1, 0), Set(F2, 1), Stop(F1), List(<<B(1, 0, F1), B(2, 1, F2)>>), Stop(F2),
    List(<<B(1, 0, F1), B(2, 1, F2)>>), Ends, List(<<B(1, 0, F1), B(2, 1, F2)>>), Exits>>)
T2_03 == Script(Leaf(F1, 1) \o Leaf(F2, 2),
  <<Set(F1, 1), Set(F2, 1), Stop(F1), List(<<B(1, 1, F1), B(2, 1, F2)>>), Ends,
    List(<<B(1, 1, F1), B(2, 1, F2)>>), Stop(F2), List(<<B(1, 1, F1), B(2, 1, F2)>>), Ends,
    List(<<B(1, 1, F1), B(2, 1, F2)>>), Exits>>)
T2_04 == Script(Nest(F1, 1, Leaf(F2, 1)),
  <<Set(F1, 1), Set(F2, 0), Stop(F1), List(<<B(1, 1, F1), B(2, 0, F2)>>), Stop(F2),
    List(<<B(1, 1, F1), B(2, 0, F2)>>), Ends, List(<<B(1, 1, F1), B(2, 0, F2)>>), Exits>>)
T2_05 == Script(Nest(F1, 1, Leaf(F2, 1)),
  <<Set(F1, 1), Set(F2, 1), Stop(F1), List(<<B(1, 1, F1), B(2, 1, F2)>>), Stop(F2),
    List(<<B(1, 1, F1), B(2, 1, F2)>>), Ends, List(<<B(1, 1, F1), B(2, 1, F2)>>), Ends,
    List(<<B(1, 1, F1), B(2, 1, F2)>>), Exits>>)
T2_06 == Script(Nest(F1, 1, Recursion),
  <<Set(F1, 0), Stop(F1), List(<<B(1, 0, F1)>>), Stop(F1), List(<<B(1, 0, F1)>>), Stop(F1),
    List(<<B(1, 0, F1)>>), Stop(F1), List(<<B(1, 0, F1)>>), Exits>>)
T2_07 == Script(Nest(F1, 1, Recursion),
  <<Set(F1, 1), Stop(F1), List(<<B(1, 1, F1)>>), Stop(F1), List(<<B(1, 1, F1)>>), Stop(F1),
    List(<<B(1, 1, F1)>>), Stop(F1), List(<<B(1, 1, F1)>>), Ends, List(<<B(1, 1, F1)>>), Ends,
    List(<<B(1, 1, F1)>>), Ends, List(<<B(1, 1, F1)>>), Ends, List(<<B(1, 1, F1)>>), Exits>>)
T2_08 == Script(Leaf(F1, 1) \o Leaf(F2, 2),
  <<Set(F1, 0), Set(F2, 0), Stop(F1), Stop(F2), Exits>>)
T2_09 == Script(Leaf(F1, 1) \o Leaf(F2, 2),
  <<Set(F1, 1), Set(F2, 1), Stop(F1), Ends, Stop(F2), Ends, Exits>>)
T2_10 == Script(Leaf(F1, 1),
  <<Set(F1, 0), Stop(F1), List(<<B(1, 0, F1)>>), Set(F1, 1), Exits>>)
T2_11 == Script(Leaf(F1, 1),
  <<Set(F1, 0), Stop(F1), Set(F1, 1), List(<<B(1, 1, F1)>>), Exits>>)
\* The flag of an active function cannot be cleared.
T2_12 == Script(Leaf(F1, 1),
  <<Set(F1, 1), Stop(F1), SetFails(F1, 0), List(<<B(1, 1, F1)>>), Ends, List(<<B(1, 1, F1)>>),
    Exits>>)
T2_13 == Script(Leaf(F1, 1),
  <<Set(F1, 1), Stop(F1), List(<<B(1, 1, F1)>>), Ends, Set(F1, 0), List(<<B(1, 0, F1)>>),
    Exits>>)
T2_14 == Script(Nest(F1, 1, Leaf(F2, 1)),
  <<Set(F2, 1), Stop(F2), List(<<B(1, 1, F2)>>), Ends, List(<<B(1, 1, F2)>>), Exits>>)
T2_15 == Script(Nest(F1, 1, Leaf(F2, 1)),
  <<Set(F2, 1), Stop(F2), Ends, Set(F1, 1), List(<<B(1, 1, F2), B(2, 1, F1)>>), Exits>>)
T2_16 == Script(Nest(F1, 1, Leaf(F2, 1)),
  <<Set(F1, 0), Set(F2, 1), Stop(F1), Stop(F2), List(<<B(1, 0, F1), B(2, 1, F2)>>), Ends,
    Set(F1, 1), List(<<B(1, 1, F1), B(2, 1, F2)>>), Exits>>)
T2_17 == Script(Nest(F1, 1, Leaf(F2, 1)),
  <<Set(F1, 1), Set(F2, 1), Stop(F1), List(<<B(1, 1, F1), B(2, 1, F2)>>), Stop(F2),
    List(<<B(1, 1, F1), B(2, 1, F2)>>), Ends, SetFails(F1, 0),
    List(<<B(1, 1, F1), B(2, 1, F2)>>), Ends, List(<<B(1, 1, F1), B(2, 1, F2)>>), Exits>>)
T2_18 == Script(Recursion,
  <<Set(F1, 0), Stop(F1), List(<<B(1, 0, F1)>>), Stop(F1), Set(F1, 1), List(<<B(1, 1, F1)>>),
    Stop(F1), List(<<B(1, 1, F1)>>), Ends, List(<<B(1, 1, F1)>>), Exits>>)
T2_19 == Script(Recursion,
  <<Set(F1, 1), Stop(F1), List(<<B(1, 1, F1)>>), Stop(F1), SetFails(F1, 0),
    List(<<B(1, 1, F1)>>), Stop(F1), List(<<B(1, 1, F1)>>), Ends, List(<<B(1, 1, F1)>>), Ends,
    List(<<B(1, 1, F1)>>), Ends, List(<<B(1, 1, F1)>>), Exits>>)
T2_20 == Script(Leaf(F1, 1) \o Leaf(F2, 2),
  <<Set(F1, 0), Set(F2, 0), Stop(F1), List(<<B(1, 0, F1), B(2, 0, F2)>>), Stop(F2), Removes(F1),
    List(<<B(2, 0, F2)>>), Exits>>)
T2_21 == Script(Leaf(F1, 1),
  <<Set(F1, 0), Stop(F1), Removes(F1), List(<<>>), Exits>>)
T2_22 == Script(Leaf(F1, 1),
  <<Set(F1, 1), Stop(F1), RemoveFails(F1), List(<<B(1, 1, F1)>>), Ends, List(<<B(1, 1, F1)>>),
    Exits>>)
T2_23 == Script(Leaf(F1, 1),
  <<Set(F1, 1), Stop(F1), List(<<B(1, 1, F1)>>), Ends, Removes(F1), List(<<>>), Exits>>)
T2_24 == Script(Nest(F1, 1, Leaf(F2, 1)),
  <<Set(F1, 0), Set(F2, 0), Stop(F1), List(<<B(1, 0, F1), B(2, 0, F2)>>), Stop(F2), Removes(F1),
    List(<<B(2, 0, F2)>>), Exits>>)
T2_25 == Script(Nest(F1, 1, Leaf(F2, 1)),
  <<Set(F1, 1), Set(F2, 0), Stop(F1), List(<<B(1, 1, F1), B(2, 0, F2)>>), Stop(F2),
    RemoveFails(F1), List(<<B(1, 1, F1), B(2, 0, F2)>>), Ends,
    List(<<B(1, 1, F1), B(2, 0, F2)>>), Exits>>)
\* A breakpoint removed at its own stop does not fire again.
T2_26 == Script(Recursion,
  <<Set(F1, 0), Stop(F1), List(<<B(1, 0, F1)>>), Stop(F1), Removes(F1), List(<<>>), Exits>>)
T2_27 == Script(Recursion,
  <<Set(F1, 1), Stop(F1), List(<<B(1, 1, F1)>>), Stop(F1), RemoveFails(F1),
    List(<<B(1, 1, F1)>>), Stop(F1), List(<<B(1, 1, F1)>>), Ends, List(<<B(1, 1, F1)>>), Ends,
    List(<<B(1, 1, F1)>>), Ends, List(<<B(1, 1, F1)>>), Exits>>)
\* A breakpoint on main, already entered, never fires.
T2_28 == Script(Leaf(F1, 1) \o Leaf(F2, 2),
  <<Set(Main, 1), Exits, List(<<B(1, 1, Main)>>), WaitsAgain>>)
T3_01 == Script(Leaf(F1, 1),
  <<Set(F1, 0), Stop(F1), Registers(F1, 3, 2), Exits>>)
T3_02 == Script(Leaf(F1, 1),
  <<Set(F1, 1), Stop(F1), Registers(F1, 3, 2), Ends, Registers(EndHandler, 3, 2), Exits>>)
T3_03 == Script(Leaf(F1, 1),
  <<Set(F1, 0), Stop(F1), Registers(F1, 3, 2), Exits>>)
T3_04 == Script(Leaf(F1, 1),
  <<Set(F1, 1), Stop(F1), Registers(F1, 3, 2), Ends, Registers(EndHandler, 3, 2), Exits>>)
T3_05 == Script(Nest(F1, 1, Leaf(F2, 1) \o Leaf(F3, 2)),
  <<Set(F1, 0), Set(F3, 0), Stop(F1), Registers(F1, 3, 2), Stop(F3), Registers(F3, 5, 4),
    Exits>>)
T4_01 == Script(Nest(F1, 1, Nest(F2, 1, Leaf(F3, 1))),
  <<Set(F1, 0), Stop(F1), Backtrace(<<C(F1, 0), C(Main, 1)>>), Exits>>)
T4_02 == Script(Nest(F1, 1, Nest(F2, 1, Leaf(F3, 1))),
  <<Set(F1, 0), Set(F3, 0), Stop(F1), Stop(F3),
    Backtrace(<<C(F3, 0), C(F2, 1), C(F1, 1), C(Main, 1)>>), Exits>>)
T4_03 == Script(Nest(F1, 1, Nest(F2, 1, Leaf(F3, 1))),
  <<Set(F1, 1), Set(F3, 0), Stop(F1), Stop(F3),
    Backtrace(<<C(F3, 0), C(F2, 1), C(F1, 1), C(Main, 1)>>), Ends, Backtrace(<<C(Main, 1)>>),
    Exits>>)
\* The backtrace is the last one taken before the exit.
T4_04 == Script(Recursion,
  <<Set(F1, 0), Stop(F1), Stop(F1), Stop(F1), Exits,
    Backtrace(<<C(F1, 0), C(F1, 1), C(F1, 1), C(Main, 1)>>)>>)
T4_05 == Script(Recursion,
  <<Set(F1, 1), Stop(F1), Stop(F1), Stop(F1), Ends,
    Backtrace(<<C(F1, 1), C(F1, 1), C(Main, 1)>>), Ends, Ends, Exits, WaitsAgain>>)

Tests == [
  T1_01 |-> T1_01,
  T1_02 |-> T1_02,
  T1_03 |-> T1_03,
  T2_01 |-> T2_01,
  T2_02 |-> T2_02,
  T2_03 |-> T2_03,
  T2_04 |-> T2_04,
  T2_05 |-> T2_05,
  T2_06 |-> T2_06,
  T2_07 |-> T2_07,
  T2_08 |-> T2_08,
  T2_09 |-> T2_09,
  T2_10 |-> T2_10,
  T2_11 |-> T2_11,
  T2_12 |-> T2_12,
  T2_13 |-> T2_13,
  T2_14 |-> T2_14,
  T2_15 |-> T2_15,
  T2_16 |-> T2_16,
  T2_17 |-> T2_17,
  T2_18 |-> T2_18,
  T2_19 |-> T2_19,
  T2_20 |-> T2_20,
  T2_21 |-> T2_21,
  T2_22 |-> T2_22,
  T2_23 |-> T2_23,
  T2_24 |-> T2_24,
  T2_25 |-> T2_25,
  T2_26 |-> T2_26,
  T2_27 |-> T2_27,
  T2_28 |-> T2_28,
  T3_01 |-> T3_01,
  T3_02 |-> T3_02,
  T3_03 |-> T3_03,
  T3_04 |-> T3_04,
  T3_05 |-> T3_05,
  T4_01 |-> T4_01,
  T4_02 |-> T4_02,
  T4_03 |-> T4_03,
  T4_04 |-> T4_04,
  T4_05 |-> T4_05]

-----------------------------------------------------------------------------
TInit == Init /\ test \in TestSet /\ step = 1 /\ child = Tests[test].child

Does == Tests[test].does

\* The parent makes the next call of its program, and exits after the last.
Parent ==
    /\ UNCHANGED <<test, child>>
    /\ step' = step + 1
    /\ \/ /\ step \in DOMAIN Does
          /\ LET d == Does[step]
             IN \/ d.op = "become" /\ do_become_debugger(TRUE)
                \/ d.op = "fork" /\ do_fork
                \/ d.op = "set" /\ do_set_breakpoint(d.f, d.flag, TRUE)
                \/ d.op = "remove" /\ do_remove_breakpoint(d.f)
                \/ d.op = "list" /\ do_info_breakpoints
                \/ d.op = "regs" /\ do_info_registers
                \/ d.op = "backtrace" /\ do_backtrace
                \/ d.op = "wait" /\ do_wait_and_continue
       \/ step = Len(Does) + 1 /\ debugger_exit

\* The child makes the next call or return of its program, and exits at its end.
Child ==
    /\ UNCHANGED <<test, step>>
    /\ \/ push_rbp \/ mov_rbp \/ StopAtEntry \/ StopAtEnd \/ Resume
       \/ pc[1] = EndHandler /\ ret
    /\ UNCHANGED child
ChildCalls ==
    /\ UNCHANGED <<test, step>> /\ child # <<>> /\ child' = Tail(child)
    /\ \/ Head(child) # R /\ call(Head(child)[1], Head(child)[2])
       \/ Head(child) = R /\ pc[1] # EndHandler /\ ret
ChildExits == child = <<>> /\ debuggee_exit /\ UNCHANGED <<test, step, child>>

TNext == Parent \/ Child \/ ChildCalls \/ ChildExits

\* The CPU always goes on with the process that runs.
TSpec == TInit /\ [][TNext]_tvars /\ WF_tvars(TNext)

\* Of the registers the tests print rip, rsp and rbp, and never rdx.
Shown == IF res[1] = "regs" THEN <<"regs", <<res[2].rip, res[2].rsp, res[2].rbp>>>> ELSE res

-----------------------------------------------------------------------------
\* Whenever the parent has got a result, it is the one the test's output shows.
\* Stops, removals, changes of the end flag, recursion, registers and
\* backtraces of debug.c, as the test programs expect them.
ResultsAsExpected ==
    (current # "dbe" /\ res[1] # "exit" /\ step > 1 /\ ~undef /\ res # <<"wait", "none">>)
       => Shown = <<Does[step - 1].op, Does[step - 1].expect>>

\* Every test program runs to its end and the system shuts down: neither
\* process is left waiting for the other (do_wait_and_continue, do_exit).
TestsEnd == <>(current = "off")
=============================================================================
