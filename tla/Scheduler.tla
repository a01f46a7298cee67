------------------------------ MODULE Scheduler ------------------------------
(***************************************************************************)
(* The contexts of the kernel and who of them runs (schedule.c).  Context  *)
(* 0 is the swapper, which runs when no other context is READY.            *)
(*                                                                         *)
(* Every operator takes the states of the contexts and returns them, so    *)
(* that a system call can change them and give up the CPU in one step.     *)
(***************************************************************************)
EXTENDS Integers, FiniteSetsExt

CONSTANTS NPid,      \* MAX_PROCESSES - 1, the contexts beside the swapper
          MaxSleep   \* bound on the ticks a program sleeps

ASSUME SchedulerAssumption == NPid \in Nat \ {0} /\ MaxSleep \in Nat

Swapper == 0
Pids == 1 .. NPid

UNUSED == "UNUSED"
READY == "READY"
RUNNING == "RUNNING"
WAITING == "WAITING"
EXITING == "EXITING"

VARIABLES ctx,       \* exec_context: state and ticks_to_sleep of each pid
          current    \* the pid of the context that runs

Contexts == [Pids -> [state : {UNUSED, READY, RUNNING, WAITING, EXITING},
                      ticks_to_sleep : 0 .. MaxSleep]]

\* How far q is behind p in the order in which contexts are asked.
Distance(p, q) == (q - p - 1) % NPid

\* The first READY context after p, p itself last; the swapper if none is.
pick_next_context(c, p) ==
    LET ready == {q \in Pids : c[q].state = READY}
    IN IF ready = {} THEN Swapper
       ELSE CHOOSE q \in ready : \A r \in ready : Distance(p, q) <= Distance(p, r)

\* Mutant: the count goes on below 0.
X_do_sleep_and_alarm_account(c) ==
    [p \in Pids |->
       IF c[p].state = WAITING
       THEN [state |-> IF c[p].ticks_to_sleep = 1 THEN READY ELSE WAITING,
             ticks_to_sleep |-> c[p].ticks_to_sleep - 1]
       ELSE c[p]]

\* A tick for the sleepers; a context that waits for something else may still
\* have ticks left of a sleep that was cut short.
do_sleep_and_alarm_account(c) ==
    [p \in Pids |->
       IF c[p].state = WAITING /\ c[p].ticks_to_sleep > 0
       THEN [state |-> IF c[p].ticks_to_sleep = 1 THEN READY ELSE WAITING,
             ticks_to_sleep |-> c[p].ticks_to_sleep - 1]
       ELSE c[p]]

SetState(c, p, s) == IF p = Swapper THEN c ELSE [c EXCEPT ![p].state = s]

\* The states after a tick while p runs, before the next context is RUNNING.
Ticked(c, p) == SetState(do_sleep_and_alarm_account(c), p, READY)
=============================================================================
