---------------------------- MODULE BroadcastLog ----------------------------
(***************************************************************************)
(* What a persistent pipe promises: a bounded log that every reader reads  *)
(* in full at its own pace.  A byte stays until a flush finds that all the *)
(* readers there are have read it; a child starts where its parent is.     *)
(***************************************************************************)
EXTENDS Integers, Sequences

CONSTANTS Procs, Byte, Capacity, MaxCount

VARIABLES
  log,       \* the bytes that are kept, oldest first
  cursor,    \* reader -> how many bytes of log it has read; DOMAIN: the readers
  writers,   \* the processes that may write
  moved        \* the bytes the last transfer moved, as its user has them

vars == <<log, cursor, writers, moved>>

Least(m, n) == IF m <= n THEN m ELSE n

Init ==
  /\ log = << >>
  /\ cursor = [p \in {} |-> 0]
  /\ writers = {}
  /\ moved = << >>

\* The creator reads and writes.
Create(p) ==
  /\ DOMAIN cursor = {} /\ writers = {} /\ log = << >>
  /\ cursor' = [q \in {p} |-> 0]
  /\ writers' = {p}
  /\ UNCHANGED <<log, moved>>

Write(p, data, count) ==
  /\ p \in writers
  /\ moved' = SubSeq(data, 1, Least(count, Capacity - Len(log)))
  /\ log' = log \o moved'
  /\ UNCHANGED <<cursor, writers>>

Read(p, count) ==
  /\ p \in DOMAIN cursor
  /\ LET n == Least(count, Len(log) - cursor[p])
     IN /\ moved' = SubSeq(log, cursor[p] + 1, cursor[p] + n)
        /\ cursor' = [cursor EXCEPT ![p] = @ + n]
  /\ UNCHANGED <<log, writers>>

\* Exactly the bytes that every reader has read go; a log without readers
\* keeps everything.
Flush ==
  /\ \E r \in 0..Len(log) :
       /\ \A p \in DOMAIN cursor : r <= cursor[p]
       /\ (r = 0 /\ DOMAIN cursor = {}) \/ (\E p \in DOMAIN cursor : r = cursor[p])
       /\ log' = SubSeq(log, r + 1, Len(log))
       /\ cursor' = [p \in DOMAIN cursor |-> cursor[p] - r]
  /\ UNCHANGED <<writers, moved>>

\* A child reads and writes if its parent does, from its parent's position.
Fork(p, c) ==
  /\ p # c
  /\ cursor' = [q \in (DOMAIN cursor \ {c}) \cup {q \in {c} : p \in DOMAIN cursor} |->
                  IF q = c THEN cursor[p] ELSE cursor[q]]
  /\ writers' = (writers \ {c}) \cup {q \in {c} : p \in writers}
  /\ UNCHANGED <<log, moved>>

CloseReader(p) ==
  /\ cursor' = [q \in DOMAIN cursor \ {p} |-> cursor[q]]
  /\ UNCHANGED <<log, writers, moved>>

CloseWriter(p) ==
  /\ writers' = writers \ {p}
  /\ UNCHANGED <<log, cursor, moved>>

Next ==
  \/ Flush
  \/ \E p \in Procs :
       \/ Create(p) \/ CloseReader(p) \/ CloseWriter(p)
       \/ \E c \in Procs : Fork(p, c)
       \/ \E count \in 0..MaxCount :
            \/ Read(p, count)
            \/ \E data \in [1..Capacity -> Byte] : Write(p, data, count)

Spec == Init /\ [][Next]_vars
=============================================================================
