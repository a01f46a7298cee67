---------------------------- MODULE FifoChannel -----------------------------
(***************************************************************************)
(* What a pipe promises to its users, without descriptors, slots or cyclic *)
(* buffers: a bounded first-in first-out channel of bytes.  A process may  *)
(* send or receive while it holds the write or read end; a child inherits  *)
(* the ends its parent holds; the channel lasts until the last end is      *)
(* closed, and no longer.                                                  *)
(***************************************************************************)
EXTENDS Integers, Sequences

CONSTANTS Channels, Procs, Modes, Byte, Capacity, MaxCount

VARIABLES
  live,    \* the channels that exist
  ends,    \* channel -> the <<process, mode>> pairs that hold an end
  chan,    \* channel -> the bytes sent and not yet received
  moved      \* the bytes the last transfer moved, as its user has them

vars == <<live, ends, chan, moved>>

Init ==
  /\ live = {}
  /\ ends = [x \in Channels |-> {}]
  /\ chan = [x \in Channels |-> << >>]
  /\ moved = << >>

\* A new, empty channel; its creator holds both ends.
Open(x, p) ==
  /\ x \notin live
  /\ live' = live \cup {x}
  /\ ends' = [ends EXCEPT ![x] = {p} \X Modes]
  /\ chan' = [chan EXCEPT ![x] = << >>]
  /\ UNCHANGED moved

\* As many of the bytes as fit are appended.
Send(x, p, w, data, count) ==
  /\ <<p, w>> \in ends[x]
  /\ LET room == Capacity - Len(chan[x])
         n == IF count <= room THEN count ELSE room
     IN /\ moved' = SubSeq(data, 1, n)
        /\ chan' = [chan EXCEPT ![x] = @ \o moved']
  /\ UNCHANGED <<live, ends>>

\* As many bytes as there are, at most count, are taken from the front.
Receive(x, p, r, count) ==
  /\ <<p, r>> \in ends[x]
  /\ LET n == IF count <= Len(chan[x]) THEN count ELSE Len(chan[x])
     IN /\ moved' = SubSeq(chan[x], 1, n)
        /\ chan' = [chan EXCEPT ![x] = SubSeq(@, n + 1, Len(@))]
  /\ UNCHANGED <<live, ends>>

Inherit(x, p, c) ==
  /\ p # c
  /\ \E m \in Modes : <<p, m>> \in ends[x]
  /\ ends' = [ends EXCEPT ![x] = @ \cup {<<c, m>> : m \in {m \in Modes : <<p, m>> \in @}}]
  /\ UNCHANGED <<live, chan, moved>>

Close(x, p, m) ==
  /\ <<p, m>> \in ends[x]
  /\ ends' = [ends EXCEPT ![x] = @ \ {<<p, m>>}]
  /\ IF ends'[x] = {}
       THEN live' = live \ {x} /\ chan' = [chan EXCEPT ![x] = << >>]
       ELSE UNCHANGED <<live, chan>>
  /\ UNCHANGED moved

Next ==
  \E x \in Channels, p \in Procs :
    \/ Open(x, p)
    \/ \E m \in Modes : Close(x, p, m)
    \/ \E c \in Procs : Inherit(x, p, c)
    \/ \E m \in Modes, count \in 0..MaxCount :
         \/ Receive(x, p, m, count)
         \/ \E data \in [1..Capacity -> Byte] : Send(x, p, m, data, count)

Spec == Init /\ [][Next]_vars
=============================================================================
