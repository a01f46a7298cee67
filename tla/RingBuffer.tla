----------------------------- MODULE RingBuffer -----------------------------
(***************************************************************************)
(* The cyclic memory that pipe.c and ppipe.c keep in one page: the copy    *)
(* loops of pipe_read, pipe_write, ppipe_read and ppipe_write.  Both files  *)
(* address byte i of a transfer that starts at pos as (pos + i) % size.    *)
(* The operators take the size as an argument, so that the pipe and the    *)
(* persistent pipe share them and their lemmas (RingBuffer_proofs).        *)
(***************************************************************************)
EXTENDS Integers

\* The contents of a buffer of `size' bytes, each a member of Byte.
Memory(size, Byte) == [0..(size - 1) -> Byte]

\* The index that `n' steps from `pos' lead to: (pos + n) % SIZE.
Advance(pos, n, size) == (pos + n) % size

\* How far index `j' lies behind `pos', going forward around the buffer.
Offset(j, pos, size) == IF j >= pos THEN j - pos ELSE j - pos + size

\* The bytes the read loop copies out: buff[i] = pipe_buff[(read_pos+i) % SIZE].
CyclicRead(buff, pos, n, size) ==
  [k \in 1..n |-> buff[Advance(pos, k - 1, size)]]

\* Mutant: the write loop without the modulo loses what passes the end.
CyclicWrite_NoWrap(buff, pos, data, n, size) ==
  [j \in DOMAIN buff |-> IF j >= pos /\ j - pos < n THEN data[j - pos + 1] ELSE buff[j]]

\* The memory after the write loop pipe_buff[(write_pos+i) % SIZE] = buff[i],
\* for a transfer of n <= size bytes (no index is written twice).
CyclicWrite(buff, pos, data, n, size) ==
  [j \in DOMAIN buff |->
     IF Offset(j, pos, size) < n THEN data[Offset(j, pos, size) + 1]
                                 ELSE buff[j]]

\* Mutant: the caller's count is taken as it is.
Clamp_Unbounded(available, count) == count

\* The clamp of all four transfer handlers: the caller's count, or what is
\* available (bytes to read, or space to write) when that is less.
Clamp(available, count) == IF available >= count THEN count ELSE available
=============================================================================
