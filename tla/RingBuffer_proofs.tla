------------------------- MODULE RingBuffer_proofs --------------------------
(***************************************************************************)
(* Facts about the cyclic memory of RingBuffer, for every size, that the   *)
(* proofs about Pipe and PPipe rest on.                                    *)
(***************************************************************************)
EXTENDS RingBuffer, SequenceTheorems, TLAPS

\* Positions computed modulo the size, as the handlers do, stay in the buffer.
LEMMA AdvanceType ==
  ASSUME NEW size \in Nat \ {0}, NEW pos \in Nat, NEW n \in Nat
  PROVE  Advance(pos, n, size) \in 0..(size - 1)
  BY Z3 DEF Advance

\* Advancing by at most the size passes the end of the buffer at most once.
LEMMA AdvanceOnce ==
  ASSUME NEW size \in Nat \ {0}, NEW pos \in 0..(size - 1), NEW n \in 0..size
  PROVE  Advance(pos, n, size) = IF pos + n < size THEN pos + n ELSE pos + n - size
<1>1. CASE pos + n < size
  BY <1>1, Z3 DEF Advance
<1>2. CASE pos + n >= size
  <2>1. pos + n < size + size
    OBVIOUS
  <2>2. (pos + n) % size = pos + n - size
    BY <1>2, <2>1, Z3
  <2> QED BY <1>2, <2>2 DEF Advance
<1> QED BY <1>1, <1>2

\* A transfer of n bytes after one of m bytes ends where one of m + n ends:
\* what a write adds to buff_len, or a read takes from it, fits the positions.
LEMMA AdvanceTwice ==
  ASSUME NEW size \in Nat \ {0}, NEW pos \in 0..(size - 1),
         NEW m \in 0..size, NEW n \in 0..size, m + n \in 0..size
  PROVE  Advance(Advance(pos, m, size), n, size) = Advance(pos, m + n, size)
<1>1. Advance(pos, m, size) \in 0..(size - 1)
  BY AdvanceType
<1>2. Advance(pos, m, size) = IF pos + m < size THEN pos + m ELSE pos + m - size
  BY AdvanceOnce
<1>3. Advance(pos, m + n, size) =
        IF pos + (m + n) < size THEN pos + (m + n) ELSE pos + (m + n) - size
  BY AdvanceOnce
<1>4. Advance(Advance(pos, m, size), n, size) =
        IF Advance(pos, m, size) + n < size THEN Advance(pos, m, size) + n
                                            ELSE Advance(pos, m, size) + n - size
  BY <1>1, AdvanceOnce
<1> QED BY <1>1, <1>2, <1>3, <1>4

\* The clamp takes no more than is available, nor more than is asked for.
LEMMA ClampBounds ==
  ASSUME NEW available \in Nat, NEW count \in Nat
  PROVE  /\ Clamp(available, count) \in 0..available
         /\ Clamp(available, count) <= count
         /\ Clamp(available, count) \in Nat
  BY DEF Clamp

\* The write loop replaces bytes of the buffer by bytes of the user's buffer.
LEMMA CyclicWriteType ==
  ASSUME NEW size \in Nat \ {0}, NEW Byte, NEW buff \in Memory(size, Byte),
         NEW pos \in 0..(size - 1), NEW data \in [1..size -> Byte], NEW n \in 0..size
  PROVE  CyclicWrite(buff, pos, data, n, size) \in Memory(size, Byte)
<1> SUFFICES ASSUME NEW j \in 0..(size - 1)
             PROVE  (IF Offset(j, pos, size) < n THEN data[Offset(j, pos, size) + 1]
                                                 ELSE buff[j]) \in Byte
  BY DEF CyclicWrite, Memory
<1>1. Offset(j, pos, size) \in Nat
  BY DEF Offset
<1> QED BY <1>1 DEF Memory

-----------------------------------------------------------------------------
\* The bytes between the positions, as a sequence.

\* A position of the buffer leads to one.
LEMMA AdvanceIn ==
  ASSUME NEW size \in Nat \ {0}, NEW pos \in 0..(size - 1), NEW n \in 0..size
  PROVE  Advance(pos, n, size) \in 0..(size - 1)
<1>1. Advance(pos, n, size) = IF pos + n < size THEN pos + n ELSE pos + n - size
  BY AdvanceOnce
<1> QED BY <1>1

\* Sequence s holds the `len' bytes from `pos' on.
IsWindow(s, buff, pos, len, size, Byte) ==
  /\ s \in Seq(Byte) /\ Len(s) = len
  /\ \A k \in 1..len : s[k] = buff[Advance(pos, k - 1, size)]

LEMMA CyclicReadSeq ==
  ASSUME NEW size \in Nat \ {0}, NEW Byte, NEW buff \in Memory(size, Byte),
         NEW pos \in 0..(size - 1), NEW len \in 0..size
  PROVE  IsWindow(CyclicRead(buff, pos, len, size), buff, pos, len, size, Byte)
<1>1. \A k \in 1..len : Advance(pos, k - 1, size) \in 0..(size - 1)
  <2>1. \A k \in 1..len : k - 1 \in 0..size
    OBVIOUS
  <2> QED BY <2>1, AdvanceIn
<1>2. \A k \in 1..len : buff[Advance(pos, k - 1, size)] \in Byte
  BY <1>1 DEF Memory
<1> QED BY <1>2 DEF CyclicRead, IsWindow

\* Reading takes bytes from the front: n bytes are moved, len - n stay.
LEMMA ReadFromFront ==
  ASSUME NEW size \in Nat \ {0}, NEW Byte, NEW buff \in Memory(size, Byte),
         NEW pos \in 0..(size - 1), NEW len \in 0..size, NEW n \in 0..len
  PROVE  LET all == CyclicRead(buff, pos, len, size) IN
         /\ CyclicRead(buff, pos, n, size) = SubSeq(all, 1, n)
         /\ CyclicRead(buff, Advance(pos, n, size), len - n, size) = SubSeq(all, n + 1, Len(all))
<1> DEFINE all == CyclicRead(buff, pos, len, size)
           front == CyclicRead(buff, pos, n, size)
           rest == CyclicRead(buff, Advance(pos, n, size), len - n, size)
<1>1. n \in 0..size /\ len - n \in 0..size
  OBVIOUS
<1>0. Advance(pos, n, size) \in 0..(size - 1)
  BY <1>1, AdvanceIn
<1>2. /\ all \in Seq(Byte) /\ Len(all) = len
      /\ \A k \in 1..len : all[k] = buff[Advance(pos, k - 1, size)]
  <2>1. IsWindow(all, buff, pos, len, size, Byte)
    BY CyclicReadSeq
  <2> QED BY <2>1 DEF IsWindow
<1>3. /\ front \in Seq(Byte) /\ Len(front) = n
      /\ \A k \in 1..n : front[k] = buff[Advance(pos, k - 1, size)]
  <2>1. IsWindow(front, buff, pos, n, size, Byte)
    BY <1>1, CyclicReadSeq
  <2> QED BY <2>1 DEF IsWindow
<1>4. /\ rest \in Seq(Byte) /\ Len(rest) = len - n
      /\ \A k \in 1..(len - n) : rest[k] = buff[Advance(Advance(pos, n, size), k - 1, size)]
  <2>1. IsWindow(rest, buff, Advance(pos, n, size), len - n, size, Byte)
    BY <1>0, <1>1, CyclicReadSeq
  <2> QED BY <2>1 DEF IsWindow
<1>5. \A k \in 1..(len - n) : Advance(Advance(pos, n, size), k - 1, size) = Advance(pos, n + (k - 1), size)
  BY <1>1, AdvanceTwice
<1> HIDE DEF all, front, rest
<1>6. front = SubSeq(all, 1, n)
  <2>1. /\ SubSeq(all, 1, n) \in Seq(Byte) /\ Len(SubSeq(all, 1, n)) = n
        /\ \A k \in 1..n : SubSeq(all, 1, n)[k] = all[k]
    BY <1>2, SubSeqProperties
  <2>2. \A k \in 1..n : front[k] = SubSeq(all, 1, n)[k]
    <3>1. \A k \in 1..n : k \in 1..len
      OBVIOUS
    <3> QED BY <1>2, <1>3, <2>1, <3>1
  <2> QED BY <1>3, <2>1, <2>2, SeqEqual
<1>7. rest = SubSeq(all, n + 1, len)
  <2>1. /\ SubSeq(all, n + 1, len) \in Seq(Byte) /\ Len(SubSeq(all, n + 1, len)) = len - n
        /\ \A k \in 1..(len - n) : SubSeq(all, n + 1, len)[k] = all[n + k]
    BY <1>2, SubSeqProperties
  <2>2. \A k \in 1..(len - n) : rest[k] = SubSeq(all, n + 1, len)[k]
    <3> SUFFICES ASSUME NEW k \in 1..(len - n) PROVE rest[k] = all[n + k]
      BY <2>1
    <3>1. n + k \in 1..len /\ (n + k) - 1 = n + (k - 1)
      OBVIOUS
    <3> QED BY <1>2, <1>4, <1>5, <3>1
  <2> QED BY <1>4, <2>1, <2>2, SeqEqual
<1> QED BY <1>2, <1>6, <1>7 DEF all, front, rest

\* Sequence s is `old' with the first n bytes of `data' after it.
IsAppended(s, old, data, n) == s = old \o SubSeq(data, 1, n)

\* Writing appends bytes at the end, and overwrites none of those not yet read.
LEMMA WriteAtEnd ==
  ASSUME NEW size \in Nat \ {0}, NEW Byte, NEW buff \in Memory(size, Byte),
         NEW pos \in 0..(size - 1), NEW len \in 0..size, NEW n \in 0..(size - len),
         NEW data \in [1..size -> Byte]
  PROVE  IsAppended(CyclicRead(CyclicWrite(buff, Advance(pos, len, size), data, n, size), pos, len + n, size),
                    CyclicRead(buff, pos, len, size), data, n)
<1> DEFINE old == CyclicRead(buff, pos, len, size)
           new == SubSeq(data, 1, n)
           write == Advance(pos, len, size)
           after == CyclicWrite(buff, write, data, n, size)
           all == CyclicRead(after, pos, len + n, size)
<1>1. n \in 0..size /\ len + n \in 0..size
  OBVIOUS
<1>0. write \in 0..(size - 1)
  BY AdvanceIn
<1>2. after \in Memory(size, Byte)
  BY <1>0, <1>1, CyclicWriteType
<1>3. /\ old \in Seq(Byte) /\ Len(old) = len
      /\ \A k \in 1..len : old[k] = buff[Advance(pos, k - 1, size)]
  <2>1. IsWindow(old, buff, pos, len, size, Byte)
    BY CyclicReadSeq
  <2> QED BY <2>1 DEF IsWindow
<1>4. /\ all \in Seq(Byte) /\ Len(all) = len + n
      /\ \A k \in 1..(len + n) : all[k] = after[Advance(pos, k - 1, size)]
  <2> HIDE DEF after
  <2>1. IsWindow(all, after, pos, len + n, size, Byte)
    BY <1>1, <1>2, CyclicReadSeq
  <2> QED BY <2>1 DEF IsWindow
<1>5. /\ new \in Seq(Byte) /\ Len(new) = n
      /\ \A k \in 1..n : new[k] = data[k]
  <2>1. data \in Seq(Byte) /\ Len(data) = size
    OBVIOUS
  <2> QED BY <1>1, <2>1, SubSeqProperties
<1>6. /\ old \o new \in Seq(Byte) /\ Len(old \o new) = len + n
      /\ \A k \in 1..(len + n) : (old \o new)[k] = IF k <= len THEN old[k] ELSE new[k - len]
  <2> HIDE DEF old, new
  <2> QED BY <1>3, <1>5, ConcatProperties
<1>7. ASSUME NEW k \in 1..(len + n) PROVE all[k] = (old \o new)[k]
  <2> DEFINE j == Advance(pos, k - 1, size)
  <2>0. k - 1 \in 0..size
    BY <1>1
  <2>1. j \in 0..(size - 1) /\ j = IF pos + (k - 1) < size THEN pos + (k - 1) ELSE pos + (k - 1) - size
    BY <2>0, AdvanceIn, AdvanceOnce
  <2>2. write = IF pos + len < size THEN pos + len ELSE pos + len - size
    BY <1>1, AdvanceOnce
  <2>3. all[k] = IF Offset(j, write, size) < n THEN data[Offset(j, write, size) + 1] ELSE buff[j]
    BY <1>4, <2>1 DEF CyclicWrite, Memory
  <2> HIDE DEF j, write, old, new, all
  <2>4. CASE k <= len
    <3>1. ~(Offset(j, write, size) < n)
      BY <1>0, <1>1, <2>1, <2>2, <2>4 DEF Offset
    <3>2. all[k] = buff[j] /\ old[k] = buff[j]
      BY <1>3, <2>3, <2>4, <3>1 DEF j
    <3> QED BY <1>6, <2>4, <3>2
  <2>5. CASE k > len
    <3>1. Offset(j, write, size) = k - 1 - len
      BY <1>0, <1>1, <2>1, <2>2, <2>5 DEF Offset
    <3>2. k - 1 - len < n /\ k - 1 - len + 1 = k - len /\ k - len \in 1..n
      BY <2>5
    <3>3. all[k] = data[k - len] /\ new[k - len] = data[k - len]
      BY <1>5, <2>3, <3>1, <3>2
    <3>4. (old \o new)[k] = new[k - len]
      <4>1. ~(k <= len)
        BY <2>5
      <4> QED BY <1>6, <4>1
    <3> QED BY <3>3, <3>4
  <2>6. k <= len \/ k > len
    OBVIOUS
  <2> QED BY <2>4, <2>5, <2>6
<1> HIDE DEF old, new, all
<1>8. all = old \o new
  BY <1>4, <1>6, <1>7, SeqEqual
<1> QED BY <1>8 DEF old, new, all, IsAppended

\* Sequence s is the n elements of `all' after the first `skip'.
IsPart(s, all, skip, n) == s = SubSeq(all, skip + 1, skip + n)

\* Reading from further on gives the bytes from there on.
LEMMA ReadInside ==
  ASSUME NEW size \in Nat \ {0}, NEW Byte, NEW buff \in Memory(size, Byte),
         NEW pos \in 0..(size - 1), NEW len \in 0..size, NEW skip \in 0..len, NEW n \in 0..(len - skip)
  PROVE  IsPart(CyclicRead(buff, Advance(pos, skip, size), n, size),
                CyclicRead(buff, pos, len, size), skip, n)
<1> DEFINE all == CyclicRead(buff, pos, len, size)
           part == CyclicRead(buff, Advance(pos, skip, size), n, size)
<1>1. skip \in 0..size /\ n \in 0..size
  OBVIOUS
<1>2. Advance(pos, skip, size) \in 0..(size - 1)
  BY <1>1, AdvanceIn
<1>3. /\ all \in Seq(Byte) /\ Len(all) = len
      /\ \A k \in 1..len : all[k] = buff[Advance(pos, k - 1, size)]
  <2>1. IsWindow(all, buff, pos, len, size, Byte)
    BY CyclicReadSeq
  <2> QED BY <2>1 DEF IsWindow
<1>4. /\ part \in Seq(Byte) /\ Len(part) = n
      /\ \A k \in 1..n : part[k] = buff[Advance(Advance(pos, skip, size), k - 1, size)]
  <2>1. IsWindow(part, buff, Advance(pos, skip, size), n, size, Byte)
    BY <1>1, <1>2, CyclicReadSeq
  <2> QED BY <2>1 DEF IsWindow
<1> HIDE DEF all, part
<1>5. \A k \in 1..n : Advance(Advance(pos, skip, size), k - 1, size) = Advance(pos, skip + (k - 1), size)
  <2> SUFFICES ASSUME NEW k \in 1..n
               PROVE  Advance(Advance(pos, skip, size), k - 1, size) = Advance(pos, skip + (k - 1), size)
    OBVIOUS
  <2>1. k - 1 \in 0..size /\ skip + (k - 1) \in 0..size
    BY <1>1
  <2> QED BY <1>1, <2>1, AdvanceTwice
<1>6. PICK s : s = SubSeq(all, skip + 1, skip + n)
  OBVIOUS
<1>7. s \in Seq(Byte) /\ Len(s) = n /\ \A k \in 1..n : s[k] = all[skip + k]
  BY <1>3, <1>6, SubSeqProperties
<1>8. ASSUME NEW k \in 1..n PROVE part[k] = s[k]
  <2>1. skip + k \in 1..len /\ (skip + k) - 1 = skip + (k - 1)
    OBVIOUS
  <2>2. part[k] = buff[Advance(pos, skip + (k - 1), size)]
    BY <1>4, <1>5
  <2>3. all[skip + k] = buff[Advance(pos, skip + (k - 1), size)]
    BY <1>3, <2>1
  <2>4. s[k] = all[skip + k]
    BY <1>7
  <2> QED BY <2>2, <2>3, <2>4
<1>9. part = s
  BY <1>4, <1>7, <1>8, SeqEqual
<1> QED BY <1>6, <1>9 DEF all, part, IsPart
=============================================================================
