----------------------- MODULE DataStructuresProofs -----------------------
(***************************************************************************)
(* Proofs about the data structures.  Buffer, for any bytes, sizes and     *)
(* bounds: the indexes stay in order, room is made when it is asked for,   *)
(* and the readable bytes are those of a queue.  The heap of TimerHeap,    *)
(* for any timers and expirations: it stays ordered.                       *)
(***************************************************************************)
EXTENDS MCDataStructures, TimerHeapProofs, SequenceTheorems

\* A vector with its indexes in order.  That it is never shorter than kCheapPrepend
\* is what retrieveAll() and a move rely on.
Buffers == {bb \in [buffer : Seq(Bytes), reader : Nat, writer : Nat] :
              /\ bb.reader <= bb.writer /\ bb.writer <= Len(bb.buffer)
              /\ kCheapPrepend <= Len(bb.buffer)}

-----------------------------------------------------------------------------
(* Sequences *)

LEMMA CopiedProperties ==
  ASSUME NEW v \in Seq(Bytes), NEW data \in Seq(Bytes), NEW at \in Nat
  PROVE  /\ Copied(v, data, at) \in Seq(Bytes)
         /\ Len(Copied(v, data, at)) = Len(v)
         /\ \A i \in 1..Len(v) : Copied(v, data, at)[i] =
               IF at < i /\ i <= at + Len(data) THEN data[i - at] ELSE v[i]
<1> DEFINE e(i) == IF i \in (at + 1)..(at + Len(data)) THEN data[i - at] ELSE v[i]
           w == [i \in 1..Len(v) |-> e(i)]
<1>1. Copied(v, data, at) = w
  BY DEF Copied
<1>2. \A i \in 1..Len(v) : e(i) \in Bytes
  OBVIOUS
<1>3. w \in Seq(Bytes) /\ Len(w) = Len(v)
  <2> HIDE DEF e
  <2> QED BY <1>2
<1> QED BY <1>1, <1>3

LEMMA SliceOfSlice ==
  ASSUME NEW v \in Seq(Bytes), NEW r \in Nat, NEW w \in Nat, r <= w, w <= Len(v),
         NEW i \in Nat, NEW j \in Nat, j <= w - r
  PROVE  SubSeq(SubSeq(v, r + 1, w), i + 1, j) = SubSeq(v, r + i + 1, r + j)
<1>1. Len(SubSeq(v, r + 1, w)) = w - r /\ SubSeq(v, r + 1, w) \in Seq(Bytes)
  OBVIOUS
<1> QED BY <1>1

LEMMA ZerosProperties ==
  ASSUME NEW n \in Nat
  PROVE  Zeros(n) \in Seq(Bytes) /\ Len(Zeros(n)) = n
  BY BufferConstants DEF Zeros

LEMMA DataIsSeq ==
  ASSUME NEW data \in Data
  PROVE  data \in Seq(Bytes) /\ Len(data) \in 0..MaxData
<1>1. PICK n \in 0..MaxData : data \in [1..n -> Bytes]
  BY DEF Data
<1> QED BY <1>1, BufferConstants

LEMMA BufferFields ==
  ASSUME NEW bb \in Buffers
  PROVE  /\ bb.buffer \in Seq(Bytes) /\ Len(bb.buffer) \in Nat
         /\ bb.reader \in Nat /\ bb.writer \in Nat
         /\ bb.reader <= bb.writer /\ bb.writer <= Len(bb.buffer)
         /\ kCheapPrepend \in Nat /\ kCheapPrepend <= Len(bb.buffer)
         /\ bb = [buffer |-> bb.buffer, reader |-> bb.reader, writer |-> bb.writer]
  BY BufferConstants DEF Buffers

LEMMA IsBuffer ==
  ASSUME NEW v \in Seq(Bytes), NEW r \in Nat, NEW w \in Nat,
         r <= w, w <= Len(v), kCheapPrepend <= Len(v)
  PROVE  [buffer |-> v, reader |-> r, writer |-> w] \in Buffers
  BY DEF Buffers

\* What can be read.
LEMMA Readable ==
  ASSUME NEW bb \in Buffers
  PROVE  /\ tostring(bb) \in Seq(Bytes)
         /\ Len(tostring(bb)) = bb.writer - bb.reader
         /\ \A i \in 1..(bb.writer - bb.reader) : tostring(bb)[i] = bb.buffer[bb.reader + i]
<1>1. \A i \in (bb.reader + 1)..bb.writer : bb.buffer[i] \in Bytes
  BY BufferFields
<1>2. /\ SubSeq(bb.buffer, bb.reader + 1, bb.writer) \in Seq(Bytes)
      /\ Len(SubSeq(bb.buffer, bb.reader + 1, bb.writer)) =
           IF bb.reader + 1 <= bb.writer THEN bb.writer - (bb.reader + 1) + 1 ELSE 0
      /\ \A i \in 1..(bb.writer - (bb.reader + 1) + 1) :
           SubSeq(bb.buffer, bb.reader + 1, bb.writer)[i] = bb.buffer[bb.reader + 1 + i - 1]
  BY <1>1, BufferFields, SubSeqProperties, SMTT(30)
<1> QED BY <1>2, BufferFields DEF tostring

-----------------------------------------------------------------------------
(* Making room *)

LEMMA EnsureWritable ==
  ASSUME NEW bb \in Buffers, NEW len \in Nat
  PROVE  LET e == ensureWritableBytes(bb, len)
         IN  /\ e \in Buffers
             /\ writableBytes(e) >= len
             /\ tostring(e) = tostring(bb)
             /\ Len(e.buffer) = Len(bb.buffer) /\ e # bb => kCheapPrepend < bb.reader
<1> DEFINE e == ensureWritableBytes(bb, len)
           s == tostring(bb)
<1>0. /\ bb.buffer \in Seq(Bytes) /\ Len(bb.buffer) \in Nat
      /\ bb.reader \in Nat /\ bb.writer \in Nat
      /\ bb.reader <= bb.writer /\ bb.writer <= Len(bb.buffer)
      /\ kCheapPrepend \in Nat /\ kCheapPrepend <= Len(bb.buffer)
      /\ bb = [buffer |-> bb.buffer, reader |-> bb.reader, writer |-> bb.writer]
  BY BufferFields
<1>1. CASE writableBytes(bb) >= len
  <2>1. e = bb
    BY <1>0, <1>1 DEF ensureWritableBytes, writableBytes
  <2> QED BY <1>1, <2>1
<1>2. CASE /\ writableBytes(bb) < len
           /\ writableBytes(bb) + prependableBytes(bb) < len + kCheapPrepend
  <2> DEFINE n == bb.writer + len - Len(bb.buffer)
             v == bb.buffer \o Zeros(n)
  <2>1. n \in Nat /\ n > 0
    BY <1>0, <1>2 DEF writableBytes
  <2>2. e = [buffer |-> v, reader |-> bb.reader, writer |-> bb.writer]
    BY <1>0, <1>2 DEF ensureWritableBytes, makeSpace
  <2>3. v \in Seq(Bytes) /\ Len(v) = Len(bb.buffer) + n
        /\ \A i \in 1..Len(bb.buffer) : v[i] = bb.buffer[i]
    <3> HIDE DEF n
    <3> QED BY <1>0, <2>1, ZerosProperties, SMTT(30)
  <2>4. e \in Buffers
    <3> HIDE DEF e, v, n
    <3> QED BY <1>0, <2>1, <2>2, <2>3, IsBuffer
  <2>5. tostring(e) = s
    <3>1. /\ tostring(e) \in Seq(Bytes) /\ s \in Seq(Bytes) /\ Len(tostring(e)) = Len(s)
          /\ Len(s) = bb.writer - bb.reader
      BY <2>2, <2>4, Readable
    <3>2. e.buffer = v /\ e.reader = bb.reader /\ e.writer = bb.writer
      <4> HIDE DEF e, v
      <4> QED BY <2>2
    <3>4. \A i \in 1..Len(s) : tostring(e)[i] = v[bb.reader + i] /\ s[i] = bb.buffer[bb.reader + i]
      <4> HIDE DEF e, v
      <4> QED BY <3>1, <3>2, <2>4, Readable
    <3>3. \A i \in 1..Len(s) : bb.reader + i \in 1..Len(bb.buffer)
      BY <1>0, <3>1
    <3> HIDE DEF e, s, v
    <3> QED BY <3>1, <3>4, <3>3, <2>3, SeqEqual, SMTT(30)
  <2>6. writableBytes(e) = len
    BY <1>0, <2>1, <2>2, <2>3 DEF writableBytes
  <2>7. Len(e.buffer) # Len(bb.buffer)
    BY <1>0, <2>1, <2>2, <2>3
  <2> QED BY <2>4, <2>5, <2>6, <2>7
<1>3. CASE /\ writableBytes(bb) < len
           /\ ~ writableBytes(bb) + prependableBytes(bb) < len + kCheapPrepend
  <2> DEFINE v == Copied(bb.buffer, s, kCheapPrepend)
             n == bb.writer - bb.reader
  <2>1. s \in Seq(Bytes) /\ Len(s) = n /\ n \in Nat
    BY <1>0, Readable
  <2>2. e = [buffer |-> v, reader |-> kCheapPrepend, writer |-> kCheapPrepend + n]
    BY <1>0, <1>3 DEF ensureWritableBytes, makeSpace, readableBytes
  <2>3. /\ v \in Seq(Bytes) /\ Len(v) = Len(bb.buffer)
        /\ \A i \in 1..Len(v) : v[i] =
              IF kCheapPrepend < i /\ i <= kCheapPrepend + n THEN s[i - kCheapPrepend]
                                                             ELSE bb.buffer[i]
    <3>1. /\ v \in Seq(Bytes) /\ Len(v) = Len(bb.buffer)
          /\ \A i \in 1..Len(bb.buffer) : v[i] =
                IF kCheapPrepend < i /\ i <= kCheapPrepend + Len(s) THEN s[i - kCheapPrepend]
                                                                   ELSE bb.buffer[i]
      <4> HIDE DEF s
      <4> QED BY <1>0, <2>1, CopiedProperties
    <3> HIDE DEF s, n, v
    <3> QED BY <2>1, <3>1
  <2>4. kCheapPrepend < bb.reader /\ kCheapPrepend + n + len <= Len(v)
    BY <1>0, <1>3, <2>3 DEF writableBytes, prependableBytes
  <2>5. e \in Buffers
    BY <1>0, <2>1, <2>2, <2>3, <2>4, IsBuffer
  <2>6. tostring(e) = s
    <3>1. /\ tostring(e) \in Seq(Bytes) /\ Len(tostring(e)) = n
          /\ \A i \in 1..n : tostring(e)[i] = v[kCheapPrepend + i]
      BY <1>0, <2>1, <2>2, <2>5, Readable
    <3>2. \A i \in 1..n : v[kCheapPrepend + i] = s[i]
      <4> SUFFICES ASSUME NEW i \in 1..n PROVE v[kCheapPrepend + i] = s[i]
        OBVIOUS
      <4>1. kCheapPrepend + i \in 1..Len(v)
        BY <1>0, <2>1, <2>3, <2>4
      <4> HIDE DEF v, s, n
      <4> QED BY <1>0, <2>1, <2>3, <4>1, SMTT(30)
    <3> HIDE DEF e, s, v, n
    <3> QED BY <2>1, <3>1, <3>2, SeqEqual
  <2>7. writableBytes(e) >= len
    BY <1>0, <2>1, <2>2, <2>3, <2>4 DEF writableBytes
  <2> QED BY <2>4, <2>5, <2>6, <2>7
<1> QED BY <1>0, <1>1, <1>2, <1>3 DEF writableBytes, prependableBytes

-----------------------------------------------------------------------------
(* Putting bytes in *)

LEMMA BufferExcept ==
  ASSUME NEW bb \in Buffers, NEW v, NEW r, NEW w
  PROVE  /\ [bb EXCEPT !.buffer = v, !.writer = w] =
               [buffer |-> v, reader |-> bb.reader, writer |-> w]
         /\ [bb EXCEPT !.reader = r, !.buffer = v] =
               [buffer |-> v, reader |-> r, writer |-> bb.writer]
         /\ [bb EXCEPT !.reader = r, !.writer = w] =
               [buffer |-> bb.buffer, reader |-> r, writer |-> w]
<1>1. PICK x \in Seq(Bytes), y \in Nat, z \in Nat :
         bb = [buffer |-> x, reader |-> y, writer |-> z]
  BY BufferFields
<1> DEFINE c == [bb EXCEPT !.buffer = v]
           d == [bb EXCEPT !.reader = r]
<1>2. /\ c = [buffer |-> v, reader |-> y, writer |-> z]
      /\ d = [buffer |-> x, reader |-> r, writer |-> z]
      /\ bb.buffer = x /\ bb.reader = y /\ bb.writer = z
  BY <1>1
<1>3. /\ [bb EXCEPT !.buffer = v, !.writer = w] = [c EXCEPT !.writer = w]
      /\ [bb EXCEPT !.reader = r, !.buffer = v] = [d EXCEPT !.buffer = v]
      /\ [bb EXCEPT !.reader = r, !.writer = w] = [d EXCEPT !.writer = w]
  OBVIOUS
<1> HIDE DEF c, d
<1>4. /\ [c EXCEPT !.writer = w] = [buffer |-> v, reader |-> y, writer |-> w]
      /\ [d EXCEPT !.buffer = v] = [buffer |-> v, reader |-> r, writer |-> z]
      /\ [d EXCEPT !.writer = w] = [buffer |-> x, reader |-> r, writer |-> w]
  BY <1>2
<1> QED BY <1>2, <1>3, <1>4

\* std::copy to beginWrite() and hasWritten().
Written(bb, data) == [bb EXCEPT !.buffer = Copied(@, data, bb.writer), !.writer = @ + Len(data)]

LEMMA WrittenAtTheEnd ==
  ASSUME NEW bb \in Buffers, NEW data \in Seq(Bytes), Len(data) <= writableBytes(bb)
  PROVE  /\ Written(bb, data) \in Buffers
         /\ tostring(Written(bb, data)) = tostring(bb) \o data
<1>0. /\ bb.buffer \in Seq(Bytes) /\ Len(bb.buffer) \in Nat
      /\ bb.reader \in Nat /\ bb.writer \in Nat
      /\ bb.reader <= bb.writer /\ bb.writer <= Len(bb.buffer)
      /\ kCheapPrepend \in Nat /\ kCheapPrepend <= Len(bb.buffer)
      /\ bb = [buffer |-> bb.buffer, reader |-> bb.reader, writer |-> bb.writer]
  BY BufferFields
<1> DEFINE v == Copied(bb.buffer, data, bb.writer)
           e == Written(bb, data)
           s == tostring(bb)
           n == bb.writer - bb.reader
<1>1. e = [buffer |-> v, reader |-> bb.reader, writer |-> bb.writer + Len(data)]
  <2>1. e = [bb EXCEPT !.buffer = v, !.writer = bb.writer + Len(data)]
    BY DEF Written
  <2> HIDE DEF e, v
  <2> QED BY <2>1, BufferExcept, ZenonT(60)
<1>2. /\ v \in Seq(Bytes) /\ Len(v) = Len(bb.buffer)
      /\ \A i \in 1..Len(bb.buffer) : v[i] =
            IF bb.writer < i /\ i <= bb.writer + Len(data) THEN data[i - bb.writer]
                                                          ELSE bb.buffer[i]
  BY <1>0, CopiedProperties, ZenonT(60)
<1>3. Len(data) \in Nat /\ bb.writer + Len(data) <= Len(bb.buffer) /\ n \in Nat
  BY <1>0 DEF writableBytes
<1>4. e \in Buffers /\ e.buffer = v /\ e.reader = bb.reader /\ e.writer = bb.writer + Len(data)
  <2> HIDE DEF e, v
  <2> QED BY <1>0, <1>1, <1>2, <1>3, IsBuffer
<1>5. /\ tostring(e) \in Seq(Bytes) /\ Len(tostring(e)) = n + Len(data)
      /\ \A i \in 1..(n + Len(data)) : tostring(e)[i] = v[bb.reader + i]
  <2>1. e.writer - e.reader = n + Len(data)
    BY <1>0, <1>3, <1>4
  <2> HIDE DEF e, v, n
  <2> QED BY <1>4, <2>1, Readable
<1>6. /\ s \in Seq(Bytes) /\ Len(s) = n
      /\ \A i \in 1..n : s[i] = bb.buffer[bb.reader + i]
  BY Readable
<1>7. /\ s \o data \in Seq(Bytes) /\ Len(s \o data) = n + Len(data)
      /\ \A i \in 1..(n + Len(data)) : (s \o data)[i] = IF i <= n THEN s[i] ELSE data[i - n]
  <2> HIDE DEF s, n
  <2> QED BY <1>3, <1>6, ConcatProperties, ZenonT(60)
<1>8. \A i \in 1..(n + Len(data)) : v[bb.reader + i] = (s \o data)[i]
  <2> SUFFICES ASSUME NEW i \in 1..(n + Len(data))
               PROVE  v[bb.reader + i] = (s \o data)[i]
    OBVIOUS
  <2>1. bb.reader + i \in 1..Len(bb.buffer)
    BY <1>0, <1>3
  <2>2. CASE i <= n
    <3>1. bb.reader + i <= bb.writer /\ i \in 1..n
      BY <1>0, <2>2
    <3>2. v[bb.reader + i] = bb.buffer[bb.reader + i]
      <4> HIDE DEF v, n
      <4> QED BY <1>0, <1>2, <2>1, <3>1
    <3> HIDE DEF v, s, n
    <3> QED BY <1>6, <1>7, <2>2, <3>1, <3>2
  <2>3. CASE ~ i <= n
    <3>1. /\ bb.writer < bb.reader + i /\ bb.reader + i <= bb.writer + Len(data)
          /\ bb.reader + i - bb.writer = i - n
      BY <1>0, <1>3, <2>3
    <3>2. v[bb.reader + i] = data[i - n]
      <4> HIDE DEF v, n
      <4> QED BY <1>0, <1>2, <2>1, <3>1
    <3>3. ~ i <= n
      BY <1>3, <2>3
    <3> HIDE DEF v, s, n
    <3>4. (s \o data)[i] = IF i <= n THEN s[i] ELSE data[i - n]
      BY <1>7
    <3> QED BY <3>2, <3>3, <3>4
  <2> HIDE DEF v, s, n
  <2> QED BY <2>2, <2>3
<1>9. tostring(e) = s \o data
  <2> HIDE DEF e, s, n, v
  <2> QED BY <1>3, <1>5, <1>7, <1>8, SeqEqual
<1> QED BY <1>4, <1>9

LEMMA AppendPuts ==
  ASSUME NEW bb \in Buffers, NEW data \in Seq(Bytes)
  PROVE  /\ append(bb, data) \in Buffers
         /\ tostring(append(bb, data)) = tostring(bb) \o data
<1> DEFINE e == ensureWritableBytes(bb, Len(data))
<1>1. /\ e \in Buffers /\ writableBytes(e) >= Len(data) /\ tostring(e) = tostring(bb)
      /\ writableBytes(e) \in Int
  <2>1. e \in Buffers /\ writableBytes(e) >= Len(data) /\ tostring(e) = tostring(bb)
    BY EnsureWritable
  <2> HIDE DEF e
  <2> QED BY <2>1, BufferFields DEF writableBytes
<1>2. append(bb, data) = Written(e, data)
  BY DEF append, Written
<1> HIDE DEF e
<1>3. Len(data) <= writableBytes(e)
  BY <1>1
<1> QED BY <1>1, <1>2, <1>3, WrittenAtTheEnd

\* Both parts that readv fills, and the append of the second.
LEMMA ReadFdPuts ==
  ASSUME NEW bb \in Buffers, NEW data \in Seq(Bytes)
  PROVE  /\ readFd(bb, data) \in Buffers
         /\ tostring(readFd(bb, data)) = tostring(bb) \o data
<1> DEFINE w == writableBytes(bb)
           first == SubSeq(data, 1, w)
           second == SubSeq(data, w + 1, Len(data))
<1>0. w \in Nat /\ Len(data) \in Nat /\ bb.writer + w = Len(bb.buffer)
  BY BufferFields DEF writableBytes
<1>1. CASE Len(data) <= w
  <2>1. readFd(bb, data) = Written(bb, data)
    BY <1>1 DEF readFd, Written
  <2> QED BY <1>1, <2>1, WrittenAtTheEnd
<1>2. CASE ~ Len(data) <= w
  <2>1. /\ first \in Seq(Bytes) /\ Len(first) = w
        /\ second \in Seq(Bytes)
    <3> HIDE DEF w
    <3> QED BY <1>0, <1>2
  <2>2. data = first \o second
    <3> HIDE DEF w
    <3>1. SubSeq(data, 1, w) \o SubSeq(data, w + 1, Len(data)) = SubSeq(data, 1, Len(data))
      <4>1. 1 \in 1..Len(data)+1 /\ w \in (1-1)..Len(data) /\ Len(data) \in w..Len(data)
        BY <1>0, <1>2
      <4> QED BY <4>1, ConcatAdjacentSubSeq
    <3> QED BY <3>1, SubSeqFull
  <2>3. readFd(bb, data) = append(Written(bb, first), second)
    <3>1. readFd(bb, data) =
            append([bb EXCEPT !.buffer = Copied(@, first, bb.writer), !.writer = Len(bb.buffer)],
                   second)
      BY <1>2 DEF readFd
    <3>2. Written(bb, first) =
            [bb EXCEPT !.buffer = Copied(@, first, bb.writer), !.writer = bb.writer + Len(first)]
      BY DEF Written
    <3> HIDE DEF first, second, w
    <3> QED BY <1>0, <2>1, <3>1, <3>2
  <2>4. Written(bb, first) \in Buffers /\ tostring(Written(bb, first)) = tostring(bb) \o first
    <3> HIDE DEF first, second
    <3> QED BY <1>0, <2>1, WrittenAtTheEnd
  <2>5. /\ readFd(bb, data) \in Buffers
        /\ tostring(readFd(bb, data)) = (tostring(bb) \o first) \o second
    <3> HIDE DEF first, second
    <3> QED BY <2>1, <2>3, <2>4, AppendPuts
  <2>6. (tostring(bb) \o first) \o second = tostring(bb) \o data
    <3> HIDE DEF first, second, w
    <3>1. tostring(bb) \in Seq(Bytes)
      BY Readable
    <3>2. (tostring(bb) \o first) \o second = tostring(bb) \o (first \o second)
      BY <2>1, <3>1, ConcatAssociative, SMTT(30)
    <3> QED BY <2>2, <3>2
  <2> QED BY <2>5, <2>6
<1> QED BY <1>1, <1>2

LEMMA NewBufferEmpty == NewBuffer \in Buffers /\ tostring(NewBuffer) = <<>>
<1>1. /\ Zeros(kCheapPrepend + kInitialSize) \in Seq(Bytes)
      /\ Len(Zeros(kCheapPrepend + kInitialSize)) = kCheapPrepend + kInitialSize
      /\ kCheapPrepend \in Nat /\ kInitialSize \in Nat
  BY BufferConstants, ZerosProperties
<1>2. NewBuffer \in Buffers
  BY <1>1, IsBuffer DEF NewBuffer
<1>3. tostring(NewBuffer) = <<>>
  BY <1>1, SubSeqEmpty DEF NewBuffer, tostring
<1> QED BY <1>2, <1>3

LEMMA ShrinkKeeps ==
  ASSUME NEW bb \in Buffers, NEW reserve \in Nat
  PROVE  shrink(bb, reserve) \in Buffers /\ tostring(shrink(bb, reserve)) = tostring(bb)
<1> DEFINE e == ensureWritableBytes(NewBuffer, readableBytes(bb) + reserve)
<1>1. readableBytes(bb) + reserve \in Nat
  BY BufferFields DEF readableBytes
<1>2. e \in Buffers /\ tostring(e) = <<>>
  BY <1>1, NewBufferEmpty, EnsureWritable
<1>3. shrink(bb, reserve) = append(e, tostring(bb))
  BY DEF shrink
<1> HIDE DEF e
<1>4. /\ shrink(bb, reserve) \in Buffers
      /\ tostring(shrink(bb, reserve)) = <<>> \o tostring(bb)
  BY <1>2, <1>3, Readable, AppendPuts
<1> QED BY <1>4, Readable, ConcatEmptySeq

LEMMA PrependPuts ==
  ASSUME NEW bb \in Buffers, NEW data \in Seq(Bytes), Len(data) <= prependableBytes(bb)
  PROVE  /\ prepend(bb, data) \in Buffers
         /\ tostring(prepend(bb, data)) = data \o tostring(bb)
<1>0. /\ bb.buffer \in Seq(Bytes) /\ Len(bb.buffer) \in Nat
      /\ bb.reader \in Nat /\ bb.writer \in Nat
      /\ bb.reader <= bb.writer /\ bb.writer <= Len(bb.buffer)
      /\ kCheapPrepend \in Nat /\ kCheapPrepend <= Len(bb.buffer)
      /\ bb = [buffer |-> bb.buffer, reader |-> bb.reader, writer |-> bb.writer]
  BY BufferFields
<1> DEFINE r == bb.reader - Len(data)
           v == Copied(bb.buffer, data, r)
           e == prepend(bb, data)
           s == tostring(bb)
           n == bb.writer - bb.reader
<1>1. r \in Nat /\ Len(data) \in Nat /\ n \in Nat
  BY <1>0 DEF prependableBytes
<1>2. e = [buffer |-> v, reader |-> r, writer |-> bb.writer]
  <2>1. e = [bb EXCEPT !.reader = r, !.buffer = v]
    BY DEF prepend
  <2> HIDE DEF e, v, r
  <2> QED BY <2>1, BufferExcept
<1>3. /\ v \in Seq(Bytes) /\ Len(v) = Len(bb.buffer)
      /\ \A i \in 1..Len(bb.buffer) : v[i] =
            IF r < i /\ i <= r + Len(data) THEN data[i - r] ELSE bb.buffer[i]
  <2> HIDE DEF r
  <2> QED BY <1>0, <1>1, CopiedProperties, ZenonT(60)
<1>4. e \in Buffers /\ e.buffer = v /\ e.reader = r /\ e.writer = bb.writer
  <2>1. r <= bb.writer
    BY <1>0, <1>1
  <2> HIDE DEF e, v, r
  <2> QED BY <1>0, <1>1, <1>2, <1>3, <2>1, IsBuffer
<1>5. /\ tostring(e) \in Seq(Bytes) /\ Len(tostring(e)) = Len(data) + n
      /\ \A i \in 1..(Len(data) + n) : tostring(e)[i] = v[r + i]
  <2>1. e.writer - e.reader = Len(data) + n
    BY <1>0, <1>1, <1>4
  <2> HIDE DEF e, v, n, r
  <2> QED BY <1>4, <2>1, Readable
<1>6. /\ s \in Seq(Bytes) /\ Len(s) = n
      /\ \A i \in 1..n : s[i] = bb.buffer[bb.reader + i]
  BY Readable
<1>7. /\ data \o s \in Seq(Bytes) /\ Len(data \o s) = Len(data) + n
      /\ \A i \in 1..(Len(data) + n) :
            (data \o s)[i] = IF i <= Len(data) THEN data[i] ELSE s[i - Len(data)]
  <2> HIDE DEF s, n
  <2> QED BY <1>1, <1>6, ConcatProperties
<1>8. \A i \in 1..(Len(data) + n) : v[r + i] = (data \o s)[i]
  <2> SUFFICES ASSUME NEW i \in 1..(Len(data) + n) PROVE v[r + i] = (data \o s)[i]
    OBVIOUS
  <2>1. r + i \in 1..Len(bb.buffer)
    BY <1>0, <1>1, SMTT(30)
  <2>2. CASE i <= Len(data)
    <3>1. r < r + i /\ r + i <= r + Len(data) /\ (r + i) - r = i
      BY <1>1, <2>2
    <3>2. v[r + i] = data[i]
      <4> HIDE DEF v, r, n
      <4> QED BY <1>3, <2>1, <3>1
    <3> HIDE DEF v, s, n, r
    <3> QED BY <1>7, <2>2, <3>2
  <2>3. CASE ~ i <= Len(data)
    <3>1. /\ ~ r + i <= r + Len(data) /\ r + i = bb.reader + (i - Len(data))
          /\ i - Len(data) \in 1..n
      BY <1>0, <1>1, <2>3, SMTT(30)
    <3>2. v[r + i] = bb.buffer[r + i]
      <4> HIDE DEF v, r, n
      <4> QED BY <1>3, <2>1, <3>1
    <3>3. s[i - Len(data)] = bb.buffer[r + i]
      <4> HIDE DEF v, r, n, s
      <4> QED BY <1>6, <3>1
    <3> HIDE DEF v, s, n, r
    <3> QED BY <1>7, <2>3, <3>2, <3>3
  <2> QED BY <2>2, <2>3
<1>9. tostring(e) = data \o s
  <2> HIDE DEF e, s, n, v, r
  <2> QED BY <1>1, <1>5, <1>7, <1>8, SeqEqual
<1> QED BY <1>4, <1>9

-----------------------------------------------------------------------------
(* Taking bytes out *)

LEMMA RetrieveTakes ==
  ASSUME NEW bb \in Buffers, NEW len \in 0..readableBytes(bb)
  PROVE  /\ retrieve(bb, len) \in Buffers
         /\ tostring(retrieve(bb, len)) = Q!Rest(tostring(bb), len)
         /\ SubSeq(bb.buffer, bb.reader + 1, bb.reader + len) = Q!First(tostring(bb), len)
<1>0. /\ bb.buffer \in Seq(Bytes) /\ Len(bb.buffer) \in Nat
      /\ bb.reader \in Nat /\ bb.writer \in Nat
      /\ bb.reader <= bb.writer /\ bb.writer <= Len(bb.buffer)
      /\ kCheapPrepend \in Nat /\ kCheapPrepend <= Len(bb.buffer)
      /\ readableBytes(bb) = bb.writer - bb.reader
      /\ len \in Nat /\ len <= bb.writer - bb.reader
  BY BufferFields DEF readableBytes
<1> DEFINE s == tostring(bb)
           e == retrieve(bb, len)
<1>1. s \in Seq(Bytes) /\ Len(s) = bb.writer - bb.reader
  BY Readable
<1>4. SubSeq(bb.buffer, bb.reader + 1, bb.reader + len) = Q!First(s, len)
  BY <1>0, SliceOfSlice, SMTT(30) DEF tostring, Q!First
<1>2. CASE len < bb.writer - bb.reader
  <2>1. e = [bb EXCEPT !.reader = bb.reader + len]
    BY <1>0, <1>2 DEF retrieve
  <2>2. /\ e.buffer = bb.buffer /\ e.reader = bb.reader + len /\ e.writer = bb.writer
        /\ e \in Buffers
    <3> HIDE DEF e
    <3> QED BY <1>0, <1>2, <2>1 DEF Buffers
  <2>3. tostring(e) = SubSeq(bb.buffer, bb.reader + len + 1, bb.writer)
    <3> HIDE DEF e
    <3> QED BY <2>2 DEF tostring
  <2>4. Q!Rest(s, len) = SubSeq(s, len + 1, bb.writer - bb.reader)
    BY <1>1 DEF Q!Rest
  <2>5. SubSeq(s, len + 1, bb.writer - bb.reader) =
          SubSeq(bb.buffer, bb.reader + len + 1, bb.writer)
    <3>1. bb.writer - bb.reader \in Nat /\ bb.reader + (bb.writer - bb.reader) = bb.writer
      BY <1>0
    <3>2. SubSeq(SubSeq(bb.buffer, bb.reader + 1, bb.writer), len + 1, bb.writer - bb.reader) =
            SubSeq(bb.buffer, bb.reader + len + 1, bb.reader + (bb.writer - bb.reader))
      <4> DEFINE v == bb.buffer
                 r == bb.reader
                 w == bb.writer
                 j == bb.writer - bb.reader
      <4>1. /\ v \in Seq(Bytes) /\ r \in Nat /\ w \in Nat /\ r <= w /\ w <= Len(v)
            /\ j \in Nat /\ j <= w - r
        BY <1>0
      <4>2. len \in Nat
        BY <1>0
      <4> SUFFICES SubSeq(SubSeq(v, r + 1, w), len + 1, j) = SubSeq(v, r + len + 1, r + j)
        OBVIOUS
      <4> HIDE DEF v, r, w, j
      <4> QED BY <4>1, <4>2, SliceOfSlice
    <3> QED BY <3>1, <3>2 DEF tostring
  <2> QED BY <1>4, <2>2, <2>3, <2>4, <2>5
<1>3. CASE len = bb.writer - bb.reader
  <2>1. e = [bb EXCEPT !.reader = kCheapPrepend, !.writer = kCheapPrepend]
    BY <1>0, <1>3 DEF retrieve, retrieveAll
  <2>2. /\ e.buffer = bb.buffer /\ e.reader = kCheapPrepend /\ e.writer = kCheapPrepend
        /\ e \in Buffers
    <3>1. e = [buffer |-> bb.buffer, reader |-> kCheapPrepend, writer |-> kCheapPrepend]
      BY <2>1, BufferExcept
    <3> HIDE DEF e
    <3> QED BY <1>0, <3>1, IsBuffer
  <2>3. tostring(e) = <<>>
    <3> HIDE DEF e
    <3> QED BY <1>0, <2>2, SubSeqEmpty DEF tostring
  <2>4. Q!Rest(s, len) = <<>>
    <3> HIDE DEF s
    <3> QED BY <1>0, <1>1, <1>3, SubSeqEmpty DEF Q!Rest
  <2> QED BY <1>4, <2>2, <2>3, <2>4
<1> QED BY <1>0, <1>2, <1>3, SMTT(30)

\* An offset that findCRLF() accepts is one byte before the end of a line.
LEMMA LineEnds ==
  ASSUME NEW bb \in Buffers
  PROVE  \A i \in Int :
           i \in findCRLF(bb) <=> /\ i + 1 \in 1..Len(tostring(bb))
                                  /\ Q!EndsLine(tostring(bb), i + 1)
<1> DEFINE s == tostring(bb)
           n == bb.writer - bb.reader
<1>1. /\ Len(s) = n /\ n \in Nat /\ readableBytes(bb) = n
      /\ \A i \in 1..n : s[i] = bb.buffer[bb.reader + i]
  BY BufferFields, Readable DEF readableBytes
<1> SUFFICES ASSUME NEW i \in Int
             PROVE  i \in findCRLF(bb) <=> i + 1 \in 1..n /\ Q!EndsLine(s, i + 1)
  BY <1>1
<1>2. i \in findCRLF(bb) <=> /\ i \in 1..(n - 1) /\ bb.buffer[bb.reader + i] = CR
                             /\ bb.buffer[bb.reader + i + 1] = LF
  BY <1>1 DEF findCRLF
<1>3. Q!EndsLine(s, i + 1) <=> i + 1 > 1 /\ s[i] = CR /\ s[i + 1] = LF
  BY DEF Q!EndsLine
<1>4. ASSUME i \in 1..(n - 1)
      PROVE  /\ s[i] = bb.buffer[bb.reader + i] /\ s[i + 1] = bb.buffer[bb.reader + i + 1]
             /\ i + 1 \in 1..n
  <2>1. i \in 1..n /\ i + 1 \in 1..n /\ bb.reader + (i + 1) = bb.reader + i + 1
    BY <1>1, <1>4, BufferFields
  <2> HIDE DEF s, n
  <2> QED BY <1>1, <2>1
<1>5. i + 1 \in 1..n /\ i + 1 > 1 => i \in 1..(n - 1)
  BY <1>1
<1>6. i \in 1..(n - 1) => i + 1 > 1
  BY <1>1
<1> HIDE DEF s, n
<1> QED BY <1>2, <1>3, <1>4, <1>5, <1>6

-----------------------------------------------------------------------------
(* The invariant and the queue *)

IsABuffer == b \in Buffers

LEMMA BuffersOnly == Spec => []IsABuffer
<1> USE DEF IsABuffer
<1>1. Init => IsABuffer
  BY NewBufferEmpty DEF Init
<1>2. IsABuffer /\ [Next]_<<b, call>> => IsABuffer'
  <2> SUFFICES ASSUME b \in Buffers, [Next]_<<b, call>> PROVE b' \in Buffers
    OBVIOUS
  <2>1. CASE Append_
    BY <2>1, DataIsSeq, AppendPuts DEF Append_, Becomes
  <2>2. CASE EnsureWritableBytes
    BY <2>2, BufferConstants, EnsureWritable DEF EnsureWritableBytes, Becomes
  <2>3. CASE ReadFd
    BY <2>3, DataIsSeq, ReadFdPuts DEF ReadFd, Becomes
  <2>4. CASE Shrink
    BY <2>4, BufferConstants, ShrinkKeeps DEF Shrink, Becomes
  <2>5. CASE Prepend
    BY <2>5, DataIsSeq, PrependPuts DEF Prepend, Becomes
  <2>6. CASE Retrieve
    BY <2>6, RetrieveTakes DEF Retrieve, Gives
  <2>7. CASE RetrieveLine
    <3>1. ASSUME NEW i \in findCRLF(b), Gives("line", i + 1)
          PROVE  b' \in Buffers
      <4>1. i \in 1..(readableBytes(b) - 1) /\ readableBytes(b) \in Int
        BY BufferFields DEF findCRLF, readableBytes
      <4>2. i + 1 \in 0..readableBytes(b)
        BY <4>1
      <4> QED BY <3>1, <4>2, RetrieveTakes DEF Gives
    <3> QED BY <2>7, <3>1 DEF RetrieveLine
  <2>8. CASE UNCHANGED <<b, call>>
    BY <2>8
  <2> QED BY <2>1, <2>2, <2>3, <2>4, <2>5, <2>6, <2>7, <2>8 DEF Next
<1> QED BY <1>1, <1>2, PTL DEF Spec

\* The asserts of ensureWritableBytes() and makeSpace() hold in every state for any
\* length, whatever was called before: room is made by what is missing, or by a move
\* that only happens when it suffices.
THEOREM RoomIsMade == Spec => []MakesSpace
<1>1. IsABuffer => MakesSpace
  <2> SUFFICES ASSUME b \in Buffers PROVE MakesSpace
    BY DEF IsABuffer
  <2>1. 0 <= b.reader /\ b.reader <= b.writer /\ b.writer <= Len(b.buffer)
    BY BufferFields
  <2>2. \A len \in 0..MaxData : len \in Nat
    BY BufferConstants
  <2> QED BY <2>1, <2>2, EnsureWritable DEF MakesSpace
<1> QED BY <1>1, BuffersOnly, PTL

\* Every call of the code is one step of a queue of bytes, or of nothing.
THEOREM BufferIsQueue == Spec => ImplementsByteQueue
<1>1. Init => Q!Init
  BY NewBufferEmpty DEF Init, Q!Init
<1>2. IsABuffer /\ [Next]_<<b, call>> => [Q!Next]_(Q!vars)
  <2> SUFFICES ASSUME b \in Buffers, [Next]_<<b, call>>
               PROVE  [Q!Next]_(Q!vars)
    BY DEF IsABuffer
  <2> USE DEF Q!Next
  <2>0. \A bytes : (call' = [name |-> "put", bytes |-> bytes] =>
                      call'.name = "put" /\ call'.bytes = bytes)
                /\ (call' = [name |-> "prepend", bytes |-> bytes] =>
                      call'.name = "prepend" /\ call'.bytes = bytes)
    OBVIOUS
  <2>1. CASE Append_
    <3>1. PICK data \in Data : b' = append(b, data) /\ call' = [name |-> "put", bytes |-> data]
      BY <2>1 DEF Append_, Becomes, Called
    <3>2. tostring(b)' = tostring(b')
      BY DEF tostring
    <3> QED BY <2>0, <3>1, <3>2, DataIsSeq, AppendPuts DEF Q!Put
  <2>2. CASE EnsureWritableBytes
    BY <2>2, BufferConstants, EnsureWritable DEF EnsureWritableBytes, Becomes, Called, Q!Resize
  <2>3. CASE ReadFd
    BY <2>0, <2>3, DataIsSeq, ReadFdPuts DEF ReadFd, Becomes, Called, Q!Put
  <2>4. CASE Shrink
    BY <2>4, BufferConstants, ShrinkKeeps DEF Shrink, Becomes, Called, Q!Resize
  <2>5. CASE Prepend
    BY <2>0, <2>5, DataIsSeq, PrependPuts DEF Prepend, Becomes, Called, Q!PutInFront
  <2>6. CASE Retrieve
    BY <2>6, Readable, RetrieveTakes, ZenonT(60) DEF Retrieve, Gives, Called, readableBytes, Q!Take, Q!Give
  <2>7. CASE RetrieveLine
    <3> DEFINE s == tostring(b)
    <3>1. Len(s) = readableBytes(b) /\ readableBytes(b) \in Nat
      BY BufferFields, Readable DEF readableBytes
    <3>2. ASSUME NEW i \in findCRLF(b), \A j \in findCRLF(b) : i <= j, Gives("line", i + 1)
          PROVE  Q!TakeLine
      <4>1. i \in Int /\ i + 1 \in 1..Len(s) /\ Q!EndsLine(s, i + 1)
        <5>1. i \in Int
          BY DEF findCRLF
        <5> QED BY <5>1, LineEnds
      <4>2. \A m \in 1..i : ~ Q!EndsLine(s, m)
        <5> SUFFICES ASSUME NEW m \in 1..i, Q!EndsLine(s, m) PROVE FALSE
          OBVIOUS
        <5>1. m - 1 \in Int /\ (m - 1) + 1 = m /\ m \in 1..Len(s) /\ ~ i <= m - 1
          BY <3>1, <4>1
        <5>2. m - 1 \in findCRLF(b)
          <6> HIDE DEF s
          <6>1. (m - 1) + 1 \in 1..Len(s) /\ Q!EndsLine(s, (m - 1) + 1)
            BY <5>1
          <6> QED BY <5>1, <6>1, LineEnds DEF s
        <5> QED BY <3>2, <5>1, <5>2
      <4>3. Q!FirstLineEnd(s, i + 1)
        <5>1. 1..((i + 1) - 1) = 1..i
          BY <4>1
        <5> HIDE DEF s
        <5> QED BY <4>1, <4>2, <5>1 DEF Q!FirstLineEnd
      <4>4. i + 1 \in 0..readableBytes(b) /\ i + 1 \in 1..Len(s)
        BY <3>1, <4>1
      <4>5. Q!Give("line", i + 1)
        BY <3>2, <4>4, RetrieveTakes DEF Gives, Called, Q!Give
      <4> QED BY <4>3, <4>4, <4>5 DEF Q!TakeLine
    <3>3. ASSUME findCRLF(b) = {}, Called("line", <<>>), UNCHANGED b
          PROVE  Q!NoLine
      <4>1. \A n \in 1..Len(s) : ~ Q!EndsLine(s, n)
        <5> SUFFICES ASSUME NEW n \in 1..Len(s), Q!EndsLine(s, n) PROVE FALSE
          OBVIOUS
        <5>1. n - 1 \in Int /\ (n - 1) + 1 = n
          BY <3>1
        <5>2. (n - 1) + 1 \in 1..Len(s) /\ Q!EndsLine(s, (n - 1) + 1)
          BY <5>1
        <5> QED BY <3>3, <5>1, <5>2, LineEnds
      <4>2. Q!First(s, 0) = <<>> /\ Q!Rest(s, 0) = s
        <5> HIDE DEF s
        <5> QED BY Readable, SubSeqEmpty, SubSeqFull DEF Q!First, Q!Rest, s
      <4>3. Q!Give("line", 0)
        BY <3>3, <4>2 DEF Called, Q!Give, tostring
      <4> QED BY <4>1, <4>3 DEF Q!NoLine
    <3> QED BY <2>7, <3>2, <3>3 DEF RetrieveLine
  <2>8. CASE UNCHANGED <<b, call>>
    BY <2>8 DEF Q!vars, tostring
  <2> QED BY <2>1, <2>2, <2>3, <2>4, <2>5, <2>6, <2>7, <2>8 DEF Next
<1> QED BY <1>1, <1>2, BuffersOnly, PTL DEF Spec, ImplementsByteQueue, Q!Spec

-----------------------------------------------------------------------------
(* The heap *)

HeapEntry == [exp : Expirations, timer : Timers]
HeapInv == heap \in Seq(HeapEntry) /\ IsHeap(heap) /\ Distinct(heap)

LEMMA HeapStepKeeps == ASSUME HeapInv, HeapStep PROVE HeapInv'
<1>1. Timed(HeapEntry)
  BY ExpirationsAreTimes DEF Timed, HeapEntry
<1>2. heap \in Seq(HeapEntry) /\ IsHeap(heap) /\ Distinct(heap)
  BY DEF HeapInv
<1>3. ASSUME NEW t \in Timers, NEW x \in Expirations, Add(t, x) PROVE HeapInv'
  <2> DEFINE e == [exp |-> x, timer |-> t]
  <2>1. e \in HeapEntry /\ e.timer = t
    BY DEF HeapEntry
  <2>2. heap' = Insert(heap, e) /\ \A p \in DOMAIN heap : heap[p].timer # t
    BY <1>3 DEF Add, Held
  <2> HIDE DEF e
  <2>3. Insert(heap, e) \in Seq(HeapEntry) /\ IsHeap(Insert(heap, e))
    BY <1>1, <1>2, <2>1, InsertOrders
  <2>4. Distinct(Insert(heap, e))
    BY <1>1, <1>2, <2>1, <2>2, InsertOrders
  <2> QED BY <2>2, <2>3, <2>4 DEF HeapInv
<1>4. ASSUME NEW p \in DOMAIN heap, Take(p) PROVE HeapInv'
  <2>1. p \in 1..Len(heap)
    BY <1>2
  <2>2. Remove(heap, p) \in Seq(HeapEntry) /\ IsHeap(Remove(heap, p)) /\ Distinct(Remove(heap, p))
    BY <1>1, <1>2, <2>1, RemoveOrders
  <2> QED BY <1>4, <2>2 DEF Take, HeapInv
<1> QED BY <1>3, <1>4 DEF HeapStep

\* insert() and removeTimer() leave the earliest timer at heap_[0] and every entry in
\* the heap once, whatever expirations are inserted, equal ones included, and wherever
\* an entry is removed: UpHeap or DownHeap of the entry that fills the hole is enough.
THEOREM HeapStaysOrdered == SpecOne => []HeapOrdered
<1>1. InitOne => HeapInv
  BY DEF InitOne, HeapInv, IsHeap, Distinct
<1>2. HeapInv /\ [NextOne]_<<b, call, heap, driven>> => HeapInv'
  BY HeapStepKeeps DEF NextOne, HeapInv
<1>3. HeapInv => HeapOrdered
  BY DEF HeapInv, HeapOrdered, Distinct
<1> QED BY <1>1, <1>2, <1>3, PTL DEF SpecOne
=============================================================================
