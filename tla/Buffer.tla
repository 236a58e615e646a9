------------------------------- MODULE Buffer -------------------------------
(***************************************************************************)
(* lotus::net::Buffer: a vector with a reader and a writer index.  The     *)
(* vector grows by what is missing, or its readable bytes move back to     *)
(* kCheapPrepend when that makes room; bytes left behind stay in it.       *)
(*                                                                         *)
(* A buffer is a record; index i of the vector is position i+1 of the      *)
(* sequence.  The functions for integers are append, prepend and retrieve  *)
(* of their two, four or one bytes, in network order.                      *)
(***************************************************************************)
EXTENDS Naturals, Sequences

CONSTANTS Bytes, CR, LF, Zero,      \* the bytes told apart; a vector is filled with Zero
          kCheapPrepend, kInitialSize,
          ExtraBuf,                 \* size of extrabuf in readFd
          MaxSize,                  \* bound: size of the vector
          MaxData                   \* bound: bytes put or asked for in one call

ASSUME BufferConstants == /\ {CR, LF, Zero} \subseteq Bytes /\ CR # LF
                          /\ kCheapPrepend \in Nat /\ kInitialSize \in Nat
                          /\ ExtraBuf \in Nat /\ MaxSize \in Nat /\ MaxData \in Nat

VARIABLES b,            \* buffer_, readerIndex_, writerIndex_
          call          \* the last call, and the bytes it was given or gave

Data == UNION {[1..n -> Bytes] : n \in 0..MaxData}
Zeros(n) == [i \in 1..n |-> Zero]

readableBytes(bb) == bb.writer - bb.reader
writableBytes(bb) == Len(bb.buffer) - bb.writer
prependableBytes(bb) == bb.reader
tostring(bb) == SubSeq(bb.buffer, bb.reader + 1, bb.writer)

\* std::copy of data to index at.
Copied(v, data, at) ==
  [i \in DOMAIN v |-> IF i \in (at + 1)..(at + Len(data)) THEN data[i - at] ELSE v[i]]

NewBuffer == [buffer |-> Zeros(kCheapPrepend + kInitialSize),
              reader |-> kCheapPrepend, writer |-> kCheapPrepend]

-----------------------------------------------------------------------------
\* Mutant: the space before the reader index counts without kCheapPrepend.
makeSpaceTight(bb, len) ==
  IF writableBytes(bb) + prependableBytes(bb) < len
    THEN [bb EXCEPT !.buffer = @ \o Zeros(bb.writer + len - Len(@))]
    ELSE [buffer |-> Copied(bb.buffer, tostring(bb), kCheapPrepend),
          reader |-> kCheapPrepend, writer |-> kCheapPrepend + readableBytes(bb)]

makeSpace(bb, len) ==
  IF writableBytes(bb) + prependableBytes(bb) < len + kCheapPrepend
    THEN [bb EXCEPT !.buffer = @ \o Zeros(bb.writer + len - Len(@))]
    ELSE [buffer |-> Copied(bb.buffer, tostring(bb), kCheapPrepend),
          reader |-> kCheapPrepend, writer |-> kCheapPrepend + readableBytes(bb)]

ensureWritableBytes(bb, len) == IF writableBytes(bb) < len THEN makeSpace(bb, len) ELSE bb

append(bb, data) ==
  LET e == ensureWritableBytes(bb, Len(data))
  IN  [e EXCEPT !.buffer = Copied(@, data, e.writer), !.writer = @ + Len(data)]

retrieveAll(bb) == [bb EXCEPT !.reader = kCheapPrepend, !.writer = kCheapPrepend]

retrieve(bb, len) == IF len < readableBytes(bb) THEN [bb EXCEPT !.reader = @ + len]
                                                ELSE retrieveAll(bb)

prepend(bb, data) == [bb EXCEPT !.reader = @ - Len(data),
                                !.buffer = Copied(@, data, bb.reader - Len(data))]

\* What is not readable is left behind in the buffer that is swapped out.
shrink(bb, reserve) ==
  append(ensureWritableBytes(NewBuffer, readableBytes(bb) + reserve), tostring(bb))

\* Mutant: what readv put into extrabuf is appended without the first part.
readFdLost(bb, data) ==
  LET w == writableBytes(bb)
  IN  IF Len(data) <= w
        THEN [bb EXCEPT !.buffer = Copied(@, data, bb.writer), !.writer = @ + Len(data)]
        ELSE append(bb, SubSeq(data, w + 1, Len(data)))

\* readv fills the writable part first, then extrabuf.
readFd(bb, data) ==
  LET w == writableBytes(bb)
  IN  IF Len(data) <= w
        THEN [bb EXCEPT !.buffer = Copied(@, data, bb.writer), !.writer = @ + Len(data)]
        ELSE append([bb EXCEPT !.buffer = Copied(@, SubSeq(data, 1, w), bb.writer),
                               !.writer = Len(bb.buffer)],
                    SubSeq(data, w + 1, Len(data)))

\* The offsets from the reader index, of which findCRLF returns the first.
findCRLF(bb) ==
  {i \in 1..(readableBytes(bb) - 1) :
      bb.buffer[bb.reader + i] = CR /\ bb.buffer[bb.reader + i + 1] = LF}

-----------------------------------------------------------------------------
Called(name, bytes) == call' = [name |-> name, bytes |-> bytes]

Init == b = NewBuffer /\ call = [name |-> "none", bytes |-> <<>>]

Becomes(bb) == Len(bb.buffer) <= MaxSize /\ b' = bb

Append_ == \E data \in Data : Becomes(append(b, data)) /\ Called("put", data)

ReadFd == \E data \in Data : /\ Len(data) <= writableBytes(b) + ExtraBuf
                             /\ Becomes(readFd(b, data)) /\ Called("put", data)

\* assert(len <= prependableBytes())
Prepend == \E data \in Data : /\ Len(data) <= prependableBytes(b)
                              /\ Becomes(prepend(b, data)) /\ Called("prepend", data)

EnsureWritableBytes == \E len \in 0..MaxData :
                          Becomes(ensureWritableBytes(b, len)) /\ Called("resize", <<>>)

Shrink == \E reserve \in 0..MaxData : Becomes(shrink(b, reserve)) /\ Called("resize", <<>>)

Gives(name, len) == /\ Called(name, SubSeq(b.buffer, b.reader + 1, b.reader + len))
                    /\ b' = retrieve(b, len)

\* retrieveAsString, retrieveAllAsString, and peek before retrieve or read.
\* assert(len <= readableBytes())
Retrieve == \E len \in 0..readableBytes(b) : Gives("take", len)

\* The callers of findCRLF: retrieveUntil(crlf + 2), or nothing if it is NULL.
RetrieveLine == \/ \E i \in findCRLF(b) : (\A j \in findCRLF(b) : i <= j) /\ Gives("line", i + 1)
                \/ findCRLF(b) = {} /\ Called("line", <<>>) /\ UNCHANGED b

Next == Append_ \/ EnsureWritableBytes \/ ReadFd \/ Shrink \/ Prepend \/ Retrieve \/ RetrieveLine

Spec == Init /\ [][Next]_<<b, call>>

-----------------------------------------------------------------------------
\* The indexes keep their order and the asserts of ensureWritableBytes and makeSpace
\* hold for any len: when readable bytes move back there is room behind them.
MakesSpace == /\ 0 <= b.reader /\ b.reader <= b.writer /\ b.writer <= Len(b.buffer)
              /\ \A len \in 0..MaxData :
                    LET e == ensureWritableBytes(b, len)
                    IN  /\ writableBytes(e) >= len
                        /\ Len(e.buffer) = Len(b.buffer) /\ e # b => kCheapPrepend < b.reader

\* Growing, moving, reading into two places, prepending and shrinking never lose,
\* duplicate or reorder a byte, and a line that is found is the first one received
\* in full: the buffer implements a queue of bytes.
Q == INSTANCE ByteQueue WITH content <- tostring(b)
ImplementsByteQueue == Q!Spec
=============================================================================
