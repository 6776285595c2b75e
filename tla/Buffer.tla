------------------------------- MODULE Buffer -------------------------------
(***************************************************************************)
(* Buffer: a vector of bytes with a reader and a writer index.  What lies  *)
(* before the reader index can be prepended to, what lies between the two  *)
(* is readable, what lies after the writer index is writable:              *)
(*                                                                         *)
(*      0  <=  readerIndex_  <=  writerIndex_  <=  buffer_.size()          *)
(*                                                                         *)
(* The member functions are operators from a buffer to a buffer, the       *)
(* functions that assert something have an operator for the assertion.     *)
(***************************************************************************)
EXTENDS Naturals, Sequences

CONSTANTS
  kCheapPrepend,  \* the bytes kept free before the content (8)
  kInitialSize,   \* the bytes a new buffer has room for (1024)
  ExtraSize       \* the bytes of readFd's extrabuf (65536)

ASSUME BufferAssumption ==
  /\ kCheapPrepend \in Nat
  /\ kInitialSize \in Nat
  /\ ExtraSize \in Nat

Zeros(n) == [i \in 1..n |-> 0]

\* std::copy of d to the offset at; it writes within the vector.
Copy(vector, at, d) ==
  SubSeq(vector, 1, at) \o d \o SubSeq(vector, at + Len(d) + 1, Len(vector))

NewBuffer ==
  [buffer_ |-> Zeros(kCheapPrepend + kInitialSize),
   readerIndex_ |-> kCheapPrepend, writerIndex_ |-> kCheapPrepend]

readableBytes(b) == b.writerIndex_ - b.readerIndex_
writableBytes(b) == Len(b.buffer_) - b.writerIndex_
prependableBytes(b) == b.readerIndex_

\* The bytes from peek() to beginWrite().
Content(b) == SubSeq(b.buffer_, b.readerIndex_ + 1, b.writerIndex_)

\* The indexes are where every member function expects them.
IndexesInOrder(b) ==
  /\ b.readerIndex_ <= b.writerIndex_
  /\ b.writerIndex_ <= Len(b.buffer_)

retrieveAll(b) ==
  [b EXCEPT !.readerIndex_ = kCheapPrepend, !.writerIndex_ = kCheapPrepend]

\* The caller asserts len <= readableBytes().
retrieve(b, len) ==
  IF len < readableBytes(b) THEN [b EXCEPT !.readerIndex_ = @ + len] ELSE retrieveAll(b)

\* Mutant of Movable: the bytes before the content are used up.
MovableWhole(b, len) == writableBytes(b) + prependableBytes(b) >= len

\* makeSpace moves the content to the front: the vector is large enough.
Movable(b, len) ==
  writableBytes(b) + prependableBytes(b) >= len + kCheapPrepend

\* Mutant of makeSpace: the writer index is left behind.
makeSpaceStale(b, len) ==
  IF ~Movable(b, len)
  THEN [b EXCEPT !.buffer_ = @ \o Zeros(b.writerIndex_ + len - Len(@))]
  ELSE [b EXCEPT !.buffer_ = Copy(@, kCheapPrepend, Content(b)),
                 !.readerIndex_ = kCheapPrepend]

makeSpace(b, len) ==
  IF ~Movable(b, len)
  THEN [b EXCEPT !.buffer_ = @ \o Zeros(b.writerIndex_ + len - Len(@))]
  ELSE [buffer_ |-> Copy(b.buffer_, kCheapPrepend, Content(b)),
        readerIndex_ |-> kCheapPrepend,
        writerIndex_ |-> kCheapPrepend + readableBytes(b)]

\* The assertion of makeSpace, wherever append or readFd may call it.
MakeSpaceAsserts(b, len) ==
  writableBytes(b) < len /\ Movable(b, len) => kCheapPrepend < b.readerIndex_

ensureWritableBytes(b, len) ==
  IF writableBytes(b) < len THEN makeSpace(b, len) ELSE b

\* beginWrite, hasWritten
append(b, d) ==
  LET roomy == ensureWritableBytes(b, Len(d))
  IN  [roomy EXCEPT !.buffer_ = Copy(@, roomy.writerIndex_, d),
                    !.writerIndex_ = @ + Len(d)]

\* The caller asserts Len(d) <= prependableBytes().
prepend(b, d) ==
  LET reader == b.readerIndex_ - Len(d)
  IN  [b EXCEPT !.buffer_ = Copy(@, reader, d), !.readerIndex_ = reader]

\* readv put the bytes d, at most writableBytes() + ExtraSize, into the vector and,
\* when they are too many for it, into extrabuf.
readFd(b, d) ==
  LET writable == writableBytes(b)
      direct == IF Len(d) <= writable THEN d ELSE SubSeq(d, 1, writable)
      filled == [b EXCEPT !.buffer_ = Copy(@, b.writerIndex_, direct),
                          !.writerIndex_ = @ + Len(direct)]
  IN  IF Len(d) <= writable THEN filled
      ELSE append(filled, SubSeq(d, writable + 1, Len(d)))

\* The content moves to kCheapPrepend, but the indexes stay where they are.
shrink(b, reserve) ==
  [b EXCEPT !.buffer_ = Copy(Zeros(kCheapPrepend + readableBytes(b) + reserve),
                             kCheapPrepend, Content(b))]
=============================================================================
