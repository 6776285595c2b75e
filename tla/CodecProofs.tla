---------------------------- MODULE CodecProofs -----------------------------
(***************************************************************************)
(* Proofs about Buffer and Codec for any byte base, header length, message *)
(* set and buffer sizes: the buffer implements the byte stream, its        *)
(* indexes stay in order and makeSpace's assertion holds, and the codec    *)
(* delivers the messages sent, in order.                                   *)
(*                                                                         *)
(* The first part says what each member function of Buffer does to the     *)
(* content.  The second shows that a header is read back as the length it  *)
(* was written for, or as a negative number: Power and Unsigned recur over *)
(* the digits, and Induction, over the set of the numbers that have a      *)
(* property, reaches them.  In the third, FramesInOrder needs Framed: the  *)
(* bytes taken, readable and in flight are the frames of what was sent,    *)
(* cut where CutAt says, and the codec has taken whole frames.  A read     *)
(* leaves these bytes as they are, so the next header is that of the next  *)
(* message, however the stream was cut into reads.                         *)
(***************************************************************************)
EXTENDS Codec, SequenceTheorems, FiniteSetTheorems, TLAPS

-----------------------------------------------------------------------------
(* Buffer.                                                                 *)

Buffers == [buffer_ : Seq(Byte), readerIndex_ : Nat, writerIndex_ : Nat]

\* A buffer between two calls.
Sound(b) == b \in Buffers /\ IndexesInOrder(b) /\ kCheapPrepend <= b.readerIndex_

\* Two byte strings are equal when they agree in every place.
LEMMA SameBytes ==
  ASSUME NEW s \in Seq(Byte), NEW t \in Seq(Byte), Len(s) = Len(t),
         \A i \in 1..Len(s) : s[i] = t[i]
  PROVE  s = t
OBVIOUS

\* Bytes one after the other.
LEMMA Joined ==
  ASSUME NEW s \in Seq(Byte), NEW t \in Seq(Byte)
  PROVE  /\ s \o t \in Seq(Byte) /\ Len(s \o t) = Len(s) + Len(t)
         /\ \A i \in 1..Len(s) + Len(t) :
              (s \o t)[i] = IF i <= Len(s) THEN s[i] ELSE t[i - Len(s)]
OBVIOUS

\* A part of a byte string, possibly none of it.
LEMMA Part ==
  ASSUME NEW s \in Seq(Byte), NEW m \in Nat, NEW n \in Nat, m <= n, n <= Len(s)
  PROVE  /\ SubSeq(s, m + 1, n) \in Seq(Byte) /\ Len(SubSeq(s, m + 1, n)) = n - m
         /\ \A i \in 1..n - m : SubSeq(s, m + 1, n)[i] = s[m + i]
OBVIOUS

\* Cut anywhere and joined again.
LEMMA PartsJoined ==
  ASSUME NEW s \in Seq(Byte), NEW n \in Nat, n <= Len(s)
  PROVE  SubSeq(s, 1, n) \o SubSeq(s, n + 1, Len(s)) = s
<1>1. 1 \in 1..Len(s) + 1 /\ n \in 1 - 1..Len(s) /\ Len(s) \in n..Len(s)
  OBVIOUS
<1>2. SubSeq(s, 1, n) \o SubSeq(s, n + 1, Len(s)) = SubSeq(s, 1, Len(s))
  BY <1>1, ConcatAdjacentSubSeq
<1> QED
  BY <1>2, SubSeqFull

\* Three strings can be joined either way.
LEMMA JoinedTwice ==
  ASSUME NEW s \in Seq(Byte), NEW t \in Seq(Byte), NEW u \in Seq(Byte)
  PROVE  (s \o t) \o u = s \o (t \o u)
BY SMTT(60)

\* Copy overwrites the bytes from the offset at.
LEMMA CopyBytes ==
  ASSUME NEW v \in Seq(Byte), NEW at \in Nat, NEW d \in Seq(Byte), at + Len(d) <= Len(v)
  PROVE  /\ Copy(v, at, d) \in Seq(Byte) /\ Len(Copy(v, at, d)) = Len(v)
         /\ \A i \in 1..Len(v) :
              Copy(v, at, d)[i] = IF at < i /\ i <= at + Len(d) THEN d[i - at] ELSE v[i]
<1> DEFINE front == SubSeq(v, 1, at)
           back == SubSeq(v, at + Len(d) + 1, Len(v))
<1>1. /\ front \in Seq(Byte) /\ Len(front) = at
      /\ \A i \in 1..at : front[i] = v[i]
  OBVIOUS
<1>2. /\ back \in Seq(Byte) /\ Len(back) = Len(v) - (at + Len(d))
      /\ \A i \in 1..Len(v) - (at + Len(d)) : back[i] = v[at + Len(d) + i]
  BY Part
<1> HIDE DEF front, back
<1> DEFINE fd == front \o d
           all == fd \o back
<1>3. /\ fd \in Seq(Byte) /\ Len(fd) = Len(front) + Len(d)
      /\ \A i \in 1..Len(front) + Len(d) :
           fd[i] = IF i <= Len(front) THEN front[i] ELSE d[i - Len(front)]
  BY <1>1, Joined
<1> HIDE DEF fd
<1>4. /\ all \in Seq(Byte) /\ Len(all) = Len(fd) + Len(back)
      /\ \A i \in 1..Len(fd) + Len(back) :
           all[i] = IF i <= Len(fd) THEN fd[i] ELSE back[i - Len(fd)]
  BY <1>2, <1>3, Joined
<1>5. Copy(v, at, d) = all
  BY DEF Copy, fd, front, back
<1> HIDE DEF all
<1>6. ASSUME NEW i \in 1..Len(v)
      PROVE  all[i] = IF at < i /\ i <= at + Len(d) THEN d[i - at] ELSE v[i]
  <2>1. CASE i <= at
    BY <1>1, <1>3, <1>4, <2>1
  <2>2. CASE at < i /\ i <= at + Len(d)
    <3>1. /\ i \in 1..Len(fd) + Len(back) /\ i <= Len(fd)
          /\ i \in 1..Len(front) + Len(d) /\ ~(i <= Len(front))
      BY <1>1, <1>2, <1>3, <2>2
    <3>2. all[i] = fd[i]
      BY <1>4, <3>1
    <3>3. fd[i] = d[i - Len(front)]
      BY <1>3, <3>1
    <3> QED
      BY <1>1, <2>2, <3>2, <3>3
  <2>3. CASE at + Len(d) < i
    <3> DEFINE j == i - (at + Len(d))
    <3>1. /\ j \in 1..Len(v) - (at + Len(d)) /\ Len(fd) = at + Len(d)
          /\ i \in 1..Len(fd) + Len(back) /\ ~(i <= Len(fd))
      BY <1>1, <1>2, <1>3, <2>3
    <3>2. all[i] = back[j]
      BY <1>4, <3>1
    <3>3. back[j] = v[at + Len(d) + j] /\ at + Len(d) + j = i
      BY <1>2, <3>1
    <3> QED
      BY <2>3, <3>2, <3>3
  <2> QED
    BY <2>1, <2>2, <2>3
<1> QED
  BY <1>1, <1>2, <1>3, <1>4, <1>5, <1>6

\* What is readable.
LEMMA ContentBytes ==
  ASSUME NEW b \in Buffers, IndexesInOrder(b)
  PROVE  /\ readableBytes(b) \in Nat
         /\ Content(b) \in Seq(Byte) /\ Len(Content(b)) = readableBytes(b)
         /\ \A i \in 1..readableBytes(b) : Content(b)[i] = b.buffer_[b.readerIndex_ + i]
BY Part DEF Buffers, Sound, IndexesInOrder, readableBytes, Content

\* What resize fills with.
LEMMA ZerosBytes ==
  ASSUME NEW n \in Nat
  PROVE  Zeros(n) \in Seq(Byte) /\ Len(Zeros(n)) = n
BY CodecAssumption DEF Zeros, Byte

\* The constructor.
LEMMA NewBufferSound == Sound(NewBuffer) /\ Content(NewBuffer) = <<>>
<1>1. /\ Zeros(kCheapPrepend + kInitialSize) \in Seq(Byte)
      /\ Len(Zeros(kCheapPrepend + kInitialSize)) = kCheapPrepend + kInitialSize
  BY ZerosBytes, BufferAssumption
<1>2. Sound(NewBuffer)
  BY <1>1, BufferAssumption DEF Buffers, Sound, NewBuffer, IndexesInOrder
<1>3. readableBytes(NewBuffer) = 0
  BY BufferAssumption DEF NewBuffer, readableBytes
<1>4. Content(NewBuffer) \in Seq(Byte) /\ Len(Content(NewBuffer)) = 0
  BY <1>2, <1>3, ContentBytes DEF Sound
<1> QED
  BY <1>2, <1>4

\* makeSpace, called when there is too little room, makes room and moves the
\* content as it is.
LEMMA MakeSpaceKeeps ==
  ASSUME NEW b, Sound(b), NEW len \in Nat, writableBytes(b) < len
  PROVE  /\ Sound(makeSpace(b, len))
         /\ writableBytes(makeSpace(b, len)) >= len
         /\ Content(makeSpace(b, len)) = Content(b)
<1> DEFINE s == makeSpace(b, len)
<1> USE DEF IndexesInOrder, writableBytes, readableBytes
<1>1. CASE ~Movable(b, len)
  <2> DEFINE more == b.writerIndex_ + len - Len(b.buffer_)
  <2>1. /\ s = [b EXCEPT !.buffer_ = @ \o Zeros(more)]
        /\ more \in Nat
    BY <1>1 DEF makeSpace, Sound, Buffers
  <2>2. Zeros(more) \in Seq(Byte) /\ Len(Zeros(more)) = more
    BY <2>1, ZerosBytes
  <2> DEFINE longer == b.buffer_ \o Zeros(more)
  <2> HIDE DEF more
  <2>3. /\ longer \in Seq(Byte) /\ Len(longer) = Len(b.buffer_) + more
        /\ \A i \in 1..Len(b.buffer_) : longer[i] = b.buffer_[i]
    <3>1. b.buffer_ \in Seq(Byte)
      BY DEF Buffers, Sound
    <3>2. /\ longer \in Seq(Byte) /\ Len(longer) = Len(b.buffer_) + Len(Zeros(more))
          /\ \A i \in 1..Len(b.buffer_) + Len(Zeros(more)) :
               longer[i] = IF i <= Len(b.buffer_) THEN b.buffer_[i]
                           ELSE Zeros(more)[i - Len(b.buffer_)]
      BY <2>2, <3>1, Joined
    <3> HIDE DEF longer
    <3> QED
      BY <2>1, <2>2, <3>1, <3>2
  <2>4. Len(longer) = b.writerIndex_ + len
    BY <2>3 DEF more, Sound, Buffers
  <2> HIDE DEF longer
  <2>5. s = [b EXCEPT !.buffer_ = longer]
    BY <2>1 DEF longer
  <2>6. /\ s \in Buffers
        /\ s.buffer_ = longer /\ s.readerIndex_ = b.readerIndex_
        /\ s.writerIndex_ = b.writerIndex_
    BY <2>3, <2>5 DEF Buffers, Sound
  <2> HIDE DEF s
  <2>7. Sound(s)
    BY <2>3, <2>4, <2>6 DEF Buffers, Sound
  <2>8. writableBytes(s) >= len
    BY <2>4, <2>6 DEF Buffers, Sound
  <2>9. /\ readableBytes(s) = readableBytes(b)
        /\ \A i \in 1..readableBytes(b) :
             s.buffer_[s.readerIndex_ + i] = b.buffer_[b.readerIndex_ + i]
    BY <2>3, <2>6 DEF Buffers, Sound
  <2>10. Content(s) = Content(b)
    BY <2>7, <2>9, ContentBytes, SameBytes DEF Sound
  <2> QED
    BY <2>7, <2>8, <2>10 DEF s
<1>2. CASE Movable(b, len)
  <2> DEFINE c == Content(b)
  <2>1. c \in Seq(Byte) /\ Len(c) = readableBytes(b)
    BY ContentBytes DEF Sound
  <2>2. kCheapPrepend + Len(c) <= Len(b.buffer_) /\ kCheapPrepend \in Nat
    BY <2>1, BufferAssumption DEF Buffers, Sound
  <2> HIDE DEF c
  <2>3. s = [buffer_ |-> Copy(b.buffer_, kCheapPrepend, c), readerIndex_ |-> kCheapPrepend,
             writerIndex_ |-> kCheapPrepend + Len(c)]
    BY <1>2, <2>1 DEF makeSpace, c
  <2>4. /\ Copy(b.buffer_, kCheapPrepend, c) \in Seq(Byte)
        /\ Len(Copy(b.buffer_, kCheapPrepend, c)) = Len(b.buffer_)
        /\ \A i \in 1..Len(c) : Copy(b.buffer_, kCheapPrepend, c)[kCheapPrepend + i] = c[i]
    <3> DEFINE v == b.buffer_
               moved == Copy(v, kCheapPrepend, c)
    <3>1. v \in Seq(Byte)
      BY DEF Buffers, Sound
    <3> HIDE DEF v
    <3>2. /\ moved \in Seq(Byte) /\ Len(moved) = Len(v)
          /\ \A i \in 1..Len(v) :
               moved[i] = IF kCheapPrepend < i /\ i <= kCheapPrepend + Len(c)
                          THEN c[i - kCheapPrepend] ELSE v[i]
      BY <2>1, <2>2, <3>1, CopyBytes DEF v
    <3> HIDE DEF moved
    <3>3. ASSUME NEW i \in 1..Len(c) PROVE moved[kCheapPrepend + i] = c[i]
      <4> DEFINE j == kCheapPrepend + i
      <4>1. /\ j \in 1..Len(v) /\ kCheapPrepend < j /\ j <= kCheapPrepend + Len(c)
            /\ j - kCheapPrepend = i
        BY <2>1, <2>2, <3>1 DEF v
      <4> HIDE DEF j
      <4>2. moved[j] = c[j - kCheapPrepend]
        BY <3>2, <4>1
      <4> QED
        BY <4>1, <4>2 DEF j
    <3> QED
      BY <3>2, <3>3 DEF v, moved
  <2>5. Sound(s)
    BY <2>1, <2>2, <2>3, <2>4 DEF Buffers, Sound
  <2>6. writableBytes(s) >= len
    BY <1>2, <2>1, <2>2, <2>3, <2>4 DEF Buffers, Sound, Movable, prependableBytes
  <2>7. readableBytes(s) = Len(c) /\ \A i \in 1..Len(c) : s.buffer_[s.readerIndex_ + i] = c[i]
    BY <2>1, <2>2, <2>3, <2>4
  <2> HIDE DEF s
  <2>8. Content(s) = c
    BY <2>1, <2>5, <2>7, ContentBytes, SameBytes DEF Sound
  <2> QED
    BY <2>5, <2>6, <2>8 DEF s, c
<1> QED
  BY <1>1, <1>2

\* ensureWritableBytes makes room, whatever there was.
LEMMA EnsureWritableKeeps ==
  ASSUME NEW b, Sound(b), NEW len \in Nat
  PROVE  /\ Sound(ensureWritableBytes(b, len))
         /\ writableBytes(ensureWritableBytes(b, len)) >= len
         /\ Content(ensureWritableBytes(b, len)) = Content(b)
<1>1. CASE writableBytes(b) < len
  BY <1>1, MakeSpaceKeeps DEF ensureWritableBytes
<1>2. CASE ~(writableBytes(b) < len)
  BY <1>2 DEF ensureWritableBytes, writableBytes, Sound, Buffers
<1> QED
  BY <1>1, <1>2

\* What append and readFd do at beginWrite().
Put(b, d) == [b EXCEPT !.buffer_ = Copy(b.buffer_, b.writerIndex_, d),
                       !.writerIndex_ = b.writerIndex_ + Len(d)]

\* Bytes written at beginWrite() are readable after hasWritten().
LEMMA WrittenAtEnd ==
  ASSUME NEW b, Sound(b), NEW d \in Seq(Byte), Len(d) <= writableBytes(b)
  PROVE  Sound(Put(b, d)) /\ Content(Put(b, d)) = Content(b) \o d
<1> DEFINE w == Put(b, d)
           v == b.buffer_
           x == Copy(v, b.writerIndex_, d)
           c == Content(b)
<1>1. /\ v \in Seq(Byte) /\ b.readerIndex_ \in Nat /\ b.writerIndex_ \in Nat
      /\ kCheapPrepend <= b.readerIndex_ /\ b.readerIndex_ <= b.writerIndex_
      /\ b.writerIndex_ + Len(d) <= Len(v)
  BY DEF Buffers, Sound, IndexesInOrder, writableBytes
<1>2. /\ c \in Seq(Byte) /\ Len(c) = b.writerIndex_ - b.readerIndex_
      /\ \A i \in 1..Len(c) : c[i] = v[b.readerIndex_ + i]
  BY ContentBytes DEF Sound, readableBytes
<1> HIDE DEF v, c
<1>3. /\ x \in Seq(Byte) /\ Len(x) = Len(v)
      /\ \A i \in 1..Len(v) : x[i] = IF b.writerIndex_ < i /\ i <= b.writerIndex_ + Len(d)
                                     THEN d[i - b.writerIndex_] ELSE v[i]
  BY <1>1, CopyBytes
<1> HIDE DEF x
<1>4. /\ w \in Buffers
      /\ w.buffer_ = x /\ w.readerIndex_ = b.readerIndex_
      /\ w.writerIndex_ = b.writerIndex_ + Len(d)
  <2>1. w = [b EXCEPT !.buffer_ = x, !.writerIndex_ = b.writerIndex_ + Len(d)]
    BY DEF Put, v, x
  <2> HIDE DEF w
  <2>2. /\ w.buffer_ = x /\ w.readerIndex_ = b.readerIndex_
        /\ w.writerIndex_ = b.writerIndex_ + Len(d)
    BY <2>1 DEF Buffers, Sound
  <2>3. b.writerIndex_ + Len(d) \in Nat
    BY <1>1
  <2>4. w \in Buffers
    BY <1>3, <2>1, <2>3 DEF Buffers, Sound
  <2> QED
    BY <2>2, <2>4
<1> HIDE DEF w
<1>5. Sound(w)
  BY <1>1, <1>3, <1>4 DEF Buffers, Sound, IndexesInOrder
<1>6. /\ Content(w) \in Seq(Byte) /\ Len(Content(w)) = Len(c) + Len(d)
      /\ \A i \in 1..Len(c) + Len(d) : Content(w)[i] = x[b.readerIndex_ + i]
  <2>1. readableBytes(w) = Len(c) + Len(d)
    BY <1>1, <1>2, <1>4 DEF readableBytes
  <2> QED
    BY <1>4, <1>5, <2>1, ContentBytes DEF Sound
<1> DEFINE cd == c \o d
<1>7. /\ cd \in Seq(Byte) /\ Len(cd) = Len(c) + Len(d)
      /\ \A i \in 1..Len(c) + Len(d) : cd[i] = IF i <= Len(c) THEN c[i] ELSE d[i - Len(c)]
  BY <1>2, Joined
<1> HIDE DEF cd
<1>8. ASSUME NEW i \in 1..Len(c) + Len(d) PROVE Content(w)[i] = cd[i]
  <2> DEFINE j == b.readerIndex_ + i
  <2>1. /\ j \in 1..Len(v) /\ (i <= Len(c) <=> j <= b.writerIndex_)
        /\ j <= b.writerIndex_ + Len(d) /\ j - b.writerIndex_ = i - Len(c)
    BY <1>1, <1>2
  <2>4. Content(w)[i] = x[j]
    BY <1>6
  <2> HIDE DEF j
  <2>2. CASE i <= Len(c)
    <3>1. x[j] = v[j]
      BY <1>1, <1>3, <2>1, <2>2
    <3>2. cd[i] = c[i] /\ c[i] = v[j]
      BY <1>2, <1>7, <2>2 DEF j
    <3> QED
      BY <2>4, <3>1, <3>2
  <2>3. CASE ~(i <= Len(c))
    <3>1. x[j] = d[j - b.writerIndex_]
      <4>1. b.writerIndex_ < j
        BY <1>1, <2>1, <2>3 DEF j
      <4> QED
        BY <1>3, <2>1, <4>1
    <3>2. cd[i] = d[i - Len(c)]
      BY <1>7, <2>3
    <3> QED
      BY <2>1, <2>4, <3>1, <3>2
  <2> QED
    BY <2>2, <2>3
<1> QED
  BY <1>5, <1>6, <1>7, <1>8, SameBytes DEF cd, c, w

\* append adds the bytes to the content, whatever room there was.
LEMMA AppendKeeps ==
  ASSUME NEW b, Sound(b), NEW d \in Seq(Byte)
  PROVE  Sound(append(b, d)) /\ Content(append(b, d)) = Content(b) \o d
<1> DEFINE roomy == ensureWritableBytes(b, Len(d))
<1>1. Sound(roomy) /\ writableBytes(roomy) >= Len(d) /\ Content(roomy) = Content(b)
  BY EnsureWritableKeeps
<1>2. append(b, d) = Put(roomy, d)
  BY DEF append, Put
<1> HIDE DEF roomy
<1>3. Len(d) <= writableBytes(roomy)
  BY <1>1 DEF writableBytes, Sound
<1> QED
  BY <1>1, <1>2, <1>3, WrittenAtEnd

\* readFd does too, in whichever of the vector and extrabuf the bytes arrived.
LEMMA ReadFdKeeps ==
  ASSUME NEW b, Sound(b), NEW d \in Seq(Byte)
  PROVE  Sound(readFd(b, d)) /\ Content(readFd(b, d)) = Content(b) \o d
<1> DEFINE writable == writableBytes(b)
<1>1. writable \in Nat
  BY DEF Buffers, Sound, IndexesInOrder, writableBytes
<1>2. CASE Len(d) <= writable
  <2>1. readFd(b, d) = Put(b, d)
    BY <1>2 DEF readFd, Put
  <2> QED
    BY <1>2, <2>1, WrittenAtEnd
<1>3. CASE ~(Len(d) <= writable)
  <2> DEFINE direct == SubSeq(d, 1, writable)
             extra == SubSeq(d, writable + 1, Len(d))
             filled == Put(b, direct)
  <2>1. readFd(b, d) = append(filled, extra)
    BY <1>3 DEF readFd, Put
  <2>2. direct \in Seq(Byte) /\ Len(direct) = writable
        /\ \A i \in 1..writable : direct[i] = d[i]
    BY <1>1, <1>3
  <2>3. extra \in Seq(Byte) /\ Len(extra) = Len(d) - writable
        /\ \A i \in 1..Len(d) - writable : extra[i] = d[writable + i]
    BY <1>1, <1>3, Part
  <2> HIDE DEF direct, extra
  <2>4. Sound(filled) /\ Content(filled) = Content(b) \o direct
    BY <1>1, <2>2, WrittenAtEnd
  <2> HIDE DEF filled
  <2>5. Sound(readFd(b, d)) /\ Content(readFd(b, d)) = (Content(b) \o direct) \o extra
    BY <2>1, <2>3, <2>4, AppendKeeps
  <2>6. direct \o extra = d
    <3>1. writable <= Len(d)
      BY <1>1, <1>3
    <3> HIDE DEF writable
    <3> QED
      BY <1>1, <3>1, PartsJoined DEF direct, extra
  <2>7. (Content(b) \o direct) \o extra = Content(b) \o (direct \o extra)
    BY <2>2, <2>3, ContentBytes, JoinedTwice DEF Sound
  <2> QED
    BY <2>5, <2>6, <2>7
<1> QED
  BY <1>2, <1>3

\* retrieve takes bytes from the front of the content.
LEMMA RetrieveKeeps ==
  ASSUME NEW b, Sound(b), NEW len \in Nat, len <= readableBytes(b)
  PROVE  /\ Sound(retrieve(b, len))
         /\ Content(retrieve(b, len)) = SubSeq(Content(b), len + 1, Len(Content(b)))
<1> DEFINE r == retrieve(b, len)
           c == Content(b)
           rest == SubSeq(c, len + 1, Len(c))
<1>1. /\ c \in Seq(Byte) /\ Len(c) = readableBytes(b)
      /\ \A i \in 1..readableBytes(b) : c[i] = b.buffer_[b.readerIndex_ + i]
      /\ readableBytes(b) = b.writerIndex_ - b.readerIndex_
  BY ContentBytes DEF Sound, readableBytes
<1> HIDE DEF c
<1>2. /\ rest \in Seq(Byte) /\ Len(rest) = Len(c) - len
      /\ \A i \in 1..Len(c) - len : rest[i] = c[len + i]
  <2>1. len <= Len(c) /\ Len(c) \in Nat /\ Len(c) <= Len(c) /\ c \in Seq(Byte)
    BY <1>1
  <2> QED
    BY <2>1, Part
<1> HIDE DEF rest
<1>3. /\ b \in Buffers
      /\ b.buffer_ \in Seq(Byte) /\ b.readerIndex_ \in Nat /\ b.writerIndex_ \in Nat
      /\ kCheapPrepend \in Nat /\ kCheapPrepend <= b.readerIndex_
      /\ b.writerIndex_ <= Len(b.buffer_)
  BY BufferAssumption DEF Sound, Buffers, IndexesInOrder
<1>4. /\ r \in Buffers /\ r.buffer_ = b.buffer_
      /\ r.writerIndex_ - r.readerIndex_ = Len(c) - len
      /\ kCheapPrepend <= r.readerIndex_ /\ r.writerIndex_ <= Len(b.buffer_)
      /\ len < Len(c) => r.readerIndex_ = b.readerIndex_ + len
  <2>1. CASE len < Len(c)
    <3>1. r = [b EXCEPT !.readerIndex_ = b.readerIndex_ + len]
      BY <1>1, <2>1 DEF retrieve
    <3> HIDE DEF r
    <3>2. r \in Buffers /\ r.buffer_ = b.buffer_
          /\ r.readerIndex_ = b.readerIndex_ + len /\ r.writerIndex_ = b.writerIndex_
      BY <1>3, <3>1 DEF Buffers
    <3> QED
      BY <1>1, <1>3, <3>2
  <2>2. CASE ~(len < Len(c))
    <3>1. r = [b EXCEPT !.readerIndex_ = kCheapPrepend, !.writerIndex_ = kCheapPrepend]
      BY <1>1, <2>2 DEF retrieve, retrieveAll
    <3> HIDE DEF r
    <3>2. r \in Buffers /\ r.buffer_ = b.buffer_
          /\ r.readerIndex_ = kCheapPrepend /\ r.writerIndex_ = kCheapPrepend
      BY <1>3, <3>1 DEF Buffers
    <3>3. len = Len(c) /\ b.readerIndex_ <= b.writerIndex_
      BY <1>1, <2>2 DEF Sound, IndexesInOrder
    <3> QED
      BY <1>1, <1>3, <3>2, <3>3
  <2> QED
    BY <2>1, <2>2
<1> HIDE DEF r
<1>5. Sound(r) /\ readableBytes(r) = Len(c) - len
  BY <1>1, <1>3, <1>4 DEF Sound, Buffers, IndexesInOrder, readableBytes
<1>6. /\ Content(r) \in Seq(Byte) /\ Len(Content(r)) = Len(c) - len
      /\ \A i \in 1..Len(c) - len : Content(r)[i] = b.buffer_[r.readerIndex_ + i]
  BY <1>4, <1>5, ContentBytes DEF Sound
<1>7. ASSUME NEW i \in 1..Len(c) - len PROVE Content(r)[i] = rest[i]
  <2>1. /\ len + i \in 1..Len(c) /\ r.readerIndex_ + i = b.readerIndex_ + (len + i)
    BY <1>1, <1>3, <1>4
  <2> QED
    BY <1>1, <1>2, <1>6, <2>1
<1> QED
  BY <1>2, <1>5, <1>6, <1>7, SameBytes DEF r, rest, c

\* prepend puts bytes before the content.
LEMMA PrependKeeps ==
  ASSUME NEW b, Sound(b), NEW d \in Seq(Byte), Len(d) <= b.readerIndex_
  PROVE  Content(prepend(b, d)) = d \o Content(b)
<1> DEFINE p == prepend(b, d)
           v == b.buffer_
           at == b.readerIndex_ - Len(d)
           x == Copy(v, at, d)
           c == Content(b)
           dc == d \o c
<1>1. /\ c \in Seq(Byte) /\ Len(c) = b.writerIndex_ - b.readerIndex_
      /\ \A i \in 1..Len(c) : c[i] = v[b.readerIndex_ + i]
  BY ContentBytes DEF Sound, readableBytes
<1>2. /\ v \in Seq(Byte) /\ at \in Nat /\ at + Len(d) = b.readerIndex_
      /\ b.readerIndex_ \in Nat /\ b.writerIndex_ \in Nat
      /\ b.readerIndex_ <= b.writerIndex_ /\ b.writerIndex_ <= Len(v)
  BY DEF Sound, Buffers, IndexesInOrder
<1>3. p = [b EXCEPT !.buffer_ = x, !.readerIndex_ = at]
  BY DEF prepend
<1> HIDE DEF v, c, at
<1>4. /\ x \in Seq(Byte) /\ Len(x) = Len(v)
      /\ \A i \in 1..Len(v) : x[i] = IF at < i /\ i <= at + Len(d) THEN d[i - at] ELSE v[i]
  BY <1>2, CopyBytes
<1> HIDE DEF x, p
<1>5. /\ p.buffer_ = x /\ p.readerIndex_ = at /\ p.writerIndex_ = b.writerIndex_
      /\ p \in Buffers
  BY <1>2, <1>3, <1>4 DEF Sound, Buffers
<1>6. IndexesInOrder(p)
  BY <1>2, <1>4, <1>5 DEF IndexesInOrder
<1>7. readableBytes(p) = Len(d) + Len(c)
  BY <1>1, <1>2, <1>5 DEF readableBytes
<1>8. /\ Content(p) \in Seq(Byte) /\ Len(Content(p)) = Len(d) + Len(c)
      /\ \A i \in 1..Len(d) + Len(c) : Content(p)[i] = x[at + i]
  BY <1>5, <1>6, <1>7, ContentBytes
<1>9. /\ dc \in Seq(Byte) /\ Len(dc) = Len(d) + Len(c)
      /\ \A i \in 1..Len(d) + Len(c) : dc[i] = IF i <= Len(d) THEN d[i] ELSE c[i - Len(d)]
  BY <1>1, Joined
<1> HIDE DEF dc
<1>10. ASSUME NEW i \in 1..Len(d) + Len(c) PROVE Content(p)[i] = dc[i]
  <2> DEFINE j == at + i
  <2>1. /\ j \in 1..Len(v) /\ at < j /\ j - at = i
        /\ i <= Len(d) <=> j <= at + Len(d)
    BY <1>1, <1>2
  <2>2. Content(p)[i] = x[j]
    BY <1>8
  <2> HIDE DEF j
  <2>3. CASE i <= Len(d)
    BY <1>4, <1>9, <2>1, <2>2, <2>3
  <2>4. CASE ~(i <= Len(d))
    <3> DEFINE k == i - Len(d)
    <3>1. k \in 1..Len(c) /\ b.readerIndex_ + k = j
      BY <1>1, <1>2, <2>4 DEF j
    <3>2. dc[i] = c[k]
      BY <1>9, <2>4
    <3> HIDE DEF k
    <3>3. c[k] = v[j]
      BY <1>1, <3>1
    <3>4. x[j] = v[j]
      BY <1>4, <2>1, <2>4
    <3> QED
      BY <2>2, <3>2, <3>3, <3>4
  <2> QED
    BY <2>3, <2>4
<1> QED
  BY <1>8, <1>9, <1>10, SameBytes DEF dc, c, p

\* shrink moves the content to where a buffer that has not been read from yet
\* already has it.
LEMMA ShrinkKeeps ==
  ASSUME NEW b, Sound(b), NEW reserve \in Nat
  PROVE  /\ shrink(b, reserve) \in Buffers
         /\ shrink(b, reserve).readerIndex_ = b.readerIndex_
         /\ b.readerIndex_ = kCheapPrepend =>
              IndexesInOrder(shrink(b, reserve)) /\ Content(shrink(b, reserve)) = Content(b)
<1> DEFINE s == shrink(b, reserve)
           c == Content(b)
           zeros == Zeros(kCheapPrepend + readableBytes(b) + reserve)
           x == Copy(zeros, kCheapPrepend, c)
<1>1. /\ c \in Seq(Byte) /\ Len(c) = readableBytes(b) /\ readableBytes(b) \in Nat
      /\ readableBytes(b) = b.writerIndex_ - b.readerIndex_
  BY ContentBytes DEF Sound, readableBytes
<1>2. /\ zeros \in Seq(Byte)
      /\ Len(zeros) = kCheapPrepend + Len(c) + reserve
  BY <1>1, ZerosBytes, BufferAssumption
<1>3. s = [b EXCEPT !.buffer_ = x]
  BY DEF shrink
<1> HIDE DEF zeros, c
<1>4. kCheapPrepend \in Nat /\ kCheapPrepend + Len(c) <= Len(zeros)
  BY <1>1, <1>2, BufferAssumption
<1>5. /\ x \in Seq(Byte) /\ Len(x) = Len(zeros)
      /\ \A i \in 1..Len(zeros) :
           x[i] = IF kCheapPrepend < i /\ i <= kCheapPrepend + Len(c)
                  THEN c[i - kCheapPrepend] ELSE zeros[i]
  BY <1>1, <1>2, <1>4, CopyBytes
<1> HIDE DEF x, s
<1>6. /\ s \in Buffers /\ s.buffer_ = x
      /\ s.readerIndex_ = b.readerIndex_ /\ s.writerIndex_ = b.writerIndex_
  BY <1>3, <1>5 DEF Sound, Buffers
<1>7. ASSUME b.readerIndex_ = kCheapPrepend
      PROVE  IndexesInOrder(s) /\ Content(s) = c
  <2>1. IndexesInOrder(s)
    BY <1>1, <1>2, <1>5, <1>6, <1>7 DEF IndexesInOrder, Sound, Buffers
  <2>2. readableBytes(s) = Len(c)
    BY <1>1, <1>6 DEF readableBytes
  <2>3. /\ Content(s) \in Seq(Byte) /\ Len(Content(s)) = Len(c)
        /\ \A i \in 1..Len(c) : Content(s)[i] = x[kCheapPrepend + i]
    BY <1>6, <1>7, <2>1, <2>2, ContentBytes
  <2>4. ASSUME NEW i \in 1..Len(c) PROVE Content(s)[i] = c[i]
    <3> DEFINE j == kCheapPrepend + i
    <3>1. /\ j \in 1..Len(zeros) /\ kCheapPrepend < j /\ j <= kCheapPrepend + Len(c)
          /\ j - kCheapPrepend = i
      BY <1>1, <1>2, <1>4
    <3>2. Content(s)[i] = x[j]
      BY <2>3
    <3> HIDE DEF j
    <3> QED
      BY <1>5, <3>1, <3>2
  <2> QED
    BY <1>1, <2>1, <2>3, <2>4, SameBytes
<1> QED
  BY <1>6, <1>7 DEF s, c

\* The assertion of makeSpace: it moves the content only when there is less room
\* after it than is needed, and so some before it.
LEMMA MakeSpaceNeverAsserts ==
  ASSUME NEW b, Sound(b), NEW len \in Nat
  PROVE  MakeSpaceAsserts(b, len)
BY BufferAssumption DEF MakeSpaceAsserts, Movable, prependableBytes, writableBytes, Sound,
   Buffers, IndexesInOrder

-----------------------------------------------------------------------------
(* Numbers.  The recursive functions of Codec exist and are what their     *)
(* equations say: shown by induction over a set of numbers, which needs no *)
(* more than a smallest counterexample.                                    *)

\* A set of numbers that has 0 and the successor of each of its members has all.
LEMMA Induction ==
  ASSUME NEW S, 0 \in S, \A n \in Nat : n \in S => n + 1 \in S
  PROVE  Nat \subseteq S
<1> SUFFICES ASSUME ~(Nat \subseteq S) PROVE FALSE
  OBVIOUS
<1> DEFINE Segments == {0..n-1 : n \in Nat \ S}
<1>1. Segments \subseteq FiniteSubsetsOf(Nat) /\ Segments # {}
  <2>1. \A n \in Nat : IsFiniteSet(0..n-1) /\ 0..n-1 \subseteq Nat
    BY FS_Interval
  <2> QED
    BY <2>1 DEF FiniteSubsetsOf
<1> HIDE DEF Segments
<1>2. PICK low \in Segments : \A other \in Segments : <<other, low>> \notin StrictSubsetOrdering(Nat)
  BY <1>1, FS_StrictSubsetOrderingWellFounded, WFMin
<1>3. PICK n \in Nat \ S : low = 0..n-1
  BY DEF Segments
<1>4. n # 0 /\ n - 1 \in Nat \ S
  <2>1. n # 0 /\ n - 1 \in Nat
    OBVIOUS
  <2> QED
    BY <2>1
<1>5. 0..(n-1)-1 \in Segments
  BY <1>4 DEF Segments
<1>6. 0..(n-1)-1 \subseteq 0..n-1 /\ 0..(n-1)-1 # 0..n-1
      /\ 0..(n-1)-1 \in SUBSET Nat /\ 0..n-1 \in SUBSET Nat
  <2>1. n-1 \in 0..n-1 /\ n-1 \notin 0..(n-1)-1
    BY <1>4
  <2> QED
    BY <2>1
<1> QED
  BY <1>2, <1>3, <1>5, <1>6 DEF StrictSubsetOrdering

\* A function that starts at init and goes on by step, n times, within V.
Goes(f, n, V, init, step) ==
  f \in [0..n -> V] /\ f[0] = init /\ \A i \in 1..n : f[i] = step[<<i, f[i-1]>>]

\* There is one.
LEMMA Recursion ==
  ASSUME NEW n \in Nat, NEW V, NEW init \in V,
         NEW step, \A i \in 1..n : \A v \in V : step[<<i, v>>] \in V
  PROVE  \E f : Goes(f, n, V, init, step)
<1> DEFINE Steps(f, m) == f[0] = init /\ \A i \in 1..m : f[i] = step[<<i, f[i-1]>>]
           S == {m \in Nat : m <= n => \E f \in [0..m -> V] : Steps(f, m)}
<1>1. 0 \in S
  <2>1. [i \in 0..0 |-> init] \in [0..0 -> V] /\ Steps([i \in 0..0 |-> init], 0)
    OBVIOUS
  <2> QED
    BY <2>1
<1>2. ASSUME NEW m \in Nat, m \in S PROVE m + 1 \in S
  <2> SUFFICES ASSUME m + 1 <= n PROVE \E f \in [0..m+1 -> V] : Steps(f, m + 1)
    OBVIOUS
  <2>1. PICK f \in [0..m -> V] : Steps(f, m)
    BY <1>2
  <2> DEFINE g == [i \in 0..m+1 |-> IF i <= m THEN f[i] ELSE step[<<m + 1, f[m]>>]]
  <2>2. f[m] \in V /\ m + 1 \in 1..n
    OBVIOUS
  <2>3. step[<<m + 1, f[m]>>] \in V
    BY <2>2
  <2>4. g \in [0..m+1 -> V]
    BY <2>3
  <2>5. /\ \A i \in 0..m : g[i] = f[i]
        /\ g[m + 1] = step[<<m + 1, f[m]>>]
    OBVIOUS
  <2> HIDE DEF g
  <2>6. ASSUME NEW i \in 1..m+1 PROVE g[i] = step[<<i, g[i-1]>>]
    <3>1. CASE i = m + 1
      BY <2>5, <3>1
    <3>2. CASE i \in 1..m
      <4>1. g[i] = f[i] /\ g[i-1] = f[i-1]
        BY <2>5, <3>2
      <4> QED
        BY <2>1, <3>2, <4>1
    <3> QED
      BY <3>1, <3>2
  <2>7. g[0] = init
    BY <2>1, <2>5
  <2> QED
    BY <2>4, <2>6, <2>7
<1> HIDE DEF S
<1>3. n \in S
  BY <1>1, <1>2, Induction
<1> QED
  BY <1>3 DEF S, Goes

\* The weights of the digits.
LEMMA PowerIs ==
  /\ \A i \in 0..kHeaderLen : Power[i] \in Nat \ {0}
  /\ Power[0] = 1
  /\ \A i \in 1..kHeaderLen : Power[i] = Power[i-1] * Base
<1> DEFINE k == kHeaderLen
           Pos == Nat \ {0}
           step == [x \in (1..k) \X Pos |-> x[2] * Base]
<1>1. k \in Nat /\ Base \in Pos /\ 1 \in Pos
  BY CodecAssumption, BufferAssumption
<1>2. \A p \in Pos : p * Base \in Pos
  BY <1>1
<1>3. \A i \in 1..k : \A p \in Pos : step[<<i, p>>] = p * Base /\ step[<<i, p>>] \in Pos
  BY <1>2
<1> HIDE DEF step, Pos, k
<1>4. PICK f : Goes(f, k, Pos, 1, step)
  BY <1>1, <1>3, Recursion
<1>5. \A i \in 1..k : f[i] = f[i-1] * Base
  <2>1. \A i \in 1..k : i-1 \in 0..k
    BY <1>1
  <2> QED
    BY <1>3, <1>4, <2>1 DEF Goes
<1>6. f = [i \in 0..k |-> IF i = 0 THEN 1 ELSE f[i-1] * Base]
  BY <1>1, <1>4, <1>5 DEF Goes
<1>7. Power = [i \in 0..k |-> IF i = 0 THEN 1 ELSE Power[i-1] * Base]
  BY <1>6 DEF Power, k
<1>8. Power[0] = 1 /\ \A i \in 1..k : Power[i] = Power[i-1] * Base
  BY <1>1, <1>7
<1> DEFINE S == {i \in Nat : i <= k => Power[i] \in Pos}
<1>9. Nat \subseteq S
  <2>1. 0 \in S
    BY <1>1, <1>8
  <2>2. ASSUME NEW i \in Nat, i \in S PROVE i + 1 \in S
    <3> SUFFICES ASSUME i + 1 <= k PROVE Power[i + 1] \in Pos
      OBVIOUS
    <3>1. Power[i] \in Pos
      BY <1>1, <2>2
    <3>2. Power[i + 1] = Power[i] * Base
      BY <1>1, <1>8
    <3> QED
      BY <1>1, <3>1, <3>2 DEF Pos
  <2> HIDE DEF S
  <2> QED
    BY <2>1, <2>2, Induction
<1> QED
  BY <1>1, <1>8, <1>9 DEF k, Pos

\* What be32toh computes, digit by digit.
LEMMA UnsignedIs ==
  ASSUME NEW digits \in [1..kHeaderLen -> Byte]
  PROVE  \E value \in [0..kHeaderLen -> Nat] :
           /\ value[0] = 0
           /\ \A i \in 1..kHeaderLen : value[i] = value[i-1] * Base + digits[i]
           /\ Unsigned(digits) = value[kHeaderLen]
<1> DEFINE k == kHeaderLen
           step == [x \in (1..k) \X Nat |-> x[2] * Base + digits[x[1]]]
<1>1. k \in Nat /\ Base \in Nat /\ \A i \in 1..k : digits[i] \in Nat
  BY CodecAssumption, BufferAssumption DEF Byte
<1>2. \A i \in 1..k : \A v \in Nat : step[<<i, v>>] = v * Base + digits[i]
  OBVIOUS
<1>3. \A i \in 1..k : \A v \in Nat : step[<<i, v>>] \in Nat
  <2> SUFFICES ASSUME NEW i \in 1..k, NEW v \in Nat PROVE step[<<i, v>>] \in Nat
    OBVIOUS
  <2>1. v * Base \in Nat /\ digits[i] \in Nat
    BY <1>1
  <2> QED
    BY <1>2, <2>1
<1> HIDE DEF step, k
<1>4. PICK f : Goes(f, k, Nat, 0, step)
  BY <1>1, <1>3, Recursion
<1>5. \A i \in 1..k : f[i] = f[i-1] * Base + digits[i]
  <2>1. \A i \in 1..k : i-1 \in 0..k
    BY <1>1
  <2> QED
    BY <1>2, <1>4, <2>1 DEF Goes
<1> DEFINE value == CHOOSE g : g = [i \in 0..k |-> IF i = 0 THEN 0 ELSE g[i-1] * Base + digits[i]]
<1>6. Unsigned(digits) = value[k]
  BY DEF Unsigned, k
<1>7. f = [i \in 0..k |-> IF i = 0 THEN 0 ELSE f[i-1] * Base + digits[i]]
  BY <1>1, <1>4, <1>5 DEF Goes
<1>8. value = [i \in 0..k |-> IF i = 0 THEN 0 ELSE value[i-1] * Base + digits[i]]
  BY <1>7
<1> HIDE DEF value
<1>9. value[0] = 0 /\ \A i \in 1..k : value[i] = value[i-1] * Base + digits[i]
  BY <1>1, <1>8
<1> DEFINE S == {i \in Nat : i <= k => value[i] \in Nat}
<1>10. Nat \subseteq S
  <2>1. 0 \in S
    BY <1>9
  <2>2. ASSUME NEW i \in Nat, i \in S PROVE i + 1 \in S
    <3> SUFFICES ASSUME i + 1 <= k PROVE value[i + 1] \in Nat
      OBVIOUS
    <3>1. value[i] \in Nat
      BY <1>1, <2>2
    <3>2. value[i + 1] = value[i] * Base + digits[i + 1] /\ i + 1 \in 1..k
      BY <1>1, <1>9
    <3>3. value[i] * Base \in Nat
      BY <1>1, <3>1
    <3> QED
      BY <1>1, <3>2, <3>3
  <2> HIDE DEF S
  <2> QED
    BY <2>1, <2>2, Induction
<1>11. value \in [0..k -> Nat]
  <2>1. \A i \in 0..k : value[i] \in Nat
    BY <1>1, <1>10
  <2>2. value = [i \in 0..k |-> value[i]]
    BY <1>8
  <2> QED
    BY <2>1, <2>2
<1> QED
  BY <1>6, <1>9, <1>11 DEF k

\* Division with a remainder.
LEMMA DivRem ==
  ASSUME NEW x \in Nat, NEW d \in Nat \ {0}
  PROVE  x = d * (x \div d) + (x % d) /\ x \div d \in Nat /\ x % d \in 0..d-1
<1> DEFINE q == x \div d
           r == x % d
<1>1. q \in Nat /\ r \in 0..d-1
  OBVIOUS
<1>2. r = x - d * q
  OBVIOUS
<1> HIDE DEF q, r
<1>3. d * q \in Nat
  BY <1>1
<1>4. x = d * q + r
  BY <1>1, <1>2, <1>3
<1> QED
  BY <1>1, <1>4 DEF q, r

\* The quotient is the only one.
LEMMA DivUnique ==
  ASSUME NEW x \in Nat, NEW d \in Nat \ {0}, NEW q \in Nat, NEW r \in 0..d-1, x = d * q + r
  PROVE  x \div d = q
<1> DEFINE p == x \div d
<1>1. p \in Nat /\ x % d \in 0..d-1 /\ x = d * p + (x % d)
  BY DivRem
<1> HIDE DEF p
<1>2. CASE p < q
  <2>1. d * (q - p) >= d
    BY <1>1, <1>2
  <2>2. d * q - d * p = d * (q - p)
    BY <1>1
  <2> QED
    BY <1>1, <2>1, <2>2
<1>3. CASE q < p
  <2>1. d * (p - q) >= d
    BY <1>1, <1>3
  <2>2. d * p - d * q = d * (p - q)
    BY <1>1
  <2> QED
    BY <1>1, <2>1, <2>2
<1> QED
  BY <1>1, <1>2, <1>3 DEF p

\* Dividing twice is dividing by the product.
LEMMA DivDiv ==
  ASSUME NEW x \in Nat, NEW w \in Nat \ {0}, NEW b \in Nat \ {0}
  PROVE  x \div (w * b) = (x \div w) \div b
<1> DEFINE q == x \div w
           r == x % w
           p == q \div b
           s == q % b
<1>1. q \in Nat /\ r \in 0..w-1 /\ x = w * q + r
  BY DivRem
<1> HIDE DEF q, r
<1>2. p \in Nat /\ s \in 0..b-1 /\ q = b * p + s
  BY <1>1, DivRem
<1> HIDE DEF p, s
<1>3. w * b \in Nat \ {0}
  OBVIOUS
<1>4. w * s + r \in 0..(w * b) - 1
  <2>1. w * s <= w * (b - 1)
    BY <1>2
  <2>2. w * (b-1) = w * b - w
    OBVIOUS
  <2>3. w * s \in Nat
    BY <1>2
  <2> QED
    BY <1>1, <1>3, <2>1, <2>2, <2>3
<1>5. x = (w * b) * p + (w * s + r)
  <2>1. w * q = w * (b * p + s)
    BY <1>2
  <2>2. w * (b * p + s) = w * (b * p) + w * s
    BY <1>2
  <2>3. w * (b * p) = (w * b) * p
    BY <1>2
  <2>4. w * q \in Nat /\ w * s \in Nat /\ (w * b) * p \in Nat
    BY <1>1, <1>2
  <2>5. w * q = (w * b) * p + w * s
    BY <2>1, <2>2, <2>3
  <2> QED
    BY <1>1, <2>4, <2>5
<1> DEFINE d == w * b
           t == w * s + r
<1>6. d \in Nat \ {0} /\ t \in 0..d-1 /\ x = d * p + t
  BY <1>3, <1>4, <1>5
<1> HIDE DEF d, t
<1>7. x \div d = p
  BY <1>2, <1>6, DivUnique
<1> QED
  BY <1>7 DEF p, q, d

-----------------------------------------------------------------------------
(* The header of a message.                                                *)

\* htobe32 writes bytes.
LEMMA EncodeBytes ==
  ASSUME NEW len \in Nat
  PROVE  /\ Encode(len) \in Seq(Byte) /\ Len(Encode(len)) = kHeaderLen
         /\ Encode(len) \in [1..kHeaderLen -> Byte]
<1>1. kHeaderLen \in Nat /\ Base \in Nat \ {0}
  BY CodecAssumption, BufferAssumption
<1>2. ASSUME NEW i \in 1..kHeaderLen PROVE Encode(len)[i] \in Byte
  <2>1. Power[kHeaderLen - i] \in Nat \ {0}
    BY <1>1, PowerIs
  <2>2. len \div Power[kHeaderLen - i] \in Nat
    BY <2>1
  <2>3. (len \div Power[kHeaderLen - i]) % Base \in Byte
    BY <1>1, <2>2 DEF Byte
  <2> QED
    BY <2>3 DEF Encode
<1>3. Encode(len) = [i \in 1..kHeaderLen |-> Encode(len)[i]]
  BY DEF Encode
<1>4. Encode(len) \in [1..kHeaderLen -> Byte]
  BY <1>2, <1>3
<1> QED
  BY <1>1, <1>4

\* be32toh reads what htobe32 wrote.
LEMMA UnsignedEncode ==
  ASSUME NEW len \in 0..Lengths - 1
  PROVE  Unsigned(Encode(len)) = len
<1> DEFINE k == kHeaderLen
           digits == Encode(len)
<1>1. /\ k \in Nat /\ Base \in Nat \ {0} /\ len \in Nat
      /\ \A i \in 0..k : Power[i] \in Nat \ {0}
      /\ Power[0] = 1
      /\ \A i \in 1..k : Power[i] = Power[i-1] * Base
      /\ len < Power[k]
  <2>1. Lengths = Power[k] /\ Power[k] \in Nat
    BY PowerIs, CodecAssumption, BufferAssumption DEF Lengths
  <2> QED
    BY <2>1, PowerIs, CodecAssumption, BufferAssumption
<1>2. PICK value \in [0..k -> Nat] :
        /\ value[0] = 0
        /\ \A i \in 1..k : value[i] = value[i-1] * Base + digits[i]
        /\ Unsigned(digits) = value[k]
  BY <1>1, EncodeBytes, UnsignedIs
<1>3. \A i \in 1..k : digits[i] = (len \div Power[k - i]) % Base
  BY DEF Encode
<1> HIDE DEF digits, k
<1> DEFINE S == {i \in Nat : i <= k => value[i] = len \div Power[k - i]}
<1>4. 0 \in S
  <2>1. len \div Power[k] = 0
    <3> DEFINE p == Power[k]
    <3>1. p \in Nat \ {0} /\ len \in 0..p-1 /\ len = p * 0 + len
      BY <1>1
    <3> HIDE DEF p
    <3> QED
      BY <3>1, DivUnique DEF p
  <2> QED
    BY <1>1, <1>2, <2>1
<1>5. ASSUME NEW i \in Nat, i \in S PROVE i + 1 \in S
  <2> SUFFICES ASSUME i + 1 <= k PROVE value[i + 1] = len \div Power[k - (i + 1)]
    OBVIOUS
  <2> DEFINE w == Power[k - (i + 1)]
             q == len \div w
  <2>1. /\ w \in Nat \ {0} /\ Power[k - i] = w * Base
    <3>1. k - i \in 1..k /\ k - i - 1 = k - (i + 1) /\ k - (i + 1) \in 0..k
      BY <1>1
    <3> QED
      BY <1>1, <3>1
  <2>2. value[i] = len \div (w * Base)
    BY <1>1, <1>5, <2>1
  <2>3. i + 1 \in 1..k /\ i + 1 - 1 = i
    BY <1>1
  <2>4. value[i + 1] = value[i] * Base + digits[i + 1] /\ digits[i + 1] = q % Base
    <3> DEFINE j == i + 1
    <3>1. j \in 1..k /\ j - 1 = i /\ w = Power[k - j]
      BY <2>3
    <3> HIDE DEF j, w
    <3>2. value[j] = value[j-1] * Base + digits[j]
      BY <1>2, <3>1
    <3>3. digits[j] = q % Base
      BY <1>3, <3>1
    <3> QED
      BY <3>1, <3>2, <3>3 DEF j
  <2> HIDE DEF w
  <2>5. len \div (w * Base) = q \div Base
    BY <1>1, <2>1, DivDiv
  <2>6. q \in Nat
    BY <1>1, <2>1, DivRem
  <2> HIDE DEF q
  <2>7. q = Base * (q \div Base) + (q % Base) /\ q \div Base \in Nat
    BY <1>1, <2>6, DivRem
  <2>8. Base * (q \div Base) = (q \div Base) * Base
    BY <1>1, <2>7
  <2> QED
    BY <2>2, <2>4, <2>5, <2>7, <2>8 DEF q, w
<1>6. k \in S
  <2> HIDE DEF S
  <2> QED
    BY <1>1, <1>4, <1>5, Induction
<1>7. value[k] = len \div 1
  BY <1>1, <1>6
<1>8. len \div 1 = len
  BY <1>1
<1> QED
  BY <1>2, <1>7, <1>8 DEF digits

\* A length that does not fit a signed number is read as a negative one.
LEMMA DecodeEncode ==
  ASSUME NEW len \in 0..Lengths - 1
  PROVE  /\ Decode(Encode(len)) \in Int
         /\ Decode(Encode(len)) = len \/ (Decode(Encode(len)) < 0 /\ len > MaxLen)
<1>1. Lengths \in Nat \ {0}
  BY PowerIs, CodecAssumption, BufferAssumption DEF Lengths
<1>2. Lengths \div 2 \in Nat /\ MaxLen \in Nat /\ MaxLen < Lengths \div 2
  BY <1>1, CodecAssumption
<1>3. Decode(Encode(len)) = IF len >= Lengths \div 2 THEN len - Lengths ELSE len
  BY UnsignedEncode DEF Decode
<1> QED
  BY <1>1, <1>2, <1>3

\* send puts the length of the message before it.
LEMMA FrameIs ==
  ASSUME NEW m \in Messages
  PROVE  /\ m \in Seq(Byte) /\ Len(m) \in 0..Lengths - 1
         /\ Frame(m) \in Seq(Byte) /\ Len(Frame(m)) = kHeaderLen + Len(m)
         /\ \A i \in 1..kHeaderLen : Frame(m)[i] = Encode(Len(m))[i]
         /\ \A i \in 1..Len(m) : Frame(m)[kHeaderLen + i] = m[i]
<1> DEFINE b == append(NewBuffer, m)
           h == Encode(Len(m))
<1>1. m \in Seq(Byte) /\ Len(m) \in Nat /\ Len(m) < Lengths /\ Lengths \in Nat
      /\ kHeaderLen \in Nat /\ kHeaderLen <= kCheapPrepend /\ kCheapPrepend \in Nat
  BY PowerIs, CodecAssumption, BufferAssumption DEF Lengths
<1>2. h \in Seq(Byte) /\ Len(h) = kHeaderLen
  BY <1>1, EncodeBytes
<1>3. Sound(b) /\ Content(b) = <<>> \o m
  BY <1>1, NewBufferSound, AppendKeeps
<1>4. <<>> \o m = m
  BY <1>1
<1>5. Frame(m) = Content(prepend(b, h))
  BY DEF Frame
<1> HIDE DEF b, h
<1>6. Len(h) <= b.readerIndex_
  BY <1>1, <1>2, <1>3 DEF Sound, Buffers
<1>7. Frame(m) = h \o m
  BY <1>2, <1>3, <1>4, <1>5, <1>6, PrependKeeps
<1> DEFINE f == h \o m
<1>8. /\ f \in Seq(Byte) /\ Len(f) = kHeaderLen + Len(m)
      /\ \A i \in 1..kHeaderLen + Len(m) :
           f[i] = IF i <= kHeaderLen THEN h[i] ELSE m[i - kHeaderLen]
  BY <1>1, <1>2, Joined
<1> HIDE DEF f
<1>9. \A i \in 1..kHeaderLen : f[i] = h[i]
  BY <1>1, <1>8
<1>10. ASSUME NEW i \in 1..Len(m) PROVE f[kHeaderLen + i] = m[i]
  <2> DEFINE j == kHeaderLen + i
  <2>1. j \in 1..kHeaderLen + Len(m) /\ ~(j <= kHeaderLen) /\ j - kHeaderLen = i
    BY <1>1
  <2> HIDE DEF j
  <2>2. f[j] = m[j - kHeaderLen]
    BY <1>8, <2>1
  <2> QED
    BY <2>1, <2>2 DEF j
<1> QED
  BY <1>1, <1>7, <1>8, <1>9, <1>10 DEF f, h

-----------------------------------------------------------------------------
(* The stream.                                                             *)

\* Where the bytes of the connection are.
LEMMA WrittenBytes ==
  ASSUME consumed \in Seq(Byte), wire \in Seq(Byte), Sound(inputBuffer_)
  PROVE  /\ Written \in Seq(Byte)
         /\ Len(Written) = Len(consumed) + readableBytes(inputBuffer_) + Len(wire)
         /\ \A i \in 1..readableBytes(inputBuffer_) :
              Written[Len(consumed) + i] = Content(inputBuffer_)[i]
<1> DEFINE c == Content(inputBuffer_)
           taken == consumed \o c
           all == taken \o wire
<1>1. c \in Seq(Byte) /\ Len(c) = readableBytes(inputBuffer_) /\ Len(c) \in Nat
  BY ContentBytes DEF Sound
<1> HIDE DEF c
<1>2. /\ taken \in Seq(Byte) /\ Len(taken) = Len(consumed) + Len(c)
      /\ \A i \in 1..Len(consumed) + Len(c) :
           taken[i] = IF i <= Len(consumed) THEN consumed[i] ELSE c[i - Len(consumed)]
  BY <1>1, Joined
<1> HIDE DEF taken
<1>3. /\ all \in Seq(Byte) /\ Len(all) = Len(taken) + Len(wire)
      /\ \A i \in 1..Len(taken) + Len(wire) :
           all[i] = IF i <= Len(taken) THEN taken[i] ELSE wire[i - Len(taken)]
  BY <1>2, Joined
<1>4. Written = all
  BY DEF Written, all, taken, c
<1> HIDE DEF all
<1>5. ASSUME NEW i \in 1..Len(c) PROVE all[Len(consumed) + i] = c[i]
  <2> DEFINE j == Len(consumed) + i
  <2>1. /\ j \in 1..Len(consumed) + Len(c) /\ ~(j <= Len(consumed)) /\ j - Len(consumed) = i
        /\ j \in 1..Len(taken) + Len(wire) /\ j <= Len(taken)
    BY <1>1, <1>2
  <2> HIDE DEF j
  <2>2. all[j] = taken[j]
    BY <1>3, <2>1
  <2>3. taken[j] = c[j - Len(consumed)]
    BY <1>2, <2>1
  <2> QED
    BY <2>1, <2>2, <2>3 DEF j
<1> QED
  BY <1>1, <1>2, <1>3, <1>4, <1>5 DEF c

\* A prefix, place by place.
LEMMA PrefixIs ==
  ASSUME NEW S, NEW s \in Seq(S), NEW t \in Seq(S)
  PROVE  IsPrefix(s, t) <=> Len(s) <= Len(t) /\ \A i \in 1..Len(s) : s[i] = t[i]
<1> SUFFICES ASSUME Len(s) <= Len(t)
             PROVE  SubSeq(s, 1, Len(s)) = SubSeq(t, 1, Len(s))
                      <=> \A i \in 1..Len(s) : s[i] = t[i]
  BY DEF IsPrefix
<1> DEFINE u == SubSeq(t, 1, Len(s))
<1>1. SubSeq(s, 1, Len(s)) = s
  BY SubSeqFull
<1>2. u \in Seq(S) /\ Len(u) = Len(s) /\ \A i \in 1..Len(s) : u[i] = t[i]
  OBVIOUS
<1> HIDE DEF u
<1>3. s = u <=> \A i \in 1..Len(s) : s[i] = u[i]
  BY <1>2, SeqEqual
<1> QED
  BY <1>1, <1>2, <1>3 DEF u

\* What is known between two steps.
LEMMA Types ==
  ASSUME IInv
  PROVE  /\ inputBuffer_ \in Buffers /\ wire \in Seq(Byte) /\ consumed \in Seq(Byte)
         /\ sent \in Seq(Messages) /\ sent \in Seq(Seq(Byte)) /\ delivered \in Seq(Seq(Byte))
         /\ torn = <<>> => Sound(inputBuffer_)
         /\ callback = "codec" => torn = <<>>
         /\ lpc = "onMessage" => torn = <<>>
<1>1. TypeOK /\ Messages \subseteq Seq(Byte)
  BY CodecAssumption DEF IInv, BufferSound
<1>2. sent \in Seq(Seq(Byte))
  BY <1>1 DEF TypeOK
<1> QED
  BY <1>1, <1>2 DEF IInv, BufferSound, TypeOK, TornEnds, Sound, Buffers

\* A sound buffer is all that BufferSound asks of one that is not torn.
LEMMA SoundSuffices ==
  ASSUME TypeOK', torn' = <<>>, Sound(inputBuffer_)'
  PROVE  BufferSound'
<1>1. Sound(inputBuffer_')
  BY DEF Sound, IndexesInOrder
<1>2. \A len \in 0..Len(wire') : MakeSpaceAsserts(inputBuffer_', len)
  <2>1. \A len \in 0..Len(wire') : len \in Nat
    BY DEF TypeOK
  <2> QED
    BY <1>1, <2>1, MakeSpaceNeverAsserts
<1>3. /\ kCheapPrepend <= inputBuffer_'.readerIndex_
      /\ IndexesInOrder(inputBuffer_')
  BY <1>1 DEF Sound
<1> QED
  BY <1>2, <1>3 DEF BufferSound, IndexesInOrder, MakeSpaceAsserts, writableBytes, prependableBytes, Movable

\* A connection nothing was sent on yet.
LEMMA InitIInv == Init => IInv /\ Stream!Init
<1> SUFFICES ASSUME Init PROVE IInv /\ Stream!Init
  OBVIOUS
<1>1. Sound(inputBuffer_) /\ Content(inputBuffer_) = <<>>
  BY NewBufferSound DEF Init
<1>2. TypeOK
  <2>1. inputBuffer_ \in Buffers
    BY <1>1 DEF Sound
  <2>2. <<>> \in Seq(Byte) /\ <<>> \in Seq(Messages) /\ <<>> \in Seq(Seq(Byte))
    OBVIOUS
  <2> QED
    BY <2>1, <2>2 DEF Init, TypeOK, Buffers
<1>3. \A len \in 0..Len(wire) : MakeSpaceAsserts(inputBuffer_, len)
  <2>1. \A len \in 0..Len(wire) : len \in Nat
    BY DEF Init
  <2> QED
    BY <1>1, <2>1, MakeSpaceNeverAsserts
<1>4. BufferSound /\ TornEnds
  BY <1>1, <1>2, <1>3 DEF Init, BufferSound, TornEnds, Sound
<1>5. Framed
  <2>1. Written = <<>> /\ Len(Written) = 0
    <3>1. consumed = <<>> /\ wire = <<>> /\ Content(inputBuffer_) = <<>>
      BY <1>1 DEF Init
    <3>2. <<>> \o <<>> = <<>>
      OBVIOUS
    <3> QED
      BY <3>1, <3>2 DEF Written
  <2>2. Len(sent) = 0 /\ Len(delivered) = 0 /\ Len(consumed) = 0
    BY DEF Init
  <2> DEFINE cut == [k \in 0..0 |-> 0]
  <2>3. cut \in [0..Len(sent) -> 0..Len(Written)] /\ cut[0] = 0
    BY <2>1, <2>2
  <2> HIDE DEF cut
  <2>4. CutAt(cut)
    BY <2>1, <2>2, <2>3 DEF CutAt
  <2> QED
    BY <2>3, <2>4 DEF Framed
<1>6. FramesInOrder
  BY DEF Init, FramesInOrder, IsPrefix
<1>7. Stream!Init
  BY <1>1 DEF Init, Stream!Init
<1> QED
  BY <1>4, <1>5, <1>6, <1>7 DEF IInv

\* The bytes of a frame arrive behind all others.
LEMMA SendIInv ==
  ASSUME IInv, NEW m \in Messages, Send(m)
  PROVE  IInv' /\ Stream!Write
<1>1. /\ sent' = Append(sent, m) /\ wire' = wire \o Frame(m)
      /\ UNCHANGED <<callback, inputBuffer_, lpc, shut, delivered, consumed, torn>>
  BY DEF Send
<1>2. /\ Frame(m) \in Seq(Byte) /\ Len(Frame(m)) = kHeaderLen + Len(m)
      /\ m \in Seq(Byte)
  BY FrameIs
<1>3. /\ wire \in Seq(Byte) /\ consumed \in Seq(Byte)
      /\ sent \in Seq(Messages) /\ sent \in Seq(Seq(Byte)) /\ delivered \in Seq(Seq(Byte))
      /\ torn = <<>> => Sound(inputBuffer_)
      /\ callback = "codec" => torn = <<>>
  BY Types
<1>4. TypeOK'
  BY <1>1, <1>2, <1>3 DEF IInv, BufferSound, TypeOK
<1>5. BufferSound'
  <2>1. CASE torn = <<>>
    BY <1>1, <1>3, <1>4, <2>1, SoundSuffices DEF Sound, IndexesInOrder
  <2>2. CASE torn # <<>>
    BY <1>1, <1>4, <2>2 DEF IInv, BufferSound
  <2> QED
    BY <2>1, <2>2
<1>6. TornEnds'
  BY <1>1 DEF IInv, TornEnds
<1> DEFINE n == Len(sent)
<1>7. kHeaderLen \in Nat /\ Len(m) \in Nat
  BY <1>2, CodecAssumption, BufferAssumption
<1>8. /\ sent' \in Seq(Messages) /\ sent' \in Seq(Seq(Byte)) /\ Len(sent') = n + 1 /\ n \in Nat
      /\ sent'[n + 1] = m /\ \A k \in 1..n : sent'[k] = sent[k]
  BY <1>1, <1>2, <1>3
<1>9. Framed'
  <2> SUFFICES ASSUME callback = "codec"
               PROVE  \E cut \in [0..Len(sent') -> 0..Len(Written')] : CutAt(cut)'
    BY <1>1 DEF Framed
  <2> DEFINE W == Written
  <2>1. Sound(inputBuffer_)
    BY <1>3
  <2>2. W \in Seq(Byte) /\ Len(W) \in Nat
    BY <1>3, <2>1, WrittenBytes
  <2>3. Written' = W \o Frame(m)
    <3>1. Written' = (consumed \o Content(inputBuffer_)) \o (wire \o Frame(m))
      BY <1>1 DEF Written, Content
    <3>2. Content(inputBuffer_) \in Seq(Byte)
      BY <2>1, ContentBytes DEF Sound
    <3>3. consumed \o Content(inputBuffer_) \in Seq(Byte)
      BY <1>3, <3>2
    <3> QED
      BY <1>2, <1>3, <3>1, <3>3, JoinedTwice DEF Written
  <2> DEFINE W2 == W \o Frame(m)
  <2> HIDE DEF W
  <2>4. /\ W2 \in Seq(Byte) /\ Len(W2) = Len(W) + kHeaderLen + Len(m)
        /\ \A i \in 1..Len(W) : W2[i] = W[i]
    <3>1. /\ W2 \in Seq(Byte) /\ Len(W2) = Len(W) + Len(Frame(m))
          /\ \A i \in 1..Len(W) + Len(Frame(m)) :
               W2[i] = IF i <= Len(W) THEN W[i] ELSE Frame(m)[i - Len(W)]
      BY <1>2, <2>2, Joined
    <3> HIDE DEF W2
    <3>2. Len(Frame(m)) \in Nat /\ Len(W2) = Len(W) + kHeaderLen + Len(m)
      BY <1>2, <1>7, <2>2, <3>1
    <3>3. ASSUME NEW i \in 1..Len(W) PROVE W2[i] = W[i]
      <4>1. i \in 1..Len(W) + Len(Frame(m)) /\ i <= Len(W)
        BY <2>2, <3>2
      <4> QED
        BY <3>1, <4>1
    <3> QED
      BY <3>1, <3>2, <3>3
  <2>5. \A i \in 1..kHeaderLen + Len(m) : W2[Len(W) + i] = Frame(m)[i]
    BY <1>2, <2>2
  <2> HIDE DEF W2
  <2>6. PICK cut \in [0..n -> 0..Len(W)] : CutAt(cut)
    BY DEF IInv, Framed, W
  <2>7. /\ cut[0] = 0 /\ cut[n] = Len(W)
        /\ Len(delivered) <= n /\ Len(consumed) = cut[Len(delivered)]
        /\ \A k \in 1..n :
             /\ cut[k] = cut[k-1] + kHeaderLen + Len(sent[k])
             /\ \A i \in 1..kHeaderLen + Len(sent[k]) : W[cut[k-1] + i] = Frame(sent[k])[i]
    BY <2>6 DEF CutAt, W
  <2>8. PICK cut2 \in [0..n+1 -> 0..Len(W2)] :
          (\A k \in 0..n : cut2[k] = cut[k]) /\ cut2[n + 1] = Len(W2)
    <3> DEFINE longer == [k \in 0..n+1 |-> IF k <= n THEN cut[k] ELSE Len(W2)]
    <3>1. /\ \A k \in 0..n : longer[k] = cut[k]
          /\ longer[n + 1] = Len(W2)
      BY <1>8
    <3>2. longer \in [0..n+1 -> 0..Len(W2)]
      BY <1>7, <1>8, <2>2, <2>4
    <3> QED
      BY <3>1, <3>2
  <2>9. ASSUME NEW k \in 1..n+1
        PROVE  /\ cut2[k] = cut2[k-1] + kHeaderLen + Len(sent'[k])
               /\ \A i \in 1..kHeaderLen + Len(sent'[k]) :
                    W2[cut2[k-1] + i] = Frame(sent'[k])[i]
    <3>1. CASE k = n + 1
      <4>1. cut2[k-1] = Len(W) /\ cut2[k] = Len(W) + kHeaderLen + Len(m) /\ sent'[k] = m
        <5>1. k - 1 = n /\ n \in 0..n
          BY <1>8, <3>1
        <5> QED
          BY <1>8, <2>4, <2>7, <2>8, <3>1, <5>1
      <4> QED
        BY <2>5, <4>1, <1>7, <2>2
    <3>2. CASE k \in 1..n
      <4>1. /\ cut2[k] = cut[k] /\ cut2[k-1] = cut[k-1] /\ sent'[k] = sent[k]
            /\ cut[k] \in 0..Len(W) /\ cut[k-1] \in 0..Len(W)
            /\ cut[k] = cut[k-1] + kHeaderLen + Len(sent[k])
        <5>1. k \in 0..n /\ k-1 \in 0..n
          BY <1>8, <3>2
        <5> QED
          BY <1>8, <2>7, <2>8, <3>2, <5>1
      <4>2. ASSUME NEW i \in 1..kHeaderLen + Len(sent[k])
            PROVE  W2[cut[k-1] + i] = Frame(sent[k])[i]
        <5>1. cut[k-1] + i \in 1..Len(W)
          <6>1. sent[k] \in Seq(Byte)
            BY <1>3, <3>2
          <6>2. Len(sent[k]) \in Nat
            BY <6>1
          <6>3. i \in Nat /\ 1 <= i /\ i <= kHeaderLen + Len(sent[k])
            BY <1>7, <6>2
          <6> DEFINE a == cut[k-1]
                     z == cut[k]
          <6>4. /\ a \in Nat /\ z \in Nat /\ z <= Len(W)
                /\ z = a + (kHeaderLen + Len(sent[k]))
            BY <1>7, <2>2, <4>1, <6>2
          <6> HIDE DEF a, z
          <6>5. a + i \in 1..Len(W)
            BY <1>7, <2>2, <6>2, <6>3, <6>4
          <6> QED
            BY <6>5 DEF a
        <5> QED
          BY <2>4, <2>7, <3>2, <5>1
      <4> QED
        BY <4>1, <4>2
    <3> QED
      BY <3>1, <3>2
  <2>10. CutAt(cut2)'
    <3>1. Written' = W2
      BY <2>3 DEF W2
    <3>2. cut2[0] = 0 /\ cut2[Len(delivered)] = Len(consumed) /\ Len(delivered) <= n + 1
      BY <1>3, <1>8, <2>7, <2>8
    <3> QED
      BY <1>1, <1>8, <2>8, <2>9, <3>1, <3>2 DEF CutAt
  <2> QED
    <3>1. Written' = W2
      BY <2>3 DEF W2
    <3> QED
      BY <1>8, <2>8, <2>10, <3>1
<1>10. FramesInOrder'
  <2> SUFFICES ASSUME callback = "codec"
               PROVE  /\ IsPrefix(delivered, sent')
                      /\ shut => /\ Len(delivered) < Len(sent')
                                 /\ Len(sent'[Len(delivered) + 1]) > MaxLen
    BY <1>1 DEF FramesInOrder
  <2>1. /\ Len(delivered) <= n /\ \A k \in 1..Len(delivered) : delivered[k] = sent[k]
        /\ shut => Len(delivered) < n /\ Len(sent[Len(delivered) + 1]) > MaxLen
    BY <1>3, PrefixIs DEF IInv, FramesInOrder
  <2>2. Len(delivered) \in Nat
    BY <1>3
  <2>3. Len(delivered) <= Len(sent') /\ \A k \in 1..Len(delivered) : delivered[k] = sent'[k]
    BY <1>8, <2>1, <2>2
  <2>4. IsPrefix(delivered, sent')
    BY <1>3, <1>8, <2>3, PrefixIs
  <2> QED
    <3>1. ASSUME shut PROVE Len(delivered) + 1 \in 1..n /\ Len(delivered) < n + 1
      BY <1>8, <2>1, <2>2, <3>1
    <3> QED
      BY <1>8, <2>1, <2>4, <3>1
<1>11. Stream!Write
  BY <1>1 DEF Stream!Write
<1> QED
  BY <1>5, <1>6, <1>9, <1>10, <1>11 DEF IInv

\* The same bytes are the same frames.
LEMMA FramedKept ==
  ASSUME Framed, UNCHANGED <<callback, sent, delivered, consumed>>,
         callback = "codec" => Written' = Written
  PROVE  Framed'
<1> SUFFICES ASSUME callback = "codec"
             PROVE  \E cut \in [0..Len(sent') -> 0..Len(Written')] : CutAt(cut)'
  BY DEF Framed
<1>1. PICK cut \in [0..Len(sent) -> 0..Len(Written)] : CutAt(cut)
  BY DEF Framed
<1>2. CutAt(cut)'
  BY <1>1 DEF CutAt
<1> QED
  BY <1>1, <1>2

\* A read moves bytes from the wire to the content.
LEMMA HandleReadIInv ==
  ASSUME IInv, NEW n \in 1..Len(wire), HandleRead(n)
  PROVE  IInv' /\ Stream!Receive
<1> DEFINE d == SubSeq(wire, 1, n)
           rest == SubSeq(wire, n + 1, Len(wire))
           c == Content(inputBuffer_)
<1>1. /\ torn = <<>>
      /\ inputBuffer_' = readFd(inputBuffer_, d) /\ wire' = rest
      /\ UNCHANGED <<callback, shut, sent, delivered, consumed, torn>>
      /\ lpc' = "onMessage"
  BY DEF HandleRead
<1>2. /\ wire \in Seq(Byte) /\ consumed \in Seq(Byte) /\ Sound(inputBuffer_)
      /\ n \in Nat /\ n <= Len(wire)
  BY <1>1, Types
<1>3. d \in Seq(Byte) /\ rest \in Seq(Byte)
  BY <1>2, Part
<1>4. d \o rest = wire
  BY <1>2, PartsJoined
<1>5. c \in Seq(Byte)
  BY <1>2, ContentBytes DEF Sound
<1> HIDE DEF d, rest, c
<1>6. Sound(inputBuffer_') /\ Content(inputBuffer_') = c \o d
  BY <1>1, <1>2, <1>3, ReadFdKeeps DEF c
<1>7. TypeOK'
  BY <1>1, <1>3, <1>6 DEF IInv, BufferSound, TypeOK, Sound, Buffers
<1>8. BufferSound'
  BY <1>1, <1>6, <1>7, SoundSuffices DEF Sound, IndexesInOrder
<1>9. TornEnds' /\ FramesInOrder'
  BY <1>1 DEF IInv, TornEnds, FramesInOrder
<1>10. Written' = Written
  <2>1. Written' = (consumed \o (c \o d)) \o rest
    BY <1>1, <1>6 DEF Written, Content
  <2>2. (consumed \o (c \o d)) \o rest = ((consumed \o c) \o d) \o rest
    BY <1>2, <1>3, <1>5, JoinedTwice
  <2>3. ((consumed \o c) \o d) \o rest = (consumed \o c) \o (d \o rest)
    <3>1. consumed \o c \in Seq(Byte)
      BY <1>2, <1>5
    <3> QED
      BY <1>3, <3>1, JoinedTwice
  <2> QED
    BY <1>4, <2>1, <2>2, <2>3 DEF Written, c
<1>11. Framed'
  BY <1>1, <1>10, FramedKept DEF IInv
<1>12. Stream!Receive
  BY <1>1, <1>6 DEF Stream!Receive, c, d, rest, Content
<1> QED
  BY <1>8, <1>9, <1>11, <1>12 DEF IInv

\* What the codec finds in the buffer: the header of the next message.
LEMMA NextMessage ==
  ASSUME IInv, Decoding, HeaderIn
  PROVE  /\ Sound(inputBuffer_)
         /\ Len(delivered) + 1 \in 1..Len(sent)
         /\ sent[Len(delivered) + 1] \in Messages
         /\ Length \in Int
         /\ ~Invalid <=> Len(sent[Len(delivered) + 1]) <= MaxLen
         /\ ~Invalid => Length = Len(sent[Len(delivered) + 1])
         /\ \A i \in 1..kHeaderLen + Len(sent[Len(delivered) + 1]) :
              i <= readableBytes(inputBuffer_)
                => Content(inputBuffer_)[i] = Frame(sent[Len(delivered) + 1])[i]
<1> DEFINE b == inputBuffer_
           c == Content(b)
           k == Len(delivered) + 1
           W == Written
<1>1. /\ callback = "codec" /\ Sound(b) /\ consumed \in Seq(Byte) /\ wire \in Seq(Byte)
      /\ sent \in Seq(Messages) /\ delivered \in Seq(Seq(Byte))
  BY Types DEF Decoding
<1>2. /\ kHeaderLen \in Nat \ {0} /\ kHeaderLen <= readableBytes(b) /\ readableBytes(b) \in Nat
      /\ c \in Seq(Byte) /\ Len(c) = readableBytes(b)
  BY <1>1, ContentBytes, CodecAssumption, BufferAssumption DEF HeaderIn, Sound
<1>3. /\ W \in Seq(Byte) /\ Len(W) = Len(consumed) + readableBytes(b) + Len(wire)
      /\ \A i \in 1..readableBytes(b) : W[Len(consumed) + i] = c[i]
  BY <1>1, WrittenBytes
<1> HIDE DEF W, c, b
<1>4. PICK cut \in [0..Len(sent) -> 0..Len(W)] : CutAt(cut)
  BY <1>1 DEF IInv, Framed, W
<1>5. /\ cut[Len(sent)] = Len(W)
      /\ Len(delivered) <= Len(sent) /\ Len(consumed) = cut[Len(delivered)]
      /\ \A j \in 1..Len(sent) :
           \A i \in 1..kHeaderLen + Len(sent[j]) : W[cut[j-1] + i] = Frame(sent[j])[i]
  BY <1>4 DEF CutAt, W
<1>6. k \in 1..Len(sent) /\ k - 1 = Len(delivered)
  <2>1. Len(consumed) < Len(W)
    BY <1>1, <1>2, <1>3
  <2> QED
    BY <1>1, <1>5, <2>1
<1> DEFINE m == sent[k]
<1>7. m \in Messages
  BY <1>1, <1>6
<1>8. ASSUME NEW i \in 1..kHeaderLen + Len(m), i <= readableBytes(b)
      PROVE  c[i] = Frame(m)[i]
  <2>1. W[Len(consumed) + i] = Frame(m)[i]
    BY <1>5, <1>6
  <2>2. W[Len(consumed) + i] = c[i]
    BY <1>2, <1>3, <1>7, <1>8
  <2> QED
    BY <2>1, <2>2
<1> HIDE DEF m
<1>9. /\ Len(m) \in 0..Lengths - 1 /\ Len(m) \in Nat
      /\ \A i \in 1..kHeaderLen : Frame(m)[i] = Encode(Len(m))[i]
  BY <1>7, FrameIs
<1> DEFINE header == SubSeq(c, 1, kHeaderLen)
<1>10. header = Encode(Len(m))
  <2>1. header \in Seq(Byte) /\ Len(header) = kHeaderLen
        /\ \A i \in 1..kHeaderLen : header[i] = c[i]
    BY <1>2
  <2>2. \A i \in 1..kHeaderLen : c[i] = Encode(Len(m))[i]
    BY <1>2, <1>8, <1>9
  <2> HIDE DEF header
  <2> QED
    BY <1>9, <2>1, <2>2, EncodeBytes, SameBytes
<1>11. Length = Decode(Encode(Len(m)))
  BY <1>10 DEF Length, c, b
<1>12. /\ Length \in Int /\ (Length = Len(m) \/ (Length < 0 /\ Len(m) > MaxLen))
  BY <1>9, <1>11, DecodeEncode
<1>13. /\ ~Invalid <=> Len(m) <= MaxLen
       /\ ~Invalid => Length = Len(m)
  BY <1>9, <1>12, CodecAssumption DEF Invalid
<1> QED
  BY <1>1, <1>6, <1>7, <1>8, <1>12, <1>13 DEF m, c, b

\* A suffix of a suffix.
LEMMA SuffixTwice ==
  ASSUME NEW s \in Seq(Byte), NEW m \in Nat, NEW n \in Nat, m + n <= Len(s),
         NEW t, t = SubSeq(s, m + 1, Len(s))
  PROVE  SubSeq(t, n + 1, Len(t)) = SubSeq(s, m + n + 1, Len(s))
<1> DEFINE u == SubSeq(t, n + 1, Len(t))
           w == SubSeq(s, (m + n) + 1, Len(s))
<1>1. /\ t \in Seq(Byte) /\ Len(t) = Len(s) - m
      /\ \A i \in 1..Len(s) - m : t[i] = s[m + i]
  <2>1. m <= Len(s) /\ Len(s) \in Nat /\ Len(s) <= Len(s)
    OBVIOUS
  <2> QED
    BY <2>1, Part
<1>2. /\ u \in Seq(Byte) /\ Len(u) = Len(t) - n
      /\ \A i \in 1..Len(t) - n : u[i] = t[n + i]
  <2>1. n <= Len(t) /\ Len(t) \in Nat /\ Len(t) <= Len(t) /\ t \in Seq(Byte)
    BY <1>1
  <2> QED
    BY <2>1, Part
<1>3. /\ w \in Seq(Byte) /\ Len(w) = Len(s) - (m + n)
      /\ \A i \in 1..Len(s) - (m + n) : w[i] = s[(m + n) + i]
  <2>1. m + n \in Nat /\ Len(s) \in Nat /\ Len(s) <= Len(s)
    OBVIOUS
  <2> QED
    BY <2>1, Part
<1> HIDE DEF u, w
<1>4. ASSUME NEW i \in 1..Len(u) PROVE u[i] = w[i]
  <2> DEFINE j == n + i
  <2>1. /\ j \in 1..Len(s) - m /\ m + j = (m + n) + i
        /\ i \in 1..Len(t) - n /\ i \in 1..Len(s) - (m + n)
    BY <1>1, <1>2
  <2>2. u[i] = t[j]
    BY <1>2, <2>1
  <2> HIDE DEF j
  <2>3. t[j] = s[m + j]
    BY <1>1, <2>1
  <2> QED
    BY <1>3, <2>1, <2>2, <2>3
<1>5. Len(u) = Len(w)
  BY <1>1, <1>2, <1>3
<1>6. u = w
  BY <1>2, <1>3, <1>4, <1>5, SameBytes
<1> QED
  BY <1>6 DEF u, w

\* Bytes are taken from the front of the content.
LEMMA TakeKeeps ==
  ASSUME consumed \in Seq(Byte), wire \in Seq(Byte), Sound(inputBuffer_),
         NEW n \in Nat, n <= readableBytes(inputBuffer_),
         wire' = wire,
         consumed' = consumed \o SubSeq(Content(inputBuffer_), 1, n),
         Content(inputBuffer_') =
           SubSeq(Content(inputBuffer_), n + 1, Len(Content(inputBuffer_)))
  PROVE  /\ Written' = Written
         /\ consumed' \in Seq(Byte) /\ Len(consumed') = Len(consumed) + n
<1> DEFINE c == Content(inputBuffer_)
           front == SubSeq(c, 1, n)
           rest == SubSeq(c, n + 1, Len(c))
<1>1. c \in Seq(Byte) /\ n <= Len(c)
  BY ContentBytes DEF Sound
<1> HIDE DEF c
<1>2. front \in Seq(Byte) /\ Len(front) = n /\ rest \in Seq(Byte) /\ front \o rest = c
  <2>1. front \in Seq(Byte) /\ Len(front) = n
    BY <1>1
  <2>2. rest \in Seq(Byte)
    BY <1>1, Part
  <2> QED
    BY <1>1, <2>1, <2>2, PartsJoined
<1>3. consumed' = consumed \o front /\ Content(inputBuffer_') = rest
  BY DEF c
<1> HIDE DEF front, rest
<1>4. consumed' \in Seq(Byte) /\ Len(consumed') = Len(consumed) + n
  <2>1. front \in Seq(Byte)
    BY <1>2
  <2>2. consumed \o front \in Seq(Byte) /\ Len(consumed \o front) = Len(consumed) + Len(front)
    BY <2>1, Joined
  <2> QED
    BY <1>2, <1>3, <2>2
<1>5. Written' = ((consumed \o front) \o rest) \o wire
  BY <1>3 DEF Written, Content
<1>6. (consumed \o front) \o rest = consumed \o (front \o rest)
  BY <1>2, JoinedTwice
<1> QED
  BY <1>2, <1>4, <1>5, <1>6 DEF Written, c

\* The application takes bytes as it likes.
LEMMA RetrieveIInv ==
  ASSUME IInv, NEW len \in 1..readableBytes(inputBuffer_), Retrieve(len)
  PROVE  IInv' /\ Stream!Take
<1> DEFINE c == Content(inputBuffer_)
<1>1. /\ callback = "bytes" /\ lpc = "onMessage" /\ lpc' = "poll"
      /\ inputBuffer_' = retrieve(inputBuffer_, len)
      /\ consumed' = consumed \o SubSeq(c, 1, len)
      /\ UNCHANGED <<callback, wire, shut, sent, delivered, torn>>
  BY DEF Retrieve, Taking
<1>2. /\ torn = <<>> /\ wire \in Seq(Byte) /\ consumed \in Seq(Byte) /\ Sound(inputBuffer_)
  BY <1>1, Types
<1>3. /\ c \in Seq(Byte) /\ Len(c) = readableBytes(inputBuffer_)
      /\ len \in Nat /\ len \in 1..Len(c)
  BY <1>2, ContentBytes DEF Sound
<1>4. Sound(inputBuffer_') /\ Content(inputBuffer_') = SubSeq(c, len + 1, Len(c))
  BY <1>1, <1>2, <1>3, RetrieveKeeps
<1>5. consumed' \in Seq(Byte)
  BY <1>1, <1>2, <1>3, <1>4, TakeKeeps
<1>6. TypeOK'
  BY <1>1, <1>4, <1>5 DEF IInv, BufferSound, TypeOK, Sound, Buffers
<1>7. BufferSound'
  BY <1>1, <1>2, <1>4, <1>6, SoundSuffices DEF Sound, IndexesInOrder
<1>8. TornEnds' /\ Framed' /\ FramesInOrder'
  BY <1>1, <1>2 DEF TornEnds, Framed, FramesInOrder
<1> HIDE DEF c
<1>9. Stream!Take
  <2>1. /\ consumed' = consumed \o SubSeq(c, 1, len)
        /\ Content(inputBuffer_)' = SubSeq(c, len + 1, Len(c))
    BY <1>1, <1>4 DEF Content
  <2> QED
    BY <1>1, <1>2, <1>3, <2>1 DEF Stream!Take, c
<1> QED
  BY <1>7, <1>8, <1>9 DEF IInv

\* shrink: what it tears is remembered, and nothing happens afterwards.
LEMMA ShrinkIInv ==
  ASSUME IInv, NEW reserve \in Reserves, Shrink(reserve)
  PROVE  IInv' /\ UNCHANGED Stream!vars
<1> DEFINE c == Content(inputBuffer_)
           s == shrink(inputBuffer_, reserve)
<1>1. /\ callback = "bytes" /\ lpc = "onMessage" /\ lpc' = "poll"
      /\ inputBuffer_' = s
      /\ torn' = IF IndexesInOrder(s) /\ Content(s) = c THEN <<>> ELSE <<c>>
      /\ UNCHANGED <<callback, wire, shut, sent, delivered, consumed>>
  BY DEF Shrink, Taking
<1>2. /\ torn = <<>> /\ Sound(inputBuffer_)
  BY <1>1, Types
<1>3. /\ s \in Buffers /\ s.readerIndex_ = inputBuffer_.readerIndex_
      /\ inputBuffer_.readerIndex_ = kCheapPrepend => IndexesInOrder(s) /\ Content(s) = c
  <2>1. reserve \in Nat
    BY CodecAssumption
  <2> QED
    BY <1>2, <2>1, ShrinkKeeps
<1> HIDE DEF c, s
<1>4. <<c>> # <<>> /\ <<c>>[1] = c
  OBVIOUS
<1>5. TypeOK'
  BY <1>1, <1>3 DEF IInv, BufferSound, TypeOK, Buffers
<1>6. BufferSound'
  <2>1. CASE torn' = <<>>
    <3>1. Sound(inputBuffer_')
      BY <1>1, <1>2, <1>3, <1>4, <2>1 DEF Sound
    <3> QED
      BY <1>5, <2>1, <3>1, SoundSuffices DEF Sound, IndexesInOrder
  <2>2. CASE torn' # <<>>
    <3>1. inputBuffer_'.readerIndex_ > kCheapPrepend
      <4>1. inputBuffer_.readerIndex_ # kCheapPrepend
        BY <1>1, <1>3, <2>2
      <4> QED
        BY <1>1, <1>2, <1>3, <4>1, BufferAssumption DEF Sound, Buffers
    <3> QED
      BY <1>5, <2>2, <3>1 DEF BufferSound
  <2> QED
    BY <2>1, <2>2
<1>7. TornEnds' /\ Framed' /\ FramesInOrder'
  BY <1>1 DEF TornEnds, Framed, FramesInOrder
<1>8. UNCHANGED Stream!vars
  <2>1. (IF torn = <<>> THEN Content(inputBuffer_) ELSE torn[1]) = c
    BY <1>2 DEF c
  <2>2. (IF torn' = <<>> THEN Content(inputBuffer_') ELSE torn'[1]) = c
    BY <1>1, <1>4
  <2> QED
    BY <1>1, <2>1, <2>2 DEF Stream!vars, Content
<1> QED
  BY <1>6, <1>7, <1>8 DEF IInv

\* The bytes after the header are the message.
LEMMA MessageFound ==
  ASSUME IInv, Decoding, HeaderIn, ~Invalid, Complete
  PROVE  LET rest == retrieve(inputBuffer_, kHeaderLen)
             message == sent[Len(delivered) + 1]
         IN  /\ Len(message) = Length /\ Length \in Nat
             /\ kHeaderLen + Length \in 1..readableBytes(inputBuffer_)
             /\ SubSeq(rest.buffer_, rest.readerIndex_ + 1, rest.readerIndex_ + Length) = message
             /\ Sound(rest) /\ Length <= readableBytes(rest)
             /\ Content(rest) =
                  SubSeq(Content(inputBuffer_), kHeaderLen + 1, Len(Content(inputBuffer_)))
<1> DEFINE b == inputBuffer_
           c == Content(b)
           rest == retrieve(b, kHeaderLen)
           m == sent[Len(delivered) + 1]
           message == SubSeq(rest.buffer_, rest.readerIndex_ + 1, rest.readerIndex_ + Length)
<1>1. /\ Sound(b) /\ m \in Messages /\ Length = Len(m)
      /\ \A i \in 1..kHeaderLen + Len(m) : i <= readableBytes(b) => c[i] = Frame(m)[i]
  BY NextMessage
<1>2. /\ kHeaderLen \in Nat \ {0} /\ kHeaderLen <= readableBytes(b)
      /\ readableBytes(b) >= Length + kHeaderLen
  BY CodecAssumption, BufferAssumption DEF HeaderIn, Complete
<1>3. c \in Seq(Byte) /\ Len(c) = readableBytes(b) /\ readableBytes(b) \in Nat
  BY <1>1, ContentBytes DEF Sound
<1>4. Sound(rest) /\ Content(rest) = SubSeq(c, kHeaderLen + 1, Len(c))
  BY <1>1, <1>2, RetrieveKeeps
<1>5. /\ m \in Seq(Byte) /\ Len(m) \in Nat
      /\ \A i \in 1..Len(m) : Frame(m)[kHeaderLen + i] = m[i]
  BY <1>1, FrameIs
<1> HIDE DEF b, c, rest, m
<1>6. /\ Len(Content(rest)) = Len(c) - kHeaderLen
      /\ \A i \in 1..Len(c) - kHeaderLen : Content(rest)[i] = c[kHeaderLen + i]
  <2>1. kHeaderLen <= Len(c) /\ Len(c) \in Nat /\ kHeaderLen \in Nat
    BY <1>2, <1>3
  <2> QED
    BY <1>3, <1>4, <2>1, Part
<1>7. /\ readableBytes(rest) = Len(c) - kHeaderLen
      /\ \A i \in 1..readableBytes(rest) : Content(rest)[i] = rest.buffer_[rest.readerIndex_ + i]
  BY <1>4, <1>6, ContentBytes DEF Sound
<1>8. Length \in Nat /\ Length <= readableBytes(rest) /\ readableBytes(rest) \in Nat
  BY <1>1, <1>2, <1>3, <1>5, <1>7
<1>9. /\ message \in Seq(Byte) /\ Len(message) = Length
      /\ \A i \in 1..Length : message[i] = rest.buffer_[rest.readerIndex_ + i]
  <2> DEFINE v == rest.buffer_
             r == rest.readerIndex_
  <2>1. /\ v \in Seq(Byte) /\ r \in Nat /\ r + Length <= Len(v)
        /\ r + Length \in Nat /\ r <= r + Length
    BY <1>4, <1>8 DEF Sound, Buffers, IndexesInOrder, readableBytes
  <2> HIDE DEF v, r
  <2> DEFINE p == SubSeq(v, r + 1, r + Length)
  <2>2. /\ p \in Seq(Byte) /\ Len(p) = (r + Length) - r
        /\ \A i \in 1..(r + Length) - r : p[i] = v[r + i]
    BY <2>1, Part
  <2>3. (r + Length) - r = Length
    BY <1>8, <2>1
  <2> QED
    BY <2>2, <2>3 DEF v, r
<1> HIDE DEF message
<1>10. ASSUME NEW i \in 1..Length PROVE message[i] = m[i]
  <2>1. /\ i \in 1..readableBytes(rest) /\ i \in 1..Len(c) - kHeaderLen
        /\ i \in 1..Len(m)
        /\ kHeaderLen + i \in 1..kHeaderLen + Len(m) /\ kHeaderLen + i <= readableBytes(b)
    BY <1>1, <1>2, <1>3, <1>7, <1>8
  <2>2. message[i] = Content(rest)[i]
    BY <1>7, <1>9, <2>1
  <2>3. Content(rest)[i] = c[kHeaderLen + i]
    BY <1>6, <2>1
  <2>4. c[kHeaderLen + i] = Frame(m)[kHeaderLen + i]
    BY <1>1, <2>1
  <2> QED
    BY <1>5, <2>1, <2>2, <2>3, <2>4
<1>11. message = m
  BY <1>1, <1>5, <1>9, <1>10, SameBytes
<1>12. kHeaderLen + Length \in 1..readableBytes(b)
  BY <1>2, <1>3, <1>8
<1> QED
  BY <1>1, <1>4, <1>8, <1>11, <1>12 DEF b, c, rest, m, message

\* The codec takes the next frame and delivers its message.
LEMMA DeliverIInv ==
  ASSUME IInv, Deliver
  PROVE  IInv' /\ Stream!Take
<1> DEFINE b == inputBuffer_
           c == Content(b)
           rest == retrieve(b, kHeaderLen)
           k == Len(delivered) + 1
           m == sent[k]
           n == kHeaderLen + Length
<1>1. /\ Decoding /\ HeaderIn /\ ~Invalid /\ Complete
      /\ inputBuffer_' = retrieve(rest, Length)
      /\ consumed' = consumed \o SubSeq(c, 1, n)
      /\ UNCHANGED <<callback, wire, lpc, shut, sent, torn>>
      /\ callback = "codec" /\ lpc = "onMessage"
  BY DEF Deliver, Decoding
<1>2. /\ Len(m) = Length /\ Length \in Nat /\ n \in 1..readableBytes(b)
      /\ Sound(rest) /\ Length <= readableBytes(rest)
      /\ Content(rest) = SubSeq(c, kHeaderLen + 1, Len(c))
  BY <1>1, MessageFound
<1>3. delivered' = Append(delivered, m)
  BY <1>1, MessageFound DEF Deliver
<1>4. /\ k \in 1..Len(sent) /\ m \in Messages /\ Len(m) <= MaxLen
  BY <1>1, NextMessage
<1>5. /\ torn = <<>> /\ wire \in Seq(Byte) /\ consumed \in Seq(Byte) /\ Sound(b)
      /\ sent \in Seq(Messages) /\ sent \in Seq(Seq(Byte)) /\ delivered \in Seq(Seq(Byte))
  BY <1>1, Types
<1>6. /\ c \in Seq(Byte) /\ Len(c) = readableBytes(b) /\ readableBytes(b) \in Nat
      /\ kHeaderLen \in Nat
  BY <1>5, ContentBytes, CodecAssumption, BufferAssumption DEF Sound
<1>7. Sound(inputBuffer_') /\ Content(inputBuffer_') = SubSeq(c, n + 1, Len(c))
  <2>1. /\ Sound(inputBuffer_')
        /\ Content(inputBuffer_') = SubSeq(Content(rest), Length + 1, Len(Content(rest)))
    BY <1>1, <1>2, RetrieveKeeps
  <2> HIDE DEF c, rest
  <2>2. kHeaderLen + Length <= Len(c)
    BY <1>2, <1>6
  <2> DEFINE t == Content(rest)
             len == Length
  <2>3. /\ t = SubSeq(c, kHeaderLen + 1, Len(c)) /\ len \in Nat /\ kHeaderLen \in Nat
        /\ kHeaderLen + len <= Len(c) /\ c \in Seq(Byte)
        /\ Content(inputBuffer_') = SubSeq(t, len + 1, Len(t))
    BY <1>2, <1>6, <2>1, <2>2
  <2> HIDE DEF t, len
  <2>4. SubSeq(t, len + 1, Len(t)) = SubSeq(c, kHeaderLen + len + 1, Len(c))
    BY <2>3, SuffixTwice
  <2> QED
    BY <2>1, <2>3, <2>4 DEF len
<1>8. /\ Written' = Written /\ consumed' \in Seq(Byte) /\ Len(consumed') = Len(consumed) + n
  <2>1. n \in Nat /\ n <= readableBytes(b)
    BY <1>2, <1>6
  <2> HIDE DEF n
  <2> QED
    BY <1>1, <1>5, <1>7, <2>1, TakeKeeps
<1>9. /\ delivered' \in Seq(Seq(Byte)) /\ Len(delivered') = k
      /\ \A i \in 1..k : delivered'[i] = IF i = k THEN m ELSE delivered[i]
  BY <1>3, <1>4, <1>5
<1>10. TypeOK'
  BY <1>1, <1>7, <1>8, <1>9 DEF IInv, BufferSound, TypeOK, Sound, Buffers
<1>11. BufferSound'
  BY <1>1, <1>5, <1>7, <1>10, SoundSuffices DEF Sound, IndexesInOrder
<1>12. TornEnds'
  BY <1>1, <1>5 DEF TornEnds
<1>13. Framed'
  <2>1. PICK cut \in [0..Len(sent) -> 0..Len(Written)] : CutAt(cut)
    BY <1>1 DEF IInv, Framed
  <2>2. CutAt(cut)'
    <3>1. Len(delivered) \in Nat /\ k - 1 = Len(delivered)
      BY <1>5
    <3>2. Len(consumed) = cut[k - 1] /\ cut[k] = cut[k - 1] + kHeaderLen + Len(m)
      BY <1>4, <2>1, <3>1 DEF CutAt
    <3>3. Len(consumed) \in Nat
      BY <1>5
    <3>4. Len(consumed') = cut[k]
      BY <1>2, <1>6, <1>8, <3>2, <3>3
    <3>5. Len(delivered') <= Len(sent) /\ Len(consumed') = cut[Len(delivered')]
      BY <1>4, <1>9, <3>4
    <3> QED
      BY <1>1, <1>8, <2>1, <3>5 DEF CutAt
  <2> QED
    BY <1>1, <1>8, <2>1, <2>2 DEF Framed
<1>14. FramesInOrder'
  <2>1. IsPrefix(delivered, sent) /\ ~shut
    <3>1. ~(Len(m) > MaxLen)
      BY <1>2, <1>4, CodecAssumption
    <3> QED
      BY <1>1, <3>1 DEF IInv, FramesInOrder
  <2>2. Len(delivered) <= Len(sent) /\ \A i \in 1..Len(delivered) : delivered[i] = sent[i]
    BY <1>5, <2>1, PrefixIs
  <2>3. ASSUME NEW i \in 1..k PROVE delivered'[i] = sent[i]
    <3>1. i = k \/ i \in 1..Len(delivered)
      BY <1>5
    <3> QED
      BY <1>9, <2>2, <3>1
  <2>4. k <= Len(sent)
    BY <1>4
  <2>5. IsPrefix(delivered', sent)
    <3> HIDE DEF k, m
    <3>1. \A i \in 1..Len(delivered') : delivered'[i] = sent[i]
      BY <1>9, <2>3
    <3> QED
      BY <1>5, <1>9, <2>4, <3>1, PrefixIs
  <2> QED
    BY <1>1, <2>1, <2>5 DEF FramesInOrder
<1>15. Stream!Take
  <2>1. n \in 1..Len(c) /\ Content(inputBuffer_)' = SubSeq(c, n + 1, Len(c))
    BY <1>2, <1>6, <1>7 DEF Content
  <2> HIDE DEF n
  <2> QED
    BY <1>1, <1>5, <2>1 DEF Stream!Take, c, b
<1> QED
  BY <1>11, <1>12, <1>13, <1>14, <1>15 DEF IInv

\* The codec gives the connection up: the next message is longer than it accepts.
LEMMA RejectIInv ==
  ASSUME IInv, Reject
  PROVE  IInv' /\ UNCHANGED Stream!vars
<1>1. /\ Decoding /\ HeaderIn /\ Invalid /\ shut' = TRUE /\ lpc' = "poll"
      /\ UNCHANGED <<callback, wire, inputBuffer_, sent, delivered, consumed, torn>>
  BY DEF Reject
<1>2. /\ Len(delivered) + 1 \in 1..Len(sent)
      /\ sent[Len(delivered) + 1] \in Messages /\ ~(Len(sent[Len(delivered) + 1]) <= MaxLen)
  BY <1>1, NextMessage
<1>3. Len(sent[Len(delivered) + 1]) > MaxLen /\ Len(delivered) < Len(sent)
  <2>1. Len(sent[Len(delivered) + 1]) \in Nat /\ Len(delivered) \in Nat
    BY <1>2, FrameIs, Types
  <2> QED
    BY <1>2, <2>1, CodecAssumption
<1>4. BufferSound'
  BY <1>1 DEF IInv, BufferSound, TypeOK, IndexesInOrder, MakeSpaceAsserts, writableBytes,
              Movable, prependableBytes
<1>5. TornEnds' /\ FramesInOrder'
  BY <1>1, <1>3 DEF IInv, TornEnds, FramesInOrder, Decoding
<1>6. Framed'
  BY <1>1, FramedKept DEF IInv, Written, Content
<1> QED
  BY <1>1, <1>4, <1>5, <1>6 DEF IInv, Stream!vars, Content

\* The codec waits, or nothing happens.
LEMMA WaitIInv ==
  ASSUME IInv, Wait \/ UNCHANGED vars
  PROVE  IInv' /\ UNCHANGED Stream!vars
<1>1. /\ lpc' \in {lpc, "poll"}
      /\ UNCHANGED <<callback, wire, inputBuffer_, shut, sent, delivered, consumed, torn>>
  BY DEF Wait, vars
<1>2. BufferSound'
  BY <1>1 DEF IInv, BufferSound, TypeOK, IndexesInOrder, MakeSpaceAsserts, writableBytes,
              Movable, prependableBytes
<1>3. TornEnds' /\ FramesInOrder'
  BY <1>1 DEF IInv, TornEnds, FramesInOrder
<1>4. Framed'
  BY <1>1, FramedKept DEF IInv, Written, Content
<1> QED
  BY <1>1, <1>2, <1>3, <1>4 DEF IInv, Stream!vars, Content

\* Every step keeps the inductive invariant and is a step of the byte stream.
LEMMA NextIInv ==
  ASSUME IInv, [Next]_vars
  PROVE  IInv' /\ [Stream!Write \/ Stream!Receive \/ Stream!Take]_(Stream!vars)
<1>1. CASE \E m \in Messages : Send(m)
  BY <1>1, SendIInv
<1>2. CASE Read
  BY <1>2, HandleReadIInv DEF Read
<1>3. CASE OnMessage
  BY <1>3, DeliverIInv, RejectIInv, WaitIInv DEF OnMessage
<1>4. CASE \E len \in 1..readableBytes(inputBuffer_) : Retrieve(len)
  BY <1>4, RetrieveIInv
<1>5. CASE \E reserve \in Reserves : Shrink(reserve)
  BY <1>5, ShrinkIInv
<1>6. CASE UNCHANGED vars
  BY <1>6, WaitIInv
<1> QED
  BY <1>1, <1>2, <1>3, <1>4, <1>5, <1>6 DEF Next

-----------------------------------------------------------------------------

\* The indexes, the frames and what is delivered always fit together, whatever
\* is sent, however it is cut into reads and whoever takes it.
THEOREM InvariantHolds == Spec => []IInv
<1>1. Init => IInv
  BY InitIInv
<1>2. IInv /\ [Next]_vars => IInv'
  BY NextIInv
<1> QED
  BY <1>1, <1>2, PTL DEF Spec

\* readerIndex_ and writerIndex_ are in order and makeSpace's assertion holds
\* for every length, until shrink tears a buffer that was partly retrieved.
THEOREM BufferSoundHolds == Spec => []BufferSound
<1>1. IInv => BufferSound
  BY DEF IInv
<1> QED
  BY <1>1, InvariantHolds, PTL

\* Codec::onMessage delivers the messages sent, in order, and shuts a
\* connection down only for a message longer than it accepts.
THEOREM FramesInOrderHolds == Spec => []FramesInOrder
<1>1. IInv => FramesInOrder
  BY DEF IInv
<1> QED
  BY <1>1, InvariantHolds, PTL

\* inputBuffer_ implements the byte stream: a read moves bytes from the wire to
\* the content, a take moves them to the application, all else is a stutter.
THEOREM ImplementsByteStreamHolds == Spec => ImplementsByteStream
<1>1. Init => Stream!Init
  BY InitIInv
<1>2. IInv /\ [Next]_vars => [Stream!Write \/ Stream!Receive \/ Stream!Take]_(Stream!vars)
  BY NextIInv
<1> QED
  BY <1>1, <1>2, InvariantHolds, PTL DEF Spec, ImplementsByteStream, Stream!Spec
=============================================================================
