------------------------ MODULE AsyncLoggingProofs --------------------------
(***************************************************************************)
(* AsyncLogging, for every size of a buffer and a file, every flush        *)
(* interval and every number of lines and failing writes.                  *)
(*                                                                         *)
(* PoolBalance: threadFunc never recycles a buffer it does not have.       *)
(* append uses nextBuffer_ up only when it hands a full buffer to          *)
(* buffers_; the swap gives newBuffer2 away only when nextBuffer_ is used  *)
(* up, and then takes over that full buffer as well as currentBuffer_, one *)
(* for each spare buffer it gave away.                                     *)
(*                                                                         *)
(* FileInv: the appends since a file's day is over are among the count_    *)
(* appends since the last look at the clock.                               *)
(*                                                                         *)
(* LinesKept: the lines are taken for what they are, numbers, and a place  *)
(* for the set it holds and the order it holds them in.  Each step of      *)
(* append and of threadFunc is then one of three: a line behind the last   *)
(* one, an empty buffer behind the last one, the first buffer moved to the *)
(* file; whatever LogFile does with the file leaves its lines alone.       *)
(*                                                                         *)
(* LinesInOrder, which joins the buffers with a fold, follows from it: a   *)
(* fold over the first k buffers has a value for every k (FoldExists), and *)
(* the value holds their lines in order (LinesHeld).  Both go by induction *)
(* on k, which a least counterexample stands for (NatMin, NatInd).         *)
(***************************************************************************)
EXTENDS AsyncLogging, SequenceTheorems, WellFoundedInduction, TLAPS

\* A pointer that is not null points to a buffer.
LEMMA PointerTarget ==
  ASSUME NEW p \in BufferPtr, p # <<>>
  PROVE  p[1] \in Buffer
BY DEF BufferPtr

\* A pointer to a buffer is a pointer, and not null.
LEMMA PointerTo ==
  ASSUME NEW b \in Buffer
  PROVE  <<b>> \in BufferPtr /\ <<b>> # <<>>
BY DEF BufferPtr

\* New points to an empty buffer.
LEMMA NewPointer ==
  New \in BufferPtr /\ New # <<>> /\ New[1] = <<>> /\ <<>> \in BufferPtr
<1>1. <<>> \in Buffer
  BY DEF Buffer
<1>2. New \in BufferPtr /\ New # <<>>
  BY <1>1, PointerTo DEF New
<1>3. <<>> \in BufferPtr
  BY DEF BufferPtr
<1>4. New[1] = <<>>
  BY DEF New
<1> QED
  BY <1>2, <1>3, <1>4

\* A line is added to a buffer.
LEMMA LineInBuffer ==
  ASSUME NEW b \in Buffer, NEW n \in Nat
  PROVE  Append(b, n) \in Buffer
BY DEF Buffer

\* A buffer is added to a sequence of buffers.
LEMMA BufferInSeq ==
  ASSUME NEW s \in Seq(Buffer), NEW b \in Buffer
  PROVE  /\ Append(s, b) \in Seq(Buffer)
         /\ Append(s, b) # <<>>
         /\ s # <<>> => Len(Append(s, b)) >= 2
<1>1. Append(s, b) \in Seq(Buffer)
  OBVIOUS
<1>2. Len(s) \in Nat /\ Len(Append(s, b)) = Len(s) + 1
  OBVIOUS
<1>3. Append(s, b) # <<>>
  BY <1>2
<1>4. s # <<>> => Len(s) # 0
  OBVIOUS
<1> QED
  BY <1>1, <1>2, <1>3, <1>4

-----------------------------------------------------------------------------

\* The constructor establishes the invariant.
LEMMA InitPoolInv == Init => PoolInv
BY NewPointer DEF Init, PoolInv, PoolTypeOK, PoolBalance

\* start() only makes the backend run.
LEMMA StartPoolInv == PoolInv /\ Start => PoolInv'
BY DEF PoolInv, PoolTypeOK, PoolBalance, Start, poolVars, fileVars

\* append keeps it: nextBuffer_ goes only when buffers_ grows.
LEMMA AppendLinePoolInv == PoolInv /\ AppendLine => PoolInv'
<1> SUFFICES ASSUME PoolInv, AppendLine PROVE PoolInv'
  OBVIOUS
<1> USE DEF PoolInv, PoolTypeOK
<1>1. currentBuffer_[1] \in Buffer
  BY PointerTarget
<1>2. Replacement \in Buffer
  BY NewPointer, PointerTarget DEF PoolBalance, Replacement, Buffer
<1>3. appended' \in Nat /\ appended + 1 \in Nat
  BY DEF AppendLine
<1>4. currentBuffer_' \in BufferPtr /\ currentBuffer_' # <<>>
  BY <1>1, <1>2, <1>3, LineInBuffer, PointerTo DEF AppendLine
<1>5. buffers_' \in Seq(Buffer)
  BY <1>1, BufferInSeq DEF AppendLine
<1>6. nextBuffer_' \in {<<>>, New}
  BY DEF AppendLine, PoolBalance
<1>7. nextBuffer_' = <<>> => buffers_' # <<>>
  BY <1>1, BufferInSeq DEF AppendLine, PoolBalance
<1>8. UNCHANGED <<backVars, stopVars, fileVars>>
  BY DEF AppendLine
<1>9. PoolTypeOK'
  BY <1>3, <1>4, <1>5, <1>6, <1>8, NewPointer DEF backVars, stopVars, fileVars
<1>10. PoolBalance'
  BY <1>6, <1>7, <1>8 DEF PoolBalance, backVars
<1> QED
  BY <1>9, <1>10

\* stop() touches no buffer.
LEMMA StopPoolInv == PoolInv /\ (StopStore \/ StopNotify \/ StopJoin) => PoolInv'
BY DEF PoolInv, PoolTypeOK, PoolBalance, StopStore, StopNotify, StopJoin,
       poolVars, backVars, fileVars

\* The opening of the file, the test, the lock and the wait of threadFunc touch no buffer.
LEMMA BackWaitPoolInv ==
  PoolInv /\ (BackOpen \/ BackTest \/ BackLock \/ BackTimeout) => PoolInv'
BY DEF PoolInv, PoolTypeOK, PoolBalance, BackOpen, BackTest, BackLock, BackTimeout,
       poolVars, stopVars, fileVars

\* The swap keeps it: newBuffer2 goes only when two buffers come.
LEMMA BackSwapPoolInv == PoolInv /\ BackSwap => PoolInv'
<1> SUFFICES ASSUME PoolInv, BackSwap PROVE PoolInv'
  OBVIOUS
<1> USE DEF PoolInv, PoolTypeOK
<1>1. newBuffer1 = New /\ newBuffer2 = New
  BY DEF BackSwap, PoolBalance
<1>2. currentBuffer_[1] \in Buffer
  BY PointerTarget
<1>3. /\ buffersToWrite' \in Seq(Buffer)
      /\ buffersToWrite' # <<>>
      /\ buffers_ # <<>> => Len(buffersToWrite') >= 2
  BY <1>2, BufferInSeq DEF BackSwap
<1>4. /\ currentBuffer_' = New
      /\ newBuffer1' = <<>>
      /\ buffers_' = <<>>
      /\ bpc' = "write"
  BY <1>1 DEF BackSwap
<1>5. /\ nextBuffer_' = New
      /\ newBuffer2' \in {<<>>, New}
      /\ newBuffer2' = <<>> => buffers_ # <<>>
  BY <1>1, NewPointer DEF BackSwap, PoolBalance
<1>6. PoolTypeOK'
  BY <1>3, <1>4, <1>5, NewPointer DEF BackSwap, stopVars, fileVars
<1>7. PoolBalance'
  BY <1>3, <1>4, <1>5, NewPointer DEF PoolBalance
<1> QED
  BY <1>6, <1>7

\* Writing to the file changes no buffer.
LEMMA BackWritePoolInv == PoolInv /\ (BackWrite \/ BackWritten) => PoolInv'
BY DEF PoolInv, PoolTypeOK, PoolBalance, BackWrite, BackWritten, poolVars, backVars,
       stopVars

\* Time goes by.
LEMMA TickPoolInv == PoolInv /\ Tick => PoolInv'
BY DEF PoolInv, PoolTypeOK, PoolBalance, Tick, poolVars, backVars, stopVars, fileVars

\* The counting step: as many buffers were taken over as pointers are missing.
LEMMA BalanceGivesBuffers == PoolInv => RecycleHasBuffers
<1> SUFFICES ASSUME PoolInv, bpc = "recycle" PROVE Missing <= Recyclable
  BY DEF RecycleHasBuffers
<1>1. Len(buffersToWrite) \in Nat /\ Len(buffersToWrite) >= 1
  BY DEF PoolInv, PoolTypeOK, PoolBalance
<1>2. newBuffer2 = <<>> => Len(buffersToWrite) >= 2
  BY DEF PoolInv, PoolBalance
<1> QED
  BY <1>1, <1>2 DEF Missing, Recyclable

\* The recycling gives both spare pointers a buffer again.
LEMMA BackRecyclePoolInv == PoolInv /\ BackRecycle => PoolInv'
<1> SUFFICES ASSUME PoolInv, BackRecycle PROVE PoolInv'
  OBVIOUS
<1> USE DEF PoolInv, PoolTypeOK
<1>1. /\ newBuffer1 = <<>>
      /\ newBuffer2 \in {<<>>, New}
  BY DEF BackRecycle, PoolBalance
<1>2. Missing <= Recyclable /\ Recyclable \in Nat
  BY BalanceGivesBuffers DEF BackRecycle, RecycleHasBuffers, Recyclable
<1>3. newBuffer1' = New
  BY <1>1, <1>2 DEF BackRecycle, Refilled, Missing
<1>4. newBuffer2' = New
  BY <1>1, <1>2 DEF BackRecycle, Refilled, Missing
<1>5. bpc' = "test" /\ buffersToWrite' = <<>> /\ UNCHANGED <<poolVars, first, stopVars, it, appended>>
  BY DEF BackRecycle
<1>6. PoolTypeOK'
  BY <1>3, <1>4, <1>5, NewPointer DEF poolVars, stopVars
<1>7. PoolBalance'
  BY <1>3, <1>4, <1>5 DEF PoolBalance, poolVars
<1> QED
  BY <1>6, <1>7

\* Every step of AsyncLogging preserves the invariant.
LEMMA NextPoolInv == PoolInv /\ [Next]_vars => PoolInv'
<1>1. PoolInv /\ UNCHANGED vars => PoolInv'
  BY DEF PoolInv, PoolTypeOK, PoolBalance, vars, poolVars, backVars, stopVars, fileVars
<1> QED
  BY <1>1, StartPoolInv, AppendLinePoolInv, StopPoolInv, BackWaitPoolInv, BackSwapPoolInv,
     BackWritePoolInv, BackRecyclePoolInv, TickPoolInv DEF Next, Backend

-----------------------------------------------------------------------------

\* The pool's invariant holds in every state, whatever the interleaving of
\* append, stop and threadFunc.
THEOREM PoolInvariant == Spec => []PoolInv
BY InitPoolInv, NextPoolInv, PTL DEF Spec

\* threadFunc's buffersToWrite.back() and pop_back() never meet an empty
\* vector: the buffers left by resize(2) suffice for the spare pointers.
THEOREM RecycleSafe == Spec => []RecycleHasBuffers
BY PoolInvariant, BalanceGivesBuffers, PTL

-----------------------------------------------------------------------------
(* The log file.                                                           *)

\* A later second is in no earlier period.
LEMMA PeriodGrows ==
  ASSUME NEW a \in Nat, NEW b \in Nat, a <= b
  PROVE  /\ StartOfPeriod(a) \in Nat
         /\ StartOfPeriod(a) <= StartOfPeriod(b)
         /\ StartOfPeriod(0) = 0
<1> DEFINE k == kRollPerSeconds_
           x == a \div k
           y == b \div k
<1>1. k \in Nat /\ k > 0
  BY LogFileAssumption
<1>2. x \in Nat /\ y \in Nat /\ 0 \div k = 0
  BY <1>1
<1>3. k * x <= a /\ a < k * x + k /\ k * y <= b /\ b < k * y + k
  BY <1>1
<1> HIDE DEF x, y, k
<1>4. x <= y
  <2> SUFFICES ASSUME x > y PROVE FALSE
    BY <1>2
  <2>1. x >= y + 1
    BY <1>2
  <2>2. k * x >= k * (y + 1)
    BY <1>1, <1>2, <2>1
  <2>3. k * (y + 1) = k * y + k
    BY <1>1, <1>2
  <2>4. k * x \in Nat /\ k * y \in Nat
    BY <1>1, <1>2
  <2> QED
    BY <1>1, <1>3, <2>2, <2>3, <2>4
<1>5. x * k <= y * k /\ x * k \in Nat
  BY <1>1, <1>2, <1>4
<1>6. 0 * k = 0
  BY <1>1
<1> QED
  BY <1>2, <1>5, <1>6 DEF StartOfPeriod, x, y, k

\* A sequence and its parts.
LEMMA Parts ==
  ASSUME NEW s \in Seq(Nat), NEW n \in 0..Len(s)
  PROVE  /\ SubSeq(s, 1, n) \in Seq(Nat) /\ SubSeq(s, n + 1, Len(s)) \in Seq(Nat)
         /\ SubSeq(s, 1, n) \o SubSeq(s, n + 1, Len(s)) = s
         /\ Len(SubSeq(s, 1, n)) = n
         /\ ToSet(s) \subseteq Nat
<1>1. /\ 1 \in 1..Len(s) + 1 /\ n \in 1 - 1..Len(s) /\ Len(s) \in n..Len(s)
      /\ Len(s) \in Nat /\ n \in Nat
  OBVIOUS
<1>2. SubSeq(s, 1, n) \o SubSeq(s, n + 1, Len(s)) = SubSeq(s, 1, Len(s))
  BY <1>1, ConcatAdjacentSubSeq
<1>3. SubSeq(s, 1, Len(s)) = s
  BY SubSeqFull
<1>4. SubSeq(s, 1, n) \in Seq(Nat) /\ SubSeq(s, n + 1, Len(s)) \in Seq(Nat)
  OBVIOUS
<1>5. Len(SubSeq(s, 1, n)) = n
  BY <1>1
<1>6. ToSet(s) \subseteq Nat
  BY DEF ToSet
<1> QED
  BY <1>2, <1>3, <1>4, <1>5, <1>6

\* Three groups of lines.
LEMMA Regroups ==
  ASSUME NEW s \in Seq(Nat), NEW t \in Seq(Nat), NEW u \in Seq(Nat)
  PROVE  /\ (s \o t) \o u = s \o (t \o u)
         /\ s \o t \in Seq(Nat) /\ Len(s \o t) = Len(s) + Len(t)
<1>1. (s \o t) \o u = s \o (t \o u)
  BY SMTT(60)
<1>2. s \o t \in Seq(Nat) /\ Len(s \o t) = Len(s) + Len(t)
  OBVIOUS
<1> QED
  BY <1>1, <1>2

\* The lines a file holds, and what of it does not concern them.
LinesOf(f) == f.disk \o f.mem
SameLines(f, g) == LinesOf(g) = LinesOf(f) /\ g.lost = f.lost
SameTimes(f, g) ==
  /\ g.count_ = f.count_ /\ g.startOfPeriod_ = f.startOfPeriod_ /\ g.lastRoll_ = f.lastRoll_
  /\ g.writtenBytes_ = f.writtenBytes_ /\ g.lastWrite = f.lastWrite /\ g.overdue = f.overdue

\* stdio writes some of its lines out: the file holds the same ones.
LEMMA SpillIs ==
  ASSUME NEW f \in LogFileType, NEW n \in 0..Len(f.mem)
  PROVE  /\ Spill(f, n) \in LogFileType
         /\ SameLines(f, Spill(f, n)) /\ SameTimes(f, Spill(f, n))
         /\ Spill(f, n).lastFlush_ = f.lastFlush_
<1> DEFINE u == SubSeq(f.mem, 1, n)
           v == SubSeq(f.mem, n + 1, Len(f.mem))
           g == Spill(f, n)
<1>1. f.mem \in Seq(Nat) /\ f.disk \in Seq(Nat)
  BY DEF LogFileType
<1>2. u \in Seq(Nat) /\ v \in Seq(Nat) /\ u \o v = f.mem
  BY <1>1, Parts
<1>3. g = [f EXCEPT !.disk = f.disk \o u, !.mem = v]
  BY DEF Spill, LogFileType
<1> HIDE DEF u, v, g
<1>4. f.disk \o u \in Seq(Nat) /\ (f.disk \o u) \o v = f.disk \o (u \o v)
  BY <1>1, <1>2, Regroups
<1>5. g \in LogFileType
  BY <1>2, <1>3, <1>4 DEF LogFileType
<1>6. g.disk = f.disk \o u /\ g.mem = v /\ g.lost = f.lost /\ g.lastFlush_ = f.lastFlush_
      /\ SameTimes(f, g)
  BY <1>3 DEF LogFileType, SameTimes
<1>7. SameLines(f, g)
  BY <1>2, <1>4, <1>6 DEF SameLines, LinesOf
<1> QED
  BY <1>5, <1>6, <1>7 DEF g

\* And when it writes all of them out.
LEMMA FlushIs ==
  ASSUME NEW f \in LogFileType
  PROVE  /\ Flush(f) \in LogFileType
         /\ SameLines(f, Flush(f)) /\ SameTimes(f, Flush(f))
<1>1. Len(f.mem) \in 0..Len(f.mem)
  BY DEF LogFileType
<1> QED
  BY <1>1, SpillIs DEF Flush

\* The file does not overdue its day, nor outgrow rollSize_.
Rolls(f, now) ==
  /\ f.lastRoll_ <= now
  /\ f.startOfPeriod_ = StartOfPeriod(f.lastRoll_)
  /\ f.overdue <= f.count_ /\ f.count_ < checkEveryN_
  /\ f.overdue > 0 => StartOfPeriod(now) > f.startOfPeriod_
  /\ f.writtenBytes_ > rollSize_ => f.lastWrite = f.lastRoll_

\* rollFile: a new file in a later second, the lines of the old one flushed.
LEMMA RollIs ==
  ASSUME NEW f \in LogFileType, NEW now \in Nat
  PROVE  /\ rollFile(f, now) \in LogFileType /\ SameLines(f, rollFile(f, now))
         /\ now > f.lastRoll_ =>
              /\ rollFile(f, now).count_ = f.count_
              /\ rollFile(f, now).lastRoll_ = now
              /\ rollFile(f, now).startOfPeriod_ = StartOfPeriod(now)
              /\ rollFile(f, now).writtenBytes_ = 0 /\ rollFile(f, now).lastWrite = now
              /\ rollFile(f, now).overdue = 0
         /\ ~(now > f.lastRoll_) => rollFile(f, now) = f
<1> DEFINE g == Flush(f)
           h == rollFile(f, now)
<1>1. g \in LogFileType /\ SameLines(f, g) /\ SameTimes(f, g)
  BY FlushIs
<1>2. CASE now > f.lastRoll_
  <2>1. h = [g EXCEPT !.lastRoll_ = now, !.lastFlush_ = now,
                      !.startOfPeriod_ = StartOfPeriod(now), !.writtenBytes_ = 0,
                      !.lastWrite = now, !.overdue = 0]
    BY <1>2 DEF rollFile
  <2>2. StartOfPeriod(now) \in Nat
    BY PeriodGrows
  <2> HIDE DEF g, h
  <2>3. h \in LogFileType
    BY <1>1, <2>1, <2>2 DEF LogFileType
  <2>4. /\ h.disk = g.disk /\ h.mem = g.mem /\ h.lost = g.lost /\ h.count_ = g.count_
        /\ h.lastRoll_ = now /\ h.startOfPeriod_ = StartOfPeriod(now) /\ h.writtenBytes_ = 0
        /\ h.lastWrite = now /\ h.overdue = 0
    BY <1>1, <2>1 DEF LogFileType
  <2>5. SameLines(f, h) /\ h.count_ = f.count_
    BY <1>1, <2>4 DEF SameLines, LinesOf, SameTimes
  <2> QED
    BY <1>2, <2>3, <2>4, <2>5 DEF h
<1>3. CASE ~(now > f.lastRoll_)
  BY <1>3 DEF rollFile, SameLines
<1> QED
  BY <1>2, <1>3

\* Of the lines, n are in g's file as well, the others are given up.
Added(f, g, lines, n) ==
  /\ LinesOf(g) = LinesOf(f) \o SubSeq(lines, 1, n)
  /\ g.lost = f.lost \cup ToSet(SubSeq(lines, n + 1, Len(lines)))

\* The append is counted if the day is over.
Counted(f, g, now) ==
  /\ g.count_ = f.count_ /\ g.startOfPeriod_ = f.startOfPeriod_
  /\ g.lastRoll_ = f.lastRoll_ /\ g.lastWrite = now
  /\ g.overdue = IF StartOfPeriod(now) # f.startOfPeriod_ THEN f.overdue + 1 ELSE f.overdue

\* AppendFile::append: the lines taken are added, the others given up.
LEMMA WriteIs ==
  ASSUME NEW f \in LogFileType, NEW lines \in Seq(Nat), NEW n \in 0..Len(lines), NEW now \in Nat
  PROVE  /\ Write(f, lines, n, now) \in LogFileType
         /\ Added(f, Write(f, lines, n, now), lines, n)
         /\ Counted(f, Write(f, lines, n, now), now)
         /\ Len(Write(f, lines, n, now).mem) = Len(f.mem) + n
<1> DEFINE u == SubSeq(lines, 1, n)
           v == SubSeq(lines, n + 1, Len(lines))
           w == IF n = Len(lines) THEN f.writtenBytes_ + n ELSE f.writtenBytes_
           o == IF StartOfPeriod(now) # f.startOfPeriod_ THEN f.overdue + 1 ELSE f.overdue
           l == f.lost \cup ToSet(v)
           m == f.mem \o u
           g == Write(f, lines, n, now)
<1>1. f.mem \in Seq(Nat) /\ f.disk \in Seq(Nat) /\ f.lost \subseteq Nat
      /\ f.writtenBytes_ \in Nat /\ f.overdue \in Nat
  BY DEF LogFileType
<1>2. u \in Seq(Nat) /\ v \in Seq(Nat) /\ ToSet(v) \subseteq Nat /\ Len(u) = n
  BY Parts DEF ToSet
<1>3. g = [f EXCEPT !.mem = m, !.writtenBytes_ = w, !.lost = l, !.lastWrite = now, !.overdue = o]
  BY DEF Write, LogFileType
<1> HIDE DEF u, v
<1>4. w \in Nat /\ o \in Nat /\ l \subseteq Nat
  <2>1. n \in Nat
    OBVIOUS
  <2>2. w \in Nat
    BY <1>1, <2>1
  <2>3. o \in Nat
    BY <1>1
  <2>4. l \subseteq Nat
    BY <1>1, <1>2
  <2> QED
    BY <2>2, <2>3, <2>4
<1>5. m \in Seq(Nat) /\ f.disk \o m = (f.disk \o f.mem) \o u /\ Len(m) = Len(f.mem) + n
  BY <1>1, <1>2, Regroups
<1> HIDE DEF w, o, l, m, g
<1>6. g \in LogFileType
  BY <1>3, <1>4, <1>5 DEF LogFileType
<1>7. /\ g.disk = f.disk /\ g.mem = m /\ g.lost = l /\ g.overdue = o /\ g.lastWrite = now
      /\ g.count_ = f.count_ /\ g.startOfPeriod_ = f.startOfPeriod_ /\ g.lastRoll_ = f.lastRoll_
  BY <1>3 DEF LogFileType
<1>8. LinesOf(g) = LinesOf(f) \o u
  BY <1>5, <1>7 DEF LinesOf
<1>9. Added(f, g, lines, n)
  BY <1>7, <1>8 DEF Added, l, u, v
<1>10. Counted(f, g, now)
  BY <1>7 DEF Counted, o
<1> QED
  BY <1>5, <1>6, <1>7, <1>9, <1>10 DEF g

\* The look at the clock and the size.
LEMMA MaintainIs ==
  ASSUME NEW f \in LogFileType, NEW now \in Nat, NEW before,
         f.lastRoll_ <= now, f.startOfPeriod_ = StartOfPeriod(f.lastRoll_), f.lastWrite = now,
         before \in Nat, before <= f.count_, f.count_ < checkEveryN_,
         before > 0 => StartOfPeriod(now) > f.startOfPeriod_,
         f.overdue = IF StartOfPeriod(now) # f.startOfPeriod_ THEN before + 1 ELSE before
  PROVE  /\ Maintain(f, now) \in LogFileType /\ SameLines(f, Maintain(f, now))
         /\ Rolls(Maintain(f, now), now)
<1> DEFINE g == Maintain(f, now)
<1>1. /\ f.count_ \in Nat /\ f.lastRoll_ \in Nat /\ f.overdue \in Nat /\ f.writtenBytes_ \in Nat
      /\ checkEveryN_ \in Nat /\ checkEveryN_ > 0 /\ rollSize_ \in Nat
  BY LogFileAssumption DEF LogFileType
<1>2. StartOfPeriod(f.lastRoll_) \in Nat /\ StartOfPeriod(now) \in Nat
      /\ StartOfPeriod(f.lastRoll_) <= StartOfPeriod(now)
  BY <1>1, PeriodGrows
<1>3. CASE f.writtenBytes_ > rollSize_
  <2>1. g = rollFile(f, now)
    BY <1>3 DEF Maintain
  <2> HIDE DEF g
  <2>2. g \in LogFileType /\ SameLines(f, g)
    BY <2>1, RollIs
  <2>3. Rolls(g, now)
    <3>1. CASE now > f.lastRoll_
      <4>1. /\ g.count_ = f.count_ /\ g.lastRoll_ = now /\ g.startOfPeriod_ = StartOfPeriod(now)
            /\ g.writtenBytes_ = 0 /\ g.overdue = 0
        BY <2>1, <3>1, RollIs
      <4> QED
        BY <1>1, <1>2, <4>1 DEF Rolls
    <3>2. CASE ~(now > f.lastRoll_)
      <4>1. g = f
        BY <2>1, <3>2, RollIs
      <4>2. now = f.lastRoll_
        BY <1>1, <3>2
      <4> QED
        BY <1>1, <1>2, <4>1, <4>2 DEF Rolls
    <3> QED
      BY <3>1, <3>2
  <2> QED
    BY <2>2, <2>3 DEF g
<1>4. CASE ~(f.writtenBytes_ > rollSize_) /\ f.count_ + 1 < checkEveryN_
  <2>1. g = [f EXCEPT !.count_ = f.count_ + 1]
    BY <1>4 DEF Maintain, LogFileType
  <2> HIDE DEF g
  <2>5. f.count_ + 1 \in Nat
    BY <1>1
  <2>6. g \in LogFileType
    BY <2>1, <2>5 DEF LogFileType
  <2>7. /\ g.count_ = f.count_ + 1 /\ g.disk = f.disk /\ g.mem = f.mem /\ g.lost = f.lost
        /\ g.lastRoll_ = f.lastRoll_ /\ g.startOfPeriod_ = f.startOfPeriod_
        /\ g.overdue = f.overdue /\ g.writtenBytes_ = f.writtenBytes_
        /\ g.lastWrite = f.lastWrite
    BY <2>1 DEF LogFileType
  <2>2. g \in LogFileType /\ SameLines(f, g)
    BY <2>6, <2>7 DEF SameLines, LinesOf
  <2>3. Rolls(g, now)
    BY <1>1, <1>2, <1>4, <2>7 DEF Rolls
  <2> QED
    BY <2>2, <2>3 DEF g
<1>5. CASE ~(f.writtenBytes_ > rollSize_) /\ ~(f.count_ + 1 < checkEveryN_)
  <2> DEFINE c == [f EXCEPT !.count_ = 0]
  <2>1. g = Check(c, now)
    BY <1>5 DEF Maintain
  <2>2. c \in LogFileType /\ SameLines(f, c) /\ c.count_ = 0
        /\ c.lastRoll_ = f.lastRoll_ /\ c.startOfPeriod_ = f.startOfPeriod_ /\ c.overdue = f.overdue
        /\ c.writtenBytes_ = f.writtenBytes_ /\ c.lastFlush_ = f.lastFlush_
    BY DEF LogFileType, SameLines, LinesOf
  <2> HIDE DEF c, g
  <2>3. CASE StartOfPeriod(now) # c.startOfPeriod_
    <3>1. now > c.lastRoll_ /\ g = rollFile(c, now)
      BY <1>1, <2>1, <2>2, <2>3 DEF Check
    <3>2. /\ g \in LogFileType /\ SameLines(c, g) /\ g.count_ = 0 /\ g.lastRoll_ = now
          /\ g.startOfPeriod_ = StartOfPeriod(now) /\ g.writtenBytes_ = 0 /\ g.overdue = 0
      BY <2>2, <3>1, RollIs
    <3>3. Rolls(g, now)
      BY <1>1, <3>2 DEF Rolls
    <3> QED
      BY <2>2, <3>2, <3>3 DEF SameLines, g
  <2>4. CASE StartOfPeriod(now) = c.startOfPeriod_
    <3>1. f.overdue = 0
      BY <1>2, <2>2, <2>4
    <3>2. g = c \/ g = [Flush(c) EXCEPT !.lastFlush_ = now]
      BY <2>1, <2>4 DEF Check
    <3>3. g \in LogFileType /\ SameLines(c, g) /\ SameTimes(c, g)
      <4>1. CASE g = c
        BY <2>2, <4>1 DEF SameLines, SameTimes
      <4>2. CASE g = [Flush(c) EXCEPT !.lastFlush_ = now]
        <5> DEFINE d == Flush(c)
        <5>1. d \in LogFileType /\ SameLines(c, d) /\ SameTimes(c, d)
          BY <2>2, FlushIs
        <5>2. g = [d EXCEPT !.lastFlush_ = now]
          BY <4>2
        <5> HIDE DEF d
        <5>3. g \in LogFileType /\ SameLines(d, g) /\ SameTimes(d, g)
          BY <5>1, <5>2 DEF LogFileType, SameLines, LinesOf, SameTimes
        <5> QED
          BY <5>1, <5>3 DEF SameLines, SameTimes
      <4> QED
        BY <3>2, <4>1, <4>2
    <3>4. Rolls(g, now)
      BY <1>1, <1>2, <1>5, <2>2, <3>1, <3>3 DEF Rolls, SameTimes
    <3> QED
      BY <2>2, <3>3, <3>4 DEF SameLines, g
  <2> QED
    BY <2>3, <2>4
<1> QED
  BY <1>3, <1>4, <1>5

\* The whole of append.
LEMMA AppendIs ==
  ASSUME NEW f \in LogFileType, NEW lines \in Seq(Nat), NEW n \in 0..Len(lines),
         NEW k \in 0..(Len(f.mem) + n), NEW now \in Nat, Rolls(f, now)
  PROVE  /\ AppendToFile(f, lines, n, k, now) \in LogFileType
         /\ Rolls(AppendToFile(f, lines, n, k, now), now)
         /\ Added(f, AppendToFile(f, lines, n, k, now), lines, n)
<1> DEFINE a == Write(f, lines, n, now)
           b == Spill(a, k)
           g == Maintain(b, now)
<1>1. /\ a \in LogFileType /\ Added(f, a, lines, n) /\ Counted(f, a, now)
      /\ Len(a.mem) = Len(f.mem) + n
  BY WriteIs
<1>6. AppendToFile(f, lines, n, k, now) = g
  BY DEF AppendToFile
<1> HIDE DEF a
<1>2. b \in LogFileType /\ SameLines(a, b) /\ SameTimes(a, b)
  BY <1>1, SpillIs
<1> HIDE DEF b
<1>3. f.overdue \in Nat
  BY DEF LogFileType
<1>7. /\ b.lastRoll_ <= now /\ b.startOfPeriod_ = StartOfPeriod(b.lastRoll_) /\ b.lastWrite = now
      /\ f.overdue <= b.count_ /\ b.count_ < checkEveryN_
      /\ f.overdue > 0 => StartOfPeriod(now) > b.startOfPeriod_
      /\ b.overdue = IF StartOfPeriod(now) # b.startOfPeriod_ THEN f.overdue + 1 ELSE f.overdue
  BY <1>1, <1>2 DEF Rolls, SameTimes, Counted
<1>4. g \in LogFileType /\ SameLines(b, g) /\ Rolls(g, now)
  BY <1>2, <1>3, <1>7, MaintainIs
<1> HIDE DEF g
<1>5. Added(f, g, lines, n)
  BY <1>1, <1>2, <1>4 DEF SameLines, Added
<1> QED
  BY <1>4, <1>5, <1>6

-----------------------------------------------------------------------------

\* What FileInv says of the file is Rolls.
LEMMA FileInvIs ==
  FileInv <=> /\ bpc \in {"none", "open"} => output = NoFile
              /\ clock \in Nat /\ output \in LogFileType /\ Rolls(output, clock)
BY DEF FileInv, Rolls

\* The same of the next state.
LEMMA FileInvIsNext ==
  FileInv' <=> /\ bpc' \in {"none", "open"} => output' = NoFile
               /\ clock' \in Nat /\ output' \in LogFileType /\ Rolls(output', clock')
BY DEF FileInv, Rolls

\* A flush changes neither the lines of a file nor when it is rolled.
LEMMA FlushRolls ==
  ASSUME NEW f \in LogFileType, NEW now, Rolls(f, now)
  PROVE  Flush(f) \in LogFileType /\ Rolls(Flush(f), now) /\ SameLines(f, Flush(f))
BY FlushIs DEF Rolls, SameTimes

\* Nothing is in the file before it is opened, nor just after.
LEMMA NoFileIs ==
  /\ NoFile \in LogFileType
  /\ \A now \in Nat : Rolls(NoFile, now)
  /\ LinesOf(NoFile) = <<>> /\ NoFile.lost = {}
<1>1. /\ NoFile.count_ = 0 /\ NoFile.startOfPeriod_ = 0 /\ NoFile.lastRoll_ = 0
      /\ NoFile.writtenBytes_ = 0 /\ NoFile.overdue = 0 /\ NoFile.lost = {}
      /\ NoFile.disk = <<>> /\ NoFile.mem = <<>>
  BY DEF NoFile
<1>2. NoFile \in LogFileType
  BY DEF NoFile, LogFileType
<1>3. StartOfPeriod(0) = 0 /\ checkEveryN_ \in Nat /\ checkEveryN_ > 0 /\ rollSize_ \in Nat
  BY PeriodGrows, LogFileAssumption
<1>4. \A now \in Nat : Rolls(NoFile, now)
  BY <1>1, <1>3 DEF Rolls
<1>5. LinesOf(NoFile) = <<>>
  BY <1>1 DEF LinesOf
<1> QED
  BY <1>1, <1>2, <1>4, <1>5

\* The first file is opened.
LEMMA OpenRolls ==
  ASSUME NEW now \in Nat
  PROVE  /\ rollFile(NoFile, now) \in LogFileType
         /\ Rolls(rollFile(NoFile, now), now)
         /\ SameLines(NoFile, rollFile(NoFile, now))
<1> DEFINE g == rollFile(NoFile, now)
<1>1. NoFile \in LogFileType /\ Rolls(NoFile, now) /\ NoFile.lastRoll_ = 0 /\ NoFile.count_ = 0
  BY NoFileIs DEF NoFile
<1>2. g \in LogFileType /\ SameLines(NoFile, g)
  BY <1>1, RollIs
<1>3. checkEveryN_ \in Nat /\ checkEveryN_ > 0 /\ rollSize_ \in Nat
  BY LogFileAssumption
<1>4. CASE now > NoFile.lastRoll_
  <2>1. /\ g.count_ = NoFile.count_ /\ g.lastRoll_ = now /\ g.startOfPeriod_ = StartOfPeriod(now)
        /\ g.writtenBytes_ = 0 /\ g.overdue = 0
    BY <1>1, <1>4, RollIs
  <2> HIDE DEF g
  <2>2. Rolls(g, now)
    BY <1>1, <1>3, <2>1 DEF Rolls
  <2> QED
    BY <1>2, <2>2 DEF g
<1>5. CASE ~(now > NoFile.lastRoll_)
  BY <1>1, <1>2, <1>5, RollIs
<1> QED
  BY <1>4, <1>5

\* Time passes: the day can only be over by more.
LEMMA LaterRolls ==
  ASSUME NEW f \in LogFileType, NEW now \in Nat, Rolls(f, now)
  PROVE  Rolls(f, now + 1)
<1>1. StartOfPeriod(now) <= StartOfPeriod(now + 1) /\ StartOfPeriod(now) \in Nat
  BY PeriodGrows
<1>2. StartOfPeriod(now + 1) \in Nat
  BY PeriodGrows
<1>3. f.lastRoll_ \in Nat /\ f.startOfPeriod_ \in Nat
  BY DEF LogFileType
<1> QED
  BY <1>1, <1>2, <1>3 DEF Rolls

\* The file of the constructor.
LEMMA InitFileInv == Init => FileInv
BY NoFileIs, FileInvIs DEF Init

\* Every step of AsyncLogging keeps the file's part of the invariant.
LEMMA NextFileInv == PoolInv /\ FileInv /\ [Next]_vars => FileInv'
<1> SUFFICES ASSUME PoolInv, FileInv, [Next]_vars PROVE FileInv'
  OBVIOUS
<1>1. /\ bpc \in {"none", "open"} => output = NoFile
      /\ clock \in Nat /\ output \in LogFileType /\ Rolls(output, clock)
  BY FileInvIs
<1>2. CASE UNCHANGED <<output, clock>> /\ (bpc' \in {"none", "open"} => bpc \in {"none", "open"})
  BY <1>1, <1>2, FileInvIsNext
<1>3. CASE BackOpen
  <2>1. bpc' = "test" /\ clock' = clock /\ output' = rollFile(NoFile, clock)
    BY <1>3 DEF BackOpen
  <2>2. output' \in LogFileType /\ Rolls(output', clock')
    BY <1>1, <2>1, OpenRolls
  <2> QED
    BY <1>1, <2>1, <2>2, FileInvIsNext
<1>4. CASE BackTest \/ BackRecycle
  <2>1. bpc' \in {"lock", "ended", "test"} /\ clock' = clock /\ output' \in {output, Flush(output)}
    BY <1>4 DEF BackTest, BackRecycle
  <2>2. Flush(output) \in LogFileType /\ Rolls(Flush(output), clock)
    BY <1>1, FlushRolls
  <2>3. output' \in LogFileType /\ Rolls(output', clock')
    BY <1>1, <2>1, <2>2
  <2> QED
    BY <1>1, <2>1, <2>3, FileInvIsNext
<1>5. CASE BackWrite
  <2> DEFINE lines == buffersToWrite[it + 1]
  <2>1. lines \in Seq(Nat)
    BY <1>5 DEF PoolInv, PoolTypeOK, BackWrite, Buffer
  <2>2. PICK n \in 0..Len(lines) : \E k \in 0..Len(output.mem) + n :
          output' = AppendToFile(output, lines, n, k, clock)
    BY <1>5 DEF BackWrite
  <2>5. PICK k \in 0..Len(output.mem) + n : output' = AppendToFile(output, lines, n, k, clock)
    BY <2>2
  <2>3. bpc' = "write" /\ clock' = clock
    BY <1>5 DEF BackWrite, backVars
  <2> HIDE DEF lines
  <2>4. output' \in LogFileType /\ Rolls(output', clock')
    BY <1>1, <2>1, <2>5, <2>3, AppendIs
  <2> QED
    BY <1>1, <2>3, <2>4, FileInvIsNext
<1>6. CASE Tick
  <2>1. clock' = clock + 1 /\ output' = output /\ bpc' = bpc
    BY <1>6 DEF Tick, fileVars, backVars
  <2>2. Rolls(output', clock')
    BY <1>1, <2>1, LaterRolls
  <2> QED
    BY <1>1, <2>1, <2>2, FileInvIsNext
<1>7. CASE Start \/ AppendLine \/ StopStore \/ StopNotify \/ StopJoin
  BY <1>2, <1>7 DEF Start, AppendLine, StopStore, StopNotify, StopJoin, fileVars, backVars
<1>8. CASE BackLock \/ BackTimeout \/ BackSwap \/ BackWritten
  BY <1>2, <1>8 DEF BackLock, BackTimeout, BackSwap, BackWritten, fileVars
<1>9. CASE UNCHANGED vars
  BY <1>2, <1>9 DEF vars, fileVars, backVars
<1> QED
  BY <1>3, <1>4, <1>5, <1>6, <1>7, <1>8, <1>9 DEF Next, Backend

-----------------------------------------------------------------------------
(* The lines in the buffers and the file, place by place.                  *)

\* The lines of two sequences.
LEMMA LinesJoined ==
  ASSUME NEW s \in Seq(Nat), NEW t \in Seq(Nat)
  PROVE  /\ ToSet(s \o t) = ToSet(s) \cup ToSet(t)
         /\ Increasing(s) /\ Increasing(t) /\ Before(ToSet(s), ToSet(t)) => Increasing(s \o t)
<1> DEFINE u == s \o t
<1>1. /\ u \in Seq(Nat) /\ Len(u) = Len(s) + Len(t) /\ Len(s) \in Nat /\ Len(t) \in Nat
      /\ \A i \in 1..Len(u) : u[i] = IF i <= Len(s) THEN s[i] ELSE t[i - Len(s)]
  OBVIOUS
<1>2. DOMAIN s = 1..Len(s) /\ DOMAIN t = 1..Len(t) /\ DOMAIN u = 1..Len(u)
  BY <1>1
<1> HIDE DEF u
<1>3. ToSet(u) \subseteq ToSet(s) \cup ToSet(t)
  <2> SUFFICES ASSUME NEW i \in 1..Len(u) PROVE u[i] \in ToSet(s) \cup ToSet(t)
    BY <1>2 DEF ToSet
  <2>1. CASE i <= Len(s)
    <3>1. i \in DOMAIN s /\ u[i] = s[i]
      BY <1>1, <1>2, <2>1
    <3> QED
      BY <3>1 DEF ToSet
  <2>2. CASE ~(i <= Len(s))
    <3>1. i - Len(s) \in DOMAIN t /\ u[i] = t[i - Len(s)]
      BY <1>1, <1>2, <2>2
    <3> QED
      BY <3>1 DEF ToSet
  <2> QED
    BY <2>1, <2>2
<1>4. ToSet(s) \subseteq ToSet(u)
  <2> SUFFICES ASSUME NEW i \in 1..Len(s) PROVE s[i] \in ToSet(u)
    BY <1>2 DEF ToSet
  <2>1. i \in DOMAIN u /\ u[i] = s[i]
    BY <1>1, <1>2
  <2> QED
    BY <2>1 DEF ToSet
<1>5. ToSet(t) \subseteq ToSet(u)
  <2> SUFFICES ASSUME NEW j \in 1..Len(t) PROVE t[j] \in ToSet(u)
    BY <1>2 DEF ToSet
  <2>1. Len(s) + j \in 1..Len(u) /\ ~(Len(s) + j <= Len(s)) /\ (Len(s) + j) - Len(s) = j
    BY <1>1
  <2>2. u[Len(s) + j] = t[j]
    BY <1>1, <2>1
  <2> QED
    BY <1>2, <2>1, <2>2 DEF ToSet
<1>6. ASSUME Increasing(s), Increasing(t), Before(ToSet(s), ToSet(t)),
             NEW i \in 1..Len(u), NEW j \in 1..Len(u), i < j
      PROVE  u[i] < u[j]
  <2>1. CASE j <= Len(s)
    <3>1. i \in DOMAIN s /\ j \in DOMAIN s /\ i <= Len(s)
      BY <1>1, <1>2, <1>6, <2>1
    <3>2. s[i] < s[j]
      BY <1>6, <3>1 DEF Increasing
    <3> QED
      BY <1>1, <2>1, <3>1, <3>2
  <2>2. CASE i <= Len(s) /\ ~(j <= Len(s))
    <3>1. i \in DOMAIN s /\ j - Len(s) \in DOMAIN t
      BY <1>1, <1>2, <2>2
    <3>2. s[i] \in ToSet(s) /\ t[j - Len(s)] \in ToSet(t)
      BY <3>1 DEF ToSet
    <3> QED
      BY <1>1, <1>6, <2>2, <3>2 DEF Before
  <2>3. CASE ~(i <= Len(s))
    <3>1. i - Len(s) \in DOMAIN t /\ j - Len(s) \in DOMAIN t /\ i - Len(s) < j - Len(s)
          /\ ~(j <= Len(s))
      BY <1>1, <1>2, <1>6, <2>3
    <3>2. t[i - Len(s)] < t[j - Len(s)]
      BY <1>6, <3>1 DEF Increasing
    <3> QED
      BY <1>1, <2>3, <3>1, <3>2
  <2> QED
    BY <2>1, <2>2, <2>3
<1>7. Increasing(s) /\ Increasing(t) /\ Before(ToSet(s), ToSet(t)) => Increasing(u)
  BY <1>2, <1>6 DEF Increasing
<1> QED
  BY <1>3, <1>4, <1>5, <1>7 DEF u

\* The first n lines of a buffer and the others.
LEMMA LinesParted ==
  ASSUME NEW s \in Seq(Nat), NEW n \in 0..Len(s), Increasing(s)
  PROVE  /\ ToSet(SubSeq(s, 1, n)) \cup ToSet(SubSeq(s, n + 1, Len(s))) = ToSet(s)
         /\ ToSet(SubSeq(s, 1, n)) \cap ToSet(SubSeq(s, n + 1, Len(s))) = {}
         /\ Increasing(SubSeq(s, 1, n))
<1> DEFINE u == SubSeq(s, 1, n)
           v == SubSeq(s, n + 1, Len(s))
<1>1. u \in Seq(Nat) /\ v \in Seq(Nat) /\ u \o v = s
  BY Parts
<1>2. /\ Len(s) \in Nat /\ n \in Nat /\ n <= Len(s)
      /\ DOMAIN s = 1..Len(s) /\ DOMAIN u = 1..n /\ DOMAIN v = 1..(Len(s) - n)
      /\ \A i \in 1..n : u[i] = s[i]
      /\ \A i \in 1..(Len(s) - n) : v[i] = s[n + i]
  OBVIOUS
<1> HIDE DEF u, v
<1>3. ToSet(u) \cup ToSet(v) = ToSet(s)
  BY <1>1, LinesJoined
<1>4. Increasing(u)
  BY <1>2 DEF Increasing
<1>5. ASSUME NEW i \in 1..n, NEW j \in 1..(Len(s) - n) PROVE u[i] # v[j]
  <2>1. i \in DOMAIN s /\ n + j \in DOMAIN s /\ i < n + j
    BY <1>2
  <2>2. s[i] < s[n + j] /\ s[i] \in Nat /\ s[n + j] \in Nat
    BY <2>1 DEF Increasing
  <2> QED
    BY <1>2, <2>2
<1>6. ToSet(u) \cap ToSet(v) = {}
  BY <1>2, <1>5 DEF ToSet
<1> QED
  BY <1>3, <1>4, <1>6 DEF u, v

\* A line later than all of a buffer is added to it.
LEMMA LineAdded ==
  ASSUME NEW b \in Buffer, NEW m \in Nat
  PROVE  /\ ToSet(Append(b, m)) = ToSet(b) \cup {m}
         /\ Increasing(b) /\ Before(ToSet(b), {m}) => Increasing(Append(b, m))
<1>1. b \in Seq(Nat) /\ <<m>> \in Seq(Nat) /\ Append(b, m) = b \o <<m>>
  BY DEF Buffer
<1>2. ToSet(<<m>>) = {m} /\ Increasing(<<m>>)
  BY DEF ToSet, Increasing
<1> QED
  BY <1>1, <1>2, LinesJoined

\* No lines.
LEMMA NoLines == ToSet(<<>>) = {} /\ Increasing(<<>>) /\ <<>> \in Buffer
BY DEF ToSet, Increasing, Buffer

\* A buffer behind the others.
LEMMA BufferAdded ==
  ASSUME NEW P \in Seq(Buffer), NEW c \in Buffer
  PROVE  /\ Held(Append(P, c)) = Held(P) \cup ToSet(c)
         /\ Ordered(Append(P, c)) <=>
              Ordered(P) /\ Increasing(c) /\ Before(Held(P), ToSet(c))
<1> DEFINE W == Append(P, c)
           l == Len(P)
<1>1. /\ l \in Nat /\ DOMAIN P = 1..l /\ DOMAIN W = 1..(l + 1) /\ W[l + 1] = c
      /\ \A i \in 1..l : W[i] = P[i]
  OBVIOUS
<1> HIDE DEF W, l
<1>2. l + 1 \in DOMAIN W /\ \A i \in DOMAIN P : i \in DOMAIN W /\ i < l + 1 /\ i # l + 1
  BY <1>1
<1>3. \A i \in DOMAIN W : i \in DOMAIN P \/ i = l + 1
  BY <1>1
<1>4. \A i \in DOMAIN P : W[i] = P[i]
  BY <1>1
<1>5. Held(W) = Held(P) \cup ToSet(c)
  BY <1>1, <1>2, <1>3, <1>4 DEF Held
<1>6. ASSUME Ordered(W) PROVE Ordered(P) /\ Increasing(c) /\ Before(Held(P), ToSet(c))
  <2>1. Ordered(P)
    BY <1>2, <1>4, <1>6 DEF Ordered
  <2>2. Increasing(c)
    BY <1>1, <1>2, <1>6 DEF Ordered
  <2>3. \A i \in DOMAIN P : Before(ToSet(P[i]), ToSet(c))
    BY <1>1, <1>2, <1>4, <1>6 DEF Ordered
  <2>4. Before(Held(P), ToSet(c))
    BY <2>3 DEF Before, Held
  <2> QED
    BY <2>1, <2>2, <2>4
<1>7. ASSUME Ordered(P), Increasing(c), Before(Held(P), ToSet(c)) PROVE Ordered(W)
  <2>1. \A i \in DOMAIN P : Before(ToSet(P[i]), ToSet(c))
    BY <1>7 DEF Before, Held
  <2>2. ASSUME NEW i \in DOMAIN W PROVE Increasing(W[i])
    BY <1>1, <1>3, <1>4, <1>7 DEF Ordered
  <2>3. ASSUME NEW i \in DOMAIN W, NEW j \in DOMAIN W, i < j
        PROVE  Before(ToSet(W[i]), ToSet(W[j]))
    <3>1. i \in DOMAIN P
      BY <1>1, <2>3
    <3>2. CASE j \in DOMAIN P
      BY <1>4, <1>7, <2>3, <3>1, <3>2 DEF Ordered
    <3>3. CASE j = l + 1
      BY <1>1, <1>4, <2>1, <3>1, <3>3
    <3> QED
      BY <1>3, <3>2, <3>3
  <2> QED
    BY <2>2, <2>3 DEF Ordered
<1> QED
  BY <1>5, <1>6, <1>7 DEF W

\* The buffer before the others.
LEMMA BufferTaken ==
  ASSUME NEW W \in Seq(Buffer), NEW V \in Seq(Buffer), Len(W) = Len(V) + 1,
         \A i \in 1..Len(V) : W[i + 1] = V[i]
  PROVE  /\ W[1] \in Buffer
         /\ Held(W) = ToSet(W[1]) \cup Held(V)
         /\ Ordered(W) => Ordered(V) /\ Increasing(W[1]) /\ Before(ToSet(W[1]), Held(V))
<1> DEFINE l == Len(V)
<1>1. l \in Nat /\ DOMAIN V = 1..l /\ DOMAIN W = 1..(l + 1) /\ \A i \in 1..l : W[i + 1] = V[i]
  OBVIOUS
<1>2. 1 \in DOMAIN W /\ \A i \in DOMAIN V : i + 1 \in DOMAIN W /\ 1 < i + 1
  BY <1>1
<1>3. W[1] \in Buffer
  BY <1>2
<1> HIDE DEF l
<1>4. \A i \in DOMAIN V : ToSet(V[i]) = ToSet(W[i + 1])
  BY <1>1
<1>5. ASSUME NEW i \in DOMAIN W PROVE i = 1 \/ (i - 1 \in DOMAIN V /\ W[i] = V[i - 1])
  <2>1. CASE i # 1
    <3>1. i - 1 \in 1..l /\ (i - 1) + 1 = i
      BY <1>1, <2>1
    <3> QED
      BY <1>1, <3>1
  <2> QED
    BY <2>1
<1>6. Held(W) \subseteq ToSet(W[1]) \cup Held(V)
  BY <1>5 DEF Held
<1>7. ToSet(W[1]) \cup Held(V) \subseteq Held(W)
  BY <1>2, <1>4 DEF Held
<1>8. ASSUME Ordered(W) PROVE Ordered(V) /\ Increasing(W[1]) /\ Before(ToSet(W[1]), Held(V))
  <2>1. \A i \in DOMAIN V : Increasing(V[i])
    BY <1>1, <1>2, <1>8 DEF Ordered
  <2>2. ASSUME NEW i \in DOMAIN V, NEW j \in DOMAIN V, i < j
        PROVE  Before(ToSet(V[i]), ToSet(V[j]))
    <3>1. i + 1 \in DOMAIN W /\ j + 1 \in DOMAIN W /\ i + 1 < j + 1
      BY <1>1, <2>2
    <3>2. Before(ToSet(W[i + 1]), ToSet(W[j + 1]))
      BY <1>8, <3>1 DEF Ordered
    <3> QED
      BY <1>4, <3>2
  <2>3. \A i \in DOMAIN V : Before(ToSet(W[1]), ToSet(V[i]))
    BY <1>2, <1>4, <1>8 DEF Ordered
  <2>4. Before(ToSet(W[1]), Held(V))
    BY <2>3 DEF Before, Held
  <2>5. Increasing(W[1])
    BY <1>2, <1>8 DEF Ordered
  <2> QED
    BY <2>1, <2>2, <2>4, <2>5 DEF Ordered
<1> QED
  BY <1>3, <1>6, <1>7, <1>8

-----------------------------------------------------------------------------
(* How the lines move from place to place.                                 *)

\* A line is appended to the last buffer.
LEMMA PlaceLine ==
  ASSUME NEW S \in Seq(Nat), NEW P \in Seq(Buffer), NEW c \in Buffer, NEW L, NEW n \in Nat,
         InPlace(S, Append(P, c), L, n)
  PROVE  InPlace(S, Append(P, Append(c, n + 1)), L, n + 1)
<1> DEFINE d == Append(c, n + 1)
           A == ToSet(S)
           B == Held(P)
           C == ToSet(c)
           V == Append(P, c)
           W == Append(P, d)
<1>1. n + 1 \in Nat /\ d \in Buffer
  BY LineInBuffer
<1>2. /\ Held(V) = B \cup C
      /\ Ordered(V) <=> Ordered(P) /\ Increasing(c) /\ Before(B, C)
  BY BufferAdded
<1>3. /\ ToSet(d) = C \cup {n + 1}
      /\ Increasing(c) /\ Before(C, {n + 1}) => Increasing(d)
  BY <1>1, LineAdded
<1> HIDE DEF d
<1>4. /\ Held(W) = B \cup ToSet(d)
      /\ Ordered(W) <=> Ordered(P) /\ Increasing(d) /\ Before(B, ToSet(d))
  BY <1>1, BufferAdded
<1> HIDE DEF A, B, C, V, W
<1>5. /\ A \cup (B \cup C) \cup L = 1..n /\ L \cap (A \cup (B \cup C)) = {}
      /\ Increasing(S) /\ Ordered(P) /\ Increasing(c) /\ Before(B, C)
      /\ Before(A \cup L, B \cup C)
  BY <1>2 DEF InPlace, A, V
<1>6. /\ \A m \in 1..n : m < n + 1
      /\ 1..(n + 1) = 1..n \cup {n + 1} /\ n + 1 \notin 1..n
  OBVIOUS
<1>7. Before(C, {n + 1}) /\ Before(B, {n + 1}) /\ Before(A \cup L, {n + 1})
  BY <1>5, <1>6 DEF Before
<1>8. Before(B, ToSet(d)) /\ Before(A \cup L, B \cup ToSet(d))
  BY <1>3, <1>5, <1>7 DEF Before
<1>9. Ordered(W)
  BY <1>3, <1>4, <1>5, <1>7, <1>8
<1>10. A \cup (B \cup (C \cup {n + 1})) \cup L = 1..(n + 1)
  BY <1>5, <1>6
<1>11. L \cap (A \cup (B \cup (C \cup {n + 1}))) = {}
  BY <1>5, <1>6
<1>12. InPlace(S, W, L, n + 1)
  BY <1>3, <1>4, <1>5, <1>8, <1>9, <1>10, <1>11 DEF InPlace, A
<1> QED
  BY <1>12 DEF W, d

\* An empty buffer becomes the last one.
LEMMA PlaceBuffer ==
  ASSUME NEW S, NEW P \in Seq(Buffer), NEW L, NEW n, InPlace(S, P, L, n)
  PROVE  InPlace(S, Append(P, <<>>), L, n)
<1> DEFINE e == <<>>
<1>1. e \in Buffer /\ ToSet(e) = {} /\ Increasing(e)
  BY NoLines
<1> HIDE DEF e
<1>2. /\ Held(Append(P, e)) = Held(P) \cup ToSet(e)
      /\ Ordered(Append(P, e)) <=> Ordered(P) /\ Increasing(e) /\ Before(Held(P), ToSet(e))
  BY <1>1, BufferAdded
<1>3. Before(Held(P), {})
  BY DEF Before
<1>4. Held(Append(P, e)) = Held(P) /\ (Ordered(Append(P, e)) <=> Ordered(P))
  BY <1>1, <1>2, <1>3
<1> HIDE DEF InPlace
<1>5. InPlace(S, Append(P, e), L, n)
  BY <1>4 DEF InPlace
<1> QED
  BY <1>5 DEF e

\* The first buffer is written: m of its lines are stored, the others given up.
LEMMA PlaceWritten ==
  ASSUME NEW S \in Seq(Nat), NEW W \in Seq(Buffer), NEW V \in Seq(Buffer), NEW L, NEW n,
         Len(W) = Len(V) + 1, \A i \in 1..Len(V) : W[i + 1] = V[i],
         NEW m \in 0..Len(W[1]), InPlace(S, W, L, n)
  PROVE  InPlace(S \o SubSeq(W[1], 1, m), V,
                 L \cup ToSet(SubSeq(W[1], m + 1, Len(W[1]))), n)
<1> DEFINE h == W[1]
           u == SubSeq(h, 1, m)
           v == SubSeq(h, m + 1, Len(h))
           T == S \o u
           K == L \cup ToSet(v)
           A == ToSet(S)
           B == Held(V)
           C == ToSet(h)
           D == ToSet(u)
           E == ToSet(v)
<1>1. h \in Seq(Nat) /\ Held(W) = C \cup B
      /\ (Ordered(W) => Ordered(V) /\ Increasing(h) /\ Before(C, B)) /\ m \in 0..Len(h)
  BY BufferTaken DEF Buffer
<1>2. /\ A \cup (C \cup B) \cup L = 1..n /\ L \cap (A \cup (C \cup B)) = {}
      /\ Increasing(S) /\ Ordered(V) /\ Increasing(h) /\ Before(C, B)
      /\ Before(A \cup L, C \cup B)
  BY <1>1 DEF InPlace
<1> HIDE DEF h
<1>3. D \cup E = C /\ D \cap E = {} /\ Increasing(u)
  BY <1>1, <1>2, LinesParted
<1>4. u \in Seq(Nat)
  BY <1>1, Parts
<1> HIDE DEF u, v
<1>5. Before(A, D)
  BY <1>2, <1>3 DEF Before
<1>6. ToSet(T) = A \cup D /\ Increasing(T)
  BY <1>2, <1>3, <1>4, <1>5, LinesJoined
<1> HIDE DEF A, B, C, D, E, T
<1>7. (A \cup D) \cup B \cup (L \cup E) = 1..n
  BY <1>2, <1>3
<1>8. \A x \in C : x \notin B /\ x \notin A /\ x \notin L
  <2>1. \A x \in 1..n : ~(x < x)
    OBVIOUS
  <2>2. C \subseteq 1..n
    BY <1>2
  <2> QED
    BY <1>2, <2>1, <2>2 DEF Before
<1>9. (L \cup E) \cap ((A \cup D) \cup B) = {}
  BY <1>2, <1>3, <1>8
<1>10. Before((A \cup D) \cup (L \cup E), B)
  BY <1>2, <1>3 DEF Before
<1>11. InPlace(T, V, K, n)
  BY <1>2, <1>6, <1>7, <1>9, <1>10 DEF InPlace, B, E
<1> QED
  BY <1>11 DEF T, K, u, v, h

-----------------------------------------------------------------------------
(* The lines in AsyncLogging.                                              *)

\* The buffers the backend took over and has not written, and those behind them
\* that are full.
Taken == IF bpc = "write" THEN SubSeq(buffersToWrite, it + 1, Len(buffersToWrite)) ELSE <<>>
Full == Taken \o buffers_

\* Where lines wait.
LEMMA WaitingIs ==
  ASSUME PoolInv, it <= Len(buffersToWrite)
  PROVE  /\ Taken \in Seq(Buffer) /\ Full \in Seq(Buffer) /\ currentBuffer_[1] \in Buffer
         /\ Waiting = Append(Full, currentBuffer_[1]) /\ Waiting \in Seq(Buffer)
<1>1. currentBuffer_[1] \in Buffer
  BY PointerTarget DEF PoolInv, PoolTypeOK
<1>2. Taken \in Seq(Buffer)
  BY DEF PoolInv, PoolTypeOK, Taken
<1>3. Full \in Seq(Buffer)
  BY <1>2 DEF PoolInv, PoolTypeOK, Full
<1>4. Waiting = Append(Full, currentBuffer_[1])
  BY DEF Waiting, Full, Taken
<1> QED
  BY <1>1, <1>2, <1>3, <1>4

\* The same of the next state.
LEMMA WaitingIsNext == Waiting' = Append(Full', currentBuffer_'[1])
BY DEF Waiting, Full, Taken

\* What is stored.
LEMMA StoredIs ==
  ASSUME FileInv
  PROVE  Stored = LinesOf(output) /\ Stored \in Seq(Nat)
<1>1. output.disk \in Seq(Nat) /\ output.mem \in Seq(Nat)
  BY DEF FileInv, LogFileType
<1>2. output.disk \o output.mem \in Seq(Nat)
  BY <1>1
<1> QED
  BY <1>2 DEF Stored, LinesOf

\* The same of the next state.
LEMMA StoredIsNext == Stored' = LinesOf(output')
BY DEF Stored, LinesOf

\* A buffer behind two groups of buffers is behind the second.
LEMMA AppendJoined ==
  ASSUME NEW s \in Seq(Buffer), NEW t \in Seq(Buffer), NEW b \in Buffer
  PROVE  s \o Append(t, b) = Append(s \o t, b)
OBVIOUS

\* Nothing joined to buffers.
LEMMA NothingJoined ==
  ASSUME NEW s \in Seq(Buffer)
  PROVE  <<>> \o s = s /\ s \o <<>> = s /\ SubSeq(s, 1, Len(s)) = s
<1>1. <<>> \o s = s /\ s \o <<>> = s
  BY ConcatEmptySeq
<1> QED
  BY <1>1, SubSeqFull

\* The constructor.
LEMMA InitLinesKept == Init => LinesKept
<1> SUFFICES ASSUME Init PROVE LinesKept
  OBVIOUS
<1>1. /\ bpc = "none" /\ it = 0 /\ buffersToWrite = <<>> /\ appended = 0 /\ output = NoFile
      /\ buffers_ = <<>> /\ currentBuffer_[1] = <<>>
  BY NewPointer DEF Init
<1>2. Waiting = Append(<<>> \o <<>>, <<>>)
  BY <1>1 DEF Waiting
<1>3. <<>> \in Seq(Buffer) /\ <<>> \o <<>> = <<>>
  BY NothingJoined
<1>4. InPlace(<<>>, <<>>, {}, 0)
  BY DEF InPlace, Held, Increasing, Ordered, Before, ToSet
<1>5. InPlace(<<>>, Append(<<>>, <<>>), {}, 0)
  BY <1>3, <1>4, PlaceBuffer
<1>6. Stored = <<>> /\ output.lost = {}
  BY <1>1, NoFileIs DEF Stored, LinesOf
<1>7. it <= Len(buffersToWrite)
  BY <1>1
<1> QED
  BY <1>1, <1>2, <1>3, <1>5, <1>6, <1>7 DEF LinesKept

\* append.
LEMMA AppendLineLinesKept == PoolInv /\ FileInv /\ LinesKept /\ AppendLine => LinesKept'
<1> SUFFICES ASSUME PoolInv, FileInv, LinesKept, AppendLine PROVE LinesKept'
  OBVIOUS
<1> DEFINE c == currentBuffer_[1]
<1>1. /\ bpc # "write" => it = 0
      /\ it <= Len(buffersToWrite)
      /\ InPlace(Stored, Waiting, output.lost, appended)
  BY DEF LinesKept
<1>2. /\ Taken \in Seq(Buffer) /\ Full \in Seq(Buffer) /\ c \in Buffer
      /\ Waiting = Append(Full, c) /\ Waiting \in Seq(Buffer)
  BY <1>1, WaitingIs
<1>3. Stored \in Seq(Nat)
  BY StoredIs
<1>4. /\ appended' = appended + 1 /\ appended \in Nat /\ buffers_ \in Seq(Buffer)
      /\ UNCHANGED <<bpc, it, buffersToWrite, output>>
  BY DEF AppendLine, PoolInv, PoolTypeOK, backVars, fileVars
<1>5. Stored' = Stored /\ Taken' = Taken
  BY <1>4 DEF Stored, Taken
<1>6. InPlace(Stored, Waiting', output.lost, appended + 1)
  <2>1. CASE Fits(c)
    <3>1. buffers_' = buffers_ /\ currentBuffer_'[1] = Append(c, appended + 1)
      BY <2>1 DEF AppendLine
    <3>2. Full' = Full
      BY <1>5, <3>1 DEF Full
    <3>3. Waiting' = Append(Full, Append(c, appended + 1))
      BY <3>1, <3>2, WaitingIsNext
    <3> HIDE DEF c
    <3> QED
      BY <1>1, <1>2, <1>3, <1>4, <3>3, PlaceLine
  <2>2. CASE ~Fits(c)
    <3>1. buffers_' = Append(buffers_, c) /\ currentBuffer_'[1] = Append(Replacement, appended + 1)
      BY <2>2 DEF AppendLine
    <3>2. Replacement = <<>>
      BY NewPointer DEF Replacement, PoolInv, PoolBalance
    <3>3. Full' = Taken \o Append(buffers_, c)
      BY <1>5, <3>1 DEF Full
    <3> HIDE DEF c
    <3>4. Full' = Waiting
      BY <1>2, <1>4, <3>3, AppendJoined DEF Full
    <3> DEFINE e == <<>>
               W == Waiting
    <3>5. e \in Buffer
      BY NoLines
    <3>6. InPlace(Stored, Append(W, e), output.lost, appended)
      BY <1>1, <1>2, PlaceBuffer
    <3>7. Waiting' = Append(W, Append(e, appended + 1))
      BY <3>1, <3>2, <3>4, WaitingIsNext
    <3>8. W \in Seq(Buffer)
      BY <1>2
    <3> HIDE DEF e, W
    <3>9. InPlace(Stored, Append(W, Append(e, appended + 1)), output.lost, appended + 1)
      BY <1>3, <1>4, <3>5, <3>6, <3>8, PlaceLine
    <3> QED
      BY <3>7, <3>9
  <2> QED
    BY <2>1, <2>2
<1> QED
  BY <1>1, <1>4, <1>5, <1>6 DEF LinesKept

\* The swap: what was full or current is taken over, the new current buffer is empty.
LEMMA BackSwapLinesKept == PoolInv /\ FileInv /\ LinesKept /\ BackSwap => LinesKept'
<1> SUFFICES ASSUME PoolInv, FileInv, LinesKept, BackSwap PROVE LinesKept'
  OBVIOUS
<1> DEFINE c == currentBuffer_[1]
<1>1. /\ bpc = "swap" /\ it = 0 /\ it <= Len(buffersToWrite)
      /\ InPlace(Stored, Waiting, output.lost, appended)
  BY DEF LinesKept, BackSwap
<1>2. /\ Full \in Seq(Buffer) /\ c \in Buffer
      /\ Waiting = Append(Full, c) /\ Waiting \in Seq(Buffer)
  BY <1>1, WaitingIs
<1>3. /\ buffersToWrite' = Append(buffers_, c) /\ buffers_' = <<>> /\ bpc' = "write"
      /\ UNCHANGED <<it, output, appended>> /\ currentBuffer_' = newBuffer1
  BY DEF BackSwap, fileVars
<1>4. currentBuffer_'[1] = <<>>
  BY <1>1, <1>3, NewPointer DEF PoolInv, PoolBalance
<1>5. buffers_ \in Seq(Buffer)
  BY DEF PoolInv, PoolTypeOK
<1>6. Full = buffers_
  BY <1>1, <1>5, NothingJoined DEF Full, Taken
<1> DEFINE W == Waiting
<1>7. buffersToWrite' = W
  BY <1>2, <1>3, <1>6
<1>8. Taken' = SubSeq(W, 1, Len(W))
  BY <1>1, <1>3, <1>7 DEF Taken
<1>9. Full' = SubSeq(W, 1, Len(W)) \o <<>>
  BY <1>3, <1>8 DEF Full
<1>10. W \in Seq(Buffer)
  BY <1>2
<1> HIDE DEF W
<1>11. Full' = W
  BY <1>9, <1>10, NothingJoined
<1>12. Waiting' = Append(W, <<>>)
  BY <1>4, <1>11, WaitingIsNext
<1>13. InPlace(Stored, Append(W, <<>>), output.lost, appended)
  BY <1>1, <1>10, PlaceBuffer DEF W
<1>14. Stored' = Stored
  BY <1>3 DEF Stored
<1>15. it' <= Len(buffersToWrite')
  BY <1>1, <1>3, <1>7, <1>10
<1> QED
  BY <1>3, <1>12, <1>13, <1>14, <1>15 DEF LinesKept

\* The buffers behind the first m.
LEMMA BuffersLeft ==
  ASSUME NEW s \in Seq(Buffer), NEW m \in Nat, m <= Len(s)
  PROVE  /\ SubSeq(s, m + 1, Len(s)) \in Seq(Buffer)
         /\ Len(SubSeq(s, m + 1, Len(s))) = Len(s) - m
         /\ \A i \in 1..(Len(s) - m) : SubSeq(s, m + 1, Len(s))[i] = s[m + i]
OBVIOUS

\* Buffers one after the other.
LEMMA BuffersJoined ==
  ASSUME NEW s \in Seq(Buffer), NEW t \in Seq(Buffer)
  PROVE  /\ s \o t \in Seq(Buffer) /\ Len(s \o t) = Len(s) + Len(t)
         /\ Len(s) \in Nat /\ Len(t) \in Nat
         /\ \A i \in 1..Len(s) + Len(t) :
              (s \o t)[i] = IF i <= Len(s) THEN s[i] ELSE t[i - Len(s)]
OBVIOUS

\* A buffer pushed is the last.
LEMMA BufferPushed ==
  ASSUME NEW s \in Seq(Buffer), NEW b \in Buffer
  PROVE  /\ Append(s, b) \in Seq(Buffer) /\ Len(Append(s, b)) = Len(s) + 1 /\ Len(s) \in Nat
         /\ \A i \in 1..Len(s) : Append(s, b)[i] = s[i]
         /\ Append(s, b)[Len(s) + 1] = b
OBVIOUS

\* V is W without its first buffer.
Dropped(W, V) ==
  V \in Seq(Buffer) /\ Len(W) = Len(V) + 1 /\ \A i \in 1..Len(V) : W[i + 1] = V[i]

\* The first of the buffers is gone.
LEMMA FirstDropped ==
  ASSUME NEW T \in Seq(Buffer), NEW U \in Seq(Buffer), NEW b \in Seq(Buffer), NEW c \in Buffer,
         Len(T) = Len(U) + 1, \A i \in 1..Len(U) : T[i + 1] = U[i]
  PROVE  /\ Dropped(Append(T \o b, c), Append(U \o b, c))
         /\ Append(T \o b, c)[1] = T[1]
<1> DEFINE X == T \o b
           Y == U \o b
           W == Append(X, c)
           V == Append(Y, c)
<1>1. /\ X \in Seq(Buffer) /\ Len(X) = Len(T) + Len(b)
      /\ \A i \in 1..Len(T) + Len(b) : X[i] = IF i <= Len(T) THEN T[i] ELSE b[i - Len(T)]
      /\ Len(T) \in Nat /\ Len(b) \in Nat
  BY BuffersJoined
<1>2. /\ Y \in Seq(Buffer) /\ Len(Y) = Len(U) + Len(b)
      /\ \A i \in 1..Len(U) + Len(b) : Y[i] = IF i <= Len(U) THEN U[i] ELSE b[i - Len(U)]
      /\ Len(U) \in Nat
  BY BuffersJoined
<1> HIDE DEF X, Y
<1>4. Len(X) = Len(Y) + 1
  BY <1>1, <1>2
<1>5. ASSUME NEW i \in 1..Len(Y) PROVE X[i + 1] = Y[i]
  <2>1. CASE i <= Len(U)
    <3>1. i \in 1..Len(U) /\ i + 1 <= Len(T) /\ i + 1 \in 1..Len(T) + Len(b)
      BY <1>1, <1>2, <2>1
    <3>2. X[i + 1] = T[i + 1] /\ Y[i] = U[i]
      BY <1>1, <1>2, <2>1, <3>1
    <3> QED
      BY <3>1, <3>2
  <2>2. CASE ~(i <= Len(U))
    <3>1. /\ ~(i + 1 <= Len(T)) /\ i + 1 \in 1..Len(T) + Len(b)
          /\ (i + 1) - Len(T) = i - Len(U)
      BY <1>1, <1>2, <2>2
    <3>2. X[i + 1] = b[(i + 1) - Len(T)] /\ Y[i] = b[i - Len(U)]
      BY <1>1, <1>2, <2>2, <3>1
    <3> QED
      BY <3>1, <3>2
  <2> QED
    BY <2>1, <2>2
<1>6. X[1] = T[1] /\ 1 \in 1..Len(X)
  BY <1>1, <1>2
<1>7. /\ V \in Seq(Buffer) /\ Len(V) = Len(Y) + 1 /\ Len(Y) \in Nat
      /\ V[Len(Y) + 1] = c /\ \A i \in 1..Len(Y) : V[i] = Y[i]
  BY <1>2, BufferPushed
<1>8. /\ Len(W) = Len(X) + 1 /\ Len(X) \in Nat
      /\ W[Len(X) + 1] = c /\ \A i \in 1..Len(X) : W[i] = X[i]
  BY <1>1, BufferPushed
<1> HIDE DEF V, W
<1>9. W[1] = T[1]
  BY <1>6, <1>8
<1>10. ASSUME NEW i \in 1..Len(V) PROVE W[i + 1] = V[i]
  <2>1. CASE i \in 1..Len(Y)
    <3>1. i + 1 \in 1..Len(X)
      BY <1>4, <1>7, <2>1
    <3> QED
      BY <1>5, <1>7, <1>8, <2>1, <3>1
  <2>2. CASE i = Len(Y) + 1
    BY <1>4, <1>7, <1>8, <2>2
  <2> QED
    BY <1>7, <2>1, <2>2
<1>11. Len(W) = Len(V) + 1
  BY <1>4, <1>7, <1>8
<1>12. V \in Seq(Buffer)
  BY <1>7
<1> QED
  BY <1>9, <1>10, <1>11, <1>12 DEF Dropped, V, W, X, Y

\* A buffer is written to the file.
LEMMA BackWriteLinesKept == PoolInv /\ FileInv /\ LinesKept /\ BackWrite => LinesKept'
<1> SUFFICES ASSUME PoolInv, FileInv, LinesKept, BackWrite PROVE LinesKept'
  OBVIOUS
<1> DEFINE lines == buffersToWrite[it + 1]
           c == currentBuffer_[1]
           W == Waiting
           V == Waiting'
           l == Len(buffersToWrite)
<1>1. /\ bpc = "write" /\ it < l
      /\ InPlace(Stored, W, output.lost, appended)
      /\ it' = it + 1 /\ UNCHANGED <<poolVars, bpc, buffersToWrite, appended, clock>>
  BY DEF LinesKept, BackWrite, backVars
<1>2. it \in Nat /\ l \in Nat /\ buffersToWrite \in Seq(Buffer) /\ buffers_ \in Seq(Buffer)
  BY DEF PoolInv, PoolTypeOK
<1>3. lines \in Seq(Nat)
  BY <1>1, <1>2 DEF Buffer
<1>4. PICK n \in 0..Len(lines) : \E k \in 0..Len(output.mem) + n :
        output' = AppendToFile(output, lines, n, k, clock)
  BY DEF BackWrite
<1>5. PICK k \in 0..Len(output.mem) + n : output' = AppendToFile(output, lines, n, k, clock)
  BY <1>4
<1>6. output \in LogFileType /\ clock \in Nat /\ Rolls(output, clock)
  BY FileInvIs
<1>7. Added(output, output', lines, n)
  <2> HIDE DEF lines
  <2> QED
    BY <1>3, <1>5, <1>6, AppendIs
<1>8. /\ Taken \in Seq(Buffer) /\ c \in Buffer /\ W = Append(Full, c) /\ W \in Seq(Buffer)
  BY <1>1, <1>2, WaitingIs
<1>9. /\ Taken = SubSeq(buffersToWrite, it + 1, l)
      /\ Taken' = SubSeq(buffersToWrite, it + 2, l)
  BY <1>1, <1>2 DEF Taken
<1>10. /\ Len(Taken) = l - it /\ \A i \in 1..(l - it) : Taken[i] = buffersToWrite[it + i]
       /\ Taken' \in Seq(Buffer) /\ Len(Taken') = l - it - 1
       /\ \A i \in 1..(l - it - 1) : Taken'[i] = buffersToWrite[it + 1 + i]
  <2> DEFINE s == buffersToWrite
             m == it + 1
  <2>1. s \in Seq(Buffer) /\ it \in Nat /\ it <= Len(s)
    BY <1>1, <1>2
  <2>2. m \in Nat /\ m <= Len(s) /\ m + 1 = it + 2
    BY <1>1, <1>2
  <2> HIDE DEF s, m
  <2>3. /\ Len(SubSeq(s, it + 1, Len(s))) = Len(s) - it
        /\ \A i \in 1..(Len(s) - it) : SubSeq(s, it + 1, Len(s))[i] = s[it + i]
    BY <2>1, BuffersLeft
  <2>4. /\ SubSeq(s, m + 1, Len(s)) \in Seq(Buffer)
        /\ Len(SubSeq(s, m + 1, Len(s))) = Len(s) - m
        /\ \A i \in 1..(Len(s) - m) : SubSeq(s, m + 1, Len(s))[i] = s[m + i]
    BY <2>1, <2>2, BuffersLeft
  <2>5. Taken = SubSeq(s, it + 1, Len(s)) /\ Taken' = SubSeq(s, m + 1, Len(s))
    BY <1>9, <2>2 DEF s
  <2>6. Len(s) = l /\ l - m = l - it - 1
    BY <1>2 DEF s, m
  <2>7. Len(Taken) = l - it /\ \A i \in 1..(l - it) : Taken[i] = buffersToWrite[it + i]
    BY <2>3, <2>5, <2>6 DEF s
  <2>8. /\ Taken' \in Seq(Buffer) /\ Len(Taken') = l - it - 1
        /\ \A i \in 1..(l - it - 1) : Taken'[i] = buffersToWrite[it + 1 + i]
    BY <2>4, <2>5, <2>6 DEF s, m
  <2> QED
    BY <2>7, <2>8
<1>11. Full = Taken \o buffers_ /\ Full' = Taken' \o buffers_ /\ V = Append(Full', c)
  BY <1>1, WaitingIsNext DEF Full, poolVars
<1> DEFINE b == buffers_
           T == Taken
           U == Taken'
<1>12. /\ T \in Seq(Buffer) /\ U \in Seq(Buffer) /\ b \in Seq(Buffer) /\ c \in Buffer
       /\ Len(T) = Len(U) + 1 /\ T[1] = lines
       /\ \A i \in 1..Len(U) : T[i + 1] = U[i]
       /\ W = Append(T \o b, c) /\ V = Append(U \o b, c)
  <2>1. 1 \in 1..(l - it) /\ Len(T) = Len(U) + 1
    BY <1>1, <1>2, <1>10
  <2>2. T[1] = lines
    BY <1>10, <2>1
  <2>3. ASSUME NEW i \in 1..Len(U) PROVE T[i + 1] = U[i]
    <3>1. i \in 1..(l - it - 1) /\ i + 1 \in 1..(l - it) /\ it + (i + 1) = it + 1 + i
      BY <1>1, <1>2, <1>10
    <3> QED
      BY <1>10, <3>1
  <2> QED
    BY <1>2, <1>8, <1>10, <1>11, <2>1, <2>2, <2>3
<1> HIDE DEF b, T, U, c, V, W, l, lines
<1>13. /\ V \in Seq(Buffer) /\ Len(W) = Len(V) + 1 /\ W[1] = lines
       /\ \A i \in 1..Len(V) : W[i + 1] = V[i]
  <2>1. Dropped(Append(T \o b, c), Append(U \o b, c)) /\ Append(T \o b, c)[1] = T[1]
    BY <1>12, FirstDropped
  <2>2. Dropped(W, V) /\ W[1] = lines
    BY <1>12, <2>1
  <2> QED
    BY <1>12, <2>2 DEF Dropped
<1>14. Stored \in Seq(Nat) /\ Stored = LinesOf(output) /\ W \in Seq(Buffer)
  BY <1>8, StoredIs DEF W
<1>15. InPlace(Stored \o SubSeq(W[1], 1, n), V,
               output.lost \cup ToSet(SubSeq(W[1], n + 1, Len(W[1]))), appended)
  <2>1. n \in 0..Len(W[1])
    BY <1>13
  <2> QED
    BY <1>1, <1>13, <1>14, <2>1, PlaceWritten
<1>16. /\ Stored' = Stored \o SubSeq(W[1], 1, n)
       /\ output'.lost = output.lost \cup ToSet(SubSeq(W[1], n + 1, Len(W[1])))
  BY <1>7, <1>13, <1>14, StoredIsNext DEF Added
<1>17. bpc' = "write" /\ it' <= Len(buffersToWrite') /\ appended' = appended
  BY <1>1, <1>2 DEF l
<1> QED
  BY <1>15, <1>16, <1>17 DEF LinesKept, V

\* All of the buffers taken over are written: nothing of them waits.
LEMMA BackWrittenLinesKept == PoolInv /\ FileInv /\ LinesKept /\ BackWritten => LinesKept'
<1> SUFFICES ASSUME PoolInv, FileInv, LinesKept, BackWritten PROVE LinesKept'
  OBVIOUS
<1>1. /\ bpc = "write" /\ it = Len(buffersToWrite) /\ bpc' = "recycle" /\ it' = 0
      /\ InPlace(Stored, Waiting, output.lost, appended)
      /\ UNCHANGED <<poolVars, buffersToWrite, output, appended>>
  BY DEF LinesKept, BackWritten
<1>2. buffersToWrite \in Seq(Buffer)
  BY DEF PoolInv, PoolTypeOK
<1>3. Taken = <<>>
  BY <1>1, <1>2 DEF Taken
<1>4. Taken' = <<>>
  BY <1>1 DEF Taken
<1>5. Full' = Full
  BY <1>1, <1>3, <1>4 DEF Full, poolVars
<1>6. Waiting' = Waiting
  BY <1>1, <1>2, <1>5, WaitingIs, WaitingIsNext DEF poolVars
<1>7. Stored' = Stored /\ it' <= Len(buffersToWrite')
  BY <1>1, <1>2 DEF Stored
<1> QED
  BY <1>1, <1>6, <1>7 DEF LinesKept

\* The other steps leave every line in its place.
LEMMA QuietLinesKept ==
  ASSUME PoolInv, FileInv, LinesKept,
         UNCHANGED <<currentBuffer_, buffers_, it, appended>>,
         bpc' = "write" <=> bpc = "write",
         buffersToWrite' = buffersToWrite \/ (bpc # "write" /\ buffersToWrite' = <<>>),
         SameLines(output, output')
  PROVE  LinesKept'
<1>1. /\ bpc # "write" => it = 0
      /\ it <= Len(buffersToWrite)
      /\ InPlace(Stored, Waiting, output.lost, appended)
  BY DEF LinesKept
<1>2. Taken' = Taken
  BY DEF Taken
<1>3. Waiting' = Waiting
  BY <1>1, <1>2, WaitingIs, WaitingIsNext DEF Full
<1>4. Stored' = Stored /\ output'.lost = output.lost
  BY StoredIs, StoredIsNext DEF SameLines
<1>5. it' <= Len(buffersToWrite')
  BY <1>1
<1>6. bpc' # "write" => it' = 0
  BY <1>1
<1> QED
  BY <1>1, <1>3, <1>4, <1>5, <1>6 DEF LinesKept

\* Every step keeps the lines.
LEMMA NextLinesKept == PoolInv /\ FileInv /\ LinesKept /\ [Next]_vars => LinesKept'
<1> SUFFICES ASSUME PoolInv, FileInv, LinesKept, [Next]_vars PROVE LinesKept'
  OBVIOUS
<1>1. SameLines(output, output)
  BY DEF SameLines
<1>2. output \in LogFileType /\ clock \in Nat
  BY DEF FileInv
<1>3. SameLines(output, Flush(output))
  BY <1>2, FlushIs
<1>4. CASE Start \/ StopStore \/ StopNotify \/ StopJoin
  <2>1. /\ UNCHANGED <<currentBuffer_, buffers_, it, appended, buffersToWrite, output>>
        /\ bpc' = "write" <=> bpc = "write"
    BY <1>4 DEF Start, StopStore, StopNotify, StopJoin, poolVars, backVars, fileVars
  <2> QED
    BY <1>1, <2>1, QuietLinesKept
<1>5. CASE BackLock \/ BackTimeout \/ Tick \/ UNCHANGED vars
  <2>1. /\ UNCHANGED <<currentBuffer_, buffers_, it, appended, buffersToWrite, output>>
        /\ bpc' = "write" <=> bpc = "write"
    BY <1>5 DEF BackLock, BackTimeout, Tick, vars, poolVars, backVars, fileVars
  <2> QED
    BY <1>1, <2>1, QuietLinesKept
<1>6. CASE BackOpen
  <2>1. /\ UNCHANGED <<currentBuffer_, buffers_, it, appended, buffersToWrite>>
        /\ bpc = "open" /\ bpc' = "test" /\ output' = rollFile(NoFile, clock)
    BY <1>6 DEF BackOpen, poolVars
  <2>2. output = NoFile
    BY <2>1 DEF FileInv
  <2>3. SameLines(output, output')
    BY <1>2, <2>1, <2>2, OpenRolls
  <2> QED
    BY <2>1, <2>3, QuietLinesKept
<1>7. CASE BackTest
  <2>1. /\ UNCHANGED <<currentBuffer_, buffers_, it, appended, buffersToWrite>>
        /\ bpc = "test" /\ bpc' # "write" /\ output' \in {output, Flush(output)}
    BY <1>7 DEF BackTest, poolVars
  <2>2. SameLines(output, output')
    BY <1>1, <1>3, <2>1
  <2> QED
    BY <2>1, <2>2, QuietLinesKept
<1>8. CASE BackRecycle
  <2>1. /\ UNCHANGED <<currentBuffer_, buffers_, it, appended>> /\ buffersToWrite' = <<>>
        /\ bpc = "recycle" /\ bpc' = "test" /\ output' = Flush(output)
    BY <1>8 DEF BackRecycle, poolVars
  <2> QED
    BY <1>3, <2>1, QuietLinesKept
<1> QED
  BY <1>4, <1>5, <1>6, <1>7, <1>8, AppendLineLinesKept, BackSwapLinesKept, BackWriteLinesKept,
     BackWrittenLinesKept DEF Next, Backend

-----------------------------------------------------------------------------
(* The lines of the buffers, one after the other.                          *)

\* A set of numbers has a least one.
LEMMA NatMin ==
  ASSUME NEW T, T \subseteq Nat, T # {}
  PROVE  \E x \in T : \A y \in T : x <= y
<1> DEFINE R == OpToRel(<, Nat)
<1>1. IsWellFoundedOn(R, Nat)
  BY NatLessThanWellFounded
<1>2. R = {ss \in Nat \X Nat : ss[1] < ss[2]}
  BY DEF OpToRel
<1> HIDE DEF R
<1>3. PICK x \in T : \A y \in T : <<y, x>> \notin R
  BY <1>1, WFMin
<1>4. ASSUME NEW y \in T, y < x PROVE FALSE
  <2>1. <<y, x>> \in Nat \X Nat /\ <<y, x>>[1] = y /\ <<y, x>>[2] = x
    OBVIOUS
  <2>2. <<y, x>> \in R
    BY <1>2, <1>4, <2>1
  <2> QED
    BY <1>3, <2>2
<1>5. \A y \in T : x <= y
  BY <1>4
<1> QED
  BY <1>5

\* A set of numbers that holds 0 and with each number the next one holds them all.
LEMMA NatInd ==
  ASSUME NEW S, 0 \in S, \A n \in Nat : n \in S => n + 1 \in S
  PROVE  Nat \subseteq S
<1> DEFINE T == {n \in Nat : n \notin S}
<1>1. SUFFICES ASSUME T # {} PROVE FALSE
  OBVIOUS
<1>2. PICK x \in T : \A y \in T : x <= y
  <2>1. T \subseteq Nat
    OBVIOUS
  <2> HIDE DEF T
  <2> QED
    BY <1>1, <2>1, NatMin
<1>3. x \in Nat /\ x \notin S /\ x # 0
  BY <1>2
<1>4. x - 1 \in Nat /\ x - 1 \in S
  BY <1>2, <1>3
<1>5. (x - 1) + 1 \in S /\ (x - 1) + 1 = x
  BY <1>3, <1>4
<1> QED
  BY <1>3, <1>5

\* Max of the indices of a sequence.
LEMMA MaxIs ==
  ASSUME NEW n \in Nat, NEW s \in SUBSET (1..n), s # {}
  PROVE  Max(s) \in s /\ \A y \in s : y <= Max(s)
<1> DEFINE T == {m \in Nat : \A y \in s : y <= m}
<1>1. n \in T /\ T \subseteq Nat
  OBVIOUS
<1> HIDE DEF T
<1>2. PICK m \in T : \A y \in T : m <= y
  BY <1>1, NatMin
<1>3. m \in Nat /\ \A y \in s : y <= m
  BY <1>2 DEF T
<1>4. m \in s
  <2>1. SUFFICES ASSUME m \notin s PROVE FALSE
    OBVIOUS
  <2>2. PICK z \in s : TRUE
    OBVIOUS
  <2>3. \A y \in s : y \in Nat /\ y <= m /\ y # m
    BY <1>3, <2>1
  <2>4. m - 1 \in Nat /\ \A y \in s : y <= m - 1
    BY <1>3, <2>2, <2>3
  <2>5. m - 1 \in T
    BY <2>4 DEF T
  <2> QED
    BY <1>2, <1>3, <2>5
<1>5. \E x \in s : \A y \in s : x >= y
  BY <1>3, <1>4
<1>6. Max(s) \in s /\ \A y \in s : Max(s) >= y
  BY <1>5 DEF Max
<1> QED
  BY <1>6

\* f folds G over the sets of the first k indices, the largest index last.
FoldsTo(f, V, base, G, k) ==
  /\ f \in [SUBSET (1..k) -> V]
  /\ \A s \in SUBSET (1..k) :
       f[s] = IF s = {} THEN base ELSE G[<<Max(s), f[s \ {Max(s)}]>>]
HasFold(V, base, G, k) == \E f : FoldsTo(f, V, base, G, k)

\* A fold over k indices extends to the next one.
LEMMA FoldGrows ==
  ASSUME NEW V, NEW base \in V, NEW n \in Nat, NEW G \in [(1..n) \X V -> V],
         NEW k \in Nat, k + 1 <= n, NEW f, FoldsTo(f, V, base, G, k)
  PROVE  HasFold(V, base, G, k + 1)
<1> DEFINE g == [s \in SUBSET (1..(k + 1)) |->
                   IF k + 1 \in s THEN G[<<k + 1, f[s \ {k + 1}]>>] ELSE f[s]]
<1>1. f \in [SUBSET (1..k) -> V]
  BY DEF FoldsTo
<1>2. ASSUME NEW s \in SUBSET (1..(k + 1))
      PROVE  /\ g[s] \in V
             /\ g[s] = IF s = {} THEN base ELSE G[<<Max(s), g[s \ {Max(s)}]>>]
  <2>1. CASE k + 1 \in s
    <3> DEFINE t == s \ {k + 1}
    <3>1. t \in SUBSET (1..k) /\ t \in SUBSET (1..(k + 1)) /\ k + 1 \notin t
      OBVIOUS
    <3> HIDE DEF t
    <3>2. g[t] = f[t] /\ f[t] \in V
      BY <1>1, <3>1
    <3>3. g[s] = G[<<k + 1, f[t]>>]
      BY <2>1 DEF t
    <3>4. Max(s) = k + 1
      <4>1. k + 1 \in Nat /\ s # {}
        BY <2>1
      <4>2. Max(s) \in s /\ \A y \in s : y <= Max(s)
        BY <4>1, MaxIs
      <4> PICK m : m = Max(s)
        OBVIOUS
      <4>3. m \in 1..(k + 1) /\ k + 1 <= m
        BY <2>1, <4>2
      <4> QED
        BY <4>3
    <3>5. <<k + 1, f[t]>> \in (1..n) \X V
      BY <3>2
    <3>6. G[<<k + 1, f[t]>>] \in V
      BY <3>5
    <3>7. s # {} /\ g[s] = G[<<Max(s), g[s \ {Max(s)}]>>]
      <4> HIDE DEF g
      <4> QED
        BY <2>1, <3>2, <3>3, <3>4 DEF t
    <3> HIDE DEF g
    <3> QED
      BY <3>3, <3>6, <3>7
  <2>2. CASE k + 1 \notin s
    <3>1. s \in SUBSET (1..k)
      BY <2>2
    <3>2. g[s] = f[s] /\ f[s] \in V
      BY <1>1, <2>2, <3>1
    <3>3. f[s] = IF s = {} THEN base ELSE G[<<Max(s), f[s \ {Max(s)}]>>]
      BY <3>1 DEF FoldsTo
    <3> DEFINE t == s \ {Max(s)}
    <3>4. g[t] = f[t]
      <4>1. t \in SUBSET (1..k) /\ t \in SUBSET (1..(k + 1)) /\ k + 1 \notin t
        BY <2>2, <3>1
      <4> HIDE DEF t
      <4> QED
        BY <4>1
    <3> HIDE DEF g
    <3> QED
      BY <3>2, <3>3, <3>4
  <2> QED
    BY <2>1, <2>2
<1>3. DOMAIN g = SUBSET (1..(k + 1)) /\ g = [s \in DOMAIN g |-> g[s]]
  OBVIOUS
<1> HIDE DEF g
<1>4. g \in [SUBSET (1..(k + 1)) -> V]
  BY <1>2, <1>3
<1>5. FoldsTo(g, V, base, G, k + 1)
  BY <1>2, <1>4 DEF FoldsTo
<1> QED
  BY <1>5 DEF HasFold

\* A fold over a sequence exists: its recursive definition has a solution.
LEMMA FoldExists ==
  ASSUME NEW V, NEW base \in V, NEW n \in Nat, NEW G \in [(1..n) \X V -> V]
  PROVE  HasFold(V, base, G, n)
<1> DEFINE S == {k \in Nat : k <= n => HasFold(V, base, G, k)}
<1>1. 0 \in S
  <2>1. 1..0 = {} /\ SUBSET (1..0) = {{}}
    OBVIOUS
  <2> DEFINE f == [s \in SUBSET (1..0) |-> base]
  <2>2. f \in [SUBSET (1..0) -> V] /\ \A s \in SUBSET (1..0) : s = {} /\ f[s] = base
    BY <2>1
  <2> HIDE DEF f
  <2>3. FoldsTo(f, V, base, G, 0)
    BY <2>2 DEF FoldsTo
  <2>4. HasFold(V, base, G, 0)
    BY <2>3 DEF HasFold
  <2> QED
    BY <2>4
<1>2. ASSUME NEW k \in Nat, k \in S PROVE k + 1 \in S
  <2>1. ASSUME k + 1 <= n PROVE HasFold(V, base, G, k + 1)
    <3>1. PICK f : FoldsTo(f, V, base, G, k)
      BY <1>2, <2>1 DEF HasFold
    <3> QED
      BY <2>1, <3>1, FoldGrows
  <2> QED
    BY <2>1
<1>3. Nat \subseteq S
  <2> HIDE DEF S
  <2> QED
    BY <1>1, <1>2, NatInd
<1> QED
  BY <1>3

\* The lines of the first k buffers, for every k.
LEMMA LinesAre ==
  ASSUME NEW n \in Nat, NEW bufs \in Seq(Buffer), Len(bufs) = n
  PROVE  \E f : /\ f[n] = Lines(bufs) /\ f[0] = <<>>
                /\ \A k \in 0..n : f[k] \in Buffer
                /\ \A k \in 1..n : f[k] = f[k - 1] \o bufs[k]
<1> DEFINE G == [p \in (1..n) \X Buffer |-> p[2] \o bufs[p[1]]]
<1>1. DOMAIN bufs = 1..n /\ \A i \in 1..n : bufs[i] \in Buffer
  OBVIOUS
<1>2. \A i \in 1..n, b \in Buffer : b \o bufs[i] \in Buffer
  BY <1>1 DEF Buffer
<1>3. G \in [(1..n) \X Buffer -> Buffer]
  BY <1>2
<1>4. \A i \in 1..n, b \in Buffer : G[<<i, b>>] = b \o bufs[i]
  OBVIOUS
<1>5. <<>> \in Buffer
  BY DEF Buffer
<1> HIDE DEF G
<1>6. PICK h : FoldsTo(h, Buffer, <<>>, G, n)
  BY <1>3, <1>5, FoldExists DEF HasFold
<1> DEFINE Solves(f) == f = [s \in SUBSET (DOMAIN bufs) |->
                               IF s = {} THEN <<>> ELSE f[s \ {Max(s)}] \o bufs[Max(s)]]
<1>7. Solves(h)
  <2>1. ASSUME NEW s \in SUBSET (1..n), s # {} PROVE h[s] = h[s \ {Max(s)}] \o bufs[Max(s)]
    <3> PICK m : m = Max(s)
      OBVIOUS
    <3>1. m \in s
      BY <2>1, MaxIs
    <3>2. h[s \ {m}] \in Buffer /\ h[s] = G[<<m, h[s \ {m}]>>]
      BY <1>6, <2>1 DEF FoldsTo
    <3> QED
      BY <1>4, <3>1, <3>2
  <2>2. h \in [SUBSET (1..n) -> Buffer] /\ h[{}] = <<>>
    BY <1>6 DEF FoldsTo
  <2> QED
    BY <1>1, <2>1, <2>2
<1> DEFINE iter == CHOOSE f : Solves(f)
<1>8. Solves(iter)
  BY <1>7
<1>9. Lines(bufs) = iter[DOMAIN bufs]
  BY DEF Lines, FoldLeft, MapThenFoldSet
<1>10. \A s \in SUBSET (1..n) :
         iter[s] = IF s = {} THEN <<>> ELSE iter[s \ {Max(s)}] \o bufs[Max(s)]
  <2> HIDE DEF iter
  <2> QED
    BY <1>1, <1>8
<1> HIDE DEF iter, Solves
<1> DEFINE f == [k \in 0..n |-> iter[1..k]]
<1>11. f[n] = Lines(bufs) /\ f[0] = <<>>
  <2>1. 1..0 = {} /\ 1..0 \in SUBSET (1..n)
    OBVIOUS
  <2>2. iter[1..0] = <<>>
    BY <1>10, <2>1
  <2>3. f[n] = iter[1..n] /\ f[0] = iter[1..0]
    OBVIOUS
  <2> HIDE DEF f
  <2> QED
    BY <1>1, <1>9, <2>2, <2>3
<1>12. ASSUME NEW k \in 1..n PROVE f[k] = f[k - 1] \o bufs[k]
  <2>1. 1..k \in SUBSET (1..n) /\ 1..k # {} /\ (1..k) \ {k} = 1..(k - 1)
    OBVIOUS
  <2>2. Max(1..k) = k
    <3> PICK m : m = Max(1..k)
      OBVIOUS
    <3>1. m \in 1..k /\ \A y \in 1..k : y <= m
      BY <2>1, MaxIs
    <3>2. m \in 1..k /\ k <= m
      BY <3>1
    <3> QED
      BY <3>2
  <2>3. iter[1..k] = iter[1..(k - 1)] \o bufs[k]
    BY <1>10, <2>1, <2>2
  <2>4. f[k] = iter[1..k] /\ f[k - 1] = iter[1..(k - 1)]
    OBVIOUS
  <2> HIDE DEF f
  <2> QED
    BY <2>3, <2>4
<1> HIDE DEF f
<1>13. \A k \in 0..n : f[k] \in Buffer
  <2> DEFINE S == {k \in Nat : k <= n => f[k] \in Buffer}
  <2>1. 0 \in S
    BY <1>5, <1>11
  <2>2. ASSUME NEW k \in Nat, k \in S PROVE k + 1 \in S
    <3>1. ASSUME k + 1 <= n PROVE f[k + 1] \in Buffer
      <4>1. k + 1 \in 1..n /\ (k + 1) - 1 = k /\ f[k] \in Buffer
        BY <2>2, <3>1
      <4>2. f[k + 1] = f[k] \o bufs[k + 1]
        BY <1>12, <4>1
      <4> QED
        BY <1>2, <4>1, <4>2
    <3> QED
      BY <3>1
  <2>3. Nat \subseteq S
    <3> HIDE DEF S
    <3> QED
      BY <2>1, <2>2, NatInd
  <2> QED
    BY <2>3
<1> QED
  BY <1>11, <1>12, <1>13

\* The buffers' lines, one buffer after the other, are the lines they hold, in order.
LEMMA LinesHeld ==
  ASSUME NEW bufs \in Seq(Buffer), Ordered(bufs)
  PROVE  Lines(bufs) \in Seq(Nat) /\ Increasing(Lines(bufs)) /\ ToSet(Lines(bufs)) = Held(bufs)
<1> DEFINE n == Len(bufs)
<1>1. n \in Nat /\ DOMAIN bufs = 1..n /\ \A i \in 1..n : bufs[i] \in Seq(Nat)
  BY DEF Buffer
<1>2. PICK f : /\ f[n] = Lines(bufs) /\ f[0] = <<>>
               /\ \A k \in 0..n : f[k] \in Buffer
               /\ \A k \in 1..n : f[k] = f[k - 1] \o bufs[k]
  BY <1>1, LinesAre
<1>3. /\ \A i \in 1..n : Increasing(bufs[i])
      /\ \A i, j \in 1..n : i < j => Before(ToSet(bufs[i]), ToSet(bufs[j]))
  BY <1>1 DEF Ordered
<1> DEFINE H(k) == UNION {ToSet(bufs[i]) : i \in 1..k}
           S == {k \in Nat : k <= n => Increasing(f[k]) /\ ToSet(f[k]) = H(k)}
<1> HIDE DEF n
<1>4. 0 \in S
  <2>1. H(0) = {}
    OBVIOUS
  <2> HIDE DEF H
  <2> QED
    BY <1>2, <2>1, NoLines
<1>5. ASSUME NEW k \in Nat, k \in S PROVE k + 1 \in S
  <2>1. ASSUME k + 1 <= n PROVE Increasing(f[k + 1]) /\ ToSet(f[k + 1]) = H(k + 1)
    <3>1. k + 1 \in 1..n /\ k \in 0..n /\ (k + 1) - 1 = k
      BY <1>1, <2>1
    <3>2. Increasing(f[k]) /\ ToSet(f[k]) = H(k) /\ f[k] \in Seq(Nat)
      BY <1>2, <1>5, <3>1 DEF Buffer
    <3>3. f[k + 1] = f[k] \o bufs[k + 1] /\ bufs[k + 1] \in Seq(Nat) /\ Increasing(bufs[k + 1])
      BY <1>1, <1>2, <1>3, <3>1
    <3>4. Before(H(k), ToSet(bufs[k + 1]))
      <4>1. ASSUME NEW i \in 1..k PROVE Before(ToSet(bufs[i]), ToSet(bufs[k + 1]))
        <5>1. i \in 1..n /\ i < k + 1
          BY <1>1, <3>1
        <5> QED
          BY <1>3, <3>1, <5>1
      <4> QED
        BY <4>1 DEF Before
    <3>5. H(k + 1) = H(k) \cup ToSet(bufs[k + 1])
      <4>1. 1..(k + 1) = (1..k) \cup {k + 1}
        OBVIOUS
      <4> QED
        BY <4>1
    <3> HIDE DEF H, S
    <3>6. /\ ToSet(f[k] \o bufs[k + 1]) = ToSet(f[k]) \cup ToSet(bufs[k + 1])
          /\ Increasing(f[k] \o bufs[k + 1])
      BY <3>2, <3>3, <3>4, LinesJoined
    <3> QED
      BY <3>2, <3>3, <3>5, <3>6
  <2> HIDE DEF H
  <2> QED
    BY <2>1
<1>6. Nat \subseteq S
  <2> HIDE DEF S
  <2> QED
    BY <1>4, <1>5, NatInd
<1>7. Increasing(f[n]) /\ ToSet(f[n]) = H(n)
  <2> HIDE DEF H
  <2> QED
    BY <1>1, <1>6
<1>8. f[n] \in Seq(Nat)
  BY <1>1, <1>2 DEF Buffer
<1>9. H(n) = Held(bufs)
  BY <1>1 DEF Held
<1> QED
  BY <1>2, <1>7, <1>8, <1>9

\* What LinesKept says of the places, LinesInOrder says of the lines.
LEMMA LinesKeptInOrder == IInv => LinesInOrder
<1> SUFFICES ASSUME IInv PROVE LinesInOrder
  OBVIOUS
<1> DEFINE W == Waiting
           S == Stored
           X == output.lost
<1>1. InPlace(S, W, X, appended) /\ W \in Seq(Buffer) /\ S \in Seq(Nat)
  BY WaitingIs, StoredIs DEF IInv, LinesKept
<1> HIDE DEF W, S, X
<1>2. /\ ToSet(S) \cup Held(W) \cup X = 1..appended
      /\ X \cap (ToSet(S) \cup Held(W)) = {}
      /\ Increasing(S) /\ Ordered(W) /\ Before(ToSet(S) \cup X, Held(W))
  BY <1>1 DEF InPlace
<1>3. Lines(W) \in Seq(Nat) /\ Increasing(Lines(W)) /\ ToSet(Lines(W)) = Held(W)
  BY <1>1, <1>2, LinesHeld
<1>4. Before(ToSet(S), ToSet(Lines(W)))
  BY <1>2, <1>3 DEF Before
<1>5. ToSet(S \o Lines(W)) = ToSet(S) \cup Held(W) /\ Increasing(S \o Lines(W))
  BY <1>1, <1>2, <1>3, <1>4, LinesJoined
<1>6. ToSet(S \o Lines(W)) = (1..appended) \ X
  BY <1>2, <1>5
<1> QED
  BY <1>5, <1>6 DEF LinesInOrder, W, S, X

-----------------------------------------------------------------------------

\* The inductive invariant holds whatever the interleaving of append, stop and
\* threadFunc, wherever a write fails and whenever a file is replaced.
THEOREM InvariantHolds == Spec => []IInv
<1>1. Init => IInv
  BY InitPoolInv, InitFileInv, InitLinesKept DEF IInv
<1>2. IInv /\ [Next]_vars => IInv'
  BY NextPoolInv, NextFileInv, NextLinesKept DEF IInv
<1> QED
  BY <1>1, <1>2, PTL DEF Spec

\* Every appended line is stored, waits in a buffer or was given up by a write that
\* failed, only one of them, and in the order of append.
THEOREM LinesKeptHolds == Spec => []LinesKept
<1>1. IInv => LinesKept
  BY DEF IInv
<1> QED
  BY <1>1, InvariantHolds, PTL

\* LogFile replaces a file that is too large by its next append of another second,
\* and one whose day is over within checkEveryN_ appends.
THEOREM RollsInTimeHolds == Spec => []RollsInTime
<1>1. IInv => RollsInTime
  <2> SUFFICES ASSUME IInv PROVE RollsInTime
    OBVIOUS
  <2>1. /\ output.overdue <= output.count_ /\ output.count_ < checkEveryN_
        /\ output.writtenBytes_ > rollSize_ => output.lastWrite = output.lastRoll_
    BY DEF IInv, FileInv
  <2>2. output.overdue \in Nat /\ output.count_ \in Nat /\ checkEveryN_ \in Nat
    BY LogFileAssumption DEF IInv, FileInv, LogFileType
  <2> QED
    BY <2>1, <2>2 DEF RollsInTime
<1> QED
  BY <1>1, InvariantHolds, PTL

\* The disk, stdio and the buffers hold the appended lines in the order of append,
\* each of them once, but for those of a write that failed.
THEOREM LinesInOrderHolds == Spec => []LinesInOrder
BY InvariantHolds, LinesKeptInOrder, PTL
=============================================================================
