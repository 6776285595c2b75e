---------------------------- MODULE AsyncLogging ----------------------------
(***************************************************************************)
(* AsyncLogging: threads append log lines to a pool of buffers, a backend  *)
(* thread takes the buffers over and appends them to a LogFile.            *)
(*                                                                         *)
(* A BufferPtr is <<>> when it is null and <<b>> when it owns the buffer   *)
(* b, a sequence of lines.  Lines are numbered in the order append took    *)
(* them.  The critical section of append is one step; the backend's is     *)
(* two, because it waits in it.                                            *)
(***************************************************************************)
EXTENDS LogFile

CONSTANTS
  BufferCap,  \* the lines a buffer has room for
  MaxLines,   \* bound: lines appended
  MaxTime,    \* bound: the clock
  MaxErrors   \* bound: writes that fail

ASSUME AsyncLoggingAssumption ==
  /\ BufferCap \in Nat \ {0}
  /\ MaxLines \in Nat
  /\ MaxTime \in Nat \ {0}
  /\ MaxErrors \in Nat

VARIABLES
  currentBuffer_, nextBuffer_,
  buffers_,                \* full buffers waiting for the backend
  newBuffer1, newBuffer2,  \* the backend's spare buffers
  buffersToWrite,          \* the buffers the backend took over
  bpc,                     \* the backend thread
  first,                   \* the local of threadFunc
  running_,
  spc,                     \* the thread that calls stop()
  it,                      \* the buffers of buffersToWrite already appended
  output,                  \* the backend's LogFile
  clock,                   \* time(), in seconds
  errors,                  \* the writes that failed
  appended,                \* history: the number of lines appended
  stopAt                   \* history: the lines appended before stop()

poolVars == <<currentBuffer_, nextBuffer_, buffers_>>
backVars == <<newBuffer1, newBuffer2, buffersToWrite, bpc, first>>
stopVars == <<running_, spc, stopAt>>
fileVars == <<it, output, errors>>
vars == <<poolVars, backVars, stopVars, fileVars, clock, appended>>

Line == 1..MaxLines
Buffer == Seq(Nat)
BufferPtr == {p \in Seq(Buffer) : Len(p) <= 1}
New == << <<>> >>            \* a pointer to an empty buffer

PoolTypeOK ==
  /\ currentBuffer_ \in BufferPtr /\ currentBuffer_ # <<>>
  /\ nextBuffer_ \in BufferPtr
  /\ buffers_ \in Seq(Buffer)
  /\ newBuffer1 \in BufferPtr
  /\ newBuffer2 \in BufferPtr
  /\ buffersToWrite \in Seq(Buffer)
  /\ bpc \in {"none", "open", "test", "lock", "waiting", "swap", "write", "recycle", "ended"}
  /\ first \in BOOLEAN
  /\ it \in Nat
  /\ running_ \in BOOLEAN
  /\ spc \in {"logging", "store", "notify", "join", "returned"}
  /\ appended \in Nat
  /\ stopAt \in Nat

\* The constructor; it leaves running_ uninitialized.
Init ==
  /\ currentBuffer_ = New
  /\ nextBuffer_ = New
  /\ buffers_ = <<>>
  /\ newBuffer1 = New
  /\ newBuffer2 = New
  /\ buffersToWrite = <<>>
  /\ bpc = "none"
  /\ first = TRUE
  /\ running_ \in BOOLEAN
  /\ spc = "logging"
  /\ it = 0
  /\ output = NoFile
  /\ clock = 1
  /\ errors = 0
  /\ appended = 0
  /\ stopAt = 0

-----------------------------------------------------------------------------
(* The front end.                                                          *)

Start ==
  /\ bpc = "none" /\ spc = "logging"
  /\ running_' = TRUE
  /\ bpc' = "open"
  /\ UNCHANGED <<poolVars, newBuffer1, newBuffer2, buffersToWrite, first, spc,
                 stopAt, fileVars, clock, appended>>

\* mutex_ is held by the backend: it waits with the lock.
MutexFree == bpc \notin {"waiting", "swap"}

Fits(b) == Len(b) < BufferCap

\* The buffer that replaces a full one: nextBuffer_'s, or a new one.
Replacement == IF nextBuffer_ # <<>> THEN nextBuffer_[1] ELSE <<>>

\* Mutant of AppendLine: a full buffer is replaced without being handed over when
\* nextBuffer_ is there.
AppendForgetsFull ==
  /\ MutexFree
  /\ bpc # "none" /\ appended < MaxLines
  /\ appended' = appended + 1
  /\ IF Fits(currentBuffer_[1])
     THEN /\ currentBuffer_' = <<Append(currentBuffer_[1], appended + 1)>>
          /\ UNCHANGED <<nextBuffer_, buffers_>>
     ELSE /\ currentBuffer_' = <<Append(Replacement, appended + 1)>>
          /\ nextBuffer_' = <<>>
          /\ buffers_' = IF nextBuffer_ = <<>>
                         THEN Append(buffers_, currentBuffer_[1]) ELSE buffers_
  /\ UNCHANGED <<backVars, stopVars, fileVars, clock>>

\* append, under mutex_.  cond_.notify() finds nobody waiting: who waits holds
\* mutex_.
AppendLine ==
  /\ MutexFree
  /\ bpc # "none" /\ appended < MaxLines
  /\ appended' = appended + 1
  /\ IF Fits(currentBuffer_[1])
     THEN /\ currentBuffer_' = <<Append(currentBuffer_[1], appended + 1)>>
          /\ UNCHANGED <<nextBuffer_, buffers_>>
     ELSE /\ buffers_' = Append(buffers_, currentBuffer_[1])
          /\ currentBuffer_' = <<Append(Replacement, appended + 1)>>
          /\ nextBuffer_' = <<>>
  /\ UNCHANGED <<backVars, stopVars, fileVars, clock>>

\* Mutant of StopStore: running_ is left alone.
StopStoreForgets ==
  /\ bpc # "none" /\ spc = "logging"
  /\ spc' = "notify"
  /\ stopAt' = appended
  /\ UNCHANGED <<poolVars, backVars, running_, fileVars, clock, appended>>

\* stop, or a FATAL message, whose flush is stop: running_ = false ...
StopStore ==
  /\ bpc # "none" /\ spc = "logging"
  /\ running_' = FALSE
  /\ spc' = "notify"
  /\ stopAt' = appended
  /\ UNCHANGED <<poolVars, backVars, fileVars, clock, appended>>

\* ... cond_.notify() ...
StopNotify ==
  /\ spc = "notify"
  /\ spc' = "join"
  /\ bpc' = IF bpc = "waiting" THEN "swap" ELSE bpc
  /\ UNCHANGED <<poolVars, newBuffer1, newBuffer2, buffersToWrite, first,
                 running_, stopAt, fileVars, clock, appended>>

\* ... and join.
StopJoin ==
  /\ spc = "join" /\ bpc = "ended"
  /\ spc' = "returned"
  /\ UNCHANGED <<poolVars, backVars, running_, stopAt, fileVars, clock, appended>>

-----------------------------------------------------------------------------
(* The backend, threadFunc.                                                *)

\* The locals of threadFunc: the LogFile opens its first file.
BackOpen ==
  /\ bpc = "open"
  /\ bpc' = "test"
  /\ output' = rollFile(NoFile, clock)
  /\ UNCHANGED <<poolVars, newBuffer1, newBuffer2, buffersToWrite, first,
                 stopVars, it, errors, clock, appended>>

\* while (running_ || first); after the loop the file is closed.
BackTest ==
  /\ bpc = "test"
  /\ bpc' = IF running_ \/ first THEN "lock" ELSE "ended"
  /\ output' = IF running_ \/ first THEN output ELSE Flush(output)
  /\ first' = FALSE
  /\ UNCHANGED <<poolVars, newBuffer1, newBuffer2, buffersToWrite, stopVars,
                 it, errors, clock, appended>>

\* lock_guard on mutex_, and the wait for cond_ with mutex_ held.
BackLock ==
  /\ bpc = "lock"
  /\ bpc' = IF buffers_ = <<>> THEN "waiting" ELSE "swap"
  /\ UNCHANGED <<poolVars, newBuffer1, newBuffer2, buffersToWrite, first,
                 stopVars, fileVars, clock, appended>>

\* flushInterval_ is over.
BackTimeout ==
  /\ bpc = "waiting"
  /\ bpc' = "swap"
  /\ UNCHANGED <<poolVars, newBuffer1, newBuffer2, buffersToWrite, first,
                 stopVars, fileVars, clock, appended>>

\* Mutant of BackSwap: newBuffer2 is given away even if nextBuffer_ is there.
BackSwapLeaks ==
  /\ bpc = "swap"
  /\ buffersToWrite' = Append(buffers_, currentBuffer_[1])
  /\ buffers_' = <<>>
  /\ currentBuffer_' = newBuffer1
  /\ newBuffer1' = <<>>
  /\ nextBuffer_' = newBuffer2
  /\ newBuffer2' = <<>>
  /\ bpc' = "write"
  /\ UNCHANGED <<first, stopVars, fileVars, clock, appended>>

\* The rest of the critical section: currentBuffer_ and all full buffers are
\* taken over, spare buffers put in their place.
BackSwap ==
  /\ bpc = "swap"
  /\ buffersToWrite' = Append(buffers_, currentBuffer_[1])
  /\ buffers_' = <<>>
  /\ currentBuffer_' = newBuffer1
  /\ newBuffer1' = <<>>
  /\ IF nextBuffer_ = <<>>
     THEN nextBuffer_' = newBuffer2 /\ newBuffer2' = <<>>
     ELSE UNCHANGED <<nextBuffer_, newBuffer2>>
  /\ bpc' = "write"
  /\ UNCHANGED <<first, stopVars, fileVars, clock, appended>>

\* The lines of a sequence of buffers, in order.
Lines(bufs) == FoldLeft(LAMBDA acc, b : acc \o b, <<>>, bufs)

\* The next buffer is appended to the LogFile; a failing fwrite takes only some
\* of its lines.
BackWrite ==
  /\ bpc = "write" /\ it < Len(buffersToWrite)
  /\ LET lines == buffersToWrite[it + 1]
     IN  \E n \in 0..Len(lines) :
           /\ n = Len(lines) \/ errors < MaxErrors
           /\ errors' = IF n = Len(lines) THEN errors ELSE errors + 1
           /\ \E k \in 0..Len(output.mem) + n :
                output' = AppendToFile(output, lines, n, k, clock)
  /\ it' = it + 1
  /\ UNCHANGED <<poolVars, backVars, stopVars, clock, appended>>

\* All buffers are appended.
BackWritten ==
  /\ bpc = "write" /\ it = Len(buffersToWrite)
  /\ bpc' = "recycle"
  /\ it' = 0
  /\ UNCHANGED <<poolVars, newBuffer1, newBuffer2, buffersToWrite, first, stopVars,
                 output, errors, clock, appended>>

\* The buffers the recycling needs, and what resize(2) leaves it.
Missing == (IF newBuffer1 = <<>> THEN 1 ELSE 0) + (IF newBuffer2 = <<>> THEN 1 ELSE 0)
Recyclable == IF Len(buffersToWrite) > 2 THEN 2 ELSE Len(buffersToWrite)

\* A null spare pointer takes over and resets the last buffer, if there is one
\* (back() of an empty vector is undefined; here it yields a null pointer).
Refilled(p, available) ==
  IF p # <<>> THEN p ELSE IF available > 0 THEN New ELSE <<>>

\* Mutant of BackRecycle: newBuffer1 is not reset.
BackRecycleNoReset ==
  /\ bpc = "recycle"
  /\ newBuffer1' = <<buffersToWrite[Recyclable]>>
  /\ newBuffer2' = Refilled(newBuffer2, Recyclable - 1)
  /\ buffersToWrite' = <<>>
  /\ output' = Flush(output)
  /\ bpc' = "test"
  /\ UNCHANGED <<poolVars, first, stopVars, it, errors, clock, appended>>

\* Mutant of BackRecycle: the round ends without a flush.
BackRecycleNoFlush ==
  /\ bpc = "recycle"
  /\ newBuffer1' = Refilled(newBuffer1, Recyclable)
  /\ newBuffer2' = Refilled(newBuffer2, IF newBuffer1 = <<>> THEN Recyclable - 1
                                        ELSE Recyclable)
  /\ buffersToWrite' = <<>>
  /\ bpc' = "test"
  /\ UNCHANGED <<poolVars, first, stopVars, fileVars, clock, appended>>

\* Two written buffers at most are kept for newBuffer1 and newBuffer2, the
\* others are freed; then the file is flushed.
BackRecycle ==
  /\ bpc = "recycle"
  /\ newBuffer1' = Refilled(newBuffer1, Recyclable)
  /\ newBuffer2' = Refilled(newBuffer2, IF newBuffer1 = <<>> THEN Recyclable - 1
                                        ELSE Recyclable)
  /\ buffersToWrite' = <<>>
  /\ output' = Flush(output)
  /\ bpc' = "test"
  /\ UNCHANGED <<poolVars, first, stopVars, it, errors, clock, appended>>

-----------------------------------------------------------------------------

\* A second goes by.
Tick ==
  /\ clock < MaxTime
  /\ clock' = clock + 1
  /\ UNCHANGED <<poolVars, backVars, stopVars, fileVars, appended>>

Backend ==
  \/ BackOpen \/ BackTest \/ BackLock \/ BackTimeout \/ BackSwap
  \/ BackWrite \/ BackWritten \/ BackRecycle

Next ==
  \/ Start \/ AppendLine \/ Backend \/ Tick
  \/ StopStore \/ StopNotify \/ StopJoin

Spec == Init /\ [][Next]_vars

\* The backend is scheduled and its timed wait ends; stop() runs to its end.
Fairness == WF_vars(Backend) /\ WF_vars(StopNotify \/ StopJoin)

FairSpec == Spec /\ Fairness

-----------------------------------------------------------------------------
(* Properties.                                                             *)

\* The lines that are in the files or in stdio, in order, and the buffers that
\* hold those that are in no file yet.
Stored == output.disk \o output.mem
Waiting ==
  Append((IF bpc = "write" THEN SubSeq(buffersToWrite, it + 1, Len(buffersToWrite))
          ELSE <<>>) \o buffers_,
         currentBuffer_[1])

Increasing(lines) == \A i, j \in DOMAIN lines : i < j => lines[i] < lines[j]

\* No line is lost, repeated or overtaken on its way through the buffers and the
\* files, whenever the backend takes the buffers over and a file is replaced:
\* the disk, stdio, the buffers taken over, the full ones and the current one hold
\* the appended lines in order, but for those of a write that failed.
LinesInOrder ==
  LET lines == Stored \o Lines(Waiting)
  IN  Increasing(lines) /\ ToSet(lines) = (1..appended) \ output.lost

\* A file larger than rollSize_ was written to in no second but the one it was
\* opened in; and a file whose day is over takes fewer than checkEveryN_ appends.
RollsInTime ==
  /\ output.writtenBytes_ > rollSize_ => output.lastWrite = output.lastRoll_
  /\ output.overdue < checkEveryN_

\* The recycling never takes back() of an empty vector: the buffers just
\* written are as many as the spare pointers to refill.
RecycleHasBuffers == bpc = "recycle" => Missing <= Recyclable

\* The pool's accounting behind it: nextBuffer_ is only used up when a full
\* buffer went to buffers_, so a swap that gives newBuffer2 away takes at
\* least two buffers over; the spare buffers are all empty.
PoolBalance ==
  /\ nextBuffer_ \in {<<>>, New}
  /\ nextBuffer_ = <<>> => buffers_ # <<>>
  /\ bpc \notin {"write", "recycle"} => newBuffer1 = New /\ newBuffer2 = New
  /\ bpc \in {"write", "recycle"} =>
       /\ newBuffer1 = <<>>
       /\ buffersToWrite # <<>>
       /\ newBuffer2 \in {<<>>, New}
       /\ newBuffer2 = <<>> => Len(buffersToWrite) >= 2

\* The part of the inductive invariant about the pool.
PoolInv == PoolTypeOK /\ PoolBalance

\* There is no file before it is opened.  The file is never ahead of the clock, the
\* appends since its day is over are among those since the last look at the clock,
\* and only a file whose day is over counts them.
FileInv ==
  /\ bpc \in {"none", "open"} => output = NoFile
  /\ clock \in Nat
  /\ output \in LogFileType
  /\ output.lastRoll_ <= clock
  /\ output.startOfPeriod_ = StartOfPeriod(output.lastRoll_)
  /\ output.overdue <= output.count_ /\ output.count_ < checkEveryN_
  /\ output.overdue > 0 => StartOfPeriod(clock) > output.startOfPeriod_
  /\ output.writtenBytes_ > rollSize_ => output.lastWrite = output.lastRoll_

\* The lines in the buffers.
Held(bufs) == UNION {ToSet(bufs[i]) : i \in DOMAIN bufs}

Before(S, T) == \A m \in S, n \in T : m < n

\* The lines in each buffer and from buffer to buffer.
Ordered(bufs) ==
  /\ \A i \in DOMAIN bufs : Increasing(bufs[i])
  /\ \A i, j \in DOMAIN bufs : i < j => Before(ToSet(bufs[i]), ToSet(bufs[j]))

\* Each of the lines 1..n is in one of the places, in the order of the places.
InPlace(stored, waiting, lost, n) ==
  /\ ToSet(stored) \cup Held(waiting) \cup lost = 1..n
  /\ lost \cap (ToSet(stored) \cup Held(waiting)) = {}
  /\ Increasing(stored) /\ Ordered(waiting)
  /\ Before(ToSet(stored) \cup lost, Held(waiting))

\* LinesInOrder as a relation of the lines in each place: every appended line is
\* stored, waits or was given up, only one of them, and the places hold theirs in
\* the order they were appended.
LinesKept ==
  /\ bpc # "write" => it = 0
  /\ it <= Len(buffersToWrite)
  /\ InPlace(Stored, Waiting, output.lost, appended)

\* The inductive invariant of the proofs.
IInv == PoolInv /\ FileInv /\ LinesKept

\* A line appended while the logger runs reaches the disk, even if no more
\* lines follow to fill its buffer, unless its write fails or the logger is
\* stopped.
LineReachesDisk ==
  \A n \in Line :
    (appended >= n /\ running_)
      ~> (n \in ToSet(output.disk) \cup output.lost \/ ~running_)

\* stop() ends, whatever it races with: the backend leaves its loop and is joined.
StopReturns == spc = "notify" ~> spc = "returned"

\* Logging.cpp: a FATAL message flushes the buffers before the program aborts;
\* after stop() the lines appended before it are on the disk.
StopFlushes == spc = "returned" => \A n \in 1..stopAt : n \in ToSet(output.disk)
=============================================================================
