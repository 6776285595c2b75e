------------------------------ MODULE LogFile -------------------------------
(***************************************************************************)
(* LogFile and AppendFile: the backend's output, a file that is replaced   *)
(* when it is full or its day is over, written through a stdio buffer.     *)
(*                                                                         *)
(* A log file is a record and the member functions are operators from      *)
(* record to record.  It is written by one thread (threadSafe is false).   *)
(* Sizes are counted in lines.  Files are never written again once they    *)
(* are replaced, so that what is on disk is one sequence, disk, of all     *)
(* files in the order they were opened; mem is what stdio still holds.     *)
(***************************************************************************)
EXTENDS Naturals, Sequences, SequencesExt

CONSTANTS
  rollSize_,         \* a file larger than this is replaced
  kRollPerSeconds_,  \* a day
  checkEveryN_,      \* appends between looks at the clock
  flushInterval_     \* of the LogFile

ASSUME LogFileAssumption ==
  /\ rollSize_ \in Nat
  /\ kRollPerSeconds_ \in Nat \ {0}
  /\ checkEveryN_ \in Nat \ {0}
  /\ flushInterval_ \in Nat

\* lost, lastWrite and overdue are history: the lines of failed writes, the
\* time of the last append to this file, the appends since its day is over.
NoFile ==
  [count_ |-> 0, startOfPeriod_ |-> 0, lastRoll_ |-> 0, lastFlush_ |-> 0,
   writtenBytes_ |-> 0, mem |-> <<>>, disk |-> <<>>,
   lost |-> {}, lastWrite |-> 0, overdue |-> 0]

\* A log file of lines that are numbers.
LogFileType ==
  [count_ : Nat, startOfPeriod_ : Nat, lastRoll_ : Nat, lastFlush_ : Nat,
   writtenBytes_ : Nat, mem : Seq(Nat), disk : Seq(Nat),
   lost : SUBSET Nat, lastWrite : Nat, overdue : Nat]

StartOfPeriod(now) == (now \div kRollPerSeconds_) * kRollPerSeconds_

\* fflush and fclose; n lines of what is buffered, or all of it.
Spill(f, n) ==
  [f EXCEPT !.disk = @ \o SubSeq(f.mem, 1, n), !.mem = SubSeq(@, n + 1, Len(@))]
Flush(f) == Spill(f, Len(f.mem))

\* Two files of the same second would have the same name.  The new file is
\* opened, then the old one closed.
rollFile(f, now) ==
  IF now > f.lastRoll_
  THEN [Flush(f) EXCEPT !.lastRoll_ = now, !.lastFlush_ = now,
                        !.startOfPeriod_ = StartOfPeriod(now), !.writtenBytes_ = 0,
                        !.lastWrite = now, !.overdue = 0]
  ELSE f

\* AppendFile::append: fwrite took n of the lines; fewer than all is an error,
\* and the rest is given up and nothing counted.
Write(f, lines, n, now) ==
  [f EXCEPT !.mem = @ \o SubSeq(lines, 1, n),
            !.writtenBytes_ = IF n = Len(lines) THEN @ + n ELSE @,
            !.lost = @ \cup ToSet(SubSeq(lines, n + 1, Len(lines))),
            !.lastWrite = now,
            !.overdue = IF StartOfPeriod(now) # f.startOfPeriod_ THEN @ + 1 ELSE @]

\* The look at the clock every checkEveryN_ appends.
Check(f, now) ==
  IF StartOfPeriod(now) # f.startOfPeriod_ THEN rollFile(f, now)
  ELSE IF now > f.lastFlush_ + flushInterval_
       THEN [Flush(f) EXCEPT !.lastFlush_ = now]
       ELSE f

\* Mutant of Maintain: the clock is looked at one append too late.
MaintainLate(f, now) ==
  IF f.writtenBytes_ > rollSize_ THEN rollFile(f, now)
  ELSE IF f.count_ < checkEveryN_ THEN [f EXCEPT !.count_ = @ + 1]
       ELSE Check([f EXCEPT !.count_ = 0], now)

\* What append_unlocked does after the write.
Maintain(f, now) ==
  IF f.writtenBytes_ > rollSize_ THEN rollFile(f, now)
  ELSE IF f.count_ + 1 < checkEveryN_ THEN [f EXCEPT !.count_ = @ + 1]
       ELSE Check([f EXCEPT !.count_ = 0], now)

\* append: of the lines, n are taken by fwrite, and stdio passes k of the lines
\* it holds on to the disk.
AppendToFile(f, lines, n, k, now) == Maintain(Spill(Write(f, lines, n, now), k), now)
=============================================================================
