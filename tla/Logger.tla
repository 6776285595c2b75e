------------------------------- MODULE Logger -------------------------------
(***************************************************************************)
(* Logger: threads execute log statements, each of which puts a line       *)
(* together and hands it to g_output, while the main thread constructs an  *)
(* AsyncLogging and makes it the output.  g_output and g_flush belong to   *)
(* all threads, g_asyncLog, through which both reach the AsyncLogging, is  *)
(* thread-local and set in the thread of the constructor only.             *)
(***************************************************************************)
EXTENDS LogStream

CONSTANTS
  Threads, Main,
  SizeOf,         \* the lengths of the fixed texts of a line
  Tid, LineNo,    \* the numbers every line holds
  ErrnoValues,    \* errno when a statement that reports it is executed
  Levels,         \* what setLogLevel is called with
  UserPieces,     \* what a statement may stream
  MaxPieces,      \* bound: pieces streamed by a statement
  MaxStatements   \* bound: statements executed

\* A double's %.12g is shorter than kMaxNumericSize; a line's time, thread and level
\* leave room in the buffer.
ASSUME LoggerAssumption ==
  /\ Main \in Threads
  /\ \A p \in UserPieces :
       \/ p.kind = "text" /\ p.size \in Nat
       \/ p.kind = "double" /\ p.size \in 0..(kMaxNumericSize - 1)
       \/ p.kind = "int" /\ p.size \in IntMin..IntMax
       \/ p.kind = "pointer" /\ p.size \in 0..IntMax
  /\ {Tid, LineNo} \cup ErrnoValues \subseteq IntMin..IntMax
  /\ Levels \subseteq 0..5
  /\ MaxPieces \in Nat /\ MaxStatements \in Nat

\* The texts every line or some lines hold.
FixedTexts ==
  {"time", "level", "strerror", "(errno=", ")", "func", "space", "dash", "basename",
   "colon", "newline"}

ASSUME TextsFit ==
  /\ \A n \in FixedTexts : SizeOf[n] \in Nat
  /\ SizeOf["newline"] = 1
  /\ SizeOf["time"] + kMaxNumericSize + SizeOf["level"] < SIZE

VARIABLES
  g_logLevel, g_output, g_flush,
  g_asyncLog,     \* the threads whose pointer is set
  process,        \* running, aborted by FATAL, or crashed by a thread's null pointer
  pc, fatal, stream_, pieces,    \* of the statement a thread executes; fatal: level_ is FATAL
  statements,     \* the statements begun
  sink,           \* history: where a thread's last line went
  stdout, flushed,               \* the lines in stdio, and how many of them are out
  log, stopped    \* the lines the AsyncLogging took, and whether it was stopped

sinkVars == <<stdout, flushed, log, stopped>>
globalVars == <<g_logLevel, g_output, g_flush, g_asyncLog>>
threadVars == <<pc, fatal, stream_, pieces, sink>>
vars == <<globalVars, process, threadVars, statements, sinkVars>>

-----------------------------------------------------------------------------
(* A statement.                                                            *)

INFO == 2
FATAL == 5

\* The macros: the level, whether the level is looked at, and what the
\* constructor adds to the line.
Macros ==
  [LOG_TRACE |-> [level |-> 0, filtered |-> TRUE, adds |-> "func"],
   LOG_DEBUG |-> [level |-> 1, filtered |-> TRUE, adds |-> "func"],
   LOG_INFO |-> [level |-> INFO, filtered |-> TRUE, adds |-> "nothing"],
   LOG_WARN |-> [level |-> 3, filtered |-> FALSE, adds |-> "nothing"],
   LOG_ERROR |-> [level |-> 4, filtered |-> FALSE, adds |-> "nothing"],
   LOG_FATAL |-> [level |-> FATAL, filtered |-> FALSE, adds |-> "nothing"],
   LOG_SYSERR |-> [level |-> 4, filtered |-> FALSE, adds |-> "errno"],
   LOG_SYSFATAL |-> [level |-> FATAL, filtered |-> FALSE, adds |-> "errno"]]

Text(name) == [kind |-> "text", name |-> name, size |-> SizeOf[name]]
Number(name, v) == [kind |-> "int", name |-> name, size |-> v]

\* Impl's constructor, and Logger's.
Prologue(macro, errno) ==
  <<Text("time"), Number("tid", Tid), Text("level")>>
    \o (IF macro.adds = "errno" /\ errno # 0
        THEN <<Text("strerror"), Text("(errno="), Number("errno", errno), Text(")")>>
        ELSE <<>>)
    \o (IF macro.adds = "func" THEN <<Text("func"), Text("space")>> ELSE <<>>)

\* Impl::finish
Epilogue ==
  <<Text("dash"), Text("basename"), Text("colon"), Number("line", LineNo), Text("newline")>>

\* initLogLevel
Init ==
  /\ g_logLevel \in 0..INFO
  /\ g_output = "stdout" /\ g_flush = "stdout"
  /\ g_asyncLog = {}
  /\ process = [state |-> "running", by |-> Main]
  /\ pc = [t \in Threads |-> "idle"]
  /\ fatal = [t \in Threads |-> FALSE]
  /\ stream_ = [t \in Threads |-> EmptyStream]
  /\ pieces = [t \in Threads |-> 0]
  /\ sink = [t \in Threads |-> "none"]
  /\ statements = 0
  /\ stdout = <<>> /\ flushed = 0
  /\ log = <<>> /\ stopped = FALSE

Running == process.state = "running"

\* The macro's condition and the construction of the Logger.
Begin(t, m, errno) ==
  /\ Running /\ pc[t] = "idle" /\ statements < MaxStatements
  /\ Macros[m].filtered => g_logLevel <= Macros[m].level
  /\ pc' = [pc EXCEPT ![t] = "stream"]
  /\ fatal' = [fatal EXCEPT ![t] = Macros[m].level = FATAL]
  /\ stream_' = [stream_ EXCEPT ![t] = PutAll(EmptyStream, Prologue(Macros[m], errno))]
  /\ statements' = statements + 1
  /\ UNCHANGED <<globalVars, process, pieces, sink, sinkVars>>

\* The statement's own <<.
Stream(t, p) ==
  /\ Running /\ pc[t] = "stream" /\ pieces[t] < MaxPieces
  /\ stream_' = [stream_ EXCEPT ![t] = Put(@, p)]
  /\ pieces' = [pieces EXCEPT ![t] = @ + 1]
  /\ UNCHANGED <<globalVars, process, pc, fatal, sink, statements, sinkVars>>

Crash(t) == process' = [state |-> "crashed", by |-> t]

\* Mutant of HasLog: the pointer is one for all threads.
HasLogShared(t) == g_asyncLog # {}

\* g_asyncLog-> finds an AsyncLogging.
HasLog(t) == t \in g_asyncLog

\* ~Logger: the line is finished and handed to g_output.
Finish(t) ==
  /\ Running /\ pc[t] = "stream"
  /\ LET line == PutAll(stream_[t], Epilogue)
     IN  \/ /\ g_output = "stdout"
            /\ stdout' = Append(stdout, line)
            /\ UNCHANGED <<process, log>>
         \/ /\ g_output = "async" /\ HasLog(t)
            /\ log' = Append(log, line)
            /\ UNCHANGED <<process, stdout>>
         \/ /\ g_output = "async" /\ ~HasLog(t)
            /\ Crash(t)
            /\ UNCHANGED <<log, stdout>>
  /\ pc' = [pc EXCEPT ![t] = IF fatal[t] THEN "flush" ELSE "idle"]
  /\ stream_' = [stream_ EXCEPT ![t] = EmptyStream]
  /\ pieces' = [pieces EXCEPT ![t] = 0]
  /\ sink' = [sink EXCEPT ![t] = g_output]
  /\ UNCHANGED <<globalVars, fatal, statements, flushed, stopped>>

\* ~Logger, the message is FATAL: g_flush and abort.
FlushAndAbort(t) ==
  /\ Running /\ pc[t] = "flush"
  /\ \/ /\ g_flush = "stdout"
        /\ flushed' = Len(stdout)
        /\ process' = [state |-> "aborted", by |-> t]
        /\ UNCHANGED stopped
     \/ /\ g_flush = "async" /\ HasLog(t)
        /\ stopped' = TRUE
        /\ process' = [state |-> "aborted", by |-> t]
        /\ UNCHANGED flushed
     \/ /\ g_flush = "async" /\ ~HasLog(t)
        /\ Crash(t)
        /\ UNCHANGED <<flushed, stopped>>
  /\ UNCHANGED <<globalVars, threadVars, statements, stdout, log>>

-----------------------------------------------------------------------------
(* The main thread, between its own statements.                            *)

MainIdle == Running /\ pc[Main] = "idle"

\* AsyncLogging's constructor.
Construct ==
  /\ MainIdle /\ g_asyncLog = {}
  /\ g_asyncLog' = {Main}
  /\ UNCHANGED <<g_logLevel, g_output, g_flush, process, threadVars, statements, sinkVars>>

\* AsyncLogging::start: setOutput ...
SetOutput ==
  /\ MainIdle /\ g_asyncLog # {} /\ g_output = "stdout"
  /\ g_output' = "async"
  /\ pc' = [pc EXCEPT ![Main] = "starting"]
  /\ UNCHANGED <<g_logLevel, g_flush, g_asyncLog, process, fatal, stream_, pieces,
                 sink, statements, sinkVars>>

\* ... and setFlush.
SetFlush ==
  /\ Running /\ pc[Main] = "starting"
  /\ g_flush' = "async"
  /\ pc' = [pc EXCEPT ![Main] = "idle"]
  /\ UNCHANGED <<g_logLevel, g_output, g_asyncLog, process, fatal, stream_, pieces,
                 sink, statements, sinkVars>>

SetLogLevel(l) ==
  /\ MainIdle /\ g_logLevel # l
  /\ g_logLevel' = l
  /\ UNCHANGED <<g_output, g_flush, g_asyncLog, process, threadVars, statements, sinkVars>>

-----------------------------------------------------------------------------

Next ==
  \/ \E t \in Threads :
       \/ \E m \in DOMAIN Macros, errno \in ErrnoValues : Begin(t, m, errno)
       \/ \E p \in UserPieces : Stream(t, p)
       \/ Finish(t)
       \/ FlushAndAbort(t)
  \/ Construct \/ SetOutput \/ SetFlush
  \/ \E l \in Levels : SetLogLevel(l)

Spec == Init /\ [][Next]_vars

-----------------------------------------------------------------------------
(* Properties.                                                             *)

\* Whatever was streamed before, a number streamed next, be it the least of its
\* type, is written with the digits that mean it, and leaves a byte of the buffer
\* for the null character.
NumbersRight ==
  \A t \in Threads : pc[t] = "stream" =>
    /\ \A v \in IntMin..IntMax :
         LET s == formatInteger(stream_[t], "number", v)
         IN  s # stream_[t] => s.used < SIZE /\ ValueOf(convert[v], 10) = v
    /\ \A v \in 0..IntMax :
         LET s == formatPointer(stream_[t], "number", v)
         IN  s # stream_[t] => s.used < SIZE /\ ValueOf(convertHex[v], 16) = v

\* However much is streamed, a line leaves a byte of its buffer free, starts with
\* the time, the thread and the level, ends with its newline unless that byte is
\* the only one, and names its line number unless a number had no room.
Started(l) == l.used < SIZE /\ SubSeq(l.kept, 1, 3) = <<"time", "tid", "level">>
Finished(l) ==
  /\ Started(l)
  /\ Last(l.kept) # "newline" => l.used = SIZE - 1
  /\ "line" \in ToSet(l.kept) \/ l.used > SIZE - kMaxNumericSize
LineShape == \A i \in DOMAIN (stdout \o log) : Finished((stdout \o log)[i])

\* When FATAL aborts the program, the output that took its line was flushed, also
\* when another thread changes the output between the line and the flush: either
\* stdout, and the line is out, or the AsyncLogging, whose flush is stop().  (What
\* stop() writes is another matter, see StopFlushes in AsyncLogging.)
\* Log statements crash in threads other than the AsyncLogging's only.
FatalFlushed ==
  /\ process.state = "aborted" =>
       \/ sink[process.by] = "stdout" /\ flushed = Len(stdout)
       \/ sink[process.by] = "async" /\ stopped
  /\ process.state = "crashed" => process.by # Main

\* The control state; LineShape has the lines.
TypeOK ==
  /\ g_logLevel \in 0..FATAL
  /\ {g_output, g_flush} \subseteq {"stdout", "async"}
  /\ g_asyncLog \in {{}, {Main}}
  /\ process \in [state : {"running", "aborted", "crashed"}, by : Threads]
  /\ pc \in [Threads -> {"idle", "stream", "flush", "starting"}]
  /\ fatal \in [Threads -> BOOLEAN]
  /\ pieces \in [Threads -> 0..MaxPieces]
  /\ sink \in [Threads -> {"none", "stdout", "async"}]
  /\ statements \in 0..MaxStatements
  /\ stopped \in BOOLEAN

\* g_output and g_flush name the AsyncLogging only once the main thread's pointer
\* is set, and differ only while start() is between setting one and the other.
OutputFollows ==
  /\ g_output = "async" => g_asyncLog = {Main}
  /\ IF pc[Main] = "starting" THEN g_output = "async" /\ g_flush = "stdout"
     ELSE g_flush = g_output

\* A FATAL line waiting for its flush went to the AsyncLogging from the main
\* thread only, and the main thread's went where g_flush will look for it.
FatalFollows ==
  /\ \A t \in Threads :
       pc[t] = "flush" => sink[t] = "stdout" \/ (sink[t] = "async" /\ t = Main)
  /\ pc[Main] = "flush" => sink[Main] = g_flush
  /\ \A t \in Threads : pc[t] = "starting" => t = Main

\* What a statement put together so far, and what the outputs took.
Names == FixedTexts \cup {"tid", "errno", "line"} \cup {p.name : p \in UserPieces}
Lines == [kept : Seq(Names), used : Nat]
LinesInv ==
  /\ stream_ \in [Threads -> Lines]
  /\ \A t \in Threads : pc[t] = "stream" => Started(stream_[t]) /\ Len(stream_[t].kept) >= 3
  /\ stdout \in Seq(Lines) /\ \A i \in DOMAIN stdout : Finished(stdout[i])
  /\ log \in Seq(Lines) /\ \A i \in DOMAIN log : Finished(log[i])

\* The part of the inductive invariant about the control state, and all of it.
ControlInv ==
  TypeOK /\ FatalFlushed /\ (process.state = "running" => OutputFollows /\ FatalFollows)
IInv == ControlInv /\ LinesInv
=============================================================================
