# A TLA+ model of highServer

highServer is a C++11 network library in the reactor style: one event loop per
thread, non-blocking sockets under epoll, timers on a timerfd, TCP servers and
clients built on them, and an asynchronous logger. This directory holds TLA+
modules translated from its source, TLC configurations that check them on small
instances, and TLAPS proofs. The build sets no `NDEBUG`, so `assert()` is part
of the program: a model stops at a failed assertion and records it (`aborted`).

Check a module with `tlc -config X.cfg M`, a proof with `tlapm M.tla`.

## 1. Inventory

| Component | Source | State | Operations | Correct when |
|---|---|---|---|---|
| EventLoop | `net/EventLoop.*` | `quit_`, `pendingFunctors_` (mutex), `callingPendingFunctors_`, eventfd | `loop`, `quit`, `runInLoop`, `queueInLoop`, `wakeup`, `handleRead`, `doPendingFunctors` | functors run once, in order, on the loop's thread; no lost wakeup; `quit` ends the loop |
| EPoller, Channel | `net/EPoller.*`, `net/Channel.*` | event list, `events_`, `index_`, the kernel's epoll set | `poll`, `updateChannel`, `removeChannel`, `handleEvent`, enable/disable | the epoll set mirrors the channels; no ready channel is starved |
| TimerQueue, Timer, TimerId | `net/TimerQueue.*`, `net/Timer*.h` | `timers_`, `activeTimers_`, `cancelingTimers_`, the timerfd | `addTimer`, `cancel`, `handleRead`, `getExpired`, `reset`, `insert` | the sets describe the same live timers; the timerfd is armed in time; a cancelled timer does not come back |
| TcpConnection | `net/TcpConnection.*` | `state_`, channel, buffers | `send`, `shutdown`, `connectEstablished`, `connectDestroyed`, the four handlers | the stream is in order; SHUT_WR after the data; no use after destruction |
| TcpServer, Acceptor | `net/TcpServer.*`, `net/Acceptor.*` | `connections_`, `nextConnId_` | `newConnection`, `removeConnection`, `removeConnectionInLoop` | a closed connection is erased and destroyed on its own loop |
| EventLoopThread(Pool), Thread, Condition | `net/EventLoopThread*`, `utils/Thread.*`, `utils/Condition.h` | `loop_`, `exiting_`, `next_`, latch | `startLoop`, `threadFunc`, destructor, `getNextLoop` | `startLoop` returns a live loop; the destructor joins |
| Connector, TcpClient | `net/Connector.*`, `net/TcpClient.*` | two `connect_`, `state_`, `channel_`, retry delay and timer, `connection_` | `connect`, `stop`, `disconnect`, `start`, `restart`, `retry`, the handlers, `newConnection`, `removeConnection` | one attempt at a time, no leaked descriptor, reconnection, `stop` is final |
| AsyncLogging | `asynlog/AsyncLogging.*` | two front buffers, the full ones, two spares | `append`, `start`, `stop`, `threadFunc` | lines reach the file once and in order; spare buffers never run out |
| LogFile, AppendFile | `asynlog/LogFile.*`, `asynlog/AppendFile.*` | the open file, `writtenBytes_`, `count_`, the times of roll, flush and day; stdio's buffer | `append`, `rollFile`, `flush` | files roll when full or when the day is over; no line is lost at a roll |
| Logger | `asynlog/Logging.*` | `g_logLevel`, `g_output`, `g_flush`, the thread-local `g_asyncLog` | the `LOG_` macros, `setOutput`, `setFlush`, `setLogLevel` | a line goes to one output; the output that took a FATAL line is flushed before `abort()` |
| LogStream, FixedBuffer | `asynlog/LogStream.*`, `asynLog/FixedBuffer.h` | a buffer of 4000 bytes | every `operator<<` | numbers are written right; an overflow drops whole pieces only |
| Buffer | `net/Buffer.*` | a vector and two indices | `append`, `retrieve*`, `prepend`, `makeSpace`, `readFd`, `shrink` | it is a byte stream; the indices stay in order |
| Codec (chat example) | `example/Chat/code.h` | none | `onMessage`, `send` | messages come out whole, in order, all of them |
| Socket, InetAddress, DateTime | `net/`, `utils/` | none of their own | system calls, conversions | not modelled (wrappers) |

Interactions. Everything of one loop happens on its thread; other threads reach
it only through `queueInLoop` (a mutex and an eventfd) and a few unguarded
flags. A close travels io loop → base loop → io loop, each hop a functor. A
connection lives as long as some `TcpConnectionPtr` is held: by `connections_`,
by a functor, by a running callback, by the user. The Connector resets its
channel through a functor and retries through a timer, so three queues race.
The logger's producers and its writer share buffers under one mutex.

What is hard here: functors and events in orders nobody wrote down, callbacks
that call back into the library (cancel in a timer callback, send in a message
callback), state tested on one thread and used on another (`send`, `shutdown`,
`stop`), destruction while reports are still listed, partial and failed writes,
one-shot timerfds, condition variables without their mutex. `PROJECT.json`
lists these hazards at their lines, each with the properties aimed at it or with the
reason why none covers it.

## 2. Modules

| Module | Models | State and actions against the code |
|---|---|---|
| `FunctorQueue` | what EventLoop promises | a FIFO queue: `Enqueue`, `Start` |
| `EventLoop` | EventLoop, EPoller's poll | `pc` walks through `loop()`; the push and the eventfd write of `queueInLoop`, and the store and the write of `quit`, are separate steps (`wakers` holds the threads in between) |
| `TimerQueue` | TimerQueue, Timer | objects at reusable addresses (`heap`); add and cancel on the loop, in callbacks, and queued by other threads; `handleRead` split at every callback; wall clock and monotonic timerfd |
| `Channel` | Channel, EPoller's updates | operators on a record that holds the channel's members and the kernel's registration |
| `TcpConnection` | TcpConnection and the loops it runs on | `todo[l]` is the rest of the call loop `l` is in; a step `callback` is application code; reference counting as the set `Alive` |
| `TcpServer` | TcpServer, Acceptor, `getNextLoop` | extends TcpConnection with `connections_`, the pool and the close path |
| `EventLoopThreadPool` | the pool, EventLoopThread, Thread::start, Condition | owner and loop threads step by step; `loop_` is null, alive or destroyed |
| `Connector`, `TcpClient` | the same classes | phases of a loop iteration; `todo` as above; retry timers by sequence number; `stop` on another thread in three steps, `disconnect` in two (the store, and what it does under `mutex_`); a new and a lost connection in a step before, under and after that lock (`NewConnection`, `ConnectEstablished`; `HandleClose`, `RemoveConnection`, `ConnectDestroyed`) |
| `LogFile` | LogFile, AppendFile | a file is a record, the member functions are operators on it; sizes are counted in lines; `disk` is the content of all files in the order they were opened, `mem` what stdio still holds |
| `AsyncLogging` | AsyncLogging | extends LogFile with the pool and its two sides; a BufferPtr is a sequence of at most one buffer; `append`'s critical section is one step, the writer's two, because it waits inside; each buffer is appended in a step of its own, of which `fwrite` may fail |
| `LogStream`, `Logger` | the same, FixedBuffer | a stream is the sequence of the pieces it kept and the bytes they use; numbers are really converted; a statement is `Begin`, any `Stream`s, `Finish` and, for FATAL, `FlushAndAbort` |
| `ByteStream` | what an input buffer promises | written, received, taken |
| `Buffer`, `Codec` | Buffer, Codec, `handleRead`'s use of them | the member functions are operators from buffer to buffer; an iteration of `onMessage`'s loop is a step; the message callback is the codec or an application that retrieves what it likes |
| `MC*` | | the values of constants for TLC, and the symmetry of `timer_queue_assert` |
| `…Proofs` | | the theorems about EventLoop, TimerQueue, TcpServer, EventLoopThreadPool, TcpClient, AsyncLogging, Codec and Logger, each with its lemmas |

Abstractions. In TcpConnection message bytes are numbered units, in Codec
they are digits; log lines are numbers (AsyncLogging) or sequences of named
pieces (Logger), a
callback is whatever sequence of library calls it may make. Descriptors of other
channels are only "ready" or not (EventLoop). `epoll_wait` reports any set the
event list has room for, or fails. A `::write` takes what fits, or nothing
(errors are handled like EAGAIN by the code). Undefined behaviour stops the
model (`UseDestroyed`, "destroyed loop") or yields every value (`running_`
before `start()`).
The application's `quit()` in EventLoopThreadPool is one step; the
destructor's, whose race matters, is two.

## 3. Runs

| Run (cfg) | Instance | Shows |
|---|---|---|
| `event_loop` (MCEventLoop) | 2 threads, 1 channel, 2 functors, event list of 1, eventfd limit 2 | `FunctorFifo`, `NoLostWakeup`; `ImplementsFunctorQueue` (refinement); `QueuedFunctorRuns`, `QuitStopsLoop` |
| `timer_queue` (MCTimerQueue) | 2 addresses, 2 timers, 3 instants, minimum delay 1, intervals 0 and 1, 1 functor from afar, the clock set at will | `IInv` (types; `Consistent`, the ownership of Timer objects; what `CancelledStaysCancelled` needs), `ArmedInTime`, `CancelledStaysCancelled`, `TimerRuns` |
| `timer_queue_assert` | the same, 4 instants, minimum delay 2, assertions on | violated: `getExpired`'s assertion |
| `tcp_server_lifecycle` | 1 connection used in callbacks only, base loop with and without an io loop, messages of 2 units through a socket buffer of 3, up to 3 sends, shutdown | `IInv` (`Lawful`, `Orderly` and `Ownership`, see Proofs), `NothingDangles`, `AbortsExplained`, `ClosedIsDestroyed` |
| `tcp_server_threads` | 1 connection on an io loop, 1 user thread, 2 messages of 2 units through a socket buffer of 1, shutdown | `StreamInOrder`, `WritingIffBuffered`, `AbortsExplained`, `ShutdownAfterDrain`, `ShutdownCompletes`, `ClosedIsDestroyed` |
| `tcp_server_test10` | 1 connection, 1 loop, shutdown | violated: `handleClose`'s assertion after `shutdown()` |
| `async_logging` (MCAsyncLogging) | 5 lines, buffers of 2 lines, files of 2, days of 3 seconds of 3, a look at the clock every 2 appends, 1 failing write | `LinesInOrder`, `RecycleHasBuffers`, `IInv` (pool, file, `LinesKept`), `RollsInTime`, `LineReachesDisk`, `StopReturns` |
| `async_logging_fatal` | 3 lines | violated: `StopFlushes` |
| `logger` (MCLogger) | 2 threads, 2 statements of up to 2 pieces, a buffer of 24 bytes, ints of 6 bits | `NumbersRight`, `LineShape`, `FatalFlushed` |
| `thread_pool` (MCEventLoopThreadPool) | 2 threads | `IInv` (types, `LoopsUsable` and its strengthening, `GoneOnlyAtWakeup`), `ExitingAssert`, `WaiterIsNotified`, `HeardQuitJoins` |
| `tcp_client` (MCTcpClient) | 2 descriptors, 3 timer numbers, delays 2, 4, 7, one `connect()` | `IInv` (types, phases, `SocketsOwned`, `OneAttempt`, `NeverStranded` and their strengthening), `AssertionsHold`, `StopIsFinal`, `Reconnected` |
| `codec` (MCCodec) | 2 of 5 messages, bytes 0 and 1, headers of 3 bytes, a buffer of 3, an extrabuf of 3, receiver's limit 2 | `BufferSound`, `FramesInOrder`, `ImplementsByteStream` (refinement), `AllDelivered` |

The type invariants of TimerQueue, TcpServer, AsyncLogging, EventLoopThreadPool and
TcpClient are checked by their runs as a part of `IInv`; those of EventLoop, Codec
and Logger are parts of an `IInv` too, which is proved and, like every inductive
invariant here, can be checked by adding it to the module's cfg.

Why the bounds suffice for what is asked. EventLoop: an event list of 1 with two
channels makes the list overflow and grow; two callers and the loop thread cover
every pair of racing calls; an eventfd limit of 2 is reached, so the failing
`write` happens. TimerQueue: one address freed and reused is enough for a stale
id; deadlines that are past when a timer is added get the minimal delay, and the
three instants tell two future deadlines apart. TcpServer: in
`tcp_server_threads` a message is longer than the socket buffer, so every message
is finished by `handleWrite` and the second is buffered behind it; in
`tcp_server_lifecycle` one message is written at once, so that its write-complete
callback sends again, and the next is written in part. `IInv` was also checked with
two connections (744,134 states) and with a user thread and a socket buffer of 3
(713,454 states). AsyncLogging: 5 lines in buffers of 2
fill `currentBuffer_`, `nextBuffer_` and the buffer that replaces them in one
round, files roll by size within a second (when they may not) and later, and the
day ends in the middle of the run. Codec: a frame of 3 to 6 bytes meets a buffer
of 3 and an extrabuf of 3, so that reads overflow, the vector grows and the
content is moved; 3-bit signed lengths have the negative ones no frame needs.
Logger: each kind of piece, and the newline, is the one that does not fit in
some line; all ints of 6 bits are converted at every fill of the buffer. TcpClient:
one descriptor per connection in use and one for the attempt; with a cap of 7
after 2 and 4 the delay is clipped. `CHECK_DEADLOCK FALSE` stands where the
program may legitimately stop: after a failed assertion, a finished `stop()`, a
destroyed pool. Symmetry is used in `timer_queue_assert` only, a safety run.

History conditions. `stepped` (the wall clock was set), `appQuit` (the
application quit a pool's loop), `farStop` (stop on another thread) and
`disconnected` (whether `disconnect()` shut down a connection that was "open", or
one that was "closing": `handleClose`'s assertion had passed) let one run cover the
plain and the troubled case: the properties that only hold in the plain case say so
in their statement.

### Fairness

* Loop threads are scheduled and callbacks return (weak fairness of the loop's
  steps). A loop blocked in `epoll_wait` is only obliged to move when something
  is ready or a wakeup was written (`Woken`; in EventLoop the guard of `Poll`).
* A thread inside `queueInLoop`, `quit`, `send`, `stop` finishes that call.
* Time passes (`Tick`), timed waits end, retry delays end.
* The TCP peer goes on reading (`PeerReads`): needed for `ShutdownCompletes`.
* For `Reconnected`, connects tried again and again succeed again and again
  (strong fairness): the network's part of the promise.
* No fairness for the application, for signals, for spurious wakeups, for
  `SpuriousWakeup` of the condition variable or for other descriptors.

### Disagreements found

The three violation runs are recorded as findings in `PROJECT.json`:

1. `getExpired` asserts `now < it->first`, but `lower_bound` stops at a timer
   that expires exactly `now` (`TimerQueue.cpp:141`).
2. After `shutdown()` the state is already `kDisconnected`, and the peer's close
   fails `handleClose`'s assertion; `test10.cpp` does exactly this, and expects the
   callback that reports the connection down (`test10.cpp:22`).
3. `stop()`, the logger's flush for FATAL messages, may return before the lines
   are written.

Others are stated by what the passing properties exclude, or showed up while
modelling:

* A `send()` that finds the channel already disabled by `handleClose` enables
  writing again: one of another thread, or one of a write-complete callback, which
  is what `test11.cpp:27` does (`conn->send(message)`). `connectDestroyed` then flips the channel's index to `kNew` and
  `removeChannel`'s assertion fails, or the functor runs for a destroyed
  connection. `AbortsExplained` lists every way in which this may end.
* `startLoop` unlocks before it waits on a condition variable with another
  mutex; a notification that comes in between is lost, and it waits for ever.
  `WaiterIsNotified` is what remains.
* A `quit()` before `loop()` is lost (`HeardQuitJoins`), and quitting a loop of
  an EventLoopThread, as `test6.cpp` does, fails `assert(exiting_)`.
* `callingPendingFunctors_` is never set, so a functor queued by a functor gets
  no wakeup, against the comment at `EventLoop.cpp:110` (check
  `WakeupUnlessInEventCallback` with MCEventLoop). This strands a
  `writeCompleteCallback_` queued by a `send` in a functor, and with it a closed
  connection that nobody else holds: the exemption in `ClosedIsDestroyed`. A loop
  that gets no other event never destroys it.
* `handleWrite` builds the write-complete callback and throws it away
  (`TcpConnection.cpp:145`).
* `addTimer` on another thread reads the sequence of a timer it has handed over;
  the id may be another timer's (`ReadSequence`).
* `stop()` on another thread between `removeConnection`'s test and `restart()`
  is overwritten (`StopInAnyThread` with MCTcpClient).
* `disconnect()` on another thread between `handleClose`'s assertion and
  `removeConnection`'s lock (`TcpClient.cpp:102`) leaves a `kDisconnected`
  connection to `connectDestroyed`, whose assertion fails (`TcpConnection.cpp:111`);
  one before the peer's close fails `handleClose`'s, as in 2. `AssertionsHold` admits
  these two aborts, each after a `disconnect()` of its kind, and no other;
  `Reconnected` exempts the abort of `connectDestroyed`.
* `connect()`, `stop()`, `connect()` fails `startInLoop`'s assertion (MCTcpClient
  with `MaxStarts = 2`); a callback longer than the retry delay fails
  `connecting()`'s (`SlowCallbacks = TRUE`); both as `AssertionsHold`.
* The log writer waits with `mutex_` held, so `append` waits up to
  `flushInterval_` (`AsyncLogging.cpp:71`); `cond_.notify()` of `append` never
  finds anybody waiting.
* `g_asyncLog` is thread-local: once an AsyncLogging is started, a log statement
  of any thread but its constructor's dereferences a null pointer
  (`FatalFlushed` states that only those crash).
* `FatalFlushed` says that the flush of the output that took a FATAL line was called
  before the abort. For stdout the line is out then; for the AsyncLogging it means
  that `stop()` returned, and by 3 the line may still be lost.
* The codec's `send` takes messages its `onMessage` rejects; `FramesInOrder` and
  `AllDelivered` exempt what follows one.
* `Buffer::shrink` moves the content and leaves the indexes; after a partial
  retrieve they name other bytes (`BufferSound`).
* A line too long for its LogStream loses whole pieces, and its newline when
  exactly one byte is left (`LineShape`).

## 4. Proofs

A theorem holds for every value of the constants that meets the ASSUME of its
module, and for any number of threads, loops, connections, timers, lines or
messages; bounds such as `MaxSends` are arbitrary numbers. Where a theorem needs
more it says so in its statement. Each inductive invariant was checked by TLC
before it was proved; its proof has one lemma per action.

**`EventLoopProofs`.** `FunctorFifo` relates the history of pushes to what ran,
the rest of the batch and what is pending; `NoLostWakeup` is not inductive,
because it speaks of the loop when it already blocks. `WakeupPending` is its
strengthening: a functor that needs a wakeup has it in the eventfd, or a thread
is on its way to write it, or the loop is between its poll and its swap.
`BatchEmptyOutsideRun` is needed so that the swap overwrites nothing. The
theorems are `InvariantHolds`, `TypeCorrect`, `FifoHolds`, `NoLostWakeupHolds`
and `Refinement` (the loop implements `FunctorQueue` under the mapping
`queue <- functions \o pendingFunctors_`, `done <- ran`).

**`TcpServerProofs`**, in three levels.

* `Lawful` holds whatever the application's threads do. It says what a connection
  is between two steps (`Sound`: the epoll set agrees with the channel and no
  `epoll_ctl` failed, what was written and what is buffered is what was sent,
  EPOLLOUT is asked for while data is buffered) and why each waiting step,
  functor, half-done `send` and report is legal (`Justified`, `Founded`):
  `handleClose` waits only for a peer that is gone, EPOLLIN was reported for
  something that is still there (which needs `OneRead`: one `handleRead` per
  report). `StreamInOrder` alone is not inductive, since a direct write is in
  order only behind an empty buffer, which `sendInLoop` infers from the channel.
  Theorems: `LawfulAlways`, `MessagesInOrder`, `BufferIsWaitedFor`, and
  `ShutdownLosesNothing`, the action property, from the same invariant.
* `Ownership` holds for `Users = {}`, a server whose connections are used in
  callbacks. A connection that was made is `Kept`, by `connections_` or by the
  `connectDestroyed` on its way to its own loop, or it is `Down`: the channel is
  idle and, if epoll still has it, `removeChannel` is about to run while the
  loop's vector of functors holds the connection. The handlers of `todo` and the
  reports of `active` are those of kept connections because a connection's
  `connectDestroyed` runs in the functor phase of its own loop and they in its
  dispatch phase. With another thread that calls `send` this is false: its functor
  is bound to a raw `this`, as the hazards say and `AbortsExplained` shows.
  Theorems: `OwnershipHolds` (`Lawful`, and `Users = {} => Ownership`) and
  `NothingDanglesInCallbacks`, for any pool of io loops.
* `Orderly` holds again for any threads, and says in which order a connection's life
  goes on. Of its way from `newConnection` to `connectDestroyed` one step waits
  anywhere, on all loops together (`OneLife`); its record agrees with `connections_`
  and with the epoll set (`Coherent`, `Anchored`); every step that waits and every
  report that is not handled comes at its time (`Timely`, `TimelyReport`); and a loop
  is in one phase of one call (`Tidy`). Each part has the same exception, late data:
  what a `send` left in `outputBuffer_` after the channel was disabled, by which the
  channel is enabled again. `handleClose` then may run twice, and a `Stuck`
  connection, whose peer has reset, may even be queued for removal twice.
  `Lawful` is not enough for this, since it does not count: that an assertion of
  `removeConnectionInLoop` holds depends on no second close being under way on
  another loop. The lemmas separate what a step does to the agendas of the loops
  (`Moves`, `OnceStays`, `OnceFresh`) from what it does to one record (`Steady`,
  `StaysLate`), and `OneOrderly`, `SteadyOrderly` and `AsideOrderly` join the two for
  the handlers. `StepExplained` then goes through the assertions: each is met, or the
  connection it is about was shut down before its close, or holds late data, or was
  named by a functor bound to a raw `this`. Theorems: `InvariantHolds` (all of `IInv`) and
  `AbortsAreExplained`.

**`TimerQueueProofs`.** `Consistent` (every Timer object has one owner, the two sets
are about the same timers) needs `AddedOnce`, since the functor that inserts a
timer could otherwise leave a second one behind, and `BatchInHandleRead`. A
cancelled id stays out because of the objects alive only one of the batch can
have it (`SequencesUnique`) and `reset` finds it in `cancelingTimers_`
(`CancelledRemembered`). `ArmedHolds` needs the types only. All hold for any
number of addresses and intervals and with the wall clock set at will, but for
`NotLate` once it was set.

**`EventLoopThreadPoolProofs`**, for any number of threads. `LoopsUsable` needs that
a loop ends only when its `quit_` is set, that only its own destructor sets it
(`QuitByDestructor`, unless the application does), which has set `exiting_`
before (`ExitingInOrder`), and that the loop was published before `startLoop`
returned (`StartedInOrder`, `LoopPointer`). With it `ExitingAssertHolds`, and
`GoneOnlyAtWakeupHolds`: only the destructor's own `wakeup()` may reach a loop
that is gone.

**`TcpClientProofs`**. `SocketsHold` and `SocketsOwnedHolds` are for all constants:
the open descriptors are those of the registered channel, of the connections and
the one `handleWrite` hands over. The attempts (`OneAttempt`, `NeverStranded`,
`AssertionsHold`, `StopIsFinal`, and so `IInv`) are proved for
`MaxStarts <= 1, ~SlowCallbacks`: `connect()` called at most once and no callback that
outlasts a retry delay. Both are needed, since without them TLC finds
`AssertionsHold` violated (see above). That no assertion fails but the two a
`disconnect()` explains rests on `ConnectionStates`: a connection is `kConnecting`
only while `connectEstablished` comes next, and `kDisconnected`, or let go in that
state, only after a `disconnect()`, of the "closing" kind once `handleClose`'s
assertion has passed. Instead of the cardinalities and sums of
`IInv` the proof uses `Tallied`, which counts in sets and in 0 and 1.

**`AsyncLoggingProofs`.** `RecycleSafe`: the writer never takes `back()` of an empty
vector. It rests on `PoolBalance`: `nextBuffer_` is only used up when a full buffer
went to `buffers_`, so a round that gives `newBuffer2` away takes at least two
buffers over. `RollsInTimeHolds` rests on `FileInv`: appends since the end of a
file's day are among the `count_` appends since the last look at the clock.
`LinesKeptHolds`: each line that was appended has one place, in a file, in a buffer
or among those a failed write gave up, and the places are in the order of append.
`LinesInOrderHolds` follows from it: what is stored, followed by the lines of the
waiting buffers (a fold over them), is increasing and has every line but those given
up. How the fold is reasoned about is said under LoggerProofs.

**`CodecProofs`**, for any byte base, header length, message set and buffer sizes. What
each member function of Buffer does to the content; that a header is read back
as the length it was written for; and `Framed`: the bytes taken, readable and in
flight are the frames of what was sent, cut where `CutAt` says. A read leaves these
bytes as they are, so the next header is the next message's, however the stream
was cut into reads. Theorems: `BufferSoundHolds`, `FramesInOrderHolds`, and the
refinement of `ByteStream`, `ImplementsByteStreamHolds`.

**`LoggerProofs`**, for any threads, levels and pieces. `FatalFlushedHolds`: between
`~Logger`'s write of a FATAL line and its `g_flush` other threads run and the main
thread may be in `AsyncLogging::start`; only the main thread finds the AsyncLogging,
`start` and a statement of the main thread exclude each other, and the outputs
are never changed back (`OutputFollows`, `FatalFollows`). These are the
invariant's `ControlInv`; the other half, `LinesInv`, says what every line holds:

* `NumbersRightHolds`: whatever was streamed before, a number streamed next has room
  for all its digits and the null character, and the digits mean it, for any width of
  an int, its least value included. `DigitsInTable` is one turn of `convert`'s loop:
  the table of digits is read within its bounds, the digit is the remainder's, and the
  quotient is nearer to zero. `LoopLength` counts the turns in powers of ten (`tens`),
  `LoopMeans` reads the reversed digits back.
* `LineShapeHolds`: a line leaves a byte of its buffer free, starts with time, thread
  and level, and misses its newline or its line number only for want of room. Every
  piece leaves a byte to spare (`PutKeeps`), the constructor's first three always fit
  (`LineBegins`), and what the destructor adds is gone through piece by piece
  (`LineEnds`).

They hold from assumptions on the constants, each named in its module and evaluated
by TLC: `kMaxNumericSize` has room for the digits of an int, its sign and one more
(`LogStreamAssumption`; the code's `static_assert`s leave ten), a double's `%.12g` is
shorter than `kMaxNumericSize` and the numbers of a line are ints
(`LoggerAssumption`), and time, thread and level leave room in the buffer
(`TextsFit`; the code has 4000 bytes, and its text of the time is at most 63 long).

Folds and recursions in these proofs. The library's induction theorems take an
operator, which no prover here instantiates; but that a set of numbers has a least
element (`NatMin`, from `WFMin` and `NatLessThanWellFounded`) is a statement about
sets, and gives induction for a predicate written as a set (`NatInd`). With it a
solution of a fold's or a recursive function's equations is built up to any length
(`FoldExists`, `LoopExists`), so the function the definition chooses is one
(`LoopIs`, `LinesAre`, `PutAllIs`, `MeaningIs`), and what it computes is proved from
its equations by `NatInd` again. `LoggerProofs` and `AsyncLoggingProofs` each have
these few lemmas, as their components have no module in common.

Only model-checked:

* All liveness: `QueuedFunctorRuns`, `QuitStopsLoop`, `TimerRuns`,
  `ClosedIsDestroyed`, `ShutdownCompletes`, `LineReachesDisk`, `StopReturns`,
  `WaiterIsNotified`, `HeardQuitJoins`, `Reconnected`, `AllDelivered`. Fairness
  and ENABLED are outside the prover's reach.

Every invariant the passing runs check is stated by a theorem, and so are the action
properties and the two refinements.

## 5. Not modelled

* The destructors of TcpServer, TcpClient, Connector, TimerQueue and
  AsyncLogging, and `TcpServer::start` with `Acceptor::listen`. What a destroyed
  object's callbacks do is undefined at once, and says nothing more of the code.
* `accept` that fails (it changes no state, but with no descriptor left the base
  loop spins), a `pthread_create` that fails, Thread's detach.
* Socket, InetAddress, DateTime: wrappers of system calls and text. That
  `localtime`'s result is shared by all logging threads is noted here only; the
  text of the time is abstracted.
* `Buffer::swap`, `LogStream::resetBuffer`, the locked variant of LogFile: nothing
  calls them.
* The chat server and client around the codec; the server's `connections_` is
  used by its io threads without a lock, which is undefined behaviour at its
  first use.

## 6. Plan

Done, in this order: EventLoop with its abstract queue and proofs; TimerQueue;
Channel, TcpConnection, TcpServer; AsyncLogging with proofs;
EventLoopThreadPool; Connector and TcpClient; Buffer and Codec with ByteStream;
LogFile under AsyncLogging; LogStream and Logger; the late read in `addTimer`;
the proofs about the pool, the timers, the buffer and the codec, the client, the
logger, the log file and the server; the lines of the loggers.

Next:
1. Thread's detach and the destructor of TcpServer, if their undefined behaviour can
   be stated as something other than a stop.
