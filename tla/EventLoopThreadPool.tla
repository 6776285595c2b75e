------------------------ MODULE EventLoopThreadPool -------------------------
(***************************************************************************)
(* An EventLoopThreadPool and its EventLoopThreads: the base loop's thread *)
(* (the owner) starts the threads one after the other with startLoop(),    *)
(* each of which constructs an EventLoop on its stack and runs it, uses    *)
(* the loops, and destroys the threads one after the other, quitting each  *)
(* loop and joining its thread.  Thread::start and Condition are part of   *)
(* it.  With one thread this is an EventLoopThread by itself.  The owner   *)
(* is in application code at opc = "owns".                                 *)
(***************************************************************************)
EXTENDS Naturals

CONSTANT numThreads_   \* the size of the pool

ASSUME PoolAssumption == numThreads_ \in Nat \ {0}

VARIABLES
  opc,         \* the owner's thread
  cur,         \* the EventLoopThread it is starting or destroying
  tpc,         \* the loops' threads
  mutex_,      \* who holds the mutex_ of each EventLoopThread
  loop_,       \* its EventLoop*: "NULL", or to an "alive" or "destroyed" loop
  exiting_,
  quit_,       \* the quit_ of each loop
  wakeupFd_,   \* the eventfd of each loop is readable
  heard,       \* history: the destructor's quit() came after loop() was entered
  appQuit,     \* history: the application itself called quit() on a loop
  aborted      \* "none", a failed assertion or the use of a destroyed loop

threadVars == <<tpc, mutex_, loop_, exiting_, quit_, wakeupFd_, heard, appQuit>>
vars == <<opc, cur, threadVars, aborted>>

Pool == 1..numThreads_

TypeOK ==
  /\ opc \in {"new", "latch", "lock", "test", "unlocked", "waiting", "owns",
              "exiting", "quit", "wakeup", "join", "gone"}
  /\ cur \in Pool
  /\ tpc \in [Pool -> {"none", "created", "construct", "locked", "enter", "test",
                       "poll", "left", "ended"}]
  /\ mutex_ \in [Pool -> {"none", "owner", "thread"}]
  /\ loop_ \in [Pool -> {"NULL", "alive", "destroyed"}]
  /\ exiting_ \in [Pool -> BOOLEAN]
  /\ quit_ \in [Pool -> BOOLEAN]
  /\ wakeupFd_ \in [Pool -> BOOLEAN]
  /\ heard \in [Pool -> BOOLEAN]
  /\ appQuit \in BOOLEAN
  /\ aborted \in {"none", "assert(exiting_)", "destroyed loop"}

Init ==
  /\ opc = "new"
  /\ cur = 1
  /\ tpc = [i \in Pool |-> "none"]
  /\ mutex_ = [i \in Pool |-> "none"]
  /\ loop_ = [i \in Pool |-> "NULL"]
  /\ exiting_ = [i \in Pool |-> FALSE]
  /\ quit_ = [i \in Pool |-> FALSE]
  /\ wakeupFd_ = [i \in Pool |-> FALSE]
  /\ heard = [i \in Pool |-> FALSE]
  /\ appQuit = FALSE
  /\ aborted = "none"

Owner(from, to) == aborted = "none" /\ opc = from /\ opc' = to

Thread(i, from, to) ==
  aborted = "none" /\ tpc[i] = from /\ tpc' = [tpc EXCEPT ![i] = to]

-----------------------------------------------------------------------------
(* EventLoopThreadPool::start and EventLoopThread::startLoop.              *)

\* Thread::start creates the thread ...
ThreadStart ==
  /\ Owner("new", "latch")
  /\ tpc' = [tpc EXCEPT ![cur] = "created"]
  /\ UNCHANGED <<cur, mutex_, loop_, exiting_, quit_, wakeupFd_, heard, appQuit, aborted>>

\* ... and waits until it has set latch_.
ThreadStarted ==
  /\ Owner("latch", "lock")
  /\ tpc[cur] # "created"
  /\ UNCHANGED <<cur, threadVars, aborted>>

StartLoopLock ==
  /\ Owner("lock", "test")
  /\ mutex_[cur] = "none"
  /\ mutex_' = [mutex_ EXCEPT ![cur] = "owner"]
  /\ UNCHANGED <<cur, tpc, loop_, exiting_, quit_, wakeupFd_, heard, appQuit, aborted>>

\* while (loop_ == NULL): unlock, then wait; else startLoop returns the loop
\* and the pool starts the next thread.
StartLoopTest ==
  /\ IF loop_[cur] = "NULL"
     THEN Owner("test", "unlocked") /\ UNCHANGED cur
     ELSE IF cur < numThreads_
     THEN Owner("test", "new") /\ cur' = cur + 1
     ELSE Owner("test", "owns") /\ cur' = 1
  /\ mutex_' = [mutex_ EXCEPT ![cur] = "none"]
  /\ UNCHANGED <<tpc, loop_, exiting_, quit_, wakeupFd_, heard, appQuit, aborted>>

\* Condition::wait locks a mutex of its own, not mutex_, and blocks.
CondWait ==
  /\ Owner("unlocked", "waiting")
  /\ UNCHANGED <<cur, threadVars, aborted>>

\* Mutant of SpuriousWakeup: loop_ is not tested again after the wait.
SpuriousWakeupReturns ==
  /\ IF cur < numThreads_
     THEN Owner("waiting", "new") /\ cur' = cur + 1
     ELSE Owner("waiting", "owns") /\ cur' = 1
  /\ UNCHANGED <<threadVars, aborted>>

\* std::condition_variable may wake without a notification.
SpuriousWakeup ==
  /\ Owner("waiting", "lock")
  /\ UNCHANGED <<cur, threadVars, aborted>>

-----------------------------------------------------------------------------
(* The application, and the destructor of each EventLoopThread in turn.    *)

\* The application quits a loop.
AppQuit(i) ==
  /\ Owner("owns", "owns")
  /\ appQuit' = TRUE
  /\ IF loop_[i] = "alive"
     THEN /\ quit_' = [quit_ EXCEPT ![i] = TRUE]
          /\ wakeupFd_' = [wakeupFd_ EXCEPT ![i] = TRUE]
          /\ UNCHANGED aborted
     ELSE aborted' = "destroyed loop" /\ UNCHANGED <<quit_, wakeupFd_>>
  /\ UNCHANGED <<cur, tpc, mutex_, loop_, exiting_, heard>>

BeginDestroy ==
  /\ Owner("owns", "exiting")
  /\ UNCHANGED <<cur, threadVars, aborted>>

\* Mutant of SetExiting: the flag is not set.
SetExitingForgotten ==
  /\ Owner("exiting", "quit")
  /\ UNCHANGED <<cur, threadVars, aborted>>

\* exiting_ = true, ...
SetExiting ==
  /\ Owner("exiting", "quit")
  /\ exiting_' = [exiting_ EXCEPT ![cur] = TRUE]
  /\ UNCHANGED <<cur, tpc, mutex_, loop_, quit_, wakeupFd_, heard, appQuit, aborted>>

\* ... loop_->quit(): the store to quit_ ...
QuitStore ==
  /\ Owner("quit", "wakeup")
  /\ IF loop_[cur] = "alive"
     THEN quit_' = [quit_ EXCEPT ![cur] = TRUE] /\ UNCHANGED aborted
     ELSE aborted' = "destroyed loop" /\ UNCHANGED quit_
  /\ heard' = [heard EXCEPT ![cur] = tpc[cur] \in {"test", "poll"}]
  /\ UNCHANGED <<cur, tpc, mutex_, loop_, exiting_, wakeupFd_, appQuit>>

\* Mutant of QuitWakeup: the eventfd is not written.
QuitWakeupForgotten ==
  /\ Owner("wakeup", "join")
  /\ UNCHANGED <<cur, threadVars, aborted>>

\* ... and the wakeup, by when the loop may be gone ...
QuitWakeup ==
  /\ Owner("wakeup", "join")
  /\ IF loop_[cur] = "alive"
     THEN wakeupFd_' = [wakeupFd_ EXCEPT ![cur] = TRUE] /\ UNCHANGED aborted
     ELSE aborted' = "destroyed loop" /\ UNCHANGED wakeupFd_
  /\ UNCHANGED <<cur, tpc, mutex_, loop_, exiting_, quit_, heard, appQuit>>

\* ... thread_.join(), and the next element of threads_.
Join ==
  /\ tpc[cur] = "ended"
  /\ IF cur < numThreads_
     THEN Owner("join", "exiting") /\ cur' = cur + 1
     ELSE Owner("join", "gone") /\ UNCHANGED cur
  /\ UNCHANGED <<threadVars, aborted>>

-----------------------------------------------------------------------------
(* The threads.                                                            *)

\* startThread sets the latch.
SetLatch(i) ==
  /\ Thread(i, "created", "construct")
  /\ UNCHANGED <<opc, cur, mutex_, loop_, exiting_, quit_, wakeupFd_, heard, appQuit, aborted>>

\* threadFunc constructs the loop and takes mutex_ ...
ThreadLock(i) ==
  /\ Thread(i, "construct", "locked")
  /\ mutex_[i] = "none"
  /\ mutex_' = [mutex_ EXCEPT ![i] = "thread"]
  /\ UNCHANGED <<opc, cur, loop_, exiting_, quit_, wakeupFd_, heard, appQuit, aborted>>

\* Mutant of Publish: no notify.
PublishSilently(i) ==
  /\ Thread(i, "locked", "enter")
  /\ loop_' = [loop_ EXCEPT ![i] = "alive"]
  /\ mutex_' = [mutex_ EXCEPT ![i] = "none"]
  /\ UNCHANGED <<opc, cur, exiting_, quit_, wakeupFd_, heard, appQuit, aborted>>

\* ... publishes the loop, notifies and leaves the critical section.
Publish(i) ==
  /\ Thread(i, "locked", "enter")
  /\ loop_' = [loop_ EXCEPT ![i] = "alive"]
  /\ opc' = IF opc = "waiting" /\ cur = i THEN "lock" ELSE opc
  /\ mutex_' = [mutex_ EXCEPT ![i] = "none"]
  /\ UNCHANGED <<cur, exiting_, quit_, wakeupFd_, heard, appQuit, aborted>>

\* EventLoop::loop sets quit_ to false.
EnterLoop(i) ==
  /\ Thread(i, "enter", "test")
  /\ quit_' = [quit_ EXCEPT ![i] = FALSE]
  /\ UNCHANGED <<opc, cur, mutex_, loop_, exiting_, wakeupFd_, heard, appQuit, aborted>>

LoopTest(i) ==
  /\ Thread(i, "test", IF quit_[i] THEN "left" ELSE "poll")
  /\ UNCHANGED <<opc, cur, mutex_, loop_, exiting_, quit_, wakeupFd_, heard, appQuit, aborted>>

\* epoll_wait returns for the eventfd, which is read, ...
LoopPoll(i) ==
  /\ Thread(i, "poll", "test")
  /\ wakeupFd_[i]
  /\ wakeupFd_' = [wakeupFd_ EXCEPT ![i] = FALSE]
  /\ UNCHANGED <<opc, cur, mutex_, loop_, exiting_, quit_, heard, appQuit, aborted>>

\* ... or for any other descriptor.
LoopEvent(i) ==
  /\ Thread(i, "poll", "test")
  /\ UNCHANGED <<opc, cur, mutex_, loop_, exiting_, quit_, wakeupFd_, heard, appQuit, aborted>>

\* threadFunc's assert(exiting_), then the loop on its stack is destroyed.
ThreadEnds(i) ==
  /\ Thread(i, "left", "ended")
  /\ IF exiting_[i]
     THEN loop_' = [loop_ EXCEPT ![i] = "destroyed"] /\ UNCHANGED aborted
     ELSE aborted' = "assert(exiting_)" /\ UNCHANGED loop_
  /\ UNCHANGED <<opc, cur, mutex_, exiting_, quit_, wakeupFd_, heard, appQuit>>

-----------------------------------------------------------------------------

OwnerStep ==
  \/ ThreadStart \/ ThreadStarted \/ StartLoopLock \/ StartLoopTest \/ CondWait
  \/ SetExiting \/ QuitStore \/ QuitWakeup \/ Join

ThreadStep(i) ==
  \/ SetLatch(i) \/ ThreadLock(i) \/ Publish(i) \/ EnterLoop(i) \/ LoopTest(i)
  \/ LoopPoll(i) \/ ThreadEnds(i)

Next ==
  \/ OwnerStep \/ SpuriousWakeup \/ BeginDestroy
  \/ \E i \in Pool : ThreadStep(i) \/ LoopEvent(i) \/ AppQuit(i)

Spec == Init /\ [][Next]_vars

\* All threads are scheduled.  Nothing makes the application destroy the pool,
\* the condition variable wake spuriously or a descriptor become ready.
FairSpec ==
  Spec /\ WF_vars(OwnerStep) /\ \A i \in Pool : WF_vars(ThreadStep(i))

-----------------------------------------------------------------------------
(* Properties.                                                             *)

\* The loops the pool was given by startLoop and has not begun to destroy.
Owned ==
  CASE opc \in {"new", "latch", "lock", "test", "unlocked", "waiting"} -> 1 .. cur - 1
    [] opc = "owns" -> Pool
    [] opc \in {"exiting", "quit"} -> cur .. numThreads_
    [] opc \in {"wakeup", "join"} -> cur + 1 .. numThreads_
    [] opc = "gone" -> {}

\* Unless the application quits them, the loops startLoop returned exist until
\* their own EventLoopThread is destroyed, also while the others start or end:
\* getNextLoop never returns a loop that is not there.
LoopsUsable == ~appQuit => \A i \in Owned : loop_[i] = "alive"

Starting == {"new", "latch", "lock", "test", "unlocked", "waiting"}

\* A loop's pointer follows its thread: published after the construction,
\* dangling when the thread has ended.
LoopPointer ==
  aborted = "none" =>
    \A i \in Pool :
      loop_[i] = IF tpc[i] \in {"none", "created", "construct", "locked"} THEN "NULL"
                 ELSE IF tpc[i] = "ended" THEN "destroyed" ELSE "alive"

\* startLoop returns in the order of the pool, and never with a null pointer;
\* the destruction will begin with the first thread.
StartedInOrder ==
  /\ opc \in Starting =>
       \A i \in Pool : /\ i < cur => loop_[i] # "NULL"
                       /\ i > cur \/ (i = cur /\ opc = "new") => tpc[i] = "none"
  /\ opc \notin Starting => \A i \in Pool : loop_[i] # "NULL"
  /\ opc = "owns" => cur = 1

\* exiting_ is set for the threads whose destruction began, and no other.
ExitingInOrder ==
  \A i \in Pool :
    exiting_[i] <=> \/ opc \in {"quit", "wakeup", "join"} /\ i <= cur
                    \/ opc = "exiting" /\ i < cur
                    \/ opc = "gone"

\* Unless the application quits a loop, only the destructor does, after it has
\* set exiting_.
QuitByDestructor ==
  ~appQuit =>
    \A i \in Pool :
      quit_[i] \/ tpc[i] \in {"left", "ended"}
        => exiting_[i] /\ ~(opc = "quit" /\ i = cur)

\* The owner holds mutex_ while startLoop tests loop_, a thread while it
\* publishes its loop, and nobody else ever does.
MutexHeld ==
  \A i \in Pool : /\ mutex_[i] = "owner" <=> (opc = "test" /\ cur = i)
                  /\ mutex_[i] = "thread" <=> tpc[i] = "locked"

\* Unless the application quits a loop, the one step that may touch a loop
\* that is gone is the wakeup of the destructor's quit.
GoneOnlyAtWakeup == aborted = "destroyed loop" => appQuit \/ opc = "join"

\* threadFunc's assertion: unless the application quits a loop, as test6.cpp
\* does, a loop is only left while its EventLoopThread is being destroyed.
ExitingAssert == aborted = "assert(exiting_)" => appQuit

\* The inductive invariant.
IInv ==
  /\ TypeOK
  /\ LoopsUsable
  /\ LoopPointer
  /\ StartedInOrder
  /\ ExitingInOrder
  /\ QuitByDestructor
  /\ MutexHeld
  /\ GoneOnlyAtWakeup
  /\ ExitingAssert

\* If the owner is already in the condition variable when the thread publishes
\* its loop, the notification reaches it and startLoop goes on.
WaiterIsNotified ==
  \A i \in Pool :
    (opc = "waiting" /\ cur = i /\ loop_[i] = "NULL") ~> (opc # "waiting")

\* If the destructor's quit() finds the thread inside loop(), the join returns
\* (or the wakeup has touched a loop that was already gone), unless the
\* application quits loops itself and another thread's assertion fails.
HeardQuitJoins ==
  \A i \in Pool : (heard[i] /\ aborted = "none") ~> (tpc[i] = "ended" \/ appQuit)
=============================================================================
