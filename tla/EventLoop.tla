----------------------------- MODULE EventLoop ------------------------------
(***************************************************************************)
(* One EventLoop: the thread that runs EventLoop::loop() and the threads   *)
(* that call queueInLoop(), runInLoop() and quit() on it, with the eventfd *)
(* that wakes the loop and the epoll instance it blocks in.                *)
(*                                                                         *)
(* Everything the loop thread does between two calls of the library is     *)
(* application code (an event callback or a functor).  It is modelled by   *)
(* what it may do to the loop: call its operations, any number of times,   *)
(* and return.  looping_ is TRUE exactly when pc is neither "ready" nor    *)
(* "exited" and has no variable of its own.                                *)
(***************************************************************************)
EXTENDS Naturals, Sequences, FiniteSets, Functions

CONSTANTS
  Callers,        \* the threads other than the loop's own thread
  LoopThread,     \* the thread that constructed the loop and runs loop()
  Channels,       \* the registered channels other than wakeupChannel_
  WakeupChannel,  \* wakeupChannel_
  Functors,       \* functor objects; each is handed to the loop at most once
  EventfdMax,     \* the largest value of the eventfd counter
  InitEventListSize \* EPoller::kInitEventListSize

ASSUME EventLoopAssumption ==
  /\ LoopThread \notin Callers
  /\ WakeupChannel \notin Channels
  /\ EventfdMax \in Nat \ {0}
  /\ InitEventListSize \in Nat \ {0}

VARIABLES
  pc,                       \* where the loop thread is in loop()
  quit_,
  callingPendingFunctors_,
  pendingFunctors_,         \* shared, guarded by mutex_
  functions,                \* what is left of doPendingFunctors's local vector
  wakeupFd_,                \* the eventfd's counter
  ready,                    \* channels whose fd epoll would report now
  eventListSize,            \* events_.size() of the EPoller
  activeChannels_,          \* reported and not yet dispatched
  wakers,                   \* threads about to write the eventfd
  queued,                   \* history: functors pushed, in push order
  ran,                      \* history: queued functors started, in order
  inlined,                  \* history: functors runInLoop called directly
  quiet                     \* history: functors the loop thread pushed while
                            \* it was not in an event callback

loopVars == <<pc, quit_, callingPendingFunctors_>>
queueVars == <<pendingFunctors_, functions, queued, ran, inlined, quiet>>
pollVars == <<ready, eventListSize, activeChannels_>>
wakeVars == <<wakeupFd_, wakers>>
vars == <<loopVars, queueVars, pollVars, wakeVars>>

Threads == Callers \cup {LoopThread}
PcValues == {"ready", "test", "poll", "dispatch", "event", "swap",
             "functors", "functor", "exited"}

\* The points of the loop thread at which application code runs on it.
AppPc == {"ready", "event", "functor"}

TypeOK ==
  /\ pc \in PcValues
  /\ quit_ \in BOOLEAN
  /\ callingPendingFunctors_ \in BOOLEAN
  /\ pendingFunctors_ \in Seq(Functors)
  /\ functions \in Seq(Functors)
  /\ wakeupFd_ \in 0..EventfdMax
  /\ ready \subseteq Channels
  /\ eventListSize \in Nat \ {0}
  /\ activeChannels_ \subseteq Channels \cup {WakeupChannel}
  /\ wakers \subseteq Threads
  /\ queued \in Seq(Functors)
  /\ ran \in Seq(Functors)
  /\ inlined \subseteq Functors
  /\ quiet \subseteq Functors

Init ==
  /\ pc = "ready"
  /\ quit_ = FALSE
  /\ callingPendingFunctors_ = FALSE
  /\ pendingFunctors_ = <<>>
  /\ functions = <<>>
  /\ wakeupFd_ = 0
  /\ ready = {}
  /\ eventListSize = InitEventListSize
  /\ activeChannels_ = {}
  /\ wakers = {}
  /\ queued = <<>>
  /\ ran = <<>>
  /\ inlined = {}
  /\ quiet = {}

-----------------------------------------------------------------------------
(* Operations any thread may call.                                         *)

isInLoopThread(t) == t = LoopThread

\* Thread t is free to call an operation of the loop: it is not in the middle
\* of another one and, if it is the loop thread, application code is running.
MayCall(t) ==
  /\ t \notin wakers
  /\ isInLoopThread(t) => pc \in AppPc

\* A functor object that was not handed to the loop before.
Fresh(f) == f \notin Range(queued) \cup inlined

\* Mutant of QueueInLoop: the wakeup test without isInLoopThread().
QueueInLoopNoCrossWakeup(t, f) ==
  /\ MayCall(t)
  /\ Fresh(f)
  /\ pendingFunctors_' = Append(pendingFunctors_, f)
  /\ queued' = Append(queued, f)
  /\ wakers' = IF callingPendingFunctors_ THEN wakers \cup {t} ELSE wakers
  /\ quiet' = IF isInLoopThread(t) /\ pc # "event" THEN quiet \cup {f} ELSE quiet
  /\ UNCHANGED <<loopVars, functions, ran, inlined, pollVars, wakeupFd_>>

\* Mutant of QueueInLoop: the functor is put in front of the vector.
QueueInLoopAtFront(t, f) ==
  /\ MayCall(t)
  /\ Fresh(f)
  /\ pendingFunctors_' = <<f>> \o pendingFunctors_
  /\ queued' = Append(queued, f)
  /\ wakers' = IF ~isInLoopThread(t) \/ callingPendingFunctors_
               THEN wakers \cup {t} ELSE wakers
  /\ quiet' = IF isInLoopThread(t) /\ pc # "event" THEN quiet \cup {f} ELSE quiet
  /\ UNCHANGED <<loopVars, functions, ran, inlined, pollVars, wakeupFd_>>

\* queueInLoop: the push under mutex_ is one step; the wakeup() that follows
\* the unlock is a later step of the same thread (Wakeup).
QueueInLoop(t, f) ==
  /\ MayCall(t)
  /\ Fresh(f)
  /\ pendingFunctors_' = Append(pendingFunctors_, f)
  /\ queued' = Append(queued, f)
  /\ wakers' = IF ~isInLoopThread(t) \/ callingPendingFunctors_
               THEN wakers \cup {t} ELSE wakers
  /\ quiet' = IF isInLoopThread(t) /\ pc # "event" THEN quiet \cup {f} ELSE quiet
  /\ UNCHANGED <<loopVars, functions, ran, inlined, pollVars, wakeupFd_>>

\* runInLoop: called directly on the loop thread, queued from any other.
RunInLoop(t, f) ==
  IF isInLoopThread(t)
  THEN /\ MayCall(t)
       /\ Fresh(f)
       /\ inlined' = inlined \cup {f}
       /\ UNCHANGED <<loopVars, pendingFunctors_, functions, queued, ran,
                      quiet, pollVars, wakeVars>>
  ELSE QueueInLoop(t, f)

\* Mutant of Quit: no wakeup() when another thread quits the loop.
QuitNoWakeup(t) ==
  /\ MayCall(t)
  /\ quit_' = TRUE
  /\ UNCHANGED <<pc, callingPendingFunctors_, queueVars, pollVars, wakeVars>>

\* quit: the store to quit_ is one step, the wakeup() a later one.
Quit(t) ==
  /\ MayCall(t)
  /\ quit_' = TRUE
  /\ wakers' = IF isInLoopThread(t) THEN wakers ELSE wakers \cup {t}
  /\ UNCHANGED <<pc, callingPendingFunctors_, queueVars, pollVars, wakeupFd_>>

\* wakeup: add one to the eventfd.  At its maximum the non-blocking write
\* fails with EAGAIN, the error is logged and the counter stays where it is.
Wakeup(t) ==
  /\ t \in wakers
  /\ wakers' = wakers \ {t}
  /\ wakeupFd_' = IF wakeupFd_ < EventfdMax THEN wakeupFd_ + 1 ELSE wakeupFd_
  /\ UNCHANGED <<loopVars, queueVars, pollVars>>

-----------------------------------------------------------------------------
(* The loop thread.                                                        *)

\* The loop thread is at pc = l, outside wakeup().
At(l) == pc = l /\ LoopThread \notin wakers

\* loop() up to the first test of its condition.
EnterLoop ==
  /\ At("ready")
  /\ pc' = "test"
  /\ quit_' = FALSE
  /\ UNCHANGED <<callingPendingFunctors_, queueVars, pollVars, wakeVars>>

\* while (!quit_)
TestQuit ==
  /\ At("test")
  /\ pc' = IF quit_ THEN "exited" ELSE "poll"
  /\ UNCHANGED <<quit_, callingPendingFunctors_, queueVars, pollVars, wakeVars>>

\* The channels whose file descriptor is ready, wakeupChannel_ included.
Readable == ready \cup (IF wakeupFd_ > 0 THEN {WakeupChannel} ELSE {})

\* epoll_wait without a timeout returns when something is ready, with as many
\* channels as events_ has room for; a full events_ is doubled afterwards.
Poll ==
  /\ At("poll")
  /\ \E S \in SUBSET Readable \ {{}} :
       /\ \/ S = Readable /\ Cardinality(S) <= eventListSize
          \/ Cardinality(S) = eventListSize
       /\ activeChannels_' = S
       /\ eventListSize' = IF Cardinality(S) = eventListSize
                           THEN 2 * eventListSize ELSE eventListSize
  /\ pc' = "dispatch"
  /\ UNCHANGED <<quit_, callingPendingFunctors_, queueVars, ready, wakeVars>>

\* epoll_wait fails (EINTR): logged, no active channel, the loop goes on.
PollFails ==
  /\ At("poll")
  /\ activeChannels_' = {}
  /\ pc' = "dispatch"
  /\ UNCHANGED <<quit_, callingPendingFunctors_, queueVars, ready,
                 eventListSize, wakeVars>>

\* handleEvent of wakeupChannel_: handleRead reads the counter and zeroes it.
HandleRead ==
  /\ At("dispatch")
  /\ WakeupChannel \in activeChannels_
  /\ activeChannels_' = activeChannels_ \ {WakeupChannel}
  /\ wakeupFd_' = 0
  /\ UNCHANGED <<loopVars, queueVars, ready, eventListSize, wakers>>

\* handleEvent of another channel enters its callback, which may leave the
\* descriptor ready (epoll is level-triggered: it is then reported again).
HandleEvent(c) ==
  /\ At("dispatch")
  /\ c \in activeChannels_
  /\ activeChannels_' = activeChannels_ \ {c}
  /\ ready' \in {ready, ready \ {c}}
  /\ pc' = "event"
  /\ UNCHANGED <<quit_, callingPendingFunctors_, queueVars, eventListSize, wakeVars>>

EventReturns ==
  /\ At("event")
  /\ pc' = "dispatch"
  /\ UNCHANGED <<quit_, callingPendingFunctors_, queueVars, pollVars, wakeVars>>

DispatchDone ==
  /\ At("dispatch")
  /\ activeChannels_ = {}
  /\ pc' = "swap"
  /\ UNCHANGED <<quit_, callingPendingFunctors_, queueVars, pollVars, wakeVars>>

\* Mutant of SwapPending: the shared vector is copied, not swapped.
SwapPendingCopies ==
  /\ At("swap")
  /\ functions' = pendingFunctors_
  /\ pc' = "functors"
  /\ UNCHANGED <<quit_, callingPendingFunctors_, pendingFunctors_, queued, ran,
                 inlined, quiet, pollVars, wakeVars>>

\* doPendingFunctors: functions.swap(pendingFunctors_) under mutex_.  The code
\* does not set callingPendingFunctors_ here, or anywhere else.
SwapPending ==
  /\ At("swap")
  /\ functions' = pendingFunctors_
  /\ pendingFunctors_' = <<>>
  /\ pc' = "functors"
  /\ UNCHANGED <<quit_, callingPendingFunctors_, queued, ran, inlined, quiet,
                 pollVars, wakeVars>>

\* functions[i]() is entered.
RunFunctor ==
  /\ At("functors")
  /\ functions # <<>>
  /\ functions' = Tail(functions)
  /\ ran' = Append(ran, Head(functions))
  /\ pc' = "functor"
  /\ UNCHANGED <<quit_, callingPendingFunctors_, pendingFunctors_, queued,
                 inlined, quiet, pollVars, wakeVars>>

FunctorReturns ==
  /\ At("functor")
  /\ pc' = "functors"
  /\ UNCHANGED <<quit_, callingPendingFunctors_, queueVars, pollVars, wakeVars>>

\* The end of doPendingFunctors, back to the loop's condition.
FunctorsDone ==
  /\ At("functors")
  /\ functions = <<>>
  /\ callingPendingFunctors_' = FALSE
  /\ pc' = "test"
  /\ UNCHANGED <<quit_, queueVars, pollVars, wakeVars>>

\* The kernel finds a registered descriptor ready.
BecomesReady(c) ==
  /\ ready' = ready \cup {c}
  /\ UNCHANGED <<loopVars, queueVars, eventListSize, activeChannels_, wakeVars>>

-----------------------------------------------------------------------------

LoopStep ==
  \/ EnterLoop \/ TestQuit \/ Poll \/ HandleRead
  \/ \E c \in Channels : HandleEvent(c)
  \/ EventReturns \/ DispatchDone \/ SwapPending \/ RunFunctor
  \/ FunctorReturns \/ FunctorsDone

Call(t) ==
  \/ \E f \in Functors : QueueInLoop(t, f) \/ RunInLoop(t, f)
  \/ Quit(t)

Next ==
  \/ LoopStep
  \/ PollFails
  \/ \E t \in Threads : Call(t) \/ Wakeup(t)
  \/ \E c \in Channels : BecomesReady(c)

Spec == Init /\ [][Next]_vars

\* The loop thread is scheduled and its callbacks return; a thread that has
\* entered queueInLoop or quit is scheduled until it leaves.  Nobody has to
\* call anything, no descriptor has to become ready and no signal arrives.
Fairness ==
  /\ WF_vars(LoopStep)
  /\ \A t \in Threads : WF_vars(Wakeup(t))

FairSpec == Spec /\ Fairness

-----------------------------------------------------------------------------
(* Properties.                                                             *)

\* Functors queued by queueInLoop run in the order of their push_back under
\* mutex_, each exactly once, across the swap of doPendingFunctors: what was
\* pushed is what ran, then what is left of the batch, then what is pending.
FunctorFifo == queued = ran \o functions \o pendingFunctors_

\* The wakeup protocol of queueInLoop and handleRead: when the loop thread is
\* blocked in epoll_wait with nothing in the eventfd and no thread on its way
\* to wakeup(), no functor pushed by another thread, and none pushed in an
\* event callback, is waiting in pendingFunctors_.
NoLostWakeup ==
  (pc = "poll" /\ wakeupFd_ = 0 /\ wakers = {})
    => Range(pendingFunctors_) \subseteq quiet

\* A functor that reached pendingFunctors_ from another thread or from an
\* event callback is eventually run by doPendingFunctors, unless loop() ends.
QueuedFunctorRuns ==
  \A f \in Functors :
    (f \in Range(queued) /\ f \notin quiet) ~> (f \in Range(ran) \/ pc = "exited")

\* quit(), from any thread, once loop() was entered, makes loop() return.
QuitStopsLoop == (quit_ /\ pc # "ready") ~> (pc = "exited")

\* The comment of queueInLoop, "only while this thread executes an event
\* callback is no wakeup needed", for functors pushed by functors (ran # <<>>
\* sets aside what was pushed before loop()): whenever the loop blocks with a
\* functor pending, a wakeup is in the eventfd or on its way.
WakeupUnlessInEventCallback ==
  (pc = "poll" /\ ran # <<>> /\ pendingFunctors_ # <<>>)
    => (wakeupFd_ > 0 \/ wakers # {})

\* The inductive form of NoLostWakeup: a functor that needs a wakeup (one not
\* in quiet) has it in the eventfd or on its way, or the loop thread is
\* already between epoll_wait and the swap that will take the functor.
WakeupPending ==
  Range(pendingFunctors_) \subseteq quiet
  \/ pc \in {"dispatch", "event", "swap"}
  \/ wakeupFd_ > 0
  \/ wakers # {}

\* doPendingFunctors's vector is empty outside doPendingFunctors's loop.
BatchEmptyOutsideRun == pc \notin {"functors", "functor"} => functions = <<>>

\* The inductive invariant of the proofs.
IInv == TypeOK /\ BatchEmptyOutsideRun /\ FunctorFifo /\ WakeupPending

\* EventLoop implements the abstract queue: a batch already swapped out and
\* the functors still pending are one FIFO queue.
FQ == INSTANCE FunctorQueue WITH queue <- functions \o pendingFunctors_,
                                 done <- ran

\* Every step of the loop and its callers is a step of FunctorQueue (or none).
ImplementsFunctorQueue == FQ!Spec
=============================================================================
