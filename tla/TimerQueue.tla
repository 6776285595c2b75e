----------------------------- MODULE TimerQueue -----------------------------
(***************************************************************************)
(* TimerQueue: the timers of one event loop, driven by one timerfd.        *)
(*                                                                         *)
(* Timer objects live at addresses that delete gives back to the           *)
(* allocator, so a TimerId is an address and a sequence number.  Deadlines *)
(* are wall-clock times (DateTime, gettimeofday); the timerfd counts down  *)
(* monotonic time from the delay it was set to.  One tick is the unit of   *)
(* both.  A failed assert() stops the program: aborted.                    *)
(***************************************************************************)
EXTENDS Integers, Sequences, FiniteSets, FiniteSetsExt, SequencesExt

CONSTANTS
  Addrs,       \* the addresses the allocator hands out for Timer objects
  MaxTimers,   \* bound: Timer objects constructed
  MaxTime,     \* bound: the last instant of the wall clock
  MinDelay,    \* the shortest delay resetTimerfd arms (100 us in the code)
  Intervals,   \* repeat intervals; 0 is a one-shot timer
  MaxPending,  \* bound: functors queued to the loop by other threads
  Asserts      \* whether assert() is compiled in (the build does not set NDEBUG)

ASSUME TimerQueueAssumption ==
  /\ MaxTimers \in Nat
  /\ MaxTime \in Nat \ {0}
  /\ MinDelay \in Nat \ {0}
  /\ Intervals \subseteq Nat
  /\ MaxPending \in Nat
  /\ Asserts \in BOOLEAN

VARIABLES
  clock,                 \* the wall clock
  stepped,               \* history: the wall clock was set by hand
  timerfd_,              \* ticks until timerfd_ is readable; Disarmed if not set
  active,                \* timerfdChannel_ was reported and is not yet handled
  heap,                  \* the Timer objects, Free where there is none
  s_numCreated_,
  timers_,               \* the set of Entry <<expiration, address>>
  activeTimers_,         \* the set of ActiveTimer <<address, sequence>>
  cancelingTimers_,
  callingExpiredTimers_,
  now,                   \* handleRead's local
  expired,               \* handleRead's local: addresses taken by getExpired
  toRun,                 \* the part of expired whose run() is still to come
  pc,                    \* the loop thread: "app", "calling", "callback"
  pending,               \* addTimerInLoop and cancelInLoop functors, in order
  unread,                \* timers another thread added and has yet to read
  issued,                \* history: the TimerIds handed out
  cancelled,             \* history: sequences cancelled after their insertion
  finished,              \* history: sequences of the timers that ran
  aborted

clockVars == <<clock, stepped, timerfd_, active>>
objectVars == <<heap, s_numCreated_, issued, unread>>
setVars == <<timers_, activeTimers_, cancelingTimers_>>
readVars == <<callingExpiredTimers_, now, expired, toRun, pc>>
vars == <<clockVars, objectVars, setVars, readVars, pending, cancelled,
          finished, aborted>>

Time == 1..MaxTime
Disarmed == -1
Seqs == 0 .. MaxTimers - 1
TimerObject == [expiration : Nat, interval : Intervals, sequence : Seqs]
Free == [sequence |-> -1]
TimerIds == Addrs \X Seqs
Functor == [op : {"add"}, timer : Addrs] \cup [op : {"cancel"}, id : TimerIds]

TypeOK ==
  /\ clock \in Time
  /\ stepped \in BOOLEAN
  /\ timerfd_ \in Nat \cup {Disarmed}
  /\ active \in BOOLEAN
  /\ heap \in [Addrs -> TimerObject \cup {Free}]
  /\ s_numCreated_ \in 0..MaxTimers
  /\ timers_ \subseteq Nat \X Addrs
  /\ activeTimers_ \subseteq TimerIds
  /\ cancelingTimers_ \subseteq TimerIds
  /\ callingExpiredTimers_ \in BOOLEAN
  /\ now \in Time
  /\ expired \subseteq Addrs
  /\ toRun \subseteq expired
  /\ pc \in {"app", "calling", "callback"}
  /\ pending \in Seq(Functor)
  /\ issued \subseteq TimerIds
  /\ unread \subseteq Addrs
  /\ cancelled \subseteq Seqs
  /\ finished \subseteq Seqs
  /\ aborted \in BOOLEAN

Init ==
  /\ clock = 1
  /\ stepped = FALSE
  /\ timerfd_ = Disarmed
  /\ active = FALSE
  /\ heap = [a \in Addrs |-> Free]
  /\ s_numCreated_ = 0
  /\ timers_ = {}
  /\ activeTimers_ = {}
  /\ cancelingTimers_ = {}
  /\ callingExpiredTimers_ = FALSE
  /\ now = 1
  /\ expired = {}
  /\ toRun = {}
  /\ pc = "app"
  /\ pending = <<>>
  /\ issued = {}
  /\ unread = {}
  /\ cancelled = {}
  /\ finished = {}
  /\ aborted = FALSE

-----------------------------------------------------------------------------
(* The containers.                                                         *)

IdOf(a) == <<a, heap[a].sequence>>
EntryOf(a) == <<heap[a].expiration, a>>

\* The expiration of timers_.begin(); the set is ordered by it.
Earliest(entries) == Min({e[1] : e \in entries})

\* resetTimerfd: the delay howMuchTimeFromNow computes.
Delay(when) == Max({when - clock, MinDelay})

\* Mutant of EarliestChanged: only the first timer sets timerfd_.
EarliestChangedIfFirst(when) == timers_ = {}

\* insert: whether the new timer becomes the earliest one.
EarliestChanged(when) == timers_ = {} \/ when < Earliest(timers_)

\* addTimerInLoop for the Timer object o at address a: insert it in both sets
\* and set timerfd_ if it is now the earliest.
addTimerInLoop(a, o) ==
  /\ timers_' = timers_ \cup {<<o.expiration, a>>}
  /\ activeTimers_' = activeTimers_ \cup {<<a, o.sequence>>}
  /\ timerfd_' = IF EarliestChanged(o.expiration)
                 THEN Delay(o.expiration) ELSE timerfd_

\* Mutant of cancelInLoop: a timer of the running batch is not remembered.
cancelInLoopForgets(id) ==
  IF id \in activeTimers_
  THEN /\ timers_' = timers_ \ {EntryOf(id[1])}
       /\ activeTimers_' = activeTimers_ \ {id}
       /\ heap' = [heap EXCEPT ![id[1]] = Free]
       /\ cancelled' = cancelled \cup {id[2]}
       /\ UNCHANGED cancelingTimers_
  ELSE /\ cancelled' = IF id[1] \in expired /\ IdOf(id[1]) = id
                       THEN cancelled \cup {id[2]} ELSE cancelled
       /\ UNCHANGED <<timers_, activeTimers_, heap, cancelingTimers_>>

\* Mutant of cancelInLoop: a timer of the running batch is deleted at once.
cancelInLoopDeletes(id) ==
  IF id \in activeTimers_ \/ (id[1] \in expired /\ IdOf(id[1]) = id)
  THEN /\ timers_' = timers_ \ {EntryOf(id[1])}
       /\ activeTimers_' = activeTimers_ \ {id}
       /\ heap' = [heap EXCEPT ![id[1]] = Free]
       /\ cancelled' = cancelled \cup {id[2]}
       /\ UNCHANGED cancelingTimers_
  ELSE UNCHANGED <<timers_, activeTimers_, heap, cancelled, cancelingTimers_>>

\* cancelInLoop: an active timer is erased and deleted; a timer of the batch
\* that is running is remembered for reset; any other id is stale or unknown.
cancelInLoop(id) ==
  IF id \in activeTimers_
  THEN /\ timers_' = timers_ \ {EntryOf(id[1])}
       /\ activeTimers_' = activeTimers_ \ {id}
       /\ heap' = [heap EXCEPT ![id[1]] = Free]
       /\ cancelled' = cancelled \cup {id[2]}
       /\ UNCHANGED cancelingTimers_
  ELSE /\ cancelingTimers_' = IF callingExpiredTimers_
                              THEN cancelingTimers_ \cup {id} ELSE cancelingTimers_
       /\ cancelled' = IF id[1] \in expired /\ IdOf(id[1]) = id
                       THEN cancelled \cup {id[2]} ELSE cancelled
       /\ UNCHANGED <<timers_, activeTimers_, heap>>

-----------------------------------------------------------------------------
(* The operations.                                                         *)

\* The loop thread runs application code: a functor, another channel's
\* callback, or (pc = "callback") a timer's callback.
InApp == pc \in {"app", "callback"} /\ ~aborted

NewTimer(when, interval) ==
  [expiration |-> when, interval |-> interval, sequence |-> s_numCreated_]

\* The Timer constructor: an unused address and the next sequence number.
Construct(a, o) ==
  /\ s_numCreated_ < MaxTimers
  /\ heap[a] = Free
  /\ heap' = [heap EXCEPT ![a] = o]
  /\ s_numCreated_' = s_numCreated_ + 1

\* addTimer on the loop thread: runInLoop calls addTimerInLoop at once.
AddTimer(a, when, interval) ==
  LET o == NewTimer(when, interval) IN
  /\ InApp
  /\ Construct(a, o)
  /\ addTimerInLoop(a, o)
  /\ issued' = issued \cup {<<a, o.sequence>>}
  /\ UNCHANGED <<clock, stepped, active, cancelingTimers_, readVars, pending, unread,
                 cancelled, finished, aborted>>

\* addTimer on another thread: addTimerInLoop is queued ...
AddTimerFromAfar(a, when, interval) ==
  /\ ~aborted
  /\ Len(pending) < MaxPending
  /\ a \notin unread
  /\ Construct(a, NewTimer(when, interval))
  /\ pending' = Append(pending, [op |-> "add", timer |-> a])
  /\ unread' = unread \cup {a}
  /\ UNCHANGED <<clockVars, issued, setVars, readVars, cancelled, finished, aborted>>

\* ... and only then timer->sequence() read: by then the loop may have run and
\* deleted the timer, and the address hold another one, or freed memory.
ReadSequence(a) ==
  /\ ~aborted
  /\ a \in unread
  /\ unread' = unread \ {a}
  /\ \E s \in Seqs :
       /\ heap[a] # Free => s = heap[a].sequence
       /\ issued' = issued \cup {<<a, s>>}
  /\ UNCHANGED <<clockVars, heap, s_numCreated_, setVars, readVars, pending, cancelled,
                 finished, aborted>>

\* cancel on the loop thread.
Cancel(id) ==
  /\ InApp
  /\ cancelInLoop(id)
  /\ UNCHANGED <<clockVars, s_numCreated_, issued, unread, readVars, pending, finished,
                 aborted>>

\* cancel on another thread.
CancelFromAfar(id) ==
  /\ ~aborted
  /\ Len(pending) < MaxPending
  /\ pending' = Append(pending, [op |-> "cancel", id |-> id])
  /\ UNCHANGED <<clockVars, objectVars, setVars, readVars, cancelled, finished,
                 aborted>>

\* doPendingFunctors reaches the next functor of this queue.
RunPendingAdd ==
  /\ pc = "app" /\ ~aborted
  /\ pending # <<>> /\ Head(pending).op = "add"
  /\ LET a == Head(pending).timer IN addTimerInLoop(a, heap[a])
  /\ pending' = Tail(pending)
  /\ UNCHANGED <<clock, stepped, active, objectVars, cancelingTimers_, readVars,
                 cancelled, finished, aborted>>

RunPendingCancel ==
  /\ pc = "app" /\ ~aborted
  /\ pending # <<>> /\ Head(pending).op = "cancel"
  /\ cancelInLoop(Head(pending).id)
  /\ pending' = Tail(pending)
  /\ UNCHANGED <<clockVars, s_numCreated_, issued, unread, readVars, finished, aborted>>

-----------------------------------------------------------------------------
(* handleRead.                                                             *)

\* epoll reports timerfd_ readable; other channels may be handled before it.
Poll ==
  /\ pc = "app" /\ ~aborted
  /\ ~active
  /\ timerfd_ = 0
  /\ active' = TRUE
  /\ UNCHANGED <<clock, stepped, timerfd_, objectVars, setVars, readVars, pending,
                 cancelled, finished, aborted>>

\* getExpired: the entries below lower_bound(<<now, nullptr>>).
Expired == {e \in timers_ : e[1] < clock}

\* getExpired's assert(it == timers_.end() || now < it->first).
GetExpiredAssert == \A e \in timers_ \ Expired : clock < e[1]

\* handleRead up to its loop: read timerfd_ (EAGAIN if it was set again since
\* it was reported), take the expired timers out of both sets.
HandleRead ==
  /\ pc = "app" /\ ~aborted
  /\ active
  /\ active' = FALSE
  /\ timerfd_' = IF timerfd_ = 0 THEN Disarmed ELSE timerfd_
  /\ IF Asserts /\ ~GetExpiredAssert
     THEN /\ aborted' = TRUE
          /\ UNCHANGED <<setVars, readVars>>
     ELSE /\ now' = clock
          /\ expired' = {e[2] : e \in Expired}
          /\ toRun' = {e[2] : e \in Expired}
          /\ timers_' = timers_ \ Expired
          /\ activeTimers_' = activeTimers_ \ {IdOf(e[2]) : e \in Expired}
          /\ callingExpiredTimers_' = TRUE
          /\ cancelingTimers_' = {}
          /\ pc' = "calling"
          /\ UNCHANGED aborted
  /\ UNCHANGED <<clock, stepped, objectVars, pending, cancelled, finished>>

\* it->second->run(), in the order of the expirations.
RunTimer(a) ==
  /\ pc = "calling" /\ ~aborted
  /\ a \in toRun
  /\ \A b \in toRun : heap[a].expiration <= heap[b].expiration
  /\ toRun' = toRun \ {a}
  /\ finished' = finished \cup {heap[a].sequence}
  /\ pc' = "callback"
  /\ UNCHANGED <<clockVars, objectVars, setVars, callingExpiredTimers_, now,
                 expired, pending, cancelled, aborted>>

CallbackReturns ==
  /\ pc = "callback" /\ ~aborted
  /\ pc' = "calling"
  /\ UNCHANGED <<clockVars, objectVars, setVars, callingExpiredTimers_, now,
                 expired, toRun, pending, cancelled, finished, aborted>>

\* The timers of the batch that reset restarts; it deletes the others.
Restarts == {a \in expired : heap[a].interval > 0 /\ IdOf(a) \notin cancelingTimers_}

\* Mutant of ResetExpired: timerfd_ is not set again.
ResetExpiredDisarmed ==
  /\ pc = "calling" /\ toRun = {} /\ ~aborted
  /\ heap' = [a \in Addrs |->
                IF a \in Restarts
                THEN [heap[a] EXCEPT !.expiration = now + heap[a].interval]
                ELSE IF a \in expired THEN Free ELSE heap[a]]
  /\ timers_' = timers_ \cup {<<now + heap[a].interval, a>> : a \in Restarts}
  /\ activeTimers_' = activeTimers_ \cup {IdOf(a) : a \in Restarts}
  /\ timerfd_' = timerfd_
  /\ callingExpiredTimers_' = FALSE
  /\ expired' = {}
  /\ pc' = "app"
  /\ UNCHANGED <<clock, stepped, active, s_numCreated_, issued, unread, cancelingTimers_, now,
                 toRun, pending, cancelled, finished, aborted>>

\* The end of handleRead and reset: repeating timers that were not cancelled
\* meanwhile are restarted from now and inserted again, the others deleted,
\* and timerfd_ is set to the earliest timer of all.
ResetExpired ==
  /\ pc = "calling" /\ toRun = {} /\ ~aborted
  /\ heap' = [a \in Addrs |->
                IF a \in Restarts
                THEN [heap[a] EXCEPT !.expiration = now + heap[a].interval]
                ELSE IF a \in expired THEN Free ELSE heap[a]]
  /\ timers_' = timers_ \cup {<<now + heap[a].interval, a>> : a \in Restarts}
  /\ activeTimers_' = activeTimers_ \cup {IdOf(a) : a \in Restarts}
  /\ timerfd_' = IF timers_' # {} THEN Delay(Earliest(timers_')) ELSE timerfd_
  /\ callingExpiredTimers_' = FALSE
  /\ expired' = {}
  /\ pc' = "app"
  /\ UNCHANGED <<clock, stepped, active, s_numCreated_, issued, unread, cancelingTimers_, now,
                 toRun, pending, cancelled, finished, aborted>>

-----------------------------------------------------------------------------
(* Time.                                                                   *)

\* A tick of both clocks; the wall clock stops at its bound MaxTime.
Tick ==
  /\ ~aborted
  /\ clock' = IF clock < MaxTime THEN clock + 1 ELSE clock
  /\ timerfd_' = IF timerfd_ > 0 THEN timerfd_ - 1 ELSE timerfd_
  /\ UNCHANGED <<stepped, active, objectVars, setVars, readVars, pending, cancelled,
                 finished, aborted>>

\* The wall clock is set; the timerfd, on CLOCK_MONOTONIC, does not notice.
SetClock(t) ==
  /\ ~aborted
  /\ clock' = t
  /\ stepped' = TRUE
  /\ UNCHANGED <<timerfd_, active, objectVars, setVars, readVars, pending,
                 cancelled, finished, aborted>>

-----------------------------------------------------------------------------

RunPending == RunPendingAdd \/ RunPendingCancel

RunExpired ==
  \/ \E a \in Addrs : RunTimer(a)
  \/ CallbackReturns \/ ResetExpired

Next ==
  \/ RunPending \/ Poll \/ HandleRead \/ RunExpired
  \/ \E a \in Addrs, when \in Time, i \in Intervals :
       AddTimer(a, when, i) \/ AddTimerFromAfar(a, when, i)
  \/ \E a \in Addrs : ReadSequence(a)
  \/ \E id \in issued : Cancel(id) \/ CancelFromAfar(id)
  \/ Tick
  \/ \E t \in Time : SetClock(t)

Spec == Init /\ [][Next]_vars

\* The loop thread is scheduled, timer callbacks return, and time passes.
\* EventLoop::loop alternates between polling, the reported channels and the
\* pending functors, so none of the three waits for ever while it has work.
Fairness ==
  /\ WF_vars(RunPending)
  /\ WF_vars(Poll)
  /\ WF_vars(HandleRead)
  /\ WF_vars(RunExpired)
  /\ WF_vars(Tick)

FairSpec == Spec /\ Fairness

-----------------------------------------------------------------------------
(* Properties.                                                             *)

Allocated == {a \in Addrs : heap[a] # Free}
AddOf(a) == [op |-> "add", timer |-> a]
Queued == {a \in Addrs : AddOf(a) \in ToSet(pending)}
Waiting == {e[2] : e \in timers_}

\* Every Timer object is owned by exactly one of the pending adds, timers_ and
\* the batch of handleRead; timers_ and activeTimers_ describe the same live
\* objects under their current expiration, so the four size assertions hold,
\* nothing deleted is ever reached and nothing leaks, whatever ids cancel() is
\* given.
Consistent ==
  /\ Allocated = Queued \cup expired \cup Waiting
  /\ Queued \cap expired = {}
  /\ Queued \cap Waiting = {}
  /\ expired \cap Waiting = {}
  /\ timers_ = {EntryOf(a) : a \in Waiting}
  /\ activeTimers_ = {IdOf(a) : a \in Waiting}

\* A Timer is handed to the loop once: running its functor leaves no second one.
AddedOnce ==
  \A i, j \in DOMAIN pending :
    pending[i].op = "add" /\ pending[i] = pending[j] => i = j

\* There is a batch, and cancel() remembers its ids, in handleRead only.
BatchInHandleRead ==
  /\ callingExpiredTimers_ <=> pc # "app"
  /\ pc = "app" => expired = {}

\* No two live timers have the same sequence number, and none has a later one.
SequencesUnique ==
  /\ \A a \in Allocated : heap[a].sequence < s_numCreated_
  /\ \A a, b \in Allocated : heap[a].sequence = heap[b].sequence => a = b
  /\ \A s \in cancelled : s < s_numCreated_

\* A cancelled timer that still exists is in the running batch, and reset will
\* find it in cancelingTimers_.
CancelledRemembered ==
  \A a \in Allocated :
    heap[a].sequence \in cancelled => a \in expired /\ IdOf(a) \in cancelingTimers_

\* The inductive invariant.
IInv ==
  /\ TypeOK
  /\ Consistent
  /\ AddedOnce
  /\ BatchInHandleRead
  /\ SequencesUnique
  /\ CancelledRemembered

\* Outside handleRead timerfd_ is set (or has fired, or was reported) whenever
\* a timer waits: no sequence of add, cancel and expiry leaves it disarmed.
Armed == (pc = "app" /\ timers_ # {} /\ ~aborted) => (active \/ timerfd_ # Disarmed)

\* While no one sets the wall clock it also fires in time: no later than the
\* earliest expiration, or than MinDelay from now if that is closer.
NotLate ==
  (pc = "app" /\ timers_ # {} /\ ~aborted /\ ~stepped)
    => (active \/ timerfd_ \in 0..Delay(Earliest(timers_)))

\* timerfd_ is never left disarmed nor armed late while a timer waits.
ArmedInTime == Armed /\ NotLate

\* A timer cancelled after it was inserted, even from a callback of its own
\* batch, is never put back: it may still run in that batch, never in a later.
CancelledStaysCancelled ==
  \A id \in activeTimers_ : id[2] \notin cancelled

\* A timer that reached timers_ runs or is cancelled, however many others are
\* added, cancelled, expire with it or run in between (unless the wall clock
\* is set, which may put it off for ever).
TimerRuns ==
  \A s \in Seqs :
    (\E id \in activeTimers_ : id[2] = s /\ heap[id[1]].expiration < MaxTime)
      ~> (s \in finished \cup cancelled \/ stepped)

\* The assertion of getExpired: beyond the entries taken every deadline lies
\* after now.
ExpiredAssertHolds == ~aborted
=============================================================================
