--------------------------- MODULE EventLoopProofs --------------------------
(***************************************************************************)
(* Proofs about EventLoop for every set of threads, channels and functors: *)
(* its inductive invariant, and that it implements FunctorQueue.           *)
(***************************************************************************)
EXTENDS EventLoop, TLAPS

\* Appending behind a concatenation: a functor pushed on pendingFunctors_ is
\* the last of the batch and the pending functors together.
LEMMA AppendConcat ==
  ASSUME NEW S, NEW s \in Seq(S), NEW t \in Seq(S), NEW e \in S
  PROVE  s \o Append(t, e) = Append(s \o t, e)
  OBVIOUS

\* Taking the head of the batch moves it from the front of one sequence to
\* the end of the other and leaves their concatenation as it was.
LEMMA HeadMoves ==
  ASSUME NEW S, NEW r \in Seq(S), NEW s \in Seq(S), NEW t \in Seq(S), s # <<>>
  PROVE  Append(r, Head(s)) \o Tail(s) \o t = r \o s \o t
  OBVIOUS

\* The next functor of the batch is the first of all that are waiting.
LEMMA HeadOfConcat ==
  ASSUME NEW S, NEW s \in Seq(S), NEW t \in Seq(S), s # <<>>
  PROVE  /\ Head(s \o t) = Head(s)
         /\ Tail(s \o t) = Tail(s) \o t
         /\ s \o t # <<>>
  OBVIOUS

\* The elements of a sequence after a push_back.
LEMMA RangeAppend ==
  ASSUME NEW S, NEW s \in Seq(S), NEW e \in S
  PROVE  Range(Append(s, e)) = Range(s) \cup {e}
<1> DEFINE a == Append(s, e)
<1>1. /\ DOMAIN s = 1..Len(s)
      /\ DOMAIN a = 1..(Len(s) + 1)
      /\ Len(s) \in Nat
      /\ \A i \in 1..Len(s) : a[i] = s[i]
      /\ a[Len(s) + 1] = e
  OBVIOUS
<1>2. ASSUME NEW x \in Range(a) PROVE x \in Range(s) \cup {e}
  <2>1. PICK i \in DOMAIN a : x = a[i]
    BY <1>2 DEF Range
  <2>2. i \in 1..Len(s) \/ i = Len(s) + 1
    BY <1>1, <2>1
  <2> HIDE DEF a
  <2> QED
    BY <1>1, <2>1, <2>2 DEF Range
<1>3. ASSUME NEW x \in Range(s) \cup {e} PROVE x \in Range(a)
  <2>1. CASE x = e
    <3>1. Len(s) + 1 \in DOMAIN a
      BY <1>1
    <3> HIDE DEF a
    <3> QED
      BY <1>1, <2>1, <3>1 DEF Range
  <2>2. CASE x \in Range(s)
    <3>1. PICK i \in DOMAIN s : x = s[i]
      BY <2>2 DEF Range
    <3>2. i \in DOMAIN a /\ a[i] = x
      BY <1>1, <3>1
    <3> HIDE DEF a
    <3> QED
      BY <3>2 DEF Range
  <2> QED
    BY <1>3, <2>1, <2>2
<1> QED
  BY <1>2, <1>3

\* An empty vector has no element.
LEMMA RangeEmpty == Range(<<>>) = {}
  BY DEF Range

-----------------------------------------------------------------------------

\* A state of the constructor satisfies the invariant.
LEMMA InitIInv == Init => IInv
<1> SUFFICES ASSUME Init PROVE IInv
  OBVIOUS
<1> USE DEF Init
<1>1. TypeOK
  <2>1. /\ pc \in PcValues
        /\ quit_ \in BOOLEAN
        /\ callingPendingFunctors_ \in BOOLEAN
    BY DEF PcValues
  <2>2. <<>> \in Seq(Functors)
    OBVIOUS
  <2>3. wakeupFd_ \in 0..EventfdMax /\ eventListSize \in Nat \ {0}
    BY EventLoopAssumption
  <2> QED
    BY <2>1, <2>2, <2>3 DEF TypeOK
<1>2. BatchEmptyOutsideRun
  BY DEF BatchEmptyOutsideRun
<1>3. FunctorFifo
  BY DEF FunctorFifo
<1>4. WakeupPending
  BY RangeEmpty DEF WakeupPending
<1> QED
  BY <1>1, <1>2, <1>3, <1>4 DEF IInv

\* queueInLoop, the operation that changes most of the invariant's parts: the
\* functor goes to the end of both sequences, and either a wakeup is now on
\* its way, or the loop thread pushed it (in a callback or quietly).
LEMMA QueueInLoopIInv ==
  ASSUME IInv, NEW t \in Threads, NEW f \in Functors, QueueInLoop(t, f)
  PROVE  IInv'
<1> USE DEF IInv
<1>1. TypeOK'
  BY DEF TypeOK, QueueInLoop, loopVars, pollVars
<1>2. BatchEmptyOutsideRun'
  BY DEF BatchEmptyOutsideRun, QueueInLoop, loopVars
<1>3. FunctorFifo'
  <2> DEFINE started == ran \o functions
  <2>1. started \in Seq(Functors) /\ pendingFunctors_ \in Seq(Functors)
    BY DEF TypeOK
  <2> HIDE DEF started
  <2>2. started \o Append(pendingFunctors_, f) = Append(started \o pendingFunctors_, f)
    BY <2>1, AppendConcat
  <2> QED
    BY <2>2 DEF started, FunctorFifo, QueueInLoop
<1>4. WakeupPending'
  <2>1. CASE ~isInLoopThread(t) \/ callingPendingFunctors_
    BY <2>1 DEF WakeupPending, QueueInLoop
  <2>2. CASE isInLoopThread(t) /\ ~callingPendingFunctors_ /\ pc = "event"
    BY <2>2 DEF WakeupPending, QueueInLoop, loopVars
  <2>3. CASE isInLoopThread(t) /\ ~callingPendingFunctors_ /\ pc # "event"
    <3>1. Range(pendingFunctors_') = Range(pendingFunctors_) \cup {f}
      BY RangeAppend DEF TypeOK, QueueInLoop
    <3> QED
      BY <2>3, <3>1 DEF WakeupPending, QueueInLoop, loopVars
  <2> QED
    BY <2>1, <2>2, <2>3
<1> QED
  BY <1>1, <1>2, <1>3, <1>4

\* A step of the loop thread.
LEMMA LoopStepIInv == IInv /\ (LoopStep \/ PollFails) => IInv'
<1> SUFFICES ASSUME IInv, LoopStep \/ PollFails PROVE IInv'
  OBVIOUS
<1> USE DEF IInv, At, loopVars, queueVars, pollVars, wakeVars
<1>1. CASE EnterLoop
  BY <1>1 DEF EnterLoop, TypeOK, PcValues, BatchEmptyOutsideRun, FunctorFifo,
              WakeupPending
<1>2. CASE TestQuit
  BY <1>2 DEF TestQuit, TypeOK, PcValues, BatchEmptyOutsideRun, FunctorFifo,
              WakeupPending
<1>3. CASE Poll
  <2>1. PICK S \in SUBSET Readable :
          /\ activeChannels_' = S
          /\ eventListSize' = IF Cardinality(S) = eventListSize
                              THEN 2 * eventListSize ELSE eventListSize
    BY <1>3 DEF Poll
  <2>2. eventListSize' \in Nat \ {0}
    BY <2>1 DEF TypeOK
  <2>3. activeChannels_' \subseteq Channels \cup {WakeupChannel}
    BY <2>1 DEF TypeOK, Readable
  <2> QED
    BY <1>3, <2>2, <2>3 DEF Poll, TypeOK, PcValues, BatchEmptyOutsideRun,
                            FunctorFifo, WakeupPending
<1>4. CASE PollFails
  BY <1>4 DEF PollFails, TypeOK, PcValues, BatchEmptyOutsideRun, FunctorFifo,
              WakeupPending
<1>5. CASE HandleRead
  BY <1>5, EventLoopAssumption
     DEF HandleRead, TypeOK, BatchEmptyOutsideRun, FunctorFifo, WakeupPending
<1>6. CASE \E c \in Channels : HandleEvent(c)
  BY <1>6 DEF HandleEvent, TypeOK, PcValues, BatchEmptyOutsideRun, FunctorFifo,
              WakeupPending
<1>7. CASE EventReturns
  BY <1>7 DEF EventReturns, TypeOK, PcValues, BatchEmptyOutsideRun,
              FunctorFifo, WakeupPending
<1>8. CASE DispatchDone
  BY <1>8 DEF DispatchDone, TypeOK, PcValues, BatchEmptyOutsideRun,
              FunctorFifo, WakeupPending
<1>9. CASE SwapPending
  <2>1. TypeOK'
    BY <1>9 DEF SwapPending, TypeOK, PcValues
  <2>2. BatchEmptyOutsideRun' /\ functions = <<>>
    BY <1>9 DEF SwapPending, BatchEmptyOutsideRun
  <2>3. FunctorFifo'
    BY <1>9, <2>2 DEF SwapPending, FunctorFifo, TypeOK
  <2>4. WakeupPending'
    BY <1>9, RangeEmpty DEF SwapPending, WakeupPending
  <2> QED
    BY <2>1, <2>2, <2>3, <2>4
<1>10. CASE RunFunctor
  <2>1. TypeOK'
    BY <1>10 DEF RunFunctor, TypeOK, PcValues
  <2>2. FunctorFifo'
    <3>1. /\ ran \in Seq(Functors) /\ functions \in Seq(Functors)
          /\ pendingFunctors_ \in Seq(Functors) /\ functions # <<>>
      BY <1>10 DEF RunFunctor, TypeOK
    <3>2. Append(ran, Head(functions)) \o Tail(functions) \o pendingFunctors_
            = ran \o functions \o pendingFunctors_
      BY ONLY <3>1, HeadMoves
    <3> QED
      BY <1>10, <3>2 DEF RunFunctor, FunctorFifo
  <2> QED
    BY <1>10, <2>1, <2>2 DEF RunFunctor, BatchEmptyOutsideRun, WakeupPending
<1>11. CASE FunctorReturns
  BY <1>11 DEF FunctorReturns, TypeOK, PcValues, BatchEmptyOutsideRun,
               FunctorFifo, WakeupPending
<1>12. CASE FunctorsDone
  BY <1>12 DEF FunctorsDone, TypeOK, PcValues, BatchEmptyOutsideRun,
               FunctorFifo, WakeupPending
<1> QED
  BY <1>1, <1>2, <1>3, <1>4, <1>5, <1>6, <1>7, <1>8, <1>9, <1>10, <1>11,
     <1>12 DEF LoopStep

\* Every step of the specification.
LEMMA NextIInv == IInv /\ [Next]_vars => IInv'
<1> SUFFICES ASSUME IInv, [Next]_vars PROVE IInv'
  OBVIOUS
<1>1. CASE LoopStep \/ PollFails
  BY <1>1, LoopStepIInv
<1>2. ASSUME NEW t \in Threads, NEW f \in Functors,
             QueueInLoop(t, f) \/ RunInLoop(t, f)
      PROVE  IInv'
  <2>1. CASE QueueInLoop(t, f)
    BY <2>1, QueueInLoopIInv
  <2>2. CASE RunInLoop(t, f) /\ isInLoopThread(t)
    BY <2>2 DEF RunInLoop, IInv, TypeOK, BatchEmptyOutsideRun, FunctorFifo,
                WakeupPending, loopVars, pollVars, wakeVars
  <2> QED
    BY <1>2, <2>1, <2>2 DEF RunInLoop
<1>3. ASSUME NEW t \in Threads, Quit(t) PROVE IInv'
  BY <1>3 DEF Quit, IInv, TypeOK, BatchEmptyOutsideRun, FunctorFifo,
              WakeupPending, queueVars, pollVars
<1>4. ASSUME NEW t \in Threads, Wakeup(t) PROVE IInv'
  <2>1. wakeupFd_' \in 0..EventfdMax /\ wakeupFd_' > 0
    BY <1>4, EventLoopAssumption DEF Wakeup, IInv, TypeOK
  <2> QED
    BY <1>4, <2>1 DEF Wakeup, IInv, TypeOK, BatchEmptyOutsideRun, FunctorFifo,
                      WakeupPending, loopVars, queueVars, pollVars
<1>5. ASSUME NEW c \in Channels, BecomesReady(c) PROVE IInv'
  BY <1>5 DEF BecomesReady, IInv, TypeOK, BatchEmptyOutsideRun, FunctorFifo,
              WakeupPending, loopVars, queueVars, wakeVars
<1>6. CASE UNCHANGED vars
  BY <1>6 DEF IInv, TypeOK, BatchEmptyOutsideRun, FunctorFifo, WakeupPending,
              vars, loopVars, queueVars, pollVars, wakeVars
<1> QED
  BY <1>1, <1>2, <1>3, <1>4, <1>5, <1>6 DEF Next, Call

\* Every reachable state of the event loop satisfies its inductive invariant.
THEOREM InvariantHolds == Spec => []IInv
  BY InitIInv, NextIInv, PTL DEF Spec

\* The loop's state keeps its types; in particular the eventfd counter never
\* exceeds its maximum.
THEOREM TypeCorrect == Spec => []TypeOK
<1>1. IInv => TypeOK
  BY DEF IInv
<1> QED
  BY <1>1, InvariantHolds, PTL

\* queueInLoop and doPendingFunctors lose, repeat and reorder no functor.
THEOREM FifoHolds == Spec => []FunctorFifo
<1>1. IInv => FunctorFifo
  BY DEF IInv
<1> QED
  BY <1>1, InvariantHolds, PTL

\* The loop never blocks in epoll_wait over a functor that another thread, or
\* an event callback, pushed, with no wakeup in the eventfd or on its way.
THEOREM NoLostWakeupHolds == Spec => []NoLostWakeup
<1>1. IInv => NoLostWakeup
  BY DEF IInv, TypeOK, WakeupPending, NoLostWakeup
<1> QED
  BY <1>1, InvariantHolds, PTL

-----------------------------------------------------------------------------

\* A step of the loop or of its callers is a step of the abstract queue.
LEMMA StepRefines == IInv /\ [Next]_vars => [FQ!Next]_(FQ!vars)
<1> SUFFICES ASSUME IInv, [Next]_vars PROVE [FQ!Next]_(FQ!vars)
  OBVIOUS
<1> USE DEF IInv, TypeOK, FQ!Next, FQ!vars
<1>1. ASSUME NEW t \in Threads, NEW f \in Functors, QueueInLoop(t, f)
      PROVE  FQ!Enqueue(f)
  BY <1>1, AppendConcat DEF QueueInLoop, FQ!Enqueue
<1>2. CASE RunFunctor
  <2>1. /\ ran \in Seq(Functors) /\ functions \in Seq(Functors)
        /\ pendingFunctors_ \in Seq(Functors) /\ functions # <<>>
    BY <1>2 DEF RunFunctor
  <2>2. /\ Head(functions \o pendingFunctors_) = Head(functions)
        /\ Tail(functions \o pendingFunctors_) = Tail(functions) \o pendingFunctors_
        /\ functions \o pendingFunctors_ # <<>>
    BY ONLY <2>1, HeadOfConcat
  <2>3. FQ!Start
    BY <1>2, <2>2 DEF RunFunctor, FQ!Start
  <2> QED
    BY <2>3
<1>3. CASE SwapPending
  <2>1. functions = <<>>
    BY <1>3 DEF SwapPending, BatchEmptyOutsideRun, At
  <2> QED
    BY <1>3, <2>1 DEF SwapPending
<1>4. CASE UNCHANGED <<pendingFunctors_, functions, ran>>
  BY <1>4
<1>5. \/ UNCHANGED <<pendingFunctors_, functions, ran>>
      \/ SwapPending \/ RunFunctor
      \/ \E t \in Threads, f \in Functors : QueueInLoop(t, f)
  BY DEF Next, LoopStep, Call, RunInLoop, EnterLoop, TestQuit, Poll, HandleRead,
         HandleEvent, EventReturns, DispatchDone, FunctorReturns, FunctorsDone,
         PollFails, Quit, Wakeup, BecomesReady, vars, loopVars, queueVars
<1> QED
  BY <1>1, <1>2, <1>3, <1>4, <1>5

\* EventLoop implements FunctorQueue: seen from outside, the eventfd, the
\* mutex and the swapped batch are one first-in first-out queue.
THEOREM Refinement == Spec => ImplementsFunctorQueue
<1>1. Init => FQ!Init
  BY DEF Init, FQ!Init
<1> QED
  BY <1>1, StepRefines, InvariantHolds, PTL
     DEF Spec, ImplementsFunctorQueue, FQ!Spec
=============================================================================
