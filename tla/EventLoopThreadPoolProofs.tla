---------------------- MODULE EventLoopThreadPoolProofs ----------------------
(***************************************************************************)
(* Proofs about EventLoopThreadPool for every size of the pool: its        *)
(* inductive invariant, and with it that the loops startLoop returned are  *)
(* there until they are destroyed, and that assert(exiting_) holds.        *)
(*                                                                         *)
(* LoopsUsable alone is not inductive.  A loop can only end when its quit_ *)
(* is set, and quit_ only by the destructor of its own EventLoopThread     *)
(* (QuitByDestructor), which has reached that thread when exiting_ is set  *)
(* (ExitingInOrder); a loop that is there before was published before      *)
(* startLoop returned (StartedInOrder, LoopPointer).                       *)
(***************************************************************************)
EXTENDS EventLoopThreadPool, TLAPS

\* Before any thread is started.
LEMMA InitIInv == Init => IInv
<1> SUFFICES ASSUME Init PROVE IInv
  OBVIOUS
<1> USE PoolAssumption DEF Init, Pool
<1>1. TypeOK
  <2>1. 1 \in Pool
    BY PoolAssumption
  <2>2. \A b \in BOOLEAN : [i \in Pool |-> b] \in [Pool -> BOOLEAN]
    OBVIOUS
  <2> QED
    BY <2>1, <2>2 DEF TypeOK
<1>2. LoopsUsable
  BY DEF LoopsUsable, Owned
<1>3. LoopPointer /\ StartedInOrder /\ ExitingInOrder
  BY DEF LoopPointer, StartedInOrder, Starting, ExitingInOrder
<1>4. QuitByDestructor /\ MutexHeld /\ GoneOnlyAtWakeup /\ ExitingAssert
  BY DEF QuitByDestructor, MutexHeld, GoneOnlyAtWakeup, ExitingAssert
<1> QED
  BY <1>1, <1>2, <1>3, <1>4 DEF IInv

-----------------------------------------------------------------------------
(* EventLoopThreadPool::start and EventLoopThread::startLoop.              *)

\* The thread that is created had not been before, and has no loop yet.
LEMMA ThreadStartIInv == IInv /\ ThreadStart => IInv'
BY PoolAssumption
   DEF IInv, TypeOK, Pool, LoopsUsable, Owned, Starting, LoopPointer, StartedInOrder,
       ExitingInOrder, QuitByDestructor, MutexHeld, GoneOnlyAtWakeup, ExitingAssert,
       ThreadStart, Owner, threadVars

\* The wait for the latch changes nothing but the place of the owner.
LEMMA ThreadStartedIInv == IInv /\ ThreadStarted => IInv'
BY PoolAssumption
   DEF IInv, TypeOK, Pool, LoopsUsable, Owned, Starting, LoopPointer, StartedInOrder,
       ExitingInOrder, QuitByDestructor, MutexHeld, GoneOnlyAtWakeup, ExitingAssert,
       ThreadStarted, Owner, threadVars

\* The owner takes a free mutex_.
LEMMA StartLoopLockIInv == IInv /\ StartLoopLock => IInv'
BY PoolAssumption
   DEF IInv, TypeOK, Pool, LoopsUsable, Owned, Starting, LoopPointer, StartedInOrder,
       ExitingInOrder, QuitByDestructor, MutexHeld, GoneOnlyAtWakeup, ExitingAssert,
       StartLoopLock, Owner, threadVars

\* The test of loop_: startLoop returns only a loop that is there, and then
\* quit_ cannot be set yet, because its thread's exiting_ is not.
LEMMA StartLoopTestIInv == IInv /\ StartLoopTest => IInv'
<1> SUFFICES ASSUME IInv, StartLoopTest PROVE IInv'
  OBVIOUS
<1> USE PoolAssumption DEF Pool
<1>0. cur \in 1..numThreads_
  BY DEF IInv, TypeOK
<1>1. /\ aborted = "none" /\ opc = "test"
      /\ UNCHANGED <<tpc, loop_, exiting_, quit_, wakeupFd_, heard, appQuit, aborted>>
  BY DEF StartLoopTest, Owner
<1>2. mutex_' = [mutex_ EXCEPT ![cur] = "none"]
  BY DEF StartLoopTest
<1>3. CASE loop_[cur] = "NULL"
  <2>1. opc' = "unlocked" /\ cur' = cur
    BY <1>3 DEF StartLoopTest, Owner
  <2> QED
    BY <1>1, <1>2, <1>3, <2>1
       DEF IInv, TypeOK, LoopsUsable, Owned, Starting, LoopPointer, StartedInOrder,
               ExitingInOrder, QuitByDestructor, MutexHeld, GoneOnlyAtWakeup,
               ExitingAssert
<1>4. CASE loop_[cur] # "NULL" /\ cur < numThreads_
  <2>1. opc' = "new" /\ cur' = cur + 1
    BY <1>4 DEF StartLoopTest, Owner
  <2> QED
    BY <1>1, <1>2, <1>4, <2>1
       DEF IInv, TypeOK, LoopsUsable, Owned, Starting, LoopPointer, StartedInOrder,
               ExitingInOrder, QuitByDestructor, MutexHeld, GoneOnlyAtWakeup,
               ExitingAssert
<1>5. CASE loop_[cur] # "NULL" /\ ~(cur < numThreads_)
  <2>1. opc' = "owns" /\ cur' = 1
    BY <1>5 DEF StartLoopTest, Owner
  <2>2. cur = numThreads_
    BY <1>0, <1>5
  <2> QED
    BY <1>1, <1>2, <1>5, <2>1, <2>2
       DEF IInv, TypeOK, LoopsUsable, Owned, Starting, LoopPointer, StartedInOrder,
               ExitingInOrder, QuitByDestructor, MutexHeld, GoneOnlyAtWakeup,
               ExitingAssert
<1> QED
  BY <1>3, <1>4, <1>5

\* The condition variable does not touch mutex_.
LEMMA CondWaitIInv == IInv /\ CondWait => IInv'
BY PoolAssumption
   DEF IInv, TypeOK, Pool, LoopsUsable, Owned, Starting, LoopPointer, StartedInOrder,
       ExitingInOrder, QuitByDestructor, MutexHeld, GoneOnlyAtWakeup, ExitingAssert,
       CondWait, Owner, threadVars

\* Nor does a wakeup, which leads back to the lock.
LEMMA SpuriousWakeupIInv == IInv /\ SpuriousWakeup => IInv'
BY PoolAssumption
   DEF IInv, TypeOK, Pool, LoopsUsable, Owned, Starting, LoopPointer, StartedInOrder,
       ExitingInOrder, QuitByDestructor, MutexHeld, GoneOnlyAtWakeup, ExitingAssert,
       SpuriousWakeup, Owner, threadVars

-----------------------------------------------------------------------------
(* The application and the destructor.                                     *)

\* The application's quit makes the promises about the loops void.
LEMMA AppQuitIInv ==
  ASSUME IInv, NEW i \in Pool, AppQuit(i)
  PROVE  IInv'
<1> USE PoolAssumption DEF Pool
<1>0. cur \in 1..numThreads_
  BY DEF IInv, TypeOK
<1>1. /\ opc = "owns" /\ opc' = "owns" /\ appQuit' /\ aborted = "none"
      /\ UNCHANGED <<cur, tpc, mutex_, loop_, exiting_, heard>>
  BY DEF AppQuit, Owner
<1>2. /\ quit_' \in [Pool -> BOOLEAN] /\ wakeupFd_' \in [Pool -> BOOLEAN] /\ appQuit' \in BOOLEAN
      /\ aborted' \in {"none", "destroyed loop"}
  BY <1>1 DEF IInv, TypeOK, AppQuit
<1> QED
    BY <1>1, <1>2
       DEF IInv, TypeOK, LoopsUsable, Owned, Starting, LoopPointer, StartedInOrder,
               ExitingInOrder, QuitByDestructor, MutexHeld, GoneOnlyAtWakeup,
               ExitingAssert

\* Nothing is exiting when the destruction begins, with the first thread.
LEMMA BeginDestroyIInv == IInv /\ BeginDestroy => IInv'
<1> SUFFICES ASSUME IInv, BeginDestroy PROVE IInv'
  OBVIOUS
<1> USE PoolAssumption DEF Pool
<1>0. cur \in 1..numThreads_
  BY DEF IInv, TypeOK
<1>1. /\ opc = "owns" /\ opc' = "exiting" /\ cur' = cur
      /\ UNCHANGED <<tpc, mutex_, loop_, exiting_, quit_, wakeupFd_, heard, appQuit, aborted>>
  BY DEF BeginDestroy, Owner, threadVars
<1>2. LoopsUsable'
  BY <1>1 DEF IInv, TypeOK, LoopsUsable, Owned, StartedInOrder
<1>3. ExitingInOrder'
  <2>1. cur = 1 /\ \A i \in Pool : ~exiting_[i]
    BY <1>1 DEF IInv, ExitingInOrder, StartedInOrder
  <2>2. exiting_' = exiting_ /\ opc' = "exiting" /\ cur' = 1
    BY <1>1, <2>1
  <2> QED
    BY <2>1, <2>2 DEF ExitingInOrder
<1> QED
  BY <1>1, <1>2, <1>3 DEF IInv, TypeOK, Starting, LoopPointer, StartedInOrder,
       QuitByDestructor, MutexHeld, GoneOnlyAtWakeup, ExitingAssert

\* exiting_ comes before the store to quit_.
LEMMA SetExitingIInv == IInv /\ SetExiting => IInv'
BY PoolAssumption
   DEF IInv, TypeOK, Pool, LoopsUsable, Owned, Starting, LoopPointer, StartedInOrder,
       ExitingInOrder, QuitByDestructor, MutexHeld, GoneOnlyAtWakeup, ExitingAssert,
       SetExiting, Owner, threadVars

\* The store to quit_ finds the loop there: it is one of Owned.
LEMMA QuitStoreIInv == IInv /\ QuitStore => IInv'
<1> SUFFICES ASSUME IInv, QuitStore PROVE IInv'
  OBVIOUS
<1> USE PoolAssumption DEF Pool
<1>0. cur \in 1..numThreads_
  BY DEF IInv, TypeOK
<1>1. /\ opc = "quit" /\ opc' = "wakeup" /\ cur' = cur /\ aborted = "none"
      /\ UNCHANGED <<tpc, mutex_, loop_, exiting_, wakeupFd_, appQuit>>
  BY DEF QuitStore, Owner
<1>2. heard' \in [Pool -> BOOLEAN]
  <2> DEFINE inLoop == tpc[cur] \in {"test", "poll"}
  <2>1. heard' = [heard EXCEPT ![cur] = inLoop]
    BY DEF QuitStore
  <2>2. heard \in [Pool -> BOOLEAN]
    BY DEF IInv, TypeOK
  <2>3. inLoop \in BOOLEAN
    OBVIOUS
  <2> HIDE DEF inLoop
  <2> QED
    BY <2>1, <2>2, <2>3
<1>3. CASE loop_[cur] = "alive"
  <2>1. aborted' = "none" /\ quit_' = [quit_ EXCEPT ![cur] = TRUE]
    BY <1>1, <1>3 DEF QuitStore
  <2> QED
   BY <1>1, <1>2, <1>3, <2>1
       DEF IInv, TypeOK, LoopsUsable, Owned, Starting, LoopPointer, StartedInOrder,
               ExitingInOrder, QuitByDestructor, MutexHeld, GoneOnlyAtWakeup,
               ExitingAssert
<1>4. CASE loop_[cur] # "alive"
  <2>1. aborted' = "destroyed loop" /\ quit_' = quit_
    BY <1>1, <1>4 DEF QuitStore
  <2>2. appQuit
    BY <1>1, <1>4 DEF IInv, TypeOK, LoopsUsable, Owned
  <2> QED
   BY <1>1, <1>2, <1>4, <2>1, <2>2
       DEF IInv, TypeOK, LoopsUsable, Owned, Starting, LoopPointer, StartedInOrder,
               ExitingInOrder, QuitByDestructor, MutexHeld, GoneOnlyAtWakeup,
               ExitingAssert
<1> QED
  BY <1>3, <1>4

\* The wakeup may not: this is the step GoneOnlyAtWakeup allows.
LEMMA QuitWakeupIInv == IInv /\ QuitWakeup => IInv'
<1> SUFFICES ASSUME IInv, QuitWakeup PROVE IInv'
  OBVIOUS
<1> USE PoolAssumption DEF Pool
<1>0. cur \in 1..numThreads_
  BY DEF IInv, TypeOK
<1>1. /\ opc = "wakeup" /\ opc' = "join" /\ cur' = cur /\ aborted = "none"
      /\ UNCHANGED <<tpc, mutex_, loop_, exiting_, quit_, heard, appQuit>>
  BY DEF QuitWakeup, Owner
<1>2. wakeupFd_' \in [Pool -> BOOLEAN] /\ aborted' \in {"none", "destroyed loop"}
  BY <1>1 DEF IInv, TypeOK, QuitWakeup
<1> QED
   BY <1>1, <1>2
       DEF IInv, TypeOK, LoopsUsable, Owned, Starting, LoopPointer, StartedInOrder,
               ExitingInOrder, QuitByDestructor, MutexHeld, GoneOnlyAtWakeup,
               ExitingAssert

\* The next thread's exiting_ is not set yet.
LEMMA JoinIInv == IInv /\ Join => IInv'
<1> SUFFICES ASSUME IInv, Join PROVE IInv'
  OBVIOUS
<1> USE PoolAssumption DEF Pool
<1>0. cur \in 1..numThreads_
  BY DEF IInv, TypeOK
<1>1. /\ opc = "join" /\ tpc[cur] = "ended" /\ aborted = "none"
      /\ UNCHANGED <<tpc, mutex_, loop_, exiting_, quit_, wakeupFd_, heard, appQuit, aborted>>
  BY DEF Join, Owner, threadVars
<1>2. CASE cur < numThreads_
  <2>1. opc' = "exiting" /\ cur' = cur + 1
    BY <1>2 DEF Join, Owner
  <2> QED
    BY <1>1, <1>2, <2>1
       DEF IInv, TypeOK, LoopsUsable, Owned, Starting, LoopPointer, StartedInOrder,
               ExitingInOrder, QuitByDestructor, MutexHeld, GoneOnlyAtWakeup,
               ExitingAssert
<1>3. CASE ~(cur < numThreads_)
  <2>1. opc' = "gone" /\ cur' = cur
    BY <1>3 DEF Join, Owner
  <2>2. cur = numThreads_
    BY <1>0, <1>3
  <2> QED
    BY <1>1, <2>1, <2>2
       DEF IInv, TypeOK, LoopsUsable, Owned, Starting, LoopPointer, StartedInOrder,
               ExitingInOrder, QuitByDestructor, MutexHeld, GoneOnlyAtWakeup,
               ExitingAssert
<1> QED
  BY <1>2, <1>3

-----------------------------------------------------------------------------
(* The threads.                                                            *)

\* The thread has no loop yet ...
LEMMA SetLatchIInv ==
  ASSUME IInv, NEW i \in Pool, SetLatch(i)
  PROVE  IInv'
BY PoolAssumption
   DEF IInv, TypeOK, Pool, LoopsUsable, Owned, Starting, LoopPointer, StartedInOrder,
       ExitingInOrder, QuitByDestructor, MutexHeld, GoneOnlyAtWakeup, ExitingAssert,
       SetLatch, Thread, threadVars

\* ... takes its mutex_ ...
LEMMA ThreadLockIInv ==
  ASSUME IInv, NEW i \in Pool, ThreadLock(i)
  PROVE  IInv'
BY PoolAssumption
   DEF IInv, TypeOK, Pool, LoopsUsable, Owned, Starting, LoopPointer, StartedInOrder,
       ExitingInOrder, QuitByDestructor, MutexHeld, GoneOnlyAtWakeup, ExitingAssert,
       ThreadLock, Thread, threadVars

\* ... and publishes the loop it has constructed.
LEMMA PublishIInv ==
  ASSUME IInv, NEW i \in Pool, Publish(i)
  PROVE  IInv'
BY PoolAssumption
   DEF IInv, TypeOK, Pool, LoopsUsable, Owned, Starting, LoopPointer, StartedInOrder,
       ExitingInOrder, QuitByDestructor, MutexHeld, GoneOnlyAtWakeup, ExitingAssert,
       Publish, Thread, threadVars

\* quit_ = false forgets a quit, which LoopsUsable can only welcome.
LEMMA EnterLoopIInv ==
  ASSUME IInv, NEW i \in Pool, EnterLoop(i)
  PROVE  IInv'
BY PoolAssumption
   DEF IInv, TypeOK, Pool, LoopsUsable, Owned, Starting, LoopPointer, StartedInOrder,
       ExitingInOrder, QuitByDestructor, MutexHeld, GoneOnlyAtWakeup, ExitingAssert,
       EnterLoop, Thread, threadVars

\* The loop is left only after a quit: then exiting_ is set.
LEMMA LoopTestIInv ==
  ASSUME IInv, NEW i \in Pool, LoopTest(i)
  PROVE  IInv'
BY PoolAssumption
   DEF IInv, TypeOK, Pool, LoopsUsable, Owned, Starting, LoopPointer, StartedInOrder,
       ExitingInOrder, QuitByDestructor, MutexHeld, GoneOnlyAtWakeup, ExitingAssert,
       LoopTest, Thread, threadVars

\* The poll returns for the eventfd, or for another descriptor.
LEMMA LoopPollIInv ==
  ASSUME IInv, NEW i \in Pool, LoopPoll(i)
  PROVE  IInv'
BY PoolAssumption
   DEF IInv, TypeOK, Pool, LoopsUsable, Owned, Starting, LoopPointer, StartedInOrder,
       ExitingInOrder, QuitByDestructor, MutexHeld, GoneOnlyAtWakeup, ExitingAssert,
       LoopPoll, Thread, threadVars

\* Another descriptor became ready.
LEMMA LoopEventIInv ==
  ASSUME IInv, NEW i \in Pool, LoopEvent(i)
  PROVE  IInv'
BY PoolAssumption
   DEF IInv, TypeOK, Pool, LoopsUsable, Owned, Starting, LoopPointer, StartedInOrder,
       ExitingInOrder, QuitByDestructor, MutexHeld, GoneOnlyAtWakeup, ExitingAssert,
       LoopEvent, Thread, threadVars

\* assert(exiting_) holds, and the loop that goes is no longer one of Owned.
LEMMA ThreadEndsIInv ==
  ASSUME IInv, NEW i \in Pool, ThreadEnds(i)
  PROVE  IInv'
<1> USE PoolAssumption DEF Pool
<1>0. cur \in 1..numThreads_
  BY DEF IInv, TypeOK
<1>1. /\ tpc[i] = "left" /\ aborted = "none" /\ tpc' = [tpc EXCEPT ![i] = "ended"]
      /\ UNCHANGED <<opc, cur, mutex_, exiting_, quit_, wakeupFd_, heard, appQuit>>
  BY DEF ThreadEnds, Thread
<1>2. CASE exiting_[i]
  <2>1. loop_' = [loop_ EXCEPT ![i] = "destroyed"] /\ aborted' = "none"
    BY <1>1, <1>2 DEF ThreadEnds
  <2>2. LoopsUsable'
    BY <1>1, <1>2, <2>1 DEF IInv, TypeOK, LoopsUsable, Owned, ExitingInOrder, QuitByDestructor
  <2> QED
    BY <1>1, <1>2, <2>1, <2>2 DEF IInv, TypeOK, Starting, LoopPointer, StartedInOrder,
               ExitingInOrder, QuitByDestructor, MutexHeld, GoneOnlyAtWakeup,
               ExitingAssert
<1>3. CASE ~exiting_[i]
  <2>1. loop_' = loop_ /\ aborted' = "assert(exiting_)"
    BY <1>1, <1>3 DEF ThreadEnds
  <2>2. appQuit
    BY <1>1, <1>3 DEF IInv, QuitByDestructor
  <2> QED
    BY <1>1, <1>3, <2>1, <2>2
       DEF IInv, TypeOK, LoopsUsable, Owned, Starting, LoopPointer, StartedInOrder,
               ExitingInOrder, QuitByDestructor, MutexHeld, GoneOnlyAtWakeup,
               ExitingAssert
<1> QED
  BY <1>2, <1>3

-----------------------------------------------------------------------------

\* Every step of the pool preserves the invariant.
LEMMA NextIInv == IInv /\ [Next]_vars => IInv'
<1>1. ASSUME IInv, UNCHANGED vars PROVE IInv'
  <2> USE <1>1 DEF IInv, vars, threadVars
  <2>1. TypeOK' /\ MutexHeld'
    BY DEF TypeOK, MutexHeld
  <2>2. LoopsUsable'
    BY DEF LoopsUsable, Owned
  <2>3. LoopPointer' /\ StartedInOrder' /\ ExitingInOrder'
    BY DEF LoopPointer, StartedInOrder, ExitingInOrder
  <2>4. QuitByDestructor' /\ GoneOnlyAtWakeup' /\ ExitingAssert'
    BY DEF QuitByDestructor, GoneOnlyAtWakeup, ExitingAssert
  <2> QED
    BY <2>1, <2>2, <2>3, <2>4
<1>2. IInv /\ OwnerStep => IInv'
  BY ThreadStartIInv, ThreadStartedIInv, StartLoopLockIInv, StartLoopTestIInv, CondWaitIInv,
     SetExitingIInv, QuitStoreIInv, QuitWakeupIInv, JoinIInv DEF OwnerStep
<1>3. ASSUME IInv, NEW i \in Pool, ThreadStep(i) PROVE IInv'
  BY <1>3, SetLatchIInv, ThreadLockIInv, PublishIInv, EnterLoopIInv, LoopTestIInv,
     LoopPollIInv, ThreadEndsIInv DEF ThreadStep
<1> QED
  BY <1>1, <1>2, <1>3, SpuriousWakeupIInv, BeginDestroyIInv, LoopEventIInv, AppQuitIInv DEF Next

-----------------------------------------------------------------------------

\* The invariant holds in every state, for every size of the pool and every
\* interleaving of the owner and the threads.
THEOREM InvariantHolds == Spec => []IInv
BY InitIInv, NextIInv, PTL DEF Spec

\* The loops startLoop returned are there until their own EventLoopThread is
\* destroyed: getNextLoop hands out no dangling pointer.
THEOREM LoopsUsableHolds == Spec => []LoopsUsable
<1>1. IInv => LoopsUsable
  BY DEF IInv
<1> QED
  BY <1>1, InvariantHolds, PTL

\* threadFunc's assert(exiting_) fails only when the application quits a loop.
THEOREM ExitingAssertHolds == Spec => []ExitingAssert
<1>1. IInv => ExitingAssert
  BY DEF IInv
<1> QED
  BY <1>1, InvariantHolds, PTL

\* The destructor's quit is the one call that may use a loop that is gone, and
\* only for its wakeup.
THEOREM GoneOnlyAtWakeupHolds == Spec => []GoneOnlyAtWakeup
<1>1. IInv => GoneOnlyAtWakeup
  BY DEF IInv
<1> QED
  BY <1>1, InvariantHolds, PTL
=============================================================================
