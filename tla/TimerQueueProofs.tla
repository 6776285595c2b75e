-------------------------- MODULE TimerQueueProofs --------------------------
(***************************************************************************)
(* Proofs about TimerQueue for any addresses, intervals and bounds: its    *)
(* inductive invariant, that a cancelled timer never waits again, and that *)
(* timerfd_ is never left disarmed or late.                                *)
(*                                                                         *)
(* Consistent needs AddedOnce, or the functor that inserts a timer could   *)
(* leave a second one behind, and BatchInHandleRead, or handleRead could   *)
(* begin with a batch left over.  A cancelled id is kept out of the sets   *)
(* by CancelledRemembered: of the objects that live, only one of the batch *)
(* can have it, because no other has its sequence number (SequencesUnique),*)
(* and reset finds it in cancelingTimers_.  The timerfd needs no more than *)
(* the types: Earliest and Delay are a least and a greatest element, which *)
(* exist (LeastOfNat) because the sets and the clock hold numbers.         *)
(***************************************************************************)
EXTENDS TimerQueue, FiniteSetTheorems, TLAPS

\* What queueInLoop does to the functors.
LEMMA PendingOps ==
  ASSUME NEW q \in Seq(Functor), NEW f \in Functor
  PROVE  /\ Append(q, f) \in Seq(Functor)
         /\ ToSet(Append(q, f)) = ToSet(q) \cup {f}
         /\ Len(q) \in Nat /\ Len(Append(q, f)) = Len(q) + 1
         /\ DOMAIN q = 1..Len(q) /\ DOMAIN Append(q, f) = 1..(Len(q) + 1)
         /\ \A i \in 1..Len(q) : Append(q, f)[i] = q[i]
         /\ Append(q, f)[Len(q) + 1] = f
<1>1. /\ Append(q, f) \in Seq(Functor)
      /\ Len(q) \in Nat /\ Len(Append(q, f)) = Len(q) + 1
      /\ DOMAIN q = 1..Len(q) /\ DOMAIN Append(q, f) = 1..(Len(q) + 1)
      /\ \A i \in 1..Len(q) : Append(q, f)[i] = q[i]
      /\ Append(q, f)[Len(q) + 1] = f
  OBVIOUS
<1> DEFINE a == Append(q, f)
<1>2. DOMAIN a = DOMAIN q \cup {Len(q) + 1}
  BY <1>1
<1>3. \A i \in DOMAIN q : a[i] = q[i]
  BY <1>1
<1>4. a[Len(q) + 1] = f
  BY <1>1
<1> HIDE DEF a
<1>5. ToSet(a) = ToSet(q) \cup {f}
  BY <1>2, <1>3, <1>4 DEF ToSet
<1> QED
  BY <1>1, <1>5 DEF a

\* What is left of the functors when the first is taken.
LEMMA PendingHead ==
  ASSUME NEW q \in Seq(Functor), q # <<>>
  PROVE  /\ Head(q) \in Functor
         /\ Head(q) = q[1]
         /\ Tail(q) \in Seq(Functor)
         /\ ToSet(q) = ToSet(Tail(q)) \cup {Head(q)}
         /\ Len(q) \in Nat \ {0} /\ DOMAIN q = 1..Len(q)
         /\ DOMAIN Tail(q) = 1..(Len(q) - 1)
         /\ \A i \in 1..(Len(q) - 1) : Tail(q)[i] = q[i + 1]
<1>1. /\ Head(q) \in Functor
      /\ Head(q) = q[1]
      /\ Tail(q) \in Seq(Functor)
      /\ Len(q) \in Nat \ {0} /\ DOMAIN q = 1..Len(q)
      /\ DOMAIN Tail(q) = 1..(Len(q) - 1)
      /\ \A i \in 1..(Len(q) - 1) : Tail(q)[i] = q[i + 1]
  OBVIOUS
<1> DEFINE t == Tail(q)
<1>2. \A i \in DOMAIN t : i + 1 \in DOMAIN q /\ t[i] = q[i + 1]
  BY <1>1
<1>3. \A i \in DOMAIN q : i = 1 \/ (i - 1 \in DOMAIN t /\ q[i] = t[i - 1])
  BY <1>1
<1>4. 1 \in DOMAIN q /\ Head(q) = q[1]
  BY <1>1
<1> HIDE DEF t
<1>5. ToSet(q) = ToSet(t) \cup {Head(q)}
  BY <1>2, <1>3, <1>4 DEF ToSet
<1> QED
  BY <1>1, <1>5 DEF t

\* An empty queue, disarmed.
LEMMA InitIInv == Init => IInv /\ ArmedInTime
<1> SUFFICES ASSUME Init PROVE IInv /\ ArmedInTime
  OBVIOUS
<1> USE TimerQueueAssumption DEF Init
<1>1. TypeOK
  <2>1. clock \in Time /\ now \in Time
    BY DEF Time
  <2>2. heap \in [Addrs -> TimerObject \cup {Free}]
    OBVIOUS
  <2>3. s_numCreated_ \in 0..MaxTimers /\ pending \in Seq(Functor)
    OBVIOUS
  <2> QED
    BY <2>1, <2>2, <2>3 DEF TypeOK
<1>2. Allocated = {} /\ Queued = {} /\ Waiting = {}
  <2>1. Allocated = {} /\ Waiting = {}
    BY DEF Allocated, Waiting
  <2>2. ToSet(pending) = {}
    BY DEF ToSet
  <2> QED
    BY <2>1, <2>2 DEF Queued
<1>3. Consistent
  BY <1>2 DEF Consistent
<1> QED
  BY <1>1, <1>2, <1>3 DEF IInv, AddedOnce, BatchInHandleRead, SequencesUnique, CancelledRemembered,
     ArmedInTime, Armed, NotLate

\* Free is no Timer object.
LEMMA FreeIsNone == Free \notin TimerObject
BY DEF Free, TimerObject, Seqs

\* addTimerInLoop puts an object that does not wait yet into both sets.
LEMMA InsertInSets ==
  ASSUME TypeOK, Consistent, NEW a \in Addrs, NEW o \in TimerObject,
         a \notin Waiting, addTimerInLoop(a, o), heap' = [heap EXCEPT ![a] = o]
  PROVE  /\ Waiting' = Waiting \cup {a}
         /\ timers_' = {EntryOf(x) : x \in Waiting}'
         /\ activeTimers_' = {IdOf(x) : x \in Waiting}'
<1> USE DEF TypeOK
<1>1. /\ timers_' = timers_ \cup {<<o.expiration, a>>}
      /\ activeTimers_' = activeTimers_ \cup {<<a, o.sequence>>}
  BY DEF addTimerInLoop
<1>2. Waiting' = Waiting \cup {a}
  <2> DEFINE new == <<o.expiration, a>>
  <2>1. new[2] = a
    OBVIOUS
  <2> HIDE DEF new
  <2>2. timers_' = timers_ \cup {new}
    BY <1>1 DEF new
  <2> QED
    BY <2>1, <2>2 DEF Waiting
<1>3. heap'[a] = o /\ \A x \in Waiting : x \in Addrs /\ heap'[x] = heap[x]
  BY DEF Waiting
<1>4. timers_' = {EntryOf(x) : x \in Waiting}'
  BY <1>1, <1>2, <1>3 DEF Consistent, EntryOf
<1>5. activeTimers_' = {IdOf(x) : x \in Waiting}'
  BY <1>1, <1>2, <1>3 DEF Consistent, IdOf
<1> QED
  BY <1>2, <1>4, <1>5

\* Numbers have a least one: the segments 0..n-1 below them are ordered by
\* strict inclusion, which is well founded on finite sets.
LEMMA LeastOfNat ==
  ASSUME NEW S \in SUBSET Nat, S # {}
  PROVE  /\ Min(S) \in S
         /\ \A n \in S : Min(S) <= n
<1> DEFINE Below(n) == 0..n-1
           Segments == {Below(n) : n \in S}
<1>1. Segments \subseteq FiniteSubsetsOf(Nat) /\ Segments # {}
  <2>1. \A n \in Nat : IsFiniteSet(0..n-1) /\ 0..n-1 \subseteq Nat
    BY FS_Interval
  <2> QED
    BY <2>1 DEF FiniteSubsetsOf
<1> HIDE DEF Segments
<1>2. PICK low \in Segments : \A other \in Segments : <<other, low>> \notin StrictSubsetOrdering(Nat)
  BY <1>1, FS_StrictSubsetOrderingWellFounded, WFMin
<1>3. PICK least \in S : low = 0..least-1
  BY DEF Segments
<1>4. ASSUME NEW n \in S PROVE least <= n
  <2>1. SUFFICES ASSUME n < least PROVE FALSE
    OBVIOUS
  <2>2. 0..n-1 \in Segments
    BY DEF Segments
  <2>3. 0..n-1 \subseteq 0..least-1 /\ 0..n-1 # 0..least-1
    BY <2>1
  <2>4. 0..n-1 \in SUBSET Nat /\ 0..least-1 \in SUBSET Nat
    OBVIOUS
  <2>5. <<0..n-1, 0..least-1>> \in StrictSubsetOrdering(Nat)
    BY <2>3, <2>4 DEF StrictSubsetOrdering
  <2> QED
    BY <1>2, <1>3, <2>2, <2>5
<1> QED
  BY <1>4 DEF Min

\* The earliest expiration is that of an entry, and no entry is earlier.
LEMMA EarliestIsLeast ==
  ASSUME NEW entries \in SUBSET (Nat \X Addrs), entries # {}
  PROVE  /\ Earliest(entries) \in Nat
         /\ \E e \in entries : e[1] = Earliest(entries)
         /\ \A e \in entries : Earliest(entries) <= e[1]
<1> DEFINE S == {e[1] : e \in entries}
<1>1. S \in SUBSET Nat /\ S # {}
  OBVIOUS
<1>2. Min(S) \in S /\ \A n \in S : Min(S) <= n
  <2> HIDE DEF S
  <2> QED BY <1>1, LeastOfNat
<1> QED
  BY <1>1, <1>2 DEF Earliest

\* The timerfd is set for MinDelay from now at the soonest.
LEMMA DelayIsMax ==
  ASSUME NEW when \in Int, clock \in Int
  PROVE  /\ Delay(when) \in Nat
         /\ Delay(when) >= MinDelay /\ Delay(when) >= when - clock
         /\ Delay(when) = MinDelay \/ Delay(when) = when - clock
<1> DEFINE S == {when - clock, MinDelay}
<1>1. \E x \in S : \A y \in S : x >= y
  BY TimerQueueAssumption
<1>2. Max(S) \in S /\ \A y \in S : Max(S) >= y
  BY <1>1 DEF Max
<1> QED
  BY <1>2, TimerQueueAssumption DEF Delay

-----------------------------------------------------------------------------

\* What waits is allocated and in both sets.
LEMMA WaitingTimers ==
  ASSUME TypeOK, Consistent, NEW a \in Waiting
  PROVE  /\ a \in Addrs /\ heap[a] \in TimerObject /\ heap[a] # Free
         /\ EntryOf(a) \in timers_ /\ IdOf(a) \in activeTimers_
<1>1. a \in Addrs
  BY DEF TypeOK, Waiting
<1>2. a \in Allocated
  BY DEF Consistent
<1> QED
  BY <1>1, <1>2 DEF TypeOK, Consistent, Allocated

\* An address waits when its entry is in timers_.
LEMMA EntriesOf ==
  ASSUME Consistent, NEW e \in timers_
  PROVE  e[2] \in Waiting /\ e = EntryOf(e[2]) /\ e[1] = heap[e[2]].expiration
<1>1. e[2] \in Waiting
  BY DEF Waiting
<1>2. PICK a \in Waiting : e = EntryOf(a)
  BY DEF Consistent
<1>3. e[2] = a /\ e[1] = heap[a].expiration
  BY <1>2 DEF EntryOf
<1> QED
  BY <1>1, <1>2, <1>3

\* cancelInLoop: a timer that waits is deleted; the id of one that does not, as
\* one of the running batch, is remembered while the batch runs.
LEMMA CancelInSets ==
  ASSUME IInv, NEW id \in TimerIds, cancelInLoop(id),
         UNCHANGED <<s_numCreated_, callingExpiredTimers_, expired, pc>>,
         Queued' = Queued
  PROVE  /\ Consistent'
         /\ SequencesUnique'
         /\ CancelledRemembered'
         /\ heap' \in [Addrs -> TimerObject \cup {Free}]
         /\ cancelled' \subseteq Seqs
         /\ cancelingTimers_' \subseteq TimerIds
         /\ timers_' \subseteq timers_
         /\ activeTimers_' \subseteq activeTimers_
<1> DEFINE a == id[1]
<1>0. TypeOK /\ Consistent /\ SequencesUnique /\ CancelledRemembered /\ BatchInHandleRead
  BY DEF IInv
<1>1. a \in Addrs /\ id[2] \in Seqs /\ id = <<a, id[2]>>
  BY DEF TimerIds
<1>2. CASE id \in activeTimers_
  <2>1. /\ timers_' = timers_ \ {EntryOf(a)}
        /\ activeTimers_' = activeTimers_ \ {id}
        /\ heap' = [heap EXCEPT ![a] = Free]
        /\ cancelled' = cancelled \cup {id[2]}
        /\ cancelingTimers_' = cancelingTimers_
    BY <1>2 DEF cancelInLoop
  <2>2. a \in Waiting /\ id = IdOf(a) /\ id[2] = heap[a].sequence
    <3>1. PICK x \in Waiting : id = IdOf(x)
      BY <1>0, <1>2 DEF Consistent
    <3> QED
      BY <3>1 DEF IdOf
  <2>3. heap' \in [Addrs -> TimerObject \cup {Free}] /\ heap'[a] = Free
        /\ \A x \in Addrs \ {a} : heap'[x] = heap[x]
    BY <1>0, <1>1, <2>1 DEF TypeOK
  <2>4. Waiting' = Waiting \ {a}
    <3>1. \A e \in timers_ : e # EntryOf(a) <=> e[2] # a
      BY <1>0, EntriesOf DEF EntryOf
    <3>2. \A x \in Waiting : \E e \in timers_ : e[2] = x
      BY DEF Waiting
    <3> QED
      BY <3>1, <3>2, <2>1 DEF Waiting
  <2>5. Allocated' = Allocated \ {a}
    BY <2>3, <1>1 DEF Allocated
  <2>6. a \in Allocated /\ a \notin Queued /\ a \notin expired
    BY <1>0, <2>2 DEF Consistent
  <2>7. \A x \in Waiting \ {a} : /\ x \in Addrs /\ heap'[x] = heap[x]
                                 /\ EntryOf(x) # EntryOf(a) /\ IdOf(x) # id
    <3>1. \A x \in Waiting : x \in Addrs
      BY <1>0, WaitingTimers
    <3>2. \A x \in Waiting \ {a} : heap'[x] = heap[x]
      BY <2>3, <3>1
    <3>3. \A x : x # a => EntryOf(x) # EntryOf(a) /\ IdOf(x) # IdOf(a)
      BY DEF EntryOf, IdOf
    <3> HIDE DEF a
    <3> QED
      BY <2>2, <3>1, <3>2, <3>3
  <2>8. timers_' = {EntryOf(x) : x \in Waiting}'
    BY <1>0, <2>1, <2>4, <2>7 DEF Consistent, EntryOf
  <2>9. activeTimers_' = {IdOf(x) : x \in Waiting}'
    BY <1>0, <2>1, <2>2, <2>4, <2>7 DEF Consistent, IdOf
  <2>10. Consistent'
    BY <1>0, <2>4, <2>5, <2>6, <2>8, <2>9 DEF Consistent
  <2>11. SequencesUnique'
    BY <1>0, <2>1, <2>2, <2>3, <2>5, <2>6 DEF SequencesUnique, Allocated
  <2>12. CancelledRemembered'
    BY <1>0, <2>1, <2>2, <2>3, <2>5, <2>6 DEF SequencesUnique, CancelledRemembered, IdOf, Allocated
  <2> QED
    BY <1>0, <1>1, <2>1, <2>3, <2>10, <2>11, <2>12 DEF TypeOK
<1>3. CASE id \notin activeTimers_
  <2>1. /\ UNCHANGED <<timers_, activeTimers_, heap>>
        /\ cancelingTimers_' = IF callingExpiredTimers_
                               THEN cancelingTimers_ \cup {id} ELSE cancelingTimers_
        /\ cancelled' = IF id[1] \in expired /\ IdOf(id[1]) = id
                        THEN cancelled \cup {id[2]} ELSE cancelled
    BY <1>3 DEF cancelInLoop
  <2>2. Allocated' = Allocated /\ Waiting' = Waiting
    BY <2>1 DEF Allocated, Waiting
  <2>3. Consistent'
    BY <1>0, <2>1, <2>2 DEF Consistent, EntryOf, IdOf
  <2>4. CASE a \in expired /\ IdOf(a) = id
    <3>1. a \in Allocated /\ id[2] = heap[a].sequence
      BY <1>0, <2>4 DEF Consistent, IdOf
    <3>2. cancelled' = cancelled \cup {id[2]} /\ cancelingTimers_' = cancelingTimers_ \cup {id}
      BY <1>0, <2>1, <2>4 DEF BatchInHandleRead
    <3>3. SequencesUnique'
      BY <1>0, <2>1, <2>2, <3>1, <3>2 DEF SequencesUnique
    <3>4. CancelledRemembered'
      BY <1>0, <2>1, <2>2, <2>4, <3>1, <3>2 DEF SequencesUnique, CancelledRemembered, IdOf
    <3> QED
      BY <1>0, <1>1, <2>1, <2>3, <3>2, <3>3, <3>4 DEF TypeOK
  <2>5. CASE ~(a \in expired /\ IdOf(a) = id)
    <3>1. cancelled' = cancelled /\ cancelingTimers_ \subseteq cancelingTimers_'
          /\ cancelingTimers_' \subseteq cancelingTimers_ \cup {id}
      BY <2>1, <2>5
    <3>2. SequencesUnique' /\ CancelledRemembered'
      BY <1>0, <2>1, <2>2, <3>1 DEF SequencesUnique, CancelledRemembered, IdOf
    <3> QED
      BY <1>0, <1>1, <2>1, <2>3, <3>1, <3>2 DEF TypeOK
  <2> QED
    BY <2>4, <2>5
<1> QED
  BY <1>2, <1>3

-----------------------------------------------------------------------------

\* What a step that leaves the objects, the sets and the functors alone keeps.
LEMMA Frame ==
  ASSUME IInv,
         UNCHANGED <<heap, s_numCreated_, setVars, expired, pending, cancelled>>
  PROVE  (Consistent /\ AddedOnce /\ SequencesUnique /\ CancelledRemembered)'
<1> USE DEF IInv, setVars
<1>1. Allocated' = Allocated /\ Queued' = Queued /\ Waiting' = Waiting
  BY DEF Allocated, Queued, Waiting
<1>2. Consistent'
  BY <1>1 DEF Consistent, EntryOf, IdOf
<1>3. AddedOnce'
  BY DEF AddedOnce
<1>4. SequencesUnique' /\ CancelledRemembered'
  BY <1>1 DEF SequencesUnique, CancelledRemembered, IdOf
<1> QED
  BY <1>2, <1>3, <1>4

\* A new Timer object at a free address.
LEMMA ConstructObject ==
  ASSUME IInv, NEW a \in Addrs, NEW when \in Nat, NEW interval \in Intervals,
         Construct(a, NewTimer(when, interval))
  PROVE  /\ NewTimer(when, interval) \in TimerObject
         /\ NewTimer(when, interval).sequence = s_numCreated_
         /\ s_numCreated_ \in Seqs
         /\ heap' = [heap EXCEPT ![a] = NewTimer(when, interval)]
         /\ heap' \in [Addrs -> TimerObject \cup {Free}]
         /\ s_numCreated_' = s_numCreated_ + 1 /\ s_numCreated_' \in 0..MaxTimers
         /\ a \notin Allocated
         /\ Allocated' = Allocated \cup {a}
<1> DEFINE o == NewTimer(when, interval)
<1>1. s_numCreated_ \in 0..MaxTimers /\ s_numCreated_ < MaxTimers /\ heap[a] = Free
      /\ heap' = [heap EXCEPT ![a] = o] /\ s_numCreated_' = s_numCreated_ + 1
  BY DEF IInv, TypeOK, Construct
<1>2. s_numCreated_ \in Seqs /\ s_numCreated_' \in 0..MaxTimers
  BY <1>1, TimerQueueAssumption DEF Seqs
<1>3. o \in TimerObject /\ o.sequence = s_numCreated_
  BY <1>2 DEF NewTimer, TimerObject
<1> HIDE DEF o
<1>4. heap \in [Addrs -> TimerObject \cup {Free}]
  BY DEF IInv, TypeOK
<1>5. heap' \in [Addrs -> TimerObject \cup {Free}] /\ heap'[a] = o
      /\ \A x \in Addrs \ {a} : heap'[x] = heap[x]
  BY <1>1, <1>3, <1>4
<1>6. a \notin Allocated /\ Allocated' = Allocated \cup {a}
  BY <1>1, <1>3, <1>5, FreeIsNone DEF Allocated
<1> QED
  BY <1>1, <1>2, <1>3, <1>5, <1>6 DEF o

\* Its sequence number is a new one.
LEMMA ConstructSequence ==
  ASSUME IInv, NEW a \in Addrs, NEW when \in Nat, NEW interval \in Intervals,
         Construct(a, NewTimer(when, interval)),
         UNCHANGED <<cancelled, expired, cancelingTimers_>>
  PROVE  SequencesUnique' /\ CancelledRemembered'
<1> DEFINE o == NewTimer(when, interval)
<1>1. /\ o.sequence = s_numCreated_ /\ s_numCreated_ \in Nat
      /\ heap' = [heap EXCEPT ![a] = o]
      /\ s_numCreated_' = s_numCreated_ + 1
      /\ a \notin Allocated
      /\ Allocated' = Allocated \cup {a}
  BY ConstructObject DEF Seqs
<1> HIDE DEF o
<1>2. heap \in [Addrs -> TimerObject \cup {Free}] /\ cancelled \subseteq Seqs
  BY DEF IInv, TypeOK
<1>3. heap'[a] = o /\ \A x \in Allocated : heap'[x] = heap[x]
  BY <1>1, <1>2 DEF Allocated
<1>4. /\ \A x \in Allocated : heap[x].sequence < s_numCreated_ /\ heap[x].sequence \in Int
      /\ \A s \in cancelled : s < s_numCreated_ /\ s \in Int
  <2>1. \A x \in Allocated : heap[x] \in TimerObject
    BY <1>2 DEF Allocated
  <2>2. \A x \in Allocated : heap[x].sequence \in Seqs
    BY <2>1 DEF TimerObject
  <2> QED
    BY <1>2, <2>2 DEF IInv, SequencesUnique, Seqs
<1>5. SequencesUnique'
  <2>1. \A x \in Allocated' : heap'[x].sequence < s_numCreated_'
    BY <1>1, <1>3, <1>4
  <2>2. \A x, y \in Allocated' : heap'[x].sequence = heap'[y].sequence => x = y
    BY <1>1, <1>3, <1>4 DEF IInv, SequencesUnique
  <2>3. \A s \in cancelled' : s < s_numCreated_'
    BY <1>1, <1>4
  <2> QED
    BY <2>1, <2>2, <2>3 DEF SequencesUnique
<1>6. CancelledRemembered'
  <2>1. s_numCreated_ \notin cancelled
    BY <1>1, <1>4
  <2> QED
    BY <1>1, <1>3, <2>1 DEF IInv, CancelledRemembered, IdOf
<1> QED
  BY <1>5, <1>6

\* addTimer in the loop thread: a new object, inserted at once.
LEMMA AddTimerIInv ==
  ASSUME IInv, NEW a \in Addrs, NEW when \in Time, NEW interval \in Intervals,
         AddTimer(a, when, interval)
  PROVE  IInv'
<1> DEFINE o == NewTimer(when, interval)
<1>0. when \in Nat /\ TypeOK /\ Consistent
  BY DEF IInv, Time
<1>1. /\ Construct(a, o) /\ addTimerInLoop(a, o) /\ issued' = issued \cup {<<a, o.sequence>>}
      /\ UNCHANGED <<clock, stepped, active, cancelingTimers_, readVars, pending, unread,
                     cancelled, finished, aborted>>
  BY DEF AddTimer
<1>2. /\ o \in TimerObject /\ o.sequence \in Seqs
      /\ heap' = [heap EXCEPT ![a] = o]
      /\ heap' \in [Addrs -> TimerObject \cup {Free}]
      /\ s_numCreated_' \in 0..MaxTimers
      /\ a \notin Allocated
      /\ Allocated' = Allocated \cup {a}
  BY <1>0, <1>1, ConstructObject
<1>3. a \notin Waiting
  BY <1>0, <1>2 DEF Consistent
<1> HIDE DEF o
<1>4. /\ Waiting' = Waiting \cup {a}
      /\ timers_' = {EntryOf(x) : x \in Waiting}'
      /\ activeTimers_' = {IdOf(x) : x \in Waiting}'
  BY <1>0, <1>1, <1>2, <1>3, InsertInSets
<1>5. Queued' = Queued
  BY <1>1 DEF Queued
<1>6. Consistent'
  BY <1>0, <1>1, <1>2, <1>4, <1>5 DEF Consistent, readVars
<1>7. SequencesUnique' /\ CancelledRemembered'
  BY <1>0, <1>1, ConstructSequence DEF o, readVars
<1>8. AddedOnce' /\ BatchInHandleRead'
  BY <1>1 DEF IInv, AddedOnce, BatchInHandleRead, readVars
<1>9. timerfd_' \in Nat \cup {Disarmed}
  <2>1. o.expiration \in Int /\ clock \in Int
    BY <1>0, <1>2 DEF TimerObject, TypeOK, Time
  <2> QED
    BY <1>0, <1>1, <2>1, DelayIsMax DEF addTimerInLoop, TypeOK
<1>10. /\ timers_' \subseteq Nat \X Addrs
       /\ activeTimers_' \subseteq TimerIds
       /\ issued' \subseteq TimerIds
  BY <1>0, <1>1, <1>2 DEF addTimerInLoop, TypeOK, TimerIds, TimerObject
<1>11. TypeOK'
  BY <1>0, <1>1, <1>2, <1>9, <1>10 DEF TypeOK, readVars
<1> QED
  BY <1>6, <1>7, <1>8, <1>11 DEF IInv

\* An add functor holds its address.
LEMMA AddFunctors ==
  /\ \A a \in Addrs : AddOf(a) \in Functor /\ AddOf(a).op = "add" /\ AddOf(a).timer = a
  /\ \A f \in Functor : f.op = "add" => f.timer \in Addrs /\ f = AddOf(f.timer)
  /\ \A f \in Functor : f.op = "cancel" => f.id \in TimerIds
BY DEF Functor, AddOf

\* addTimer in another thread: the new object belongs to its functor.
LEMMA AddTimerFromAfarIInv ==
  ASSUME IInv, NEW a \in Addrs, NEW when \in Time, NEW interval \in Intervals,
         AddTimerFromAfar(a, when, interval)
  PROVE  IInv'
<1>0. when \in Nat /\ TypeOK /\ Consistent
  BY DEF IInv, Time
<1>1. /\ Construct(a, NewTimer(when, interval))
      /\ pending' = Append(pending, AddOf(a))
      /\ unread' = unread \cup {a}
      /\ UNCHANGED <<clockVars, issued, setVars, readVars, cancelled, finished, aborted>>
  BY DEF AddTimerFromAfar, AddOf
<1>2. /\ heap' \in [Addrs -> TimerObject \cup {Free}]
      /\ \A x \in Addrs \ {a} : heap'[x] = heap[x]
      /\ s_numCreated_' \in 0..MaxTimers
      /\ a \notin Allocated
      /\ Allocated' = Allocated \cup {a}
  BY <1>0, <1>1, ConstructObject DEF TypeOK
<1>3. /\ pending' \in Seq(Functor)
      /\ ToSet(pending') = ToSet(pending) \cup {AddOf(a)}
  BY <1>0, <1>1, AddFunctors, PendingOps DEF TypeOK
<1>4. Queued' = Queued \cup {a}
  BY <1>3, AddFunctors DEF Queued
<1>5. a \notin Queued /\ a \notin expired /\ a \notin Waiting
  BY <1>0, <1>2 DEF Consistent
<1>6. Waiting' = Waiting /\ \A x \in Waiting : heap'[x] = heap[x]
  BY <1>0, <1>1, <1>2, <1>5, WaitingTimers DEF Waiting, setVars
<1>7. Consistent'
  BY <1>0, <1>1, <1>2, <1>4, <1>5, <1>6 DEF Consistent, EntryOf, IdOf, setVars, readVars
<1>8. SequencesUnique' /\ CancelledRemembered'
  BY <1>0, <1>1, ConstructSequence DEF setVars, readVars
<1>9. AddedOnce'
  <2>1. /\ Len(pending) \in Nat /\ DOMAIN pending = 1..Len(pending)
        /\ DOMAIN pending' = 1..(Len(pending) + 1)
        /\ \A i \in 1..Len(pending) : pending'[i] = pending[i]
        /\ pending'[Len(pending) + 1] = AddOf(a)
    BY <1>0, <1>1, AddFunctors, PendingOps DEF TypeOK
  <2>2. \A i \in 1..Len(pending) : pending[i] # AddOf(a)
    BY <1>5, <2>1 DEF Queued, ToSet
  <2> QED
    BY <2>1, <2>2 DEF IInv, AddedOnce
<1>10. BatchInHandleRead'
  BY <1>1 DEF IInv, BatchInHandleRead, readVars
<1>11. TypeOK'
  BY <1>0, <1>1, <1>2, <1>3 DEF TypeOK, clockVars, setVars, readVars
<1> QED
  BY <1>7, <1>8, <1>9, <1>10, <1>11 DEF IInv

\* The late read only adds an id to those the application may pass to cancel.
LEMMA ReadSequenceIInv == ASSUME IInv, NEW a \in Addrs, ReadSequence(a) PROVE IInv'
<1>1. /\ UNCHANGED <<clockVars, heap, s_numCreated_, setVars, readVars, pending, cancelled,
                     finished, aborted>>
      /\ unread' = unread \ {a}
      /\ \E s \in Seqs : issued' = issued \cup {<<a, s>>}
  BY DEF ReadSequence
<1>2. (Consistent /\ AddedOnce /\ SequencesUnique /\ CancelledRemembered)'
  BY <1>1, Frame DEF readVars
<1>3. BatchInHandleRead' /\ TypeOK'
  BY <1>1 DEF IInv, BatchInHandleRead, TypeOK, TimerIds, clockVars, setVars, readVars
<1> QED
  BY <1>2, <1>3 DEF IInv

\* cancel in the loop thread, of any id that was returned.
LEMMA CancelIInv == ASSUME IInv, NEW id \in issued, Cancel(id) PROVE IInv'
<1>0. TypeOK /\ id \in TimerIds
  BY DEF IInv, TypeOK
<1>1. /\ cancelInLoop(id)
      /\ UNCHANGED <<clockVars, s_numCreated_, issued, unread, readVars, pending, finished,
                     aborted>>
  BY DEF Cancel
<1>2. Queued' = Queued
  BY <1>1 DEF Queued
<1>3. /\ Consistent' /\ SequencesUnique' /\ CancelledRemembered'
      /\ heap' \in [Addrs -> TimerObject \cup {Free}]
      /\ cancelled' \subseteq Seqs
      /\ cancelingTimers_' \subseteq TimerIds
      /\ timers_' \subseteq timers_
      /\ activeTimers_' \subseteq activeTimers_
  BY <1>0, <1>1, <1>2, CancelInSets DEF readVars
<1>4. TypeOK'
  BY <1>0, <1>1, <1>3 DEF TypeOK, clockVars, readVars
<1>5. AddedOnce' /\ BatchInHandleRead'
  BY <1>1 DEF IInv, AddedOnce, BatchInHandleRead, readVars
<1> QED
  BY <1>3, <1>4, <1>5 DEF IInv

\* cancel in another thread: a functor that owns no object.
LEMMA CancelFromAfarIInv == ASSUME IInv, NEW id \in issued, CancelFromAfar(id) PROVE IInv'
<1> DEFINE f == [op |-> "cancel", id |-> id]
<1>0. TypeOK /\ Consistent /\ f \in Functor /\ f.op = "cancel"
  BY DEF IInv, TypeOK, Functor
<1>1. /\ pending' = Append(pending, f)
      /\ UNCHANGED <<clockVars, objectVars, setVars, readVars, cancelled, finished, aborted>>
  BY DEF CancelFromAfar
<1> HIDE DEF f
<1>2. /\ pending' \in Seq(Functor)
      /\ ToSet(pending') = ToSet(pending) \cup {f}
      /\ Len(pending) \in Nat /\ DOMAIN pending = 1..Len(pending)
      /\ DOMAIN pending' = 1..(Len(pending) + 1)
      /\ \A i \in 1..Len(pending) : pending'[i] = pending[i]
      /\ pending'[Len(pending) + 1] = f
  BY <1>0, <1>1, PendingOps DEF TypeOK
<1>3. Queued' = Queued /\ Allocated' = Allocated /\ Waiting' = Waiting
  <2>1. \A a \in Addrs : AddOf(a) # f
    BY <1>0, AddFunctors
  <2> QED
    BY <1>1, <1>2, <2>1 DEF Queued, Allocated, Waiting, objectVars, setVars
<1>4. Consistent' /\ SequencesUnique' /\ CancelledRemembered'
  BY <1>1, <1>3 DEF IInv, Consistent, SequencesUnique, CancelledRemembered, EntryOf, IdOf,
     objectVars, setVars, readVars
<1>5. AddedOnce'
  BY <1>0, <1>2 DEF IInv, AddedOnce
<1>6. BatchInHandleRead' /\ TypeOK'
  BY <1>0, <1>1, <1>2 DEF IInv, BatchInHandleRead, TypeOK, clockVars, objectVars, setVars, readVars
<1> QED
  BY <1>4, <1>5, <1>6 DEF IInv

\* The functor at the front of the queue is taken out of it.
LEMMA TakeFunctor ==
  ASSUME IInv, pending # <<>>, pending' = Tail(pending)
  PROVE  /\ pending' \in Seq(Functor)
         /\ AddedOnce'
         /\ Head(pending) \in Functor
         /\ Head(pending).op = "add" =>
              /\ Head(pending).timer \in Queued
              /\ Queued' = Queued \ {Head(pending).timer}
         /\ Head(pending).op = "cancel" => Queued' = Queued
<1> DEFINE f == Head(pending)
<1>1. /\ f \in Functor /\ f = pending[1]
      /\ pending' \in Seq(Functor)
      /\ ToSet(pending) = ToSet(pending') \cup {f}
      /\ Len(pending) \in Nat \ {0} /\ DOMAIN pending = 1..Len(pending)
      /\ DOMAIN pending' = 1..(Len(pending) - 1)
      /\ \A i \in 1..(Len(pending) - 1) : pending'[i] = pending[i + 1]
  BY PendingHead DEF IInv, TypeOK
<1> HIDE DEF f
<1>2. AddedOnce'
  <2>1. ASSUME NEW i \in DOMAIN pending', NEW j \in DOMAIN pending',
               pending'[i].op = "add", pending'[i] = pending'[j]
        PROVE  i = j
    <3>1. i + 1 \in DOMAIN pending /\ j + 1 \in DOMAIN pending
      BY <1>1
    <3>2. pending[i + 1].op = "add" /\ pending[i + 1] = pending[j + 1]
      BY <1>1, <2>1
    <3>3. i + 1 = j + 1
      BY <3>1, <3>2 DEF IInv, AddedOnce
    <3> QED
      BY <1>1, <3>3
  <2> QED
    BY <2>1 DEF AddedOnce
<1>3. ASSUME f.op = "add" PROVE f.timer \in Queued /\ Queued' = Queued \ {f.timer}
  <2>1. f.timer \in Addrs /\ f = AddOf(f.timer)
    BY <1>1, <1>3, AddFunctors
  <2>2. f \in ToSet(pending)
    BY <1>1
  <2>3. f \notin ToSet(pending')
    <3>1. SUFFICES ASSUME NEW i \in DOMAIN pending', pending'[i] = f PROVE FALSE
      BY DEF ToSet
    <3>2. i + 1 \in DOMAIN pending /\ 1 \in DOMAIN pending /\ pending[i + 1] = pending[1]
      BY <1>1, <3>1
    <3>3. i + 1 = 1
      BY <1>1, <1>3, <3>1, <3>2 DEF IInv, AddedOnce
    <3> QED
      BY <1>1, <3>3
  <2>4. \A a \in Addrs : AddOf(a) = f => a = f.timer
    BY AddFunctors
  <2> QED
    BY <1>1, <2>1, <2>2, <2>3, <2>4 DEF Queued
<1>4. ASSUME f.op = "cancel" PROVE Queued' = Queued
  <2>1. \A a \in Addrs : AddOf(a) # f
    BY <1>4, AddFunctors
  <2> QED
    BY <1>1, <2>1 DEF Queued
<1> QED
  BY <1>1, <1>2, <1>3, <1>4 DEF f

\* The object passes from the functor to the sets.
LEMMA RunPendingAddIInv == IInv /\ RunPendingAdd => IInv'
<1> SUFFICES ASSUME IInv, RunPendingAdd PROVE IInv'
  OBVIOUS
<1> DEFINE a == Head(pending).timer
<1>0. TypeOK /\ Consistent
  BY DEF IInv
<1>1. /\ pending # <<>> /\ Head(pending).op = "add"
      /\ addTimerInLoop(a, heap[a]) /\ pending' = Tail(pending)
      /\ UNCHANGED <<clock, stepped, active, objectVars, cancelingTimers_, readVars,
                     cancelled, finished, aborted>>
  BY DEF RunPendingAdd
<1>2. /\ pending' \in Seq(Functor) /\ AddedOnce'
      /\ a \in Queued /\ Queued' = Queued \ {a}
  BY <1>1, TakeFunctor
<1> HIDE DEF a
<1>3. a \in Addrs /\ heap[a] \in TimerObject /\ a \notin Waiting /\ a \notin expired
  BY <1>0, <1>2 DEF Consistent, TypeOK, Queued, Allocated
<1>4. heap' = [heap EXCEPT ![a] = heap[a]]
  BY <1>0, <1>1 DEF TypeOK, objectVars
<1>5. /\ Waiting' = Waiting \cup {a}
      /\ timers_' = {EntryOf(x) : x \in Waiting}'
      /\ activeTimers_' = {IdOf(x) : x \in Waiting}'
  BY <1>0, <1>1, <1>3, <1>4, InsertInSets
<1>6. Allocated' = Allocated
  BY <1>1 DEF Allocated, objectVars
<1>7. Consistent'
  BY <1>0, <1>1, <1>2, <1>3, <1>5, <1>6 DEF Consistent, readVars
<1>8. SequencesUnique' /\ CancelledRemembered' /\ BatchInHandleRead'
  BY <1>1, <1>6 DEF IInv, SequencesUnique, CancelledRemembered, BatchInHandleRead, IdOf,
     objectVars, readVars
<1>9. timerfd_' \in Nat \cup {Disarmed}
  <2>1. heap[a].expiration \in Int /\ clock \in Int
    BY <1>0, <1>3 DEF TimerObject, TypeOK, Time
  <2> QED
    BY <1>0, <1>1, <2>1, DelayIsMax DEF addTimerInLoop, TypeOK
<1>10. timers_' \subseteq Nat \X Addrs /\ activeTimers_' \subseteq TimerIds
  BY <1>0, <1>1, <1>3 DEF addTimerInLoop, TypeOK, TimerIds, TimerObject
<1>11. TypeOK'
  BY <1>0, <1>1, <1>2, <1>9, <1>10 DEF TypeOK, objectVars, readVars
<1> QED
  BY <1>2, <1>7, <1>8, <1>11 DEF IInv

\* The functor of cancel is taken and its id cancelled.
LEMMA RunPendingCancelIInv == IInv /\ RunPendingCancel => IInv'
<1> SUFFICES ASSUME IInv, RunPendingCancel PROVE IInv'
  OBVIOUS
<1> DEFINE id == Head(pending).id
<1>0. TypeOK
  BY DEF IInv
<1>1. /\ pending # <<>> /\ Head(pending).op = "cancel"
      /\ cancelInLoop(id) /\ pending' = Tail(pending)
      /\ UNCHANGED <<clockVars, s_numCreated_, issued, unread, readVars, finished, aborted>>
  BY DEF RunPendingCancel
<1>2. /\ pending' \in Seq(Functor) /\ AddedOnce'
      /\ Queued' = Queued
      /\ id \in TimerIds
  BY <1>1, TakeFunctor, AddFunctors
<1> HIDE DEF id
<1>3. /\ Consistent' /\ SequencesUnique' /\ CancelledRemembered'
      /\ heap' \in [Addrs -> TimerObject \cup {Free}]
      /\ cancelled' \subseteq Seqs
      /\ cancelingTimers_' \subseteq TimerIds
      /\ timers_' \subseteq timers_
      /\ activeTimers_' \subseteq activeTimers_
  BY <1>1, <1>2, CancelInSets DEF readVars
<1>4. TypeOK'
  BY <1>0, <1>1, <1>2, <1>3 DEF TypeOK, clockVars, readVars
<1>5. BatchInHandleRead'
  BY <1>1 DEF IInv, BatchInHandleRead, readVars
<1> QED
  BY <1>2, <1>3, <1>4, <1>5 DEF IInv

-----------------------------------------------------------------------------
(* handleRead and time.                                                    *)

\* Poll and the clocks change nothing the invariant relates.
LEMMA PollIInv == IInv /\ Poll => IInv'
<1> SUFFICES ASSUME IInv, Poll PROVE IInv'
  OBVIOUS
<1>1. (Consistent /\ AddedOnce /\ SequencesUnique /\ CancelledRemembered)'
  BY Frame DEF Poll, objectVars, readVars
<1>2. BatchInHandleRead' /\ TypeOK'
  BY DEF IInv, Poll, BatchInHandleRead, TypeOK, objectVars, setVars, readVars
<1> QED
  BY <1>1, <1>2 DEF IInv

\* Time passes.
LEMMA TickIInv == IInv /\ Tick => IInv'
<1> SUFFICES ASSUME IInv, Tick PROVE IInv'
  OBVIOUS
<1>1. (Consistent /\ AddedOnce /\ SequencesUnique /\ CancelledRemembered)'
  BY Frame DEF Tick, objectVars, readVars
<1>2. clock' \in Time /\ timerfd_' \in Nat \cup {Disarmed}
  BY TimerQueueAssumption DEF IInv, TypeOK, Tick, Time, Disarmed
<1>3. BatchInHandleRead' /\ TypeOK'
  BY <1>2 DEF IInv, Tick, BatchInHandleRead, TypeOK, objectVars, setVars, readVars
<1> QED
  BY <1>1, <1>3 DEF IInv

\* The wall clock jumps.
LEMMA SetClockIInv == ASSUME IInv, NEW t \in Time, SetClock(t) PROVE IInv'
<1>1. (Consistent /\ AddedOnce /\ SequencesUnique /\ CancelledRemembered)'
  BY Frame DEF SetClock, objectVars, readVars
<1>2. BatchInHandleRead' /\ TypeOK'
  BY DEF IInv, SetClock, BatchInHandleRead, TypeOK, objectVars, setVars, readVars
<1> QED
  BY <1>1, <1>2 DEF IInv

\* getExpired: the objects it takes out of the sets are the batch.
LEMMA HandleReadIInv == IInv /\ HandleRead => IInv'
<1> SUFFICES ASSUME IInv, HandleRead PROVE IInv'
  OBVIOUS
<1>0. TypeOK /\ Consistent /\ pc = "app" /\ expired = {} /\ ~callingExpiredTimers_
  BY DEF IInv, HandleRead, BatchInHandleRead
<1>1. /\ active' = FALSE /\ timerfd_' = IF timerfd_ = 0 THEN Disarmed ELSE timerfd_
      /\ UNCHANGED <<clock, stepped, objectVars, pending, cancelled, finished>>
  BY DEF HandleRead
<1>2. timerfd_' \in Nat \cup {Disarmed}
  BY <1>0, <1>1 DEF TypeOK
<1>3. CASE Asserts /\ ~GetExpiredAssert
  <2>1. aborted' = TRUE /\ UNCHANGED <<setVars, readVars>>
    BY <1>3 DEF HandleRead
  <2>2. (Consistent /\ AddedOnce /\ SequencesUnique /\ CancelledRemembered)'
    BY <1>1, <2>1, Frame DEF objectVars, readVars
  <2>3. BatchInHandleRead' /\ TypeOK'
    BY <1>0, <1>1, <1>2, <2>1 DEF BatchInHandleRead, TypeOK, objectVars, setVars, readVars
  <2> QED
    BY <2>2, <2>3 DEF IInv
<1>4. CASE ~(Asserts /\ ~GetExpiredAssert)
  <2> DEFINE batch == {e[2] : e \in Expired}
  <2>1. /\ now' = clock /\ expired' = batch /\ toRun' = batch
        /\ timers_' = timers_ \ Expired
        /\ activeTimers_' = activeTimers_ \ {IdOf(e[2]) : e \in Expired}
        /\ callingExpiredTimers_' = TRUE
        /\ cancelingTimers_' = {}
        /\ pc' = "calling"
        /\ UNCHANGED aborted
    BY <1>4 DEF HandleRead
  <2>2. Expired \subseteq timers_
    BY DEF Expired
  <2>3. \A e \in timers_ : e[2] \in Waiting /\ e = EntryOf(e[2])
    BY <1>0, EntriesOf
  <2>4. batch \subseteq Waiting
    BY <2>2, <2>3
  <2>5. Waiting' = Waiting \ batch
    <3>1. \A e \in timers_ : e \in Expired <=> e[2] \in batch
      BY <2>2, <2>3
    <3> HIDE DEF batch
    <3> QED
      BY <2>1, <3>1 DEF Waiting
  <2>6. activeTimers_' = activeTimers_ \ {IdOf(a) : a \in batch}
    BY <2>1
  <2>7. \A a \in Waiting : EntryOf(a) \in Expired <=> a \in batch
    <3>1. \A a : EntryOf(a)[2] = a
      BY DEF EntryOf
    <3> QED
      BY <2>2, <2>3, <3>1
  <2> HIDE DEF batch
  <2>8. timers_' = {EntryOf(x) : x \in Waiting}'
    BY <1>0, <1>1, <2>1, <2>5, <2>7 DEF Consistent, EntryOf, objectVars
  <2>9. activeTimers_' = {IdOf(x) : x \in Waiting}'
    <3>1. \A a, b : IdOf(a) = IdOf(b) => a = b
      BY DEF IdOf
    <3>2. heap' = heap
      BY <1>1 DEF objectVars
    <3> QED
      BY <1>0, <2>4, <2>5, <2>6, <3>1, <3>2 DEF Consistent, IdOf
  <2>10. Allocated' = Allocated /\ Queued' = Queued
    BY <1>1 DEF Allocated, Queued, objectVars
  <2>11. Consistent'
    BY <1>0, <2>1, <2>4, <2>5, <2>8, <2>9, <2>10 DEF Consistent
  <2>12. SequencesUnique' /\ CancelledRemembered'
    BY <1>0, <1>1, <2>10 DEF IInv, SequencesUnique, CancelledRemembered, objectVars
  <2>13. AddedOnce' /\ BatchInHandleRead'
    BY <1>1, <2>1 DEF IInv, AddedOnce, BatchInHandleRead
  <2>14. batch \subseteq Addrs
    BY <1>0, <2>4, WaitingTimers
  <2>15. TypeOK'
    BY <1>0, <1>1, <1>2, <2>1, <2>14 DEF TypeOK, objectVars
  <2> QED
    BY <2>11, <2>12, <2>13, <2>15 DEF IInv
<1> QED
  BY <1>3, <1>4

\* The callback of a timer of the batch begins.
LEMMA RunTimerIInv == ASSUME IInv, NEW a \in Addrs, RunTimer(a) PROVE IInv'
<1>0. TypeOK /\ Consistent /\ pc = "calling" /\ a \in expired
  BY DEF IInv, TypeOK, RunTimer
<1>1. /\ toRun' = toRun \ {a} /\ finished' = finished \cup {heap[a].sequence} /\ pc' = "callback"
      /\ UNCHANGED <<clockVars, objectVars, setVars, callingExpiredTimers_, now,
                     expired, pending, cancelled, aborted>>
  BY DEF RunTimer
<1>2. heap[a] \in TimerObject
  BY <1>0 DEF TypeOK, Consistent, Allocated
<1>3. (Consistent /\ AddedOnce /\ SequencesUnique /\ CancelledRemembered)'
  BY <1>1, Frame DEF objectVars
<1>4. BatchInHandleRead'
  BY <1>0, <1>1 DEF IInv, BatchInHandleRead
<1>5. TypeOK'
  BY <1>0, <1>1, <1>2 DEF TypeOK, TimerObject, clockVars, objectVars, setVars
<1> QED
  BY <1>3, <1>4, <1>5 DEF IInv

\* It ends.
LEMMA CallbackReturnsIInv == IInv /\ CallbackReturns => IInv'
<1> SUFFICES ASSUME IInv, CallbackReturns PROVE IInv'
  OBVIOUS
<1>1. (Consistent /\ AddedOnce /\ SequencesUnique /\ CancelledRemembered)'
  BY Frame DEF CallbackReturns, objectVars
<1>2. BatchInHandleRead' /\ TypeOK'
  BY DEF IInv, CallbackReturns, BatchInHandleRead, TypeOK, clockVars, objectVars, setVars
<1> QED
  BY <1>1, <1>2 DEF IInv

\* reset: the timers to restart go back into the sets, the others are deleted.
LEMMA ResetExpiredIInv == IInv /\ ResetExpired => IInv'
<1> SUFFICES ASSUME IInv, ResetExpired PROVE IInv'
  OBVIOUS
<1>0. TypeOK /\ Consistent /\ SequencesUnique /\ CancelledRemembered
  BY DEF IInv
<1> DEFINE o(a) == [heap[a] EXCEPT !.expiration = now + heap[a].interval]
<1>1. /\ heap' = [a \in Addrs |-> IF a \in Restarts THEN o(a)
                                  ELSE IF a \in expired THEN Free ELSE heap[a]]
      /\ timers_' = timers_ \cup {<<now + heap[a].interval, a>> : a \in Restarts}
      /\ activeTimers_' = activeTimers_ \cup {IdOf(a) : a \in Restarts}
      /\ timerfd_' = IF timers_' # {} THEN Delay(Earliest(timers_')) ELSE timerfd_
      /\ callingExpiredTimers_' = FALSE
      /\ expired' = {}
      /\ pc' = "app"
      /\ toRun = {}
      /\ UNCHANGED <<clock, stepped, active, s_numCreated_, issued, unread, cancelingTimers_,
                     now, toRun, pending, cancelled, finished, aborted>>
  BY DEF ResetExpired
<1>2. \A a \in expired : a \in Addrs /\ heap[a] \in TimerObject /\ a \in Allocated
                         /\ a \notin Waiting /\ a \notin Queued
  BY <1>0 DEF TypeOK, Consistent, Allocated
<1>3. Restarts \subseteq expired
  BY DEF Restarts
<1>4. \A a \in Restarts : /\ o(a) \in TimerObject
                          /\ o(a).sequence = heap[a].sequence
                          /\ o(a).expiration = now + heap[a].interval
  <2> SUFFICES ASSUME NEW a \in Restarts
               PROVE  /\ o(a) \in TimerObject
                      /\ o(a).sequence = heap[a].sequence
                      /\ o(a).expiration = now + heap[a].interval
    OBVIOUS
  <2>1. heap[a] \in TimerObject /\ now \in Nat
    BY <1>0, <1>2, <1>3 DEF TypeOK, Time
  <2>2. heap[a].interval \in Intervals
    BY <2>1 DEF TimerObject
  <2>3. now + heap[a].interval \in Nat
    <3>1. heap[a].interval \in Nat
      BY <2>2, TimerQueueAssumption
    <3> QED
      BY <2>1, <3>1
  <2> QED
    BY <2>1, <2>3 DEF TimerObject
<1> HIDE DEF o
<1>5. /\ \A a \in Restarts : heap'[a] = o(a)
      /\ \A a \in expired \ Restarts : heap'[a] = Free
      /\ \A a \in Addrs \ expired : heap'[a] = heap[a]
  BY <1>1, <1>2, <1>3
<1>6. heap' \in [Addrs -> TimerObject \cup {Free}]
  BY <1>0, <1>1, <1>4 DEF TypeOK
<1>7. Allocated' = (Allocated \ expired) \cup Restarts
  <2>1. \A a \in Restarts : a \in Addrs /\ heap'[a] # Free
    BY <1>2, <1>3, <1>4, <1>5, FreeIsNone
  <2> QED
    BY <1>3, <1>5, <2>1 DEF Allocated
<1>8. Queued' = Queued
  BY <1>1 DEF Queued
<1>9. Waiting' = Waiting \cup Restarts
  <2> DEFINE entry(a) == <<now + heap[a].interval, a>>
  <2>1. \A a : entry(a)[2] = a
    OBVIOUS
  <2>2. timers_' = timers_ \cup {entry(a) : a \in Restarts}
    BY <1>1
  <2> HIDE DEF entry
  <2> QED
    BY <2>1, <2>2 DEF Waiting
<1>10. \A a \in Waiting : a \in Addrs /\ heap'[a] = heap[a]
  BY <1>0, <1>2, <1>5, WaitingTimers
<1>11. timers_' = {EntryOf(a) : a \in Waiting}'
  BY <1>0, <1>1, <1>4, <1>5, <1>9, <1>10 DEF Consistent, EntryOf
<1>12. activeTimers_' = {IdOf(a) : a \in Waiting}'
  BY <1>0, <1>1, <1>4, <1>5, <1>9, <1>10 DEF Consistent, IdOf
<1>13. Consistent'
  <2>1. Allocated' = Queued' \cup Waiting'
    BY <1>0, <1>2, <1>3, <1>7, <1>8, <1>9 DEF Consistent
  <2>2. Queued' \cap Waiting' = {}
    BY <1>0, <1>2, <1>3, <1>8, <1>9 DEF Consistent
  <2> QED
    BY <1>1, <1>11, <1>12, <2>1, <2>2 DEF Consistent
<1>14. \A a \in Allocated' : a \in Allocated /\ heap'[a].sequence = heap[a].sequence
  BY <1>2, <1>3, <1>4, <1>5, <1>7 DEF Allocated
<1>15. SequencesUnique'
  BY <1>0, <1>1, <1>14 DEF SequencesUnique
<1>16. CancelledRemembered'
  BY <1>0, <1>1, <1>7, <1>14 DEF CancelledRemembered, Restarts
<1>17. AddedOnce' /\ BatchInHandleRead'
  BY <1>1 DEF IInv, AddedOnce, BatchInHandleRead
<1>18. timers_' \subseteq Nat \X Addrs /\ activeTimers_' \subseteq TimerIds
  <2>1. \A a \in Waiting' : a \in Addrs /\ heap'[a] \in TimerObject
    <3>1. \A a \in Waiting' : a \in Allocated'
      BY <1>13 DEF Consistent
    <3> QED
      BY <1>6, <3>1 DEF Allocated
  <2> QED
    BY <1>11, <1>12, <2>1 DEF EntryOf, IdOf, TimerIds, TimerObject
<1>19. timerfd_' \in Nat \cup {Disarmed}
  <2>1. CASE timers_' # {}
    <3>1. Earliest(timers_') \in Nat /\ clock \in Int
      BY <1>0, <1>18, <2>1, EarliestIsLeast DEF TypeOK, Time
    <3> QED
      BY <1>1, <2>1, <3>1, DelayIsMax
  <2>2. CASE timers_' = {}
    BY <1>0, <1>1, <2>2 DEF TypeOK
  <2> QED
    BY <2>1, <2>2
<1>20. TypeOK'
  BY <1>0, <1>1, <1>6, <1>18, <1>19 DEF TypeOK
<1> QED
  BY <1>13, <1>15, <1>16, <1>17, <1>20 DEF IInv

\* Every step of the timer queue preserves the invariant.
LEMMA NextIInv == IInv /\ [Next]_vars => IInv'
<1>1. ASSUME IInv, UNCHANGED vars PROVE IInv'
  <2>1. (Consistent /\ AddedOnce /\ SequencesUnique /\ CancelledRemembered)'
    BY <1>1, Frame DEF vars, objectVars, readVars
  <2>2. BatchInHandleRead' /\ TypeOK'
    BY <1>1 DEF IInv, BatchInHandleRead, TypeOK, vars, clockVars, objectVars, setVars, readVars
  <2> QED
    BY <2>1, <2>2 DEF IInv
<1>2. IInv /\ (RunPending \/ Poll \/ HandleRead \/ RunExpired) => IInv'
  BY RunPendingAddIInv, RunPendingCancelIInv, PollIInv, HandleReadIInv, RunTimerIInv,
     CallbackReturnsIInv, ResetExpiredIInv DEF RunPending, RunExpired
<1> QED
  BY <1>1, <1>2, AddTimerIInv, AddTimerFromAfarIInv, ReadSequenceIInv, CancelIInv,
     CancelFromAfarIInv, TickIInv, SetClockIInv DEF Next

-----------------------------------------------------------------------------
(* The timerfd.                                                            *)

\* What ArmedInTime asks of a step that leaves the clock alone.
LEMMA ArmedByDelay ==
  ASSUME IInv, IInv', clock' = clock,
         pc' = "app" /\ timers_' # {} /\ ~aborted' /\ ~active' =>
           /\ timerfd_' # Disarmed
           /\ ~stepped' => timerfd_' \in 0..Delay(Earliest(timers_'))
  PROVE  ArmedInTime'
<1>1. Delay(Earliest(timers_))' = Delay(Earliest(timers_'))
  BY DEF Delay, Earliest
<1> QED
  BY <1>1 DEF ArmedInTime, Armed, NotLate

\* Timers that go, or nothing, do not make the timerfd late.
LEMMA ArmedAfterRemoval ==
  ASSUME IInv, IInv', ArmedInTime, timers_' \subseteq timers_,
         UNCHANGED <<clock, stepped, timerfd_, active, pc, aborted>>
  PROVE  ArmedInTime'
<1> SUFFICES ASSUME pc = "app", timers_' # {}, ~aborted, ~active
             PROVE  /\ timerfd_ # Disarmed
                    /\ ~stepped => timerfd_ \in 0..Delay(Earliest(timers_'))
  BY ArmedByDelay
<1>1. timerfd_ # Disarmed /\ (~stepped => timerfd_ \in 0..Delay(Earliest(timers_)))
  BY DEF ArmedInTime, Armed, NotLate
<1>2. timers_ \in SUBSET (Nat \X Addrs) /\ timers_' \in SUBSET (Nat \X Addrs) /\ timers_ # {}
      /\ clock \in Int
  BY DEF IInv, TypeOK, Time
<1>3. /\ Earliest(timers_) \in Int /\ Earliest(timers_') \in Int
      /\ Earliest(timers_) <= Earliest(timers_')
  BY <1>2, EarliestIsLeast
<1>4. /\ Delay(Earliest(timers_)) \in Nat /\ Delay(Earliest(timers_')) \in Nat
      /\ Delay(Earliest(timers_)) <= Delay(Earliest(timers_'))
  BY <1>2, <1>3, DelayIsMax, TimerQueueAssumption
<1> QED
  BY <1>1, <1>4

\* A timer that is added sets the timerfd if it is the earliest now.
LEMMA ArmedAfterInsert ==
  ASSUME IInv, IInv', ArmedInTime, NEW a \in Addrs, NEW o \in TimerObject,
         addTimerInLoop(a, o), UNCHANGED <<clock, stepped, active, pc, aborted>>
  PROVE  ArmedInTime'
<1> SUFFICES ASSUME pc = "app", ~aborted, ~active
             PROVE  /\ timerfd_' # Disarmed
                    /\ ~stepped => timerfd_' \in 0..Delay(Earliest(timers_'))
  BY ArmedByDelay
<1> DEFINE entry == <<o.expiration, a>>
<1>1. /\ timers_' = timers_ \cup {entry}
      /\ timerfd_' = IF EarliestChanged(o.expiration) THEN Delay(o.expiration) ELSE timerfd_
      /\ entry[1] = o.expiration
  BY DEF addTimerInLoop
<1>2. /\ timers_ \in SUBSET (Nat \X Addrs) /\ timers_' \in SUBSET (Nat \X Addrs)
      /\ clock \in Int /\ o.expiration \in Nat
  BY DEF IInv, TypeOK, Time, TimerObject
<1> HIDE DEF entry
<1>3. /\ timers_' # {} /\ Earliest(timers_') \in Nat
      /\ \E e \in timers_' : e[1] = Earliest(timers_')
      /\ \A e \in timers_' : Earliest(timers_') <= e[1]
  BY <1>1, <1>2, EarliestIsLeast
<1>4. timers_ # {} => /\ Earliest(timers_) \in Nat
                      /\ \E e \in timers_ : e[1] = Earliest(timers_)
                      /\ \A e \in timers_ : Earliest(timers_) <= e[1]
  BY <1>2, EarliestIsLeast
<1>5. CASE EarliestChanged(o.expiration)
  <2>1. \A e \in timers_ : o.expiration <= e[1]
    <3>1. \A e \in timers_ : e[1] \in Nat
      BY <1>2
    <3> QED
      BY <1>2, <1>4, <1>5, <3>1 DEF EarliestChanged
  <2>2. Earliest(timers_') = o.expiration
    BY <1>1, <1>2, <1>3, <2>1
  <2> QED
    BY <1>1, <1>2, <1>5, <2>2, DelayIsMax DEF Disarmed
<1>6. CASE ~EarliestChanged(o.expiration)
  <2>1. timers_ # {} /\ Earliest(timers_) <= o.expiration
    BY <1>2, <1>4, <1>6 DEF EarliestChanged
  <2>2. Earliest(timers_') = Earliest(timers_)
    <3>1. Earliest(timers_') <= Earliest(timers_)
      BY <1>1, <1>3, <1>4, <2>1
    <3>2. Earliest(timers_) <= Earliest(timers_')
      BY <1>1, <1>3, <1>4, <2>1
    <3> QED
      BY <1>3, <1>4, <2>1, <3>1, <3>2
  <2>3. timerfd_ # Disarmed /\ (~stepped => timerfd_ \in 0..Delay(Earliest(timers_)))
    BY <2>1 DEF ArmedInTime, Armed, NotLate
  <2> QED
    BY <1>1, <1>6, <2>2, <2>3
<1> QED
  BY <1>5, <1>6

\* reset sets it for the earliest of all timers.
LEMMA ArmedAfterReset ==
  ASSUME IInv, IInv', ResetExpired
  PROVE  ArmedInTime'
<1>1. /\ timerfd_' = IF timers_' # {} THEN Delay(Earliest(timers_')) ELSE timerfd_
      /\ clock' = clock
  BY DEF ResetExpired
<1>2. ASSUME timers_' # {} PROVE Delay(Earliest(timers_')) \in Nat
  <2>1. timers_' \in SUBSET (Nat \X Addrs) /\ clock \in Int
    BY DEF IInv, TypeOK, Time
  <2>2. Earliest(timers_') \in Int
    BY <1>2, <2>1, EarliestIsLeast
  <2> QED
    BY <2>1, <2>2, DelayIsMax
<1> QED
  BY <1>1, <1>2, ArmedByDelay DEF Disarmed

\* The two clocks advance together.
LEMMA ArmedAfterTick ==
  ASSUME IInv, IInv', ArmedInTime, Tick
  PROVE  ArmedInTime'
<1>1. /\ clock' \in {clock, clock + 1}
      /\ timerfd_' = IF timerfd_ > 0 THEN timerfd_ - 1 ELSE timerfd_
      /\ UNCHANGED <<stepped, active, timers_, pc, aborted>>
  BY DEF Tick, setVars, readVars
<1>2. timerfd_ \in Nat \cup {Disarmed} /\ clock \in Int
      /\ timers_ \in SUBSET (Nat \X Addrs)
  BY DEF IInv, TypeOK, Time
<1>3. Armed'
  BY <1>1, <1>2 DEF ArmedInTime, Armed, Disarmed
<1>4. NotLate'
  <2> SUFFICES ASSUME pc = "app", timers_ # {}, ~aborted, ~stepped, ~active
               PROVE  timerfd_' \in 0..Delay(Earliest(timers_))'
    BY <1>1 DEF NotLate
  <2> DEFINE first == Earliest(timers_)
  <2>1. timerfd_ \in 0..Delay(first)
    BY DEF ArmedInTime, NotLate
  <2>2. first \in Int /\ first' = first
    <3>1. first \in Int
      BY <1>2, EarliestIsLeast
    <3>2. first' = first
      BY <1>1 DEF Earliest
    <3> QED
      BY <3>1, <3>2
  <2> HIDE DEF first
  <2>3. /\ Delay(first) \in Nat
        /\ Delay(first) = MinDelay \/ Delay(first) = first - clock
    BY <1>2, <2>2, DelayIsMax
  <2>4. /\ Delay(first)' \in Nat
        /\ Delay(first)' >= MinDelay /\ Delay(first)' >= first - clock'
    <3> DEFINE left == first - clock'
               S == {left, MinDelay}
    <3>1. left \in Int
      BY <1>1, <1>2, <2>2
    <3> HIDE DEF left
    <3>2. \E x \in S : \A y \in S : x >= y
      BY <3>1, TimerQueueAssumption
    <3>3. Max(S) \in S /\ \A y \in S : Max(S) >= y
      BY <3>2 DEF Max
    <3>4. Delay(first)' = Max(S)
      BY <2>2 DEF Delay, left
    <3> QED
      BY <3>1, <3>3, <3>4, TimerQueueAssumption DEF left
  <2>5. timerfd_' \in 0..Delay(first)'
    BY <1>1, <1>2, <2>1, <2>2, <2>3, <2>4, TimerQueueAssumption
  <2> QED
    BY <2>5 DEF first
<1> QED
  BY <1>3, <1>4 DEF ArmedInTime

\* Every step leaves the timerfd armed, and in time.
LEMMA NextArmed == IInv /\ IInv' /\ ArmedInTime /\ [Next]_vars => ArmedInTime'
<1> SUFFICES ASSUME IInv, IInv', ArmedInTime, [Next]_vars PROVE ArmedInTime'
  OBVIOUS
<1>1. CASE UNCHANGED vars
  BY <1>1, ArmedAfterRemoval DEF vars, clockVars, setVars, readVars
<1>2. ASSUME NEW a \in Addrs, NEW when \in Time, NEW i \in Intervals, AddTimer(a, when, i)
      PROVE  ArmedInTime'
  <2>1. NewTimer(when, i) \in TimerObject
    BY <1>2, ConstructObject DEF AddTimer, Time
  <2> QED
    BY <1>2, <2>1, ArmedAfterInsert DEF AddTimer, readVars
<1>3. ASSUME NEW a \in Addrs, NEW when \in Time, NEW i \in Intervals,
             AddTimerFromAfar(a, when, i)
      PROVE  ArmedInTime'
  BY <1>3, ArmedAfterRemoval DEF AddTimerFromAfar, clockVars, setVars, readVars
<1>4. ASSUME NEW a \in Addrs, ReadSequence(a) PROVE ArmedInTime'
  BY <1>4, ArmedAfterRemoval DEF ReadSequence, clockVars, setVars, readVars
<1>5. ASSUME NEW id \in issued, Cancel(id) PROVE ArmedInTime'
  <2>1. timers_' \subseteq timers_
    BY <1>5 DEF Cancel, cancelInLoop
  <2> QED
    BY <1>5, <2>1, ArmedAfterRemoval DEF Cancel, clockVars, readVars
<1>6. ASSUME NEW id \in issued, CancelFromAfar(id) PROVE ArmedInTime'
  BY <1>6, ArmedAfterRemoval DEF CancelFromAfar, clockVars, setVars, readVars
<1>7. CASE RunPendingAdd
  <2> DEFINE a == Head(pending).timer
  <2>1. a \in Queued
    BY <1>7, TakeFunctor DEF RunPendingAdd
  <2>2. a \in Addrs /\ heap[a] \in TimerObject
    BY <2>1 DEF IInv, TypeOK, Consistent, Allocated, Queued
  <2>3. addTimerInLoop(a, heap[a]) /\ UNCHANGED <<clock, stepped, active, pc, aborted>>
    BY <1>7 DEF RunPendingAdd, readVars
  <2> HIDE DEF a
  <2> QED
    BY <2>2, <2>3, ArmedAfterInsert
<1>8. CASE RunPendingCancel
  <2>1. timers_' \subseteq timers_
    BY <1>8 DEF RunPendingCancel, cancelInLoop
  <2> QED
    BY <1>8, <2>1, ArmedAfterRemoval DEF RunPendingCancel, clockVars, readVars
<1>9. CASE Poll
  BY <1>9 DEF Poll, ArmedInTime, Armed, NotLate
<1>10. CASE HandleRead
  <2>1. aborted' \/ pc' = "calling"
    BY <1>10 DEF HandleRead
  <2> QED
    BY <2>1 DEF ArmedInTime, Armed, NotLate
<1>11. CASE \E a \in Addrs : RunTimer(a)
  BY <1>11 DEF RunTimer, ArmedInTime, Armed, NotLate
<1>12. CASE CallbackReturns
  BY <1>12 DEF CallbackReturns, ArmedInTime, Armed, NotLate
<1>13. CASE \E t \in Time : SetClock(t)
  BY <1>13 DEF SetClock, ArmedInTime, Armed, NotLate, setVars, readVars
<1> QED
  BY <1>1, <1>2, <1>3, <1>4, <1>5, <1>6, <1>7, <1>8, <1>9, <1>10, <1>11, <1>12, <1>13,
     ArmedAfterReset, ArmedAfterTick DEF Next, RunPending, RunExpired

-----------------------------------------------------------------------------

\* The invariant holds in every state: for any addresses, intervals and
\* bounds, any ids given to cancel, and whatever is done to the wall clock.
THEOREM InvariantHolds == Spec => []IInv
BY InitIInv, NextIInv, PTL DEF Spec

\* Every Timer object has one owner, and the sets of TimerQueue agree.
THEOREM ConsistentHolds == Spec => []Consistent
<1>1. IInv => Consistent
  BY DEF IInv
<1> QED
  BY <1>1, InvariantHolds, PTL

\* A cancelled timer never waits in the sets again.
THEOREM CancelledHolds == Spec => []CancelledStaysCancelled
<1>1. IInv => CancelledStaysCancelled
  <2> SUFFICES ASSUME IInv, NEW id \in activeTimers_, id[2] \in cancelled PROVE FALSE
    BY DEF CancelledStaysCancelled
  <2>1. PICK a \in Waiting : id = IdOf(a)
    BY DEF IInv, Consistent
  <2>2. a \in Allocated /\ a \notin expired /\ heap[a].sequence \in cancelled
    BY <2>1 DEF IInv, Consistent, IdOf
  <2> QED
    BY <2>2 DEF IInv, CancelledRemembered
<1> QED
  BY <1>1, InvariantHolds, PTL

\* timerfd_ is armed, and in time, whenever the loop leaves a timer waiting.
THEOREM ArmedHolds == Spec => []ArmedInTime
<1>1. Init => ArmedInTime
  BY InitIInv
<1> QED
  BY <1>1, InvariantHolds, NextArmed, PTL DEF Spec
=============================================================================
