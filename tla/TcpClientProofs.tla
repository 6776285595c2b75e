-------------------------- MODULE TcpClientProofs ---------------------------
(***************************************************************************)
(* The invariant of the client in two parts.  SocketInv, the types, the    *)
(* phases and the owners of the descriptors, is inductive for every value  *)
(* of the constants.  The rest of IInv counts the attempts; it holds when  *)
(* connect() is called once and no callback outlasts a retry delay, and is *)
(* proved from Tallied, which says the same of the set of the calls ahead  *)
(* and of numbers 0 and 1.                                                 *)
(***************************************************************************)
EXTENDS TcpClient, FiniteSetTheorems, TLAPS

-----------------------------------------------------------------------------
(* The calls ahead.                                                        *)

Calls == FunctorCalls \cup ConnectorCalls \cup ConnectionCalls

\* One sequence after another.
LEMMA Concat ==
  ASSUME NEW s \in Seq(Calls), NEW t \in Seq(Calls)
  PROVE  /\ s \o t \in Seq(Calls) /\ Len(s \o t) = Len(s) + Len(t)
         /\ Len(s) \in Nat /\ Len(t) \in Nat
         /\ DOMAIN s = 1..Len(s) /\ DOMAIN t = 1..Len(t)
         /\ DOMAIN (s \o t) = 1..Len(s) + Len(t)
         /\ \A i \in 1..Len(s) : (s \o t)[i] = s[i]
         /\ \A i \in 1..Len(t) : (s \o t)[Len(s) + i] = t[i]
OBVIOUS

\* Every place of a concatenation is one of its first part or one of its second.
LEMMA ConcatPlace ==
  ASSUME NEW s \in Seq(Calls), NEW t \in Seq(Calls), NEW i \in DOMAIN (s \o t)
  PROVE  \/ i \in DOMAIN s /\ (s \o t)[i] = s[i]
         \/ \E j \in DOMAIN t : i = Len(s) + j /\ (s \o t)[i] = t[j]
<1>1. i \in 1..Len(s) + Len(t) /\ Len(s) \in Nat /\ Len(t) \in Nat
  BY Concat
<1>2. CASE i <= Len(s)
  <2>1. i \in 1..Len(s)
    BY <1>1, <1>2
  <2> QED
    BY <2>1, Concat
<1>3. CASE i > Len(s)
  <2>1. i - Len(s) \in 1..Len(t) /\ i = Len(s) + (i - Len(s))
    BY <1>1, <1>3
  <2> QED
    BY <2>1, Concat
<1> QED
  BY <1>1, <1>2, <1>3

\* What is in a concatenation.
LEMMA ConcatSet ==
  ASSUME NEW s \in Seq(Calls), NEW t \in Seq(Calls)
  PROVE  ToSet(s \o t) = ToSet(s) \cup ToSet(t)
<1>1. \A i \in DOMAIN s : i \in DOMAIN (s \o t) /\ (s \o t)[i] = s[i]
  BY Concat
<1>2. \A i \in DOMAIN t : Len(s) + i \in DOMAIN (s \o t) /\ (s \o t)[Len(s) + i] = t[i]
  BY Concat
<1>3. ASSUME NEW c \in ToSet(s \o t) PROVE c \in ToSet(s) \cup ToSet(t)
  <2>1. PICK i \in DOMAIN (s \o t) : (s \o t)[i] = c
    BY <1>3 DEF ToSet
  <2> QED
    BY <2>1, ConcatPlace DEF ToSet
<1>4. ASSUME NEW c \in ToSet(s) \cup ToSet(t) PROVE c \in ToSet(s \o t)
  BY <1>1, <1>2, <1>4 DEF ToSet
<1> QED
  BY <1>3, <1>4

\* The places of the calls that begin an attempt.
Begins(s) == {i \in DOMAIN s : s[i].op \in Beginning}

LEMMA BeginsFinite ==
  ASSUME NEW s \in Seq(Calls)
  PROVE  /\ IsFiniteSet(Begins(s)) /\ Begins(s) \subseteq 1..Len(s)
         /\ BeginningCalls(s) = Cardinality(Begins(s)) /\ BeginningCalls(s) \in Nat
         /\ BeginningCalls(s) = 0 <=> \A i \in DOMAIN s : s[i].op \notin Beginning
<1>1. Begins(s) \subseteq 1..Len(s) /\ Len(s) \in Int
  BY DEF Begins
<1>2. IsFiniteSet(1..Len(s))
  BY <1>1, FS_Interval
<1>3. IsFiniteSet(Begins(s))
  BY <1>1, <1>2, FS_Subset
<1>4. BeginningCalls(s) = Cardinality(Begins(s))
  BY DEF BeginningCalls, Begins
<1>5. Cardinality(Begins(s)) = 0 <=> Begins(s) = {}
  BY <1>3, FS_EmptySet
<1> QED
  BY <1>1, <1>3, <1>4, <1>5, FS_CardinalityType DEF Begins

LEMMA BeginsConcat ==
  ASSUME NEW s \in Seq(Calls), NEW t \in Seq(Calls)
  PROVE  BeginningCalls(s \o t) = BeginningCalls(s) + BeginningCalls(t)
<1> DEFINE n == Len(s)
           u == s \o t
           f == [i \in Begins(t) |-> n + i]
           Shifted == {n + i : i \in Begins(t)}
<1>1. n \in Nat /\ u \in Seq(Calls) /\ DOMAIN s = 1..n /\ DOMAIN t = 1..Len(t)
  BY Concat
<1>2. Begins(u) = Begins(s) \cup Shifted
  <2>1. ASSUME NEW i \in Begins(u) PROVE i \in Begins(s) \cup Shifted
    <3>1. i \in DOMAIN u /\ u[i].op \in Beginning
      BY <2>1 DEF Begins
    <3> QED
      BY <3>1, ConcatPlace DEF Begins
  <2>2. ASSUME NEW i \in Begins(s) PROVE i \in Begins(u)
    BY <2>2, Concat DEF Begins
  <2>3. ASSUME NEW i \in Begins(t) PROVE n + i \in Begins(u)
    BY <2>3, Concat DEF Begins
  <2> QED
    BY <2>1, <2>2, <2>3
<1>3. f \in Bijection(Begins(t), Shifted)
  <2>1. Begins(t) \subseteq Nat
    BY BeginsFinite
  <2>2. f \in [Begins(t) -> Shifted]
    OBVIOUS
  <2>3. \A i, j \in Begins(t) : f[i] = f[j] => i = j
    BY <1>1, <2>1
  <2>4. \A k \in Shifted : \E i \in Begins(t) : f[i] = k
    OBVIOUS
  <2> QED
    BY <2>2, <2>3, <2>4 DEF Bijection, Injection, Surjection, IsInjective
<1>4. IsFiniteSet(Shifted) /\ Cardinality(Shifted) = Cardinality(Begins(t))
  BY <1>3, BeginsFinite, FS_Bijection DEF ExistsBijection
<1>5. Begins(s) \cap Shifted = {}
  <2>1. /\ Begins(s) \subseteq 1..n /\ Begins(t) \subseteq 1..Len(t)
        /\ n \in Nat /\ Len(t) \in Nat
    BY <1>1, BeginsFinite
  <2> QED
    BY <2>1
<1>6. Cardinality(Begins(u)) = Cardinality(Begins(s)) + Cardinality(Begins(t))
  <2>1. IsFiniteSet(Begins(s)) /\ Cardinality(Begins(s)) \in Nat
    BY BeginsFinite
  <2>2. Cardinality(Begins(t)) \in Nat
    BY BeginsFinite
  <2>3. Cardinality({}) = 0
    BY FS_EmptySet
  <2> HIDE DEF Shifted, u
  <2>4. Cardinality(Begins(s) \cup Shifted) =
          Cardinality(Begins(s)) + Cardinality(Shifted) - Cardinality(Begins(s) \cap Shifted)
    BY <1>4, <2>1, FS_Union
  <2>5. Cardinality(Begins(u)) =
          Cardinality(Begins(s)) + Cardinality(Begins(t)) - 0
    BY <1>2, <1>4, <1>5, <2>3, <2>4
  <2> QED
    BY <2>1, <2>2, <2>5
<1> QED
  BY <1>1, <1>6, BeginsFinite

LEMMA BeginsOne ==
  ASSUME NEW c \in Calls
  PROVE  /\ <<>> \in Seq(Calls) /\ <<c>> \in Seq(Calls)
         /\ BeginningCalls(<<>>) = 0
         /\ BeginningCalls(<<c>>) = IF c.op \in Beginning THEN 1 ELSE 0
         /\ ToSet(<<>>) = {} /\ ToSet(<<c>>) = {c}
<1>1. <<>> \in Seq(Calls) /\ <<c>> \in Seq(Calls)
  OBVIOUS
<1>2. BeginningCalls(<<>>) = 0
  <2>1. Begins(<<>>) = {}
    BY DEF Begins
  <2> QED
    BY <1>1, <2>1, BeginsFinite, FS_EmptySet
<1>3. DOMAIN <<c>> = {1} /\ <<c>>[1] = c
  OBVIOUS
<1>4. BeginningCalls(<<c>>) = IF c.op \in Beginning THEN 1 ELSE 0
  <2>1. Begins(<<c>>) = IF c.op \in Beginning THEN {1} ELSE {}
    BY <1>3 DEF Begins
  <2> QED
    BY <1>1, <2>1, BeginsFinite, FS_Singleton, FS_EmptySet
<1>5. ToSet(<<>>) = {} /\ ToSet(<<c>>) = {c}
  BY <1>3 DEF ToSet
<1> QED
  BY <1>1, <1>2, <1>4, <1>5

\* No connection is destroyed twice, and no channel reset twice.
Once(s) == \A i, j \in DOMAIN s : s[i].op \in Cleanups /\ s[j] = s[i] => j = i
Apart(s, t) == \A c \in ToSet(s) : c.op \in Cleanups => c \notin ToSet(t)

LEMMA OnceConcat ==
  ASSUME NEW s \in Seq(Calls), NEW t \in Seq(Calls)
  PROVE  Once(s \o t) <=> Once(s) /\ Once(t) /\ Apart(s, t)
<1> DEFINE n == Len(s)
           u == s \o t
<1>1. /\ n \in Nat /\ Len(t) \in Nat /\ DOMAIN s = 1..n /\ DOMAIN t = 1..Len(t)
      /\ \A i \in DOMAIN s : i \in DOMAIN u /\ u[i] = s[i]
      /\ \A i \in DOMAIN t : n + i \in DOMAIN u /\ u[n + i] = t[i]
  BY Concat
<1>2. \A i \in DOMAIN u : \/ i \in DOMAIN s /\ u[i] = s[i]
                          \/ \E j \in DOMAIN t : i = n + j /\ u[i] = t[j]
  BY ConcatPlace
<1> HIDE DEF n, u
<1>3. ASSUME Once(u) PROVE Once(s) /\ Once(t) /\ Apart(s, t)
  <2>1. Once(s)
    BY <1>1, <1>3 DEF Once
  <2>2. ASSUME NEW i \in DOMAIN t, NEW j \in DOMAIN t,
               t[i].op \in Cleanups, t[j] = t[i]
        PROVE  j = i
    <3>1. n + j = n + i
      BY <1>1, <1>3, <2>2 DEF Once
    <3> QED
      BY <1>1, <3>1
  <2>3. ASSUME NEW i \in DOMAIN s, NEW j \in DOMAIN t,
               s[i].op \in Cleanups, t[j] = s[i]
        PROVE  FALSE
    <3>1. n + j = i
      BY <1>1, <1>3, <2>3 DEF Once
    <3> QED
      BY <1>1, <3>1
  <2> QED
    BY <2>1, <2>2, <2>3 DEF Once, Apart, ToSet
<1>4. ASSUME Once(s), Once(t), Apart(s, t),
             NEW i \in DOMAIN u, NEW j \in DOMAIN u,
             u[i].op \in Cleanups, u[j] = u[i]
      PROVE  j = i
  <2>1. CASE i \in DOMAIN s /\ u[i] = s[i]
    BY <1>2, <1>4, <2>1 DEF Once, Apart, ToSet
  <2>2. CASE \E k \in DOMAIN t : i = n + k /\ u[i] = t[k]
    <3>1. PICK k \in DOMAIN t : i = n + k /\ u[i] = t[k]
      BY <2>2
    <3>2. CASE j \in DOMAIN s /\ u[j] = s[j]
      <4>1. s[j] \in ToSet(s) /\ t[k] \in ToSet(t) /\ s[j] = t[k]
        BY <1>4, <3>1, <3>2 DEF ToSet
      <4> QED
        BY <1>4, <3>1, <4>1 DEF Apart
    <3>3. CASE \E l \in DOMAIN t : j = n + l /\ u[j] = t[l]
      BY <1>4, <3>1, <3>3 DEF Once
    <3> QED
      BY <1>2, <3>2, <3>3
  <2> QED
    BY <1>2, <2>1, <2>2
<1>5. Once(s) /\ Once(t) /\ Apart(s, t) => Once(u)
  BY <1>4 DEF Once
<1> QED
  BY <1>3, <1>5 DEF u

\* A sequence of at most one call.
AtMostOne == {<<>>} \cup {<<c>> : c \in Calls}

LEMMA OnceOne ==
  ASSUME NEW s \in AtMostOne
  PROVE  s \in Seq(Calls) /\ Once(s)
<1>1. s \in Seq(Calls)
  <2>1. <<>> \in Seq(Calls) /\ \A c \in Calls : <<c>> \in Seq(Calls)
    OBVIOUS
  <2> QED
    BY <2>1 DEF AtMostOne
<1>2. \A i, j \in DOMAIN s : i = j
  <2>1. CASE s = <<>>
    BY <2>1
  <2>2. ASSUME NEW c \in Calls, s = <<c>> PROVE \A i, j \in DOMAIN s : i = j
    <3>1. DOMAIN s = {1}
      BY <2>2
    <3> QED
      BY <3>1
  <2> QED
    BY <2>1, <2>2 DEF AtMostOne
<1> QED
  BY <1>1, <1>2 DEF Once

\* A step replaces the calls at the front by others and queues some at the end.
Fresh(new, queued) ==
  /\ \A c \in ToSet(new) : c.op \notin Cleanups
  /\ \A c \in ToSet(queued) : c.op \in Cleanups => c \notin ToSet(Ahead)

Replacement(old, new, rest, queued) ==
  /\ BeginningCalls(Ahead) = BeginningCalls(old) + BeginningCalls(rest)
  /\ BeginningCalls(Ahead') =
       BeginningCalls(new) + BeginningCalls(rest) + BeginningCalls(queued)
  /\ BeginningCalls(old) \in Nat /\ BeginningCalls(new) \in Nat
  /\ BeginningCalls(rest) \in Nat /\ BeginningCalls(queued) \in Nat
  /\ ToSet(Ahead) = ToSet(old) \cup ToSet(rest)
  /\ ToSet(Ahead') = ToSet(new) \cup ToSet(rest) \cup ToSet(queued)
  /\ Once(Ahead) /\ Fresh(new, queued) => Once(Ahead')

LEMMA Replaced ==
  ASSUME NEW old \in Seq(Calls), NEW new \in Seq(Calls), NEW rest \in Seq(Calls),
         NEW queued \in AtMostOne,
         Ahead = old \o rest, Ahead' = new \o rest \o queued
  PROVE  Replacement(old, new, rest, queued)
<1> DEFINE front == new \o rest
<1>1. queued \in Seq(Calls) /\ Once(queued)
  BY OnceOne
<1>2. front \in Seq(Calls) /\ ToSet(front) = ToSet(new) \cup ToSet(rest)
      /\ BeginningCalls(front) = BeginningCalls(new) + BeginningCalls(rest)
      /\ (Once(front) <=> Once(new) /\ Once(rest) /\ Apart(new, rest))
  BY Concat, ConcatSet, BeginsConcat, OnceConcat
<1>3. Ahead' = front \o queued
  OBVIOUS
<1> HIDE DEF front
<1>4. /\ BeginningCalls(Ahead) = BeginningCalls(old) + BeginningCalls(rest)
      /\ BeginningCalls(Ahead') = BeginningCalls(front) + BeginningCalls(queued)
      /\ ToSet(Ahead) = ToSet(old) \cup ToSet(rest)
      /\ ToSet(Ahead') = ToSet(front) \cup ToSet(queued)
      /\ (Once(Ahead) <=> Once(old) /\ Once(rest) /\ Apart(old, rest))
      /\ (Once(Ahead') <=> Once(front) /\ Once(queued) /\ Apart(front, queued))
  BY <1>1, <1>2, <1>3, ConcatSet, BeginsConcat, OnceConcat
<1>5. ASSUME Once(Ahead), Fresh(new, queued)
      PROVE  Once(Ahead')
  <2>1. Once(new) /\ Apart(new, rest)
    BY <1>5 DEF Fresh, Once, Apart, ToSet
  <2>2. Apart(front, queued)
    <3> SUFFICES ASSUME NEW c \in ToSet(front), c.op \in Cleanups
                 PROVE  c \notin ToSet(queued)
      BY DEF Apart
    <3>1. c \in ToSet(rest)
      BY <1>2, <1>5 DEF Fresh
    <3> QED
      BY <1>4, <1>5, <3>1 DEF Fresh
  <2> QED
    BY <1>1, <1>2, <1>4, <1>5, <2>1, <2>2
<1> QED
  BY <1>1, <1>2, <1>4, <1>5, BeginsFinite DEF Replacement

-----------------------------------------------------------------------------
(* The shape of the calls.                                                 *)

LEMMA CallIs ==
  ASSUME NEW c \in Calls
  PROVE  /\ c.op = "connectDestroyed" => c.arg \in Fds /\ c = Do("connectDestroyed", c.arg)
         /\ c.op = "newConnection" \/ c.op \in ConnectionOps => c.arg \in Fds
         /\ c.op = "cancel" => c.arg \in TimerSeqs \cup {None}
         /\ c.op \in {"startInLoop", "restart", "runAfter", "resetChannel",
                      "handleError", "handleWrite", "newConnection", "cancel",
                      "connectDestroyed"} \cup ConnectionOps
         /\ c.op \notin {"newConnection", "cancel", "connectDestroyed"} \cup ConnectionOps
              => c = Call(c.op)
BY DEF Calls, FunctorCalls, ConnectorCalls, ConnectionCalls, ConnectionOps, Call, Do

LEMMA AreCalls ==
  /\ \A op \in {"startInLoop", "restart", "runAfter", "resetChannel", "handleError", "handleWrite"} :
       Call(op) \in Calls /\ Call(op).op = op
  /\ \A fd \in Fds : /\ Do("newConnection", fd) \in Calls
                     /\ Do("newConnection", fd).op = "newConnection"
                     /\ Do("newConnection", fd).arg = fd
                     /\ Do("connectDestroyed", fd) \in FunctorCalls
                     /\ Do("connectDestroyed", fd).op = "connectDestroyed"
                     /\ Do("connectDestroyed", fd).arg = fd
                     /\ \A op \in ConnectionOps : /\ Do(op, fd) \in Calls
                                                  /\ Do(op, fd).op = op
                                                  /\ Do(op, fd).arg = fd
  /\ \A id \in TimerSeqs \cup {None} : /\ Do("cancel", id) \in FunctorCalls
                                       /\ Do("cancel", id).op = "cancel"
  /\ FunctorCalls \subseteq Calls
  /\ Call("startInLoop") \in FunctorCalls /\ Call("resetChannel") \in FunctorCalls
<1>1. \A fd \in Fds, op \in ConnectionOps :
        Do(op, fd) \in ConnectionCalls /\ Do(op, fd).op = op /\ Do(op, fd).arg = fd
  BY DEF ConnectionCalls, Do
<1>2. /\ \A op \in {"startInLoop", "restart", "runAfter", "resetChannel", "handleError", "handleWrite"} :
           Call(op) \in Calls /\ Call(op).op = op
      /\ \A fd \in Fds : /\ Do("newConnection", fd) \in Calls
                         /\ Do("newConnection", fd).op = "newConnection"
                         /\ Do("newConnection", fd).arg = fd
                         /\ Do("connectDestroyed", fd) \in FunctorCalls
                         /\ Do("connectDestroyed", fd).op = "connectDestroyed"
                         /\ Do("connectDestroyed", fd).arg = fd
      /\ \A id \in TimerSeqs \cup {None} : /\ Do("cancel", id) \in FunctorCalls
                                           /\ Do("cancel", id).op = "cancel"
      /\ Call("startInLoop") \in FunctorCalls /\ Call("resetChannel") \in FunctorCalls
  BY DEF Calls, FunctorCalls, ConnectorCalls, Call, Do
<1> QED
  BY <1>1, <1>2 DEF Calls

LEMMA TodosAre ==
  ASSUME NEW t \in Todos
  PROVE  /\ t \in Seq(Calls)
         /\ \/ t = <<>>
            \/ \E c \in Calls : t = <<c>>
            \/ t = <<Call("handleError"), Call("handleWrite")>>
            \/ t = <<Call("runAfter"), Call("handleWrite")>>
<1>1. /\ <<>> \in Seq(Calls) /\ \A c \in Calls : <<c>> \in Seq(Calls)
      /\ \A c, d \in Calls : <<c, d>> \in Seq(Calls)
  OBVIOUS
<1>2. t \in {<<>>} \cup {<<c>> : c \in Calls}
           \cup {<<Call(op), Call("handleWrite")>> : op \in {"handleError", "runAfter"}}
  BY DEF Todos, Calls
<1>3. CASE t = <<>>
  BY <1>1, <1>3
<1>4. ASSUME NEW c \in Calls, t = <<c>>
      PROVE  t \in Seq(Calls) /\ \E d \in Calls : t = <<d>>
  BY <1>1, <1>4
<1>5. ASSUME NEW op \in {"handleError", "runAfter"}, t = <<Call(op), Call("handleWrite")>>
      PROVE  /\ t \in Seq(Calls)
             /\ \/ t = <<Call("handleError"), Call("handleWrite")>>
                \/ t = <<Call("runAfter"), Call("handleWrite")>>
  <2>1. Call(op) \in Calls /\ Call("handleWrite") \in Calls
    BY AreCalls
  <2> QED
    BY <1>1, <1>5, <2>1
<1> QED
  BY <1>2, <1>3, <1>4, <1>5

LEMMA AheadIs ==
  ASSUME TypeOK
  PROVE  /\ todo \in Seq(Calls) /\ batch \in Seq(Calls) /\ functors \in Seq(Calls)
         /\ batch \o functors \in Seq(Calls)
         /\ Ahead \in Seq(Calls) /\ Ahead = todo \o (batch \o functors)
<1>1. todo \in Seq(Calls) /\ batch \in Seq(Calls) /\ functors \in Seq(Calls)
  <2>1. \A s \in Seq(FunctorCalls) : s \in Seq(Calls)
    BY AreCalls
  <2> QED
    BY <2>1, TodosAre DEF TypeOK
<1>2. todo \o batch \o functors = todo \o (batch \o functors)
  BY <1>1
<1> QED
  BY <1>1, <1>2 DEF Ahead

\* The call the loop is at.
LEMMA AtIs ==
  ASSUME TypeOK, NEW op, IsAt(op)
  PROVE  /\ Head(todo) \in Calls /\ Head(todo).op = op
         /\ Tail(todo) \in Seq(Calls) /\ todo = <<Head(todo)>> \o Tail(todo)
         /\ \/ Tail(todo) = <<>> /\ todo = <<Head(todo)>>
            \/ Tail(todo) = <<Call("handleWrite")>> /\ op \in {"handleError", "runAfter"}
         /\ aborted = "none" /\ todo # <<>>
<1>1. aborted = "none" /\ todo # <<>> /\ Head(todo).op = op /\ todo \in Todos
  BY DEF IsAt, Running, TypeOK
<1>2. ASSUME NEW c \in Calls, todo = <<c>>
      PROVE  Head(todo) = c /\ Tail(todo) = <<>> /\ <<c>> \o <<>> = <<c>> /\ <<>> \in Seq(Calls)
  <2>1. Head(<<c>>) = c /\ Tail(<<c>>) = <<>>
    OBVIOUS
  <2>2. <<c>> \o <<>> = <<c>> /\ <<>> \in Seq(Calls)
    OBVIOUS
  <2> QED
    BY <1>2, <2>1, <2>2
<1>3. ASSUME NEW c \in Calls, NEW d \in Calls, todo = <<c, d>>
      PROVE  /\ Head(todo) = c /\ Tail(todo) = <<d>> /\ <<c>> \o <<d>> = <<c, d>>
             /\ <<d>> \in Seq(Calls)
  <2>1. Head(<<c, d>>) = c /\ Tail(<<c, d>>) = <<d>>
    <3>1. /\ Len(Tail(<<c, d>>)) = 1 /\ Tail(<<c, d>>)[1] = d
          /\ Tail(<<c, d>>) \in Seq(Calls)
      OBVIOUS
    <3>2. Len(<<d>>) = 1 /\ <<d>>[1] = d /\ <<d>> \in Seq(Calls)
      OBVIOUS
    <3> QED
      BY <3>1, <3>2
  <2>2. <<c>> \o <<d>> = <<c, d>> /\ <<d>> \in Seq(Calls)
    <3> DEFINE u == <<c>> \o <<d>>
    <3>1. <<c>> \in Seq(Calls) /\ <<d>> \in Seq(Calls) /\ <<c, d>> \in Seq(Calls)
      OBVIOUS
    <3>2. u \in Seq(Calls) /\ Len(u) = 2 /\ u[1] = c /\ u[2] = d
      BY <3>1
    <3> HIDE DEF u
    <3>3. u = <<c, d>>
      BY <3>1, <3>2
    <3> QED
      BY <3>1, <3>3 DEF u
  <2> QED
    BY <1>3, <2>1, <2>2
<1>4. CASE \E c \in Calls : todo = <<c>>
  BY <1>1, <1>2, <1>4
<1>5. CASE todo = <<Call("handleError"), Call("handleWrite")>>
  BY <1>1, <1>3, <1>5, AreCalls
<1>6. CASE todo = <<Call("runAfter"), Call("handleWrite")>>
  BY <1>1, <1>3, <1>6, AreCalls
<1> QED
  BY <1>1, <1>4, <1>5, <1>6, TodosAre

\* Which socket is handed over, and which calls are in todo.
LEMMA TodoIs ==
  ASSUME NEW t \in Todos
  PROVE  /\ {c.arg : c \in {d \in ToSet(t) : d.op = "newConnection"}} =
              IF t # <<>> /\ Head(t).op = "newConnection" THEN {Head(t).arg} ELSE {}
         /\ t = <<>> => ToSet(t) = {}
         /\ t # <<>> => /\ Head(t) \in ToSet(t)
                        /\ ToSet(t) \subseteq {Head(t), Call("handleWrite")}
<1>1. ASSUME NEW c \in Calls, t = <<c>>
      PROVE  ToSet(t) = {c} /\ Head(t) = c /\ t # <<>>
  <2>1. Head(<<c>>) = c /\ <<c>> # <<>>
    OBVIOUS
  <2> QED
    BY <1>1, <2>1, BeginsOne
<1>2. ASSUME NEW c \in Calls, NEW d \in Calls, t = <<c, d>>
      PROVE  ToSet(t) = {c, d} /\ Head(t) = c /\ t # <<>>
  <2>1. DOMAIN t = {1, 2} /\ t[1] = c /\ t[2] = d
    BY <1>2
  <2> QED
    BY <1>2, <2>1 DEF ToSet
<1>3. t = <<>> => ToSet(t) = {}
  BY DEF ToSet
<1>4. /\ Call("handleError").op = "handleError" /\ Call("runAfter").op = "runAfter"
      /\ Call("handleWrite").op = "handleWrite"
  BY AreCalls
<1>5. CASE t = <<>>
  BY <1>3, <1>5
<1>6. CASE \E c \in Calls : t = <<c>>
  BY <1>1, <1>6
<1>7. CASE t = <<Call("handleError"), Call("handleWrite")>>
  BY <1>2, <1>4, <1>7, AreCalls
<1>8. CASE t = <<Call("runAfter"), Call("handleWrite")>>
  BY <1>2, <1>4, <1>8, AreCalls
<1> QED
  BY <1>5, <1>6, <1>7, <1>8, TodosAre

LEMMA HandedOverIs ==
  ASSUME TypeOK
  PROVE  HandedOver =
           IF todo # <<>> /\ Head(todo).op = "newConnection" THEN {Head(todo).arg} ELSE {}
BY TodoIs DEF TypeOK, HandedOver

LEMMA InAhead ==
  ASSUME TypeOK
  PROVE  /\ ToSet(Ahead) = ToSet(todo) \cup ToSet(batch) \cup ToSet(functors)
         /\ \A ops : IsAhead(ops) <=> \E c \in ToSet(Ahead) : c.op \in ops
         /\ ToSet(Ahead) \subseteq Calls
         /\ BeginningCalls(Ahead) \in Nat
<1>1. ToSet(Ahead) = ToSet(todo) \cup ToSet(batch) \cup ToSet(functors)
  <2>1. ToSet(batch \o functors) = ToSet(batch) \cup ToSet(functors)
    BY AheadIs, ConcatSet
  <2>2. ToSet(todo \o (batch \o functors)) = ToSet(todo) \cup ToSet(batch \o functors)
    BY AheadIs, ConcatSet
  <2> QED
    BY <2>1, <2>2, AheadIs
<1>2. \A ops : IsAhead(ops) <=> \E c \in ToSet(Ahead) : c.op \in ops
  BY DEF IsAhead, ToSet
<1>3. ToSet(Ahead) \subseteq Calls
  <2>1. Ahead \in Seq(Calls)
    BY AheadIs
  <2> QED
    BY <2>1 DEF ToSet
<1> QED
  BY <1>1, <1>2, <1>3, AheadIs, BeginsFinite

-----------------------------------------------------------------------------
(* How a step changes the calls ahead.                                     *)

Regroups(s, t, u) == (s \o t) \o u = s \o (t \o u)

LEMMA Associative ==
  ASSUME NEW s \in Seq(Calls), NEW t \in Seq(Calls), NEW u \in Seq(Calls)
  PROVE  Regroups(s, t, u)
BY DEF Regroups

LEMMA NothingAdded ==
  ASSUME NEW s \in Seq(Calls)
  PROVE  s \o <<>> = s /\ <<>> \o s = s /\ <<>> \in AtMostOne /\ <<>> \in Seq(Calls)
BY DEF AtMostOne

\* Two call sequences at the front, what is queued at the end.
LEMMA AheadAfter ==
  ASSUME TypeOK, NEW come \in Seq(Calls), NEW more \in Seq(Calls), NEW queued \in Seq(Calls),
         todo' = come \o more, batch' = batch, functors' = functors \o queued
  PROVE  /\ more \o (batch \o functors) \in Seq(Calls)
         /\ Ahead' = come \o (more \o (batch \o functors)) \o queued
<1>1. batch \in Seq(Calls) /\ functors \in Seq(Calls) /\ batch \o functors \in Seq(Calls)
  BY AheadIs
<1> DEFINE later == batch \o functors
           rest == more \o later
           now == come \o more
           front == now \o batch
           end == functors \o queued
<1>2. rest \in Seq(Calls) /\ now \in Seq(Calls) /\ front \in Seq(Calls)
  <2> HIDE DEF later
  <2>1. rest \in Seq(Calls) /\ now \in Seq(Calls)
    BY <1>1, Concat DEF later
  <2> HIDE DEF now
  <2> QED
    BY <1>1, <2>1, Concat
<1>3. Ahead' = front \o end
  BY DEF Ahead
<1>4. now \o later = come \o rest
  <2> HIDE DEF later
  <2>1. later \in Seq(Calls)
    BY <1>1 DEF later
  <2>2. Regroups(come, more, later)
    BY <2>1, Associative
  <2> QED
    BY <2>2 DEF Regroups
<1> HIDE DEF now
<1>5. front \o functors = now \o later
  <2>1. Regroups(now, batch, functors)
    BY <1>1, <1>2, Associative
  <2> QED
    BY <2>1 DEF Regroups
<1> HIDE DEF front
<1>6. front \o end = (front \o functors) \o queued
  <2>1. Regroups(front, functors, queued)
    BY <1>1, <1>2, Associative
  <2> QED
    BY <2>1 DEF Regroups
<1> HIDE DEF end
<1>7. Ahead' = (come \o rest) \o queued
  BY <1>3, <1>4, <1>5, <1>6
<1> QED
  BY <1>2, <1>7

\* The loop goes on in the call it is in.
LEMMA Continued ==
  ASSUME TypeOK, NEW op, IsAt(op), NEW come \in AtMostOne, NEW queued \in AtMostOne,
         Continue(come), batch' = batch, functors' = functors \o queued
  PROVE  /\ BeginningCalls(Ahead') + (IF op \in Beginning THEN 1 ELSE 0) =
              BeginningCalls(Ahead) + BeginningCalls(come) + BeginningCalls(queued)
         /\ BeginningCalls(Ahead') \in Nat
         /\ ToSet(Ahead') \subseteq ToSet(Ahead) \cup ToSet(come) \cup ToSet(queued)
         /\ Once(Ahead) /\ Fresh(come, queued) => Once(Ahead')
         /\ Once(Ahead) /\ come = <<>> /\ queued = <<>> /\ op \in Cleanups
              => Head(todo) \notin ToSet(Ahead')
<1> DEFINE h == Head(todo)
           old == <<h>>
           rest == Tail(todo) \o (batch \o functors)
<1>1. /\ h \in Calls /\ h.op = op /\ Tail(todo) \in Seq(Calls)
      /\ todo = old \o Tail(todo) /\ old \in Seq(Calls)
  BY AtIs, BeginsOne
<1>2. come \in Seq(Calls) /\ queued \in Seq(Calls)
  BY OnceOne
<1>3. rest \in Seq(Calls) /\ Ahead' = come \o rest \o queued
  BY <1>1, <1>2, AheadAfter DEF Continue
<1>4. Ahead = old \o rest
  <2>1. Ahead = (old \o Tail(todo)) \o (batch \o functors) /\ batch \o functors \in Seq(Calls)
    BY <1>1, AheadIs
  <2>2. Regroups(old, Tail(todo), batch \o functors)
    BY <1>1, <2>1, Associative
  <2> QED
    BY <2>1, <2>2 DEF Regroups
<1>5. BeginningCalls(old) = IF op \in Beginning THEN 1 ELSE 0
  BY <1>1, BeginsOne
<1>6. ToSet(old) = {h}
  BY <1>1, BeginsOne
<1> HIDE DEF rest, h, old
<1>7. ASSUME Once(Ahead), come = <<>>, queued = <<>>, op \in Cleanups
      PROVE  h \notin ToSet(Ahead')
  <2>1. Apart(old, rest)
    BY <1>1, <1>3, <1>4, <1>7, OnceConcat
  <2>2. Ahead' = rest
    BY <1>3, <1>7, NothingAdded
  <2> QED
    BY <1>1, <1>6, <1>7, <2>1, <2>2 DEF Apart
<1>8. Replacement(old, come, rest, queued)
  BY <1>1, <1>2, <1>3, <1>4, Replaced
<1>9. BeginningCalls(Ahead') + BeginningCalls(old) =
        BeginningCalls(Ahead) + BeginningCalls(come) + BeginningCalls(queued)
  BY <1>8 DEF Replacement
<1>10. ToSet(Ahead') \subseteq ToSet(Ahead) \cup ToSet(come) \cup ToSet(queued)
  BY <1>8 DEF Replacement
<1>11. BeginningCalls(Ahead') \in Nat /\ (Once(Ahead) /\ Fresh(come, queued) => Once(Ahead'))
  BY <1>8 DEF Replacement
<1> QED
  BY <1>5, <1>7, <1>9, <1>10, <1>11 DEF h

\* The loop, or a thread, begins a call.
LEMMA Started ==
  ASSUME TypeOK, NEW come \in Seq(Calls), NEW queued \in AtMostOne,
         todo' = come \o todo, batch' = batch, functors' = functors \o queued
  PROVE  /\ BeginningCalls(Ahead') =
              BeginningCalls(Ahead) + BeginningCalls(come) + BeginningCalls(queued)
         /\ BeginningCalls(Ahead') \in Nat
         /\ ToSet(Ahead') = ToSet(Ahead) \cup ToSet(come) \cup ToSet(queued)
         /\ Once(Ahead) /\ Fresh(come, queued) => Once(Ahead')
<1> DEFINE none == <<>>
           old == todo \o (batch \o functors)
<1>1. queued \in Seq(Calls) /\ todo \in Seq(Calls)
  BY OnceOne, AheadIs
<1>2. old \in Seq(Calls) /\ Ahead' = come \o old \o queued
  BY <1>1, AheadAfter
<1>3. Ahead = old
  BY AheadIs
<1>4. BeginningCalls(none) = 0 /\ ToSet(none) = {} /\ none \in Seq(Calls)
  BY AreCalls, BeginsOne
<1>5. Ahead = none \o old
  BY <1>2, <1>3, NothingAdded
<1> HIDE DEF none, old
<1>6. Replacement(none, come, old, queued)
  BY <1>2, <1>4, <1>5, Replaced
<1>7. ToSet(Ahead') = ToSet(Ahead) \cup ToSet(come) \cup ToSet(queued)
  BY <1>4, <1>6 DEF Replacement
<1>8. BeginningCalls(Ahead') = BeginningCalls(Ahead) + BeginningCalls(come) + BeginningCalls(queued)
      /\ BeginningCalls(Ahead') \in Nat
  BY <1>4, <1>6 DEF Replacement
<1> QED
  BY <1>6, <1>7, <1>8 DEF Replacement

\* What the machinery of the loop does leaves the calls ahead as they are.
LEMMA Kept ==
  ASSUME TypeOK, CallsInPhase,
         LoopMachinery \/ UNCHANGED <<todo, batch, functors>>
  PROVE  Ahead' = Ahead
<1>1. todo \in Seq(Calls) /\ batch \in Seq(Calls) /\ functors \in Seq(Calls)
  BY AheadIs
<1>2. CASE SwapPending
  <2>1. todo = <<>> /\ batch = <<>> /\ todo' = <<>> /\ batch' = functors /\ functors' = <<>>
    BY <1>2 DEF SwapPending, Idle, CallsInPhase
  <2>2. <<>> \o functors = functors /\ functors \o <<>> = functors /\ <<>> \o <<>> = <<>>
    BY <1>1, NothingAdded
  <2>3. Ahead = functors
    BY <2>1, <2>2 DEF Ahead
  <2>4. Ahead' = functors
    BY <2>1, <2>2 DEF Ahead
  <2> QED
    BY <2>3, <2>4
<1>3. CASE RunFunctor
  <2>1. /\ todo = <<>> /\ batch # <<>> /\ todo' = <<Head(batch)>> /\ batch' = Tail(batch)
        /\ functors' = functors
    BY <1>3 DEF RunFunctor, Idle
  <2>2. <<Head(batch)>> \o Tail(batch) = batch /\ <<>> \o batch = batch
    BY <1>1, <2>1
  <2>3. Ahead' = (<<Head(batch)>> \o Tail(batch)) \o functors
    BY <2>1 DEF Ahead
  <2>4. Ahead = (<<>> \o batch) \o functors
    BY <2>1 DEF Ahead
  <2> QED
    BY <2>2, <2>3, <2>4
<1>4. CASE FunctorsDone \/ UNCHANGED <<todo, batch, functors>>
  BY <1>4 DEF FunctorsDone, Ahead
<1> QED
  BY <1>2, <1>3, <1>4 DEF LoopMachinery

-----------------------------------------------------------------------------
(* Channels, timers, and what the loop is at.                              *)

LEMMA ChannelIs ==
  /\ Added \in ChannelType /\ Removed \in ChannelType
  /\ Added.registered /\ ~Removed.registered
  /\ \A fd \in Fds : /\ [fd |-> fd, ch |-> Added] # None
                     /\ [fd |-> fd, ch |-> Removed] # None
<1>1. Added = [events |-> {"write"}, index |-> "kAdded", registered |-> TRUE,
               interest |-> {"write"}, fatal |-> FALSE]
  BY DEF Added, enableWriting, NewChannel, updateChannel, update
<1>2. Removed = [events |-> {}, index |-> "kNew", registered |-> FALSE,
                 interest |-> {}, fatal |-> FALSE]
  BY <1>1 DEF Removed, disableAll, updateChannel, update
<1>3. Added \in ChannelType /\ Removed \in ChannelType
  BY <1>1, <1>2 DEF ChannelType, Interests
<1>4. Added.registered /\ ~Removed.registered
  BY <1>1, <1>2
<1>5. \A fd \in Fds, ch \in ChannelType : [fd |-> fd, ch |-> ch] # None
  BY ConnectorAssumption
<1> HIDE DEF Added, Removed
<1> QED
  BY <1>3, <1>4, <1>5

\* A registered channel, and what disableAll makes of it.
LEMMA RegisteredIs ==
  ASSUME TypeOK, Registered
  PROVE  /\ channel_.fd \in Fds /\ channel_ # None
         /\ channel_ = [fd |-> channel_.fd, ch |-> Added]
         /\ [channel_ EXCEPT !.ch = disableAll(@)] = [fd |-> channel_.fd, ch |-> Removed]
<1>1. channel_ \in [fd : Fds, ch : {Added, Removed}] /\ channel_ # None /\ channel_.ch.registered
  BY DEF TypeOK, ConnectorTypeOK, Registered
<1>2. channel_.ch = Added
  BY <1>1, ChannelIs
<1>3. channel_ = [fd |-> channel_.fd, ch |-> Added]
  BY <1>1, <1>2
<1>4. [channel_ EXCEPT !.ch = disableAll(@)] = [fd |-> channel_.fd, ch |-> disableAll(Added)]
  BY <1>1, <1>2
<1> QED
  BY <1>1, <1>3, <1>4 DEF Removed

LEMMA AtMostOneElement ==
  ASSUME NEW S, NEW x, S \subseteq {x}
  PROVE  Cardinality(S) = IF S = {} THEN 0 ELSE 1
<1>1. S = {} \/ S = {x}
  OBVIOUS
<1> QED
  BY <1>1, FS_EmptySet, FS_Singleton

LEMMA OneCalls ==
  ASSUME NEW s \in AtMostOne
  PROVE  /\ s \in Seq(Calls)
         /\ s = <<>> => ToSet(s) = {} /\ BeginningCalls(s) = 0
         /\ \A c \in Calls : s = <<c>> =>
              ToSet(s) = {c} /\ BeginningCalls(s) = IF c.op \in Beginning THEN 1 ELSE 0
<1>1. s \in Seq(Calls)
  BY OnceOne
<1>2. ToSet(<<>>) = {} /\ BeginningCalls(<<>>) = 0
  BY BeginsOne, AreCalls
<1>3. ASSUME NEW c \in Calls, s = <<c>>
      PROVE  ToSet(s) = {c} /\ BeginningCalls(s) = IF c.op \in Beginning THEN 1 ELSE 0
  BY <1>3, BeginsOne
<1> QED
  BY <1>1, <1>2, <1>3

LEMMA Nothing ==
  /\ <<>> \in AtMostOne /\ <<>> \in Seq(Calls)
  /\ ToSet(<<>>) = {} /\ BeginningCalls(<<>>) = 0
BY BeginsOne, AreCalls DEF AtMostOne

\* The socket handed over after a step.
HandsOver(t) == {c.arg : c \in {d \in ToSet(t) : d.op = "newConnection"}}

\* What follows a call in todo.
LEMMA TodoAfter ==
  ASSUME TypeOK, NEW op, IsAt(op), NEW come \in AtMostOne, Continue(come),
         op \in {"handleError", "runAfter"} => come = <<>> \/ come = <<Call("runAfter")>>
  PROVE  /\ todo' \in Todos
         /\ ToSet(todo') \subseteq ToSet(come) \cup (ToSet(todo) \cap {Call("handleWrite")})
         /\ HandsOver(todo') = HandsOver(come)
         /\ todo' # <<>> => Head(todo') \in ToSet(todo')
<1>1. \/ Tail(todo) = <<>>
      \/ /\ Tail(todo) = <<Call("handleWrite")>> /\ op \in {"handleError", "runAfter"}
         /\ todo = <<Head(todo)>> \o Tail(todo)
  BY AtIs
<1>2. todo' = come \o Tail(todo) /\ come \in Seq(Calls) /\ Call("handleWrite") \in Calls
  BY OnceOne, AreCalls DEF Continue
<1>3. ASSUME NEW t \in Todos PROVE t # <<>> => Head(t) \in ToSet(t)
  BY <1>3, TodoIs
<1>4. CASE Tail(todo) = <<>>
  <2>1. todo' = come
    BY <1>2, <1>4, NothingAdded
  <2>2. come \in Todos
    BY DEF AtMostOne, Todos, Calls
  <2> QED
    BY <1>3, <2>1, <2>2
<1>5. CASE Tail(todo) = <<Call("handleWrite")>> /\ op \in {"handleError", "runAfter"}
           /\ todo = <<Head(todo)>> \o Tail(todo)
  <2> DEFINE w == Call("handleWrite")
  <2>1. w \in Calls /\ w.op = "handleWrite" /\ ToSet(<<w>>) = {w} /\ <<w>> \in Seq(Calls)
    BY AreCalls, BeginsOne
  <2>2. w \in ToSet(todo)
    <3>1. <<Head(todo)>> \in Seq(Calls)
      BY AtIs, BeginsOne
    <3>2. ToSet(<<Head(todo)>> \o <<w>>) = ToSet(<<Head(todo)>>) \cup ToSet(<<w>>)
      BY <2>1, <3>1, ConcatSet
    <3> QED
      BY <1>5, <2>1, <3>2
  <2>3. ToSet(come \o <<w>>) = ToSet(come) \cup ToSet(<<w>>)
    BY <1>2, <2>1, ConcatSet
  <2>4. todo' = come \o <<w>>
    BY <1>2, <1>5
  <2>5. todo' \in Todos
    <3>1. CASE come = <<>>
      <4>1. todo' = <<w>>
        BY <2>1, <2>4, <3>1, NothingAdded
      <4> QED
        BY <2>1, <4>1 DEF Todos, Calls
    <3>2. CASE come = <<Call("runAfter")>>
      <4>1. todo' = <<Call("runAfter"), w>>
        <5> DEFINE c == Call("runAfter")
                   u == <<c>> \o <<w>>
        <5>1. c \in Calls
          BY AreCalls
        <5> HIDE DEF c, w
        <5>2. <<c>> \in Seq(Calls) /\ <<w>> \in Seq(Calls) /\ <<c, w>> \in Seq(Calls)
          BY <2>1, <5>1
        <5>3. u \in Seq(Calls) /\ Len(u) = 2 /\ u[1] = c /\ u[2] = w
          BY <5>2
        <5>4. todo' = u
          BY <2>4, <3>2 DEF c
        <5> HIDE DEF u
        <5>5. u = <<c, w>>
          BY <5>2, <5>3
        <5> QED
          BY <5>4, <5>5 DEF c
      <4> QED
        BY <4>1 DEF Todos
    <3> QED
      BY <1>5, <3>1, <3>2
  <2>6. HandsOver(todo') = HandsOver(come)
    <3> HIDE DEF w
    <3>1. {d \in ToSet(todo') : d.op = "newConnection"} = {d \in ToSet(come) : d.op = "newConnection"}
      BY <2>1, <2>3, <2>4
    <3> QED
      BY <3>1 DEF HandsOver
  <2> QED
    BY <1>3, <2>1, <2>2, <2>3, <2>4, <2>5, <2>6
<1> QED
  BY <1>1, <1>4, <1>5

-----------------------------------------------------------------------------
(* What the steps of SocketInv have in common.                             *)

LEMMA OnceIs ==
  Once(Ahead) <=>
    \A i, j \in DOMAIN Ahead : Ahead[i].op \in Cleanups /\ Ahead[j] = Ahead[i] => j = i
BY DEF Once

\* The program has stopped.
LEMMA Stopped ==
  ASSUME TypeOK', CallsInPhase', aborted' # "none"
  PROVE  SocketInv'
BY DEF SocketInv, ConnectingRegistered, OneOwner, ConnectionIsThe, ConnectionStates, SocketsOwned, Running

\* A step of the call the loop is in.
LEMMA GoesOn ==
  ASSUME SocketInv, NEW op, IsAt(op), NEW come \in AtMostOne, NEW queued \in AtMostOne,
         Continue(come), batch' = batch, phase' = phase, functors' = functors \o queued,
         op \in {"handleError", "runAfter"} => come = <<>> \/ come = <<Call("runAfter")>>,
         \A c \in ToSet(come) : \/ c.op \in {"startInLoop", "runAfter"}
                                \/ /\ c.op \in {"newConnection", "restart"} \cup ConnectionOps
                                   /\ phase = "events",
         \A c \in ToSet(queued) : c.op \in Cleanups => c \notin ToSet(Ahead)
  PROVE  /\ todo' \in Todos
         /\ CallsInPhase'
         /\ HandedOver' = HandsOver(come)
         /\ Once(Ahead')
         /\ ToSet(Ahead') \subseteq ToSet(Ahead) \cup ToSet(come) \cup ToSet(queued)
         /\ come = <<>> /\ queued = <<>> /\ op \in Cleanups => Head(todo) \notin ToSet(Ahead')
         /\ ~IsAt("handleError")'
         /\ \A o \in {"restart"} \cup ConnectionOps : IsAt(o)' => \E c \in ToSet(come) : c.op = o
<1>1. TypeOK /\ CallsInPhase /\ Once(Ahead) /\ phase # "poll"
  BY OnceIs DEF SocketInv, OneOwner, CallsInPhase, IsAt
<1>2. /\ todo' \in Todos
      /\ ToSet(todo') \subseteq ToSet(come) \cup (ToSet(todo) \cap {Call("handleWrite")})
      /\ HandsOver(todo') = HandsOver(come)
      /\ todo' # <<>> => Head(todo') \in ToSet(todo')
  BY <1>1, TodoAfter
<1>3. Call("handleWrite").op = "handleWrite"
  BY AreCalls
<1>4. CallsInPhase'
  <2>1. ASSUME NEW c \in ToSet(todo')
        PROVE  /\ c.op \in {"handleError", "handleWrite", "newConnection", "restart"} \cup ConnectionOps
                       => phase = "events"
               /\ c.op \in {"resetChannel", "connectDestroyed", "cancel"} => phase = "functors"
    <3>1. CASE c \in ToSet(come)
      BY <3>1 DEF ConnectionOps
    <3>2. CASE c \in ToSet(todo) /\ c = Call("handleWrite")
      BY <1>1, <1>3, <3>2 DEF CallsInPhase, ConnectionOps
    <3> QED
      BY <1>2, <2>1, <3>1, <3>2
  <2> QED
    BY <1>1, <2>1 DEF CallsInPhase
<1>5. Fresh(come, queued)
  BY DEF Fresh, Cleanups, ConnectionOps
<1>6. /\ Once(Ahead')
      /\ ToSet(Ahead') \subseteq ToSet(Ahead) \cup ToSet(come) \cup ToSet(queued)
      /\ come = <<>> /\ queued = <<>> /\ op \in Cleanups => Head(todo) \notin ToSet(Ahead')
  BY <1>1, <1>5, Continued
<1>7. HandedOver' = HandsOver(come)
  BY <1>2 DEF HandedOver, HandsOver
<1>8. \A c \in ToSet(todo') : c.op = "handleWrite" \/ c \in ToSet(come)
  BY <1>2, <1>3
<1>9. /\ ~IsAt("handleError")'
      /\ \A o \in {"restart"} \cup ConnectionOps : IsAt(o)' => \E c \in ToSet(come) : c.op = o
  BY <1>2, <1>8 DEF IsAt, ConnectionOps
<1> QED
  BY <1>2, <1>4, <1>6, <1>7, <1>9

\* No call about the client's connection is under way.
Settled == \A o \in ConnectionOps : ~IsAt(o)

LEMMA SettledIs ==
  /\ Settled <=> ~IsAt("connectEstablished") /\ ~IsAt("removeConnection")
  /\ \A op : IsAt(op) /\ op \notin ConnectionOps => Settled
  /\ todo = <<>> => Settled
BY DEF Settled, ConnectionOps, IsAt

LEMMA StatesKept ==
  ASSUME SocketInv, Running, Settled, Settled', UNCHANGED <<conns, disconnected>>
  PROVE  ConnectionStates'
BY DEF SocketInv, ConnectionStates, Settled, ConnectionOps

LEMMA StatesSame ==
  ASSUME SocketInv, Running, aborted' = aborted,
         UNCHANGED <<todo, conns, connection_, hup, disconnected>>
  PROVE  ConnectionStates'
BY DEF SocketInv, ConnectionStates, IsAt, Running

\* The calls change, and nothing they are about.
LEMMA Quiet ==
  ASSUME SocketInv, Running, TypeOK', CallsInPhase', HandedOver' = HandedOver, Once(Ahead'),
         ConnectionStates',
         \A c \in ToSet(Ahead') : c.op \in Cleanups => c \in ToSet(Ahead),
         IsAt("handleError")' => Registered, IsAt("restart")' => IsAt("restart"),
         UNCHANGED <<channel_, state_, open, connection_, conns, hup, disconnected>>
  PROVE  SocketInv'
<1>1. ConnectingRegistered'
  BY DEF SocketInv, ConnectingRegistered, Registered
<1>2. OneOwner'
  <2>1. \A i, j \in DOMAIN Ahead' : Ahead'[i].op \in Cleanups /\ Ahead'[j] = Ahead'[i] => j = i
    BY DEF Once
  <2>2. \A c \in ToSet(Ahead') : /\ c.op = "connectDestroyed" => conns[c.arg] \in Closed
                                 /\ c.op = "resetChannel" => channel_ # None /\ ~Registered
    BY DEF SocketInv, OneOwner, Cleanups
  <2>3. Registered' = Registered
    BY DEF Registered
  <2>4. /\ Registered => conns[channel_.fd] = "none" /\ HandedOver = {}
        /\ \A fd \in HandedOver : conns[fd] = "none"
    BY DEF SocketInv, OneOwner
  <2> HIDE DEF Registered
  <2> QED
    BY <2>1, <2>2, <2>3, <2>4 DEF OneOwner
<1>3. ConnectionIsThe'
  BY DEF SocketInv, ConnectionIsThe
<1>4. SocketsOwned'
  BY DEF SocketInv, SocketsOwned, Registered
<1> QED
  BY <1>1, <1>2, <1>3, <1>4 DEF SocketInv

\* Nothing about the sockets changes.
LEMMA Untouched ==
  ASSUME SocketInv, Running, TypeOK', aborted' = aborted,
         UNCHANGED <<channel_, state_, open, connection_, conns, hup, disconnected,
                     phase, todo, batch, functors>>
  PROVE  SocketInv'
<1>1. Ahead' = Ahead /\ HandedOver' = HandedOver /\ CallsInPhase'
  BY DEF Ahead, HandedOver, SocketInv, CallsInPhase
<1>2. ConnectingRegistered'
  BY DEF SocketInv, ConnectingRegistered, Registered, IsAt, Running
<1>3. OneOwner'
  BY <1>1 DEF SocketInv, OneOwner, Registered, Running
<1>4. ConnectionIsThe'
  BY <1>1 DEF SocketInv, ConnectionIsThe, IsAt, Running
<1>5. SocketsOwned'
  BY <1>1 DEF SocketInv, SocketsOwned, Registered, Running
<1>6. ConnectionStates'
  BY StatesSame
<1> QED
  BY <1>1, <1>2, <1>3, <1>4, <1>5, <1>6 DEF SocketInv

\* The loop goes on with a call that is not about the sockets.
LEMMA GoesOnQuietly ==
  ASSUME SocketInv, NEW op, IsAt(op), op \notin {"newConnection"} \cup ConnectionOps, NEW come \in AtMostOne,
         Continue(come), TypeOK',
         op \in {"handleError", "runAfter"} => come = <<>> \/ come = <<Call("runAfter")>>,
         \A c \in ToSet(come) : c.op \in {"startInLoop", "runAfter"},
         UNCHANGED <<channel_, state_, open, connection_, conns, hup, disconnected,
                     phase, batch, functors>>
  PROVE  SocketInv'
<1> DEFINE none == <<>>
<1>1. none \in AtMostOne /\ functors' = functors \o none /\ ToSet(none) = {}
  BY AheadIs, NothingAdded, Nothing DEF SocketInv
<1>2. \A c \in ToSet(none) : c.op \in Cleanups => c \notin ToSet(Ahead)
  BY <1>1
<1> HIDE DEF none
<1>3. /\ CallsInPhase' /\ HandedOver' = HandsOver(come) /\ Once(Ahead')
      /\ ToSet(Ahead') \subseteq ToSet(Ahead) \cup ToSet(come) \cup ToSet(none)
      /\ ~IsAt("handleError")' /\ ~IsAt("restart")' /\ Settled'
  BY <1>1, <1>2, GoesOn DEF Settled, ConnectionOps
<1>4. HandedOver' = HandedOver
  <2>1. HandsOver(come) = {}
    BY DEF HandsOver
  <2>2. HandedOver = {}
    BY HandedOverIs DEF SocketInv, IsAt
  <2> QED
    BY <1>3, <2>1, <2>2
<1>5. \A c \in ToSet(Ahead') : c.op \in Cleanups => c \in ToSet(Ahead)
  BY <1>1, <1>3 DEF Cleanups
<1>6. ConnectionStates'
  BY <1>3, SettledIs, StatesKept DEF IsAt
<1> QED
  BY <1>3, <1>4, <1>5, <1>6, Quiet DEF IsAt

-----------------------------------------------------------------------------
(* The steps that keep the sockets in order, for every value of the        *)
(* constants.                                                              *)

\* A call about the client's connection is all there is to do.
LEMMA OneCall ==
  ASSUME NEW op \in ConnectionOps, NEW fd \in Fds
  PROVE  LET t == <<Do(op, fd)>>
         IN /\ t \in AtMostOne /\ t \in Todos /\ t # <<>> /\ ToSet(t) = {Do(op, fd)}
            /\ Head(t) = Do(op, fd) /\ Do(op, fd).op = op /\ Do(op, fd).arg = fd
            /\ HandsOver(t) = {}
<1> DEFINE c == Do(op, fd)
           t == <<c>>
<1>1. c \in Calls /\ c.op = op /\ c.arg = fd
  BY AreCalls
<1>2. Head(t) = c /\ t # <<>>
  OBVIOUS
<1>3. t \in AtMostOne /\ t \in Todos
  BY <1>1 DEF AtMostOne, Todos, Calls
<1>4. ToSet(t) = {c}
  BY <1>1, BeginsOne
<1> HIDE DEF c, t
<1>5. HandsOver(t) = {}
  BY <1>1, <1>4 DEF HandsOver, ConnectionOps
<1> QED
  BY <1>1, <1>2, <1>3, <1>4, <1>5 DEF c, t

\* Other calls than handleError and runAfter have nothing after them.
LEMMA Follows ==
  ASSUME TypeOK, NEW op, IsAt(op), op \notin {"handleError", "runAfter"},
         NEW come \in AtMostOne, Continue(come)
  PROVE  todo' = come
<1>1. Tail(todo) = <<>> /\ come \in Seq(Calls)
  BY AtIs, OnceOne
<1> QED
  BY <1>1, NothingAdded DEF Continue

LEMMA RefusesSockets ==
  ASSUME SocketInv, StartInLoopRefuses, UNCHANGED clientVars
  PROVE  SocketInv'
<1>1. IsAt("startInLoop") /\ TypeOK /\ <<>> \in AtMostOne /\ ToSet(<<>>) = {}
  BY Nothing DEF StartInLoopRefuses, SocketInv
<1>2. CASE state_ # "kDisconnected"
  <2>1. TypeOK' /\ CallsInPhase' /\ aborted' # "none"
    BY <1>2 DEF StartInLoopRefuses, clientVars, connectorVars, timerVars, runVars, callVars,
                SocketInv, TypeOK, ConnectorTypeOK, CallsInPhase, Abort
  <2> QED
    BY <2>1, Stopped
<1>3. CASE state_ = "kDisconnected"
  <2>1. Continue(<<>>)
    BY <1>3 DEF StartInLoopRefuses
  <2>2. todo' \in Todos
    BY <1>1, <2>1, TodoAfter
  <2>3. TypeOK'
    BY <1>3, <2>2 DEF StartInLoopRefuses, clientVars, timerVars, runVars, callVars,
                SocketInv, TypeOK, ConnectorTypeOK
  <2>4. UNCHANGED <<channel_, state_, open, connection_, conns, hup, disconnected,
                    phase, batch, functors>>
    BY DEF StartInLoopRefuses, clientVars, timerVars, runVars, callVars
  <2> QED
    BY <1>1, <2>1, <2>3, <2>4, GoesOnQuietly DEF ConnectionOps
<1> QED
  BY <1>2, <1>3

LEMMA RetryCallsAre ==
  /\ retryCalls \in AtMostOne
  /\ retryCalls = <<>> \/ retryCalls = <<Call("runAfter")>>
  /\ \A c \in ToSet(retryCalls) : c.op = "runAfter"
  /\ BeginningCalls(retryCalls) = IF connect_ THEN 1 ELSE 0
  /\ HandsOver(retryCalls) = {}
<1>1. Call("runAfter") \in Calls /\ Call("runAfter").op = "runAfter"
  BY AreCalls
<1>2. retryCalls \in AtMostOne /\ (retryCalls = <<>> \/ retryCalls = <<Call("runAfter")>>)
  BY <1>1 DEF retryCalls, AtMostOne
<1>3. \A c \in ToSet(retryCalls) : c.op = "runAfter"
  BY <1>1, <1>2, OneCalls
<1>4. BeginningCalls(retryCalls) = IF connect_ THEN 1 ELSE 0
  <2>1. connect_ => retryCalls = <<Call("runAfter")>>
    BY DEF retryCalls
  <2>2. ~connect_ => retryCalls = <<>>
    BY DEF retryCalls
  <2> HIDE DEF retryCalls
  <2> QED
    BY <1>1, <1>2, <2>1, <2>2, OneCalls DEF Beginning
<1>5. HandsOver(retryCalls) = {}
  BY <1>3 DEF HandsOver
<1> QED
  BY <1>2, <1>3, <1>4, <1>5

LEMMA FailsSockets ==
  ASSUME SocketInv, ConnectFails \/ ConnectGivesUp, UNCHANGED clientVars
  PROVE  SocketInv'
<1>1. IsAt("startInLoop") /\ TypeOK /\ <<>> \in AtMostOne /\ ToSet(<<>>) = {}
  BY Nothing DEF ConnectFails, ConnectGivesUp, Connects, SocketInv
<1>2. PICK come \in AtMostOne : Continue(come) /\ come \in {<<>>, retryCalls}
  BY <1>1, RetryCallsAre DEF ConnectFails, ConnectGivesUp
<1>3. \A c \in ToSet(come) : c.op = "runAfter"
  BY <1>1, <1>2, RetryCallsAre
<1>4. todo' \in Todos
  BY <1>1, <1>2, TodoAfter
<1>5. TypeOK'
  <2>1. UNCHANGED <<connect_, state_, channel_, retryDelayMs_, timerVars, attempt, open, runVars>>
        /\ gaveUp' \in BOOLEAN
    BY DEF ConnectFails, ConnectGivesUp, SocketInv, TypeOK, ConnectorTypeOK
  <2> QED
    BY <1>4, <2>1 DEF clientVars, timerVars, runVars, callVars, SocketInv, TypeOK, ConnectorTypeOK
<1>6. UNCHANGED <<channel_, state_, open, connection_, conns, hup, disconnected,
                  phase, batch, functors>>
  BY DEF ConnectFails, ConnectGivesUp, clientVars, timerVars, runVars, callVars
<1> QED
  BY <1>1, <1>2, <1>3, <1>5, <1>6, GoesOnQuietly DEF ConnectionOps

LEMMA DelayIs ==
  ASSUME TypeOK
  PROVE  Min({2 * retryDelayMs_, kMaxRetryDelayMs}) \in kInitRetryDelayMs .. kMaxRetryDelayMs
<1> DEFINE S == {2 * retryDelayMs_, kMaxRetryDelayMs}
           m == Min(S)
<1>1. /\ kInitRetryDelayMs \in Nat /\ kMaxRetryDelayMs \in Nat
      /\ kInitRetryDelayMs <= kMaxRetryDelayMs
      /\ retryDelayMs_ \in kInitRetryDelayMs .. kMaxRetryDelayMs
  BY ConnectorAssumption DEF TypeOK, ConnectorTypeOK
<1>2. \E x \in S : \A y \in S : x <= y
  BY <1>1
<1>3. m \in S /\ \A y \in S : m <= y
  BY <1>2 DEF Min
<1> HIDE DEF m
<1> QED
  BY <1>1, <1>3 DEF m

LEMMA TimersSockets ==
  ASSUME SocketInv, RunAfter \/ CancelTimer, UNCHANGED clientVars
  PROVE  SocketInv'
<1>1. PICK op \in {"runAfter", "cancel"} : IsAt(op)
  BY DEF RunAfter, CancelTimer
<1>2. TypeOK /\ <<>> \in AtMostOne /\ ToSet(<<>>) = {} /\ Continue(<<>>)
  BY Nothing DEF RunAfter, CancelTimer, SocketInv
<1>3. todo' \in Todos
  BY <1>1, <1>2, TodoAfter
<1>4. timers' \subseteq TimerSeqs /\ ripe' \subseteq timers' /\ timerId_' \in TimerSeqs \cup {None}
      /\ retryDelayMs_' \in kInitRetryDelayMs .. kMaxRetryDelayMs
  BY <1>2, DelayIs DEF RunAfter, CancelTimer, TypeOK, ConnectorTypeOK
<1>5. TypeOK'
  BY <1>2, <1>3, <1>4 DEF RunAfter, CancelTimer, clientVars, runVars, callVars,
              TypeOK, ConnectorTypeOK
<1>6. UNCHANGED <<channel_, state_, open, connection_, conns, hup, disconnected,
                  phase, batch, functors>>
  BY DEF RunAfter, CancelTimer, clientVars, runVars, callVars
<1> QED
  BY <1>1, <1>2, <1>5, <1>6, GoesOnQuietly DEF ConnectionOps

\* Calls of the loop that are not the calls of a channel.
LEMMA FunctorsAre ==
  ASSUME NEW c \in FunctorCalls
  PROVE  /\ c \in Calls /\ <<c>> \in Todos /\ ToSet(<<c>>) = {c} /\ Head(<<c>>) = c
         /\ c.op \in {"startInLoop", "resetChannel", "cancel", "connectDestroyed"}
         /\ HandsOver(<<c>>) = {} /\ HandsOver(<<>>) = {}
<1>1. c \in Calls /\ <<c>> \in Todos /\ c.op \in {"startInLoop", "resetChannel", "cancel", "connectDestroyed"}
  BY DEF Calls, Todos, FunctorCalls, Call, Do
<1>2. ToSet(<<c>>) = {c} /\ Head(<<c>>) = c /\ ToSet(<<>>) = {}
  BY <1>1, BeginsOne
<1>3. HandsOver(<<c>>) = {} /\ HandsOver(<<>>) = {}
  BY <1>1, <1>2 DEF HandsOver
<1> QED
  BY <1>1, <1>2, <1>3

LEMMA MachinerySockets ==
  ASSUME SocketInv, LoopMachinery, UNCHANGED clientVars
  PROVE  SocketInv'
<1>1. TypeOK /\ CallsInPhase /\ Running /\ todo = <<>> /\ Once(Ahead)
  BY OnceIs DEF SocketInv, OneOwner, LoopMachinery, SwapPending, RunFunctor, FunctorsDone, Idle
<1>2. Ahead' = Ahead
  BY <1>1, Kept
<1>3. UNCHANGED <<channel_, state_, open, connection_, conns, hup, disconnected>>
  BY DEF LoopMachinery, SwapPending, RunFunctor, FunctorsDone, clientVars, timerVars, callVars
<1>4. HandedOver = {} /\ HandsOver(<<>>) = {} /\ HandedOver' = HandsOver(todo')
  BY <1>1, HandedOverIs, FunctorsAre, AreCalls DEF HandedOver, HandsOver
<1>5. \A c \in ToSet(Ahead') : c.op \in Cleanups => c \in ToSet(Ahead)
  BY <1>2
<1>6. CASE SwapPending \/ FunctorsDone
  <2>1. todo' = <<>> /\ HandedOver' = {}
    BY <1>1, <1>4, <1>6 DEF SwapPending, FunctorsDone
  <2>2. CallsInPhase' /\ ~IsAt("handleError")' /\ ~IsAt("restart")'
    BY <1>1, <1>6, <2>1, Nothing DEF SwapPending, FunctorsDone, CallsInPhase, IsAt
  <2>3. functors' \in Seq(FunctorCalls) /\ batch' \in Seq(FunctorCalls)
    <3>1. <<>> \in Seq(FunctorCalls)
      OBVIOUS
    <3>2. \/ functors' = <<>> /\ batch' = functors
          \/ functors' = functors /\ batch' = batch
      BY <1>6 DEF SwapPending, FunctorsDone
    <3> QED
      BY <1>1, <3>1, <3>2 DEF TypeOK
  <2>4. TypeOK'
    BY <1>1, <1>6, <2>1, <2>3 DEF SwapPending, FunctorsDone, clientVars, timerVars, callVars,
              TypeOK, ConnectorTypeOK, Todos
  <2>5. ConnectionStates'
    BY <1>1, <1>3, <2>1, SettledIs, StatesKept DEF Settled, IsAt
  <2> QED
    BY <1>1, <1>2, <1>3, <1>4, <1>5, <2>1, <2>2, <2>4, <2>5, Quiet
<1>7. CASE RunFunctor
  <2> DEFINE c == Head(batch)
  <2>1. c \in FunctorCalls /\ Tail(batch) \in Seq(FunctorCalls) /\ phase = "functors"
    BY <1>1, <1>7 DEF RunFunctor, TypeOK
  <2>2. todo' = <<c>> /\ batch' = Tail(batch) /\ phase' = phase /\ functors' = functors
    BY <1>7 DEF RunFunctor
  <2> HIDE DEF c
  <2>3. /\ todo' \in Todos /\ ToSet(todo') = {c} /\ Head(todo') = c /\ HandedOver' = {}
        /\ c.op \in {"startInLoop", "resetChannel", "cancel", "connectDestroyed"}
    BY <1>4, <2>1, <2>2, FunctorsAre
  <2>4. CallsInPhase' /\ ~IsAt("handleError")' /\ ~IsAt("restart")'
    BY <2>1, <2>2, <2>3 DEF CallsInPhase, ConnectionOps, IsAt
  <2>5. TypeOK'
    BY <1>1, <1>7, <2>1, <2>2, <2>3 DEF RunFunctor, clientVars, timerVars, callVars,
              TypeOK, ConnectorTypeOK
  <2>6. ConnectionStates'
    BY <1>1, <1>3, <2>3, SettledIs, StatesKept DEF Settled, ConnectionOps, IsAt
  <2> QED
    BY <1>1, <1>2, <1>3, <1>4, <1>5, <2>3, <2>4, <2>5, <2>6, Quiet
<1> QED
  BY <1>6, <1>7 DEF LoopMachinery

\* The loop starts to connect, or a thread asks it to, or to cancel a timer.
LEMMA BeginsQuietly ==
  ASSUME SocketInv, Running, TypeOK', NEW come \in AtMostOne, NEW queued \in AtMostOne,
         todo' = come \o todo, come = <<>> \/ todo = <<>>, phase # "poll" \/ come = <<>>,
         \A c \in ToSet(come) : c.op = "startInLoop",
         \A c \in ToSet(queued) : c.op \in {"startInLoop", "cancel"},
         aborted' = aborted, batch' = batch, phase' = phase, functors' = functors \o queued,
         UNCHANGED <<channel_, state_, open, connection_, conns, hup, disconnected>>
  PROVE  SocketInv'
<1>1. TypeOK /\ CallsInPhase /\ Once(Ahead) /\ Fresh(come, queued) /\ come \in Seq(Calls)
  BY OnceIs, OnceOne DEF SocketInv, OneOwner, Fresh, Cleanups
<1>2. /\ ToSet(Ahead') = ToSet(Ahead) \cup ToSet(come) \cup ToSet(queued)
      /\ Once(Ahead')
  BY <1>1, Started
<1>3. ToSet(todo') = ToSet(come) \cup ToSet(todo)
  BY <1>1, AheadIs, ConcatSet
<1>4. HandedOver' = HandedOver
  BY <1>3 DEF HandedOver
<1>5. CallsInPhase'
  <2>1. phase = "poll" => todo' = <<>>
    BY <1>1, NothingAdded DEF CallsInPhase
  <2> QED
    BY <1>1, <1>3, <2>1 DEF CallsInPhase, ConnectionOps
<1>6. (IsAt("handleError")' => Registered) /\ (IsAt("restart")' => IsAt("restart"))
  <2>1. CASE come = <<>>
    <3>1. todo' = todo
      BY <1>1, <2>1, AheadIs, NothingAdded
    <3> QED
      BY <3>1 DEF IsAt, Running, SocketInv, ConnectingRegistered, ConnectionIsThe
  <2>2. CASE todo = <<>>
    <3>1. ToSet(todo') = ToSet(come)
      BY <1>3, <2>2, Nothing
    <3>2. todo' # <<>> => Head(todo') \in ToSet(come)
      BY <3>1, TodoIs DEF TypeOK
    <3> QED
      BY <3>2 DEF IsAt
  <2> QED
    BY <2>1, <2>2
<1>7. ConnectionStates'
  <2>1. CASE come = <<>>
    <3>1. todo' = todo
      BY <1>1, <2>1, AheadIs, NothingAdded
    <3> QED
      BY <3>1, StatesSame
  <2>2. CASE todo = <<>>
    <3>1. ToSet(todo') = ToSet(come)
      BY <1>3, <2>2, Nothing
    <3>2. todo' # <<>> => Head(todo') \in ToSet(come)
      BY <3>1, TodoIs DEF TypeOK
    <3>3. Settled /\ Settled'
      BY <2>2, <3>2 DEF Settled, ConnectionOps, IsAt
    <3> QED
      BY <3>3, StatesKept
  <2> QED
    BY <2>1, <2>2
<1> QED
  BY <1>1, <1>2, <1>4, <1>5, <1>6, <1>7, Quiet DEF Cleanups

LEMMA CallersSockets ==
  ASSUME SocketInv,
         \/ (\E id \in TimerSeqs : TimerFires(id)) /\ UNCHANGED clientVars
         \/ ConnectInLoop \/ ConnectFromAfar \/ StopCancel
  PROVE  SocketInv'
<1> DEFINE s == <<Call("startInLoop")>>
           c == <<Do("cancel", timerId_)>>
<1>1. TypeOK /\ CallsInPhase
  BY DEF SocketInv
<1>2. /\ s \in AtMostOne /\ (\A x \in ToSet(s) : x.op = "startInLoop")
      /\ c \in AtMostOne /\ (\A x \in ToSet(c) : x.op = "cancel")
      /\ s \in Todos /\ \A x \in FunctorCalls : x \in Calls
  <2>1. /\ Call("startInLoop") \in Calls /\ Call("startInLoop").op = "startInLoop"
        /\ Do("cancel", timerId_) \in Calls /\ Do("cancel", timerId_).op = "cancel"
    BY <1>1, AreCalls DEF TypeOK, ConnectorTypeOK
  <2>2. ToSet(s) = {Call("startInLoop")} /\ ToSet(c) = {Do("cancel", timerId_)}
    BY <2>1, BeginsOne
  <2> QED
    BY <2>1, <2>2, AreCalls DEF AtMostOne, Todos, Calls
<1>3. /\ functors \o s \in Seq(FunctorCalls) /\ functors \o c \in Seq(FunctorCalls)
      /\ functors \o <<>> = functors /\ s \o <<>> = s /\ <<>> \o todo = todo
  <2>1. Call("startInLoop") \in FunctorCalls /\ Do("cancel", timerId_) \in FunctorCalls
    BY <1>1, AreCalls DEF TypeOK, ConnectorTypeOK
  <2>2. s \in Seq(FunctorCalls) /\ c \in Seq(FunctorCalls) /\ functors \in Seq(FunctorCalls)
    BY <1>1, <2>1 DEF TypeOK
  <2>3. functors \o <<>> = functors /\ s \o <<>> = s /\ <<>> \o todo = todo
    BY <1>1, <1>2, AheadIs, NothingAdded, OnceOne
  <2> HIDE DEF s, c
  <2> QED
    BY <2>2, <2>3
<1>4. <<>> \in AtMostOne /\ ToSet(<<>>) = {}
  BY Nothing
<1>5. CASE ((\E id \in TimerSeqs : TimerFires(id)) /\ UNCHANGED clientVars) \/ ConnectInLoop
  <2>1. /\ Running /\ todo = <<>> /\ todo' = s /\ phase # "poll" /\ aborted' = aborted
        /\ phase' = phase /\ batch' = batch /\ functors' = functors
    BY <1>5 DEF TimerFires, ConnectInLoop, InApp, Idle, runVars
  <2>2. /\ UNCHANGED <<channel_, state_, open, connection_, conns, hup, disconnected>>
        /\ UNCHANGED <<retryDelayMs_, timerId_, attempt, gaveUp, upc, farStop>>
    <3>1. CASE ConnectInLoop
      BY <3>1 DEF ConnectInLoop, timerVars
    <3>2. CASE (\E id \in TimerSeqs : TimerFires(id)) /\ UNCHANGED clientVars
      BY <3>2 DEF TimerFires, clientVars, callVars
    <3> QED
      BY <1>5, <3>1, <3>2
  <2>3. /\ connect_' \in BOOLEAN /\ clientConnect_' \in BOOLEAN /\ starts' \in Nat /\ stopped' \in BOOLEAN
        /\ timers' \subseteq timers /\ ripe' \subseteq timers'
    <3>1. CASE ConnectInLoop
      <4>1. /\ connect_' = TRUE /\ clientConnect_' = TRUE /\ stopped' = FALSE /\ starts' = starts + 1
            /\ timers' = timers /\ ripe' = ripe
        BY <3>1 DEF ConnectInLoop, timerVars
      <4>2. starts' \in Nat /\ ripe \subseteq timers
        BY <1>1, <4>1 DEF TypeOK, ConnectorTypeOK
      <4> QED
        BY <4>1, <4>2
    <3>2. CASE (\E id \in TimerSeqs : TimerFires(id)) /\ UNCHANGED clientVars
      BY <1>1, <3>2 DEF TimerFires, clientVars, callVars, TypeOK, ConnectorTypeOK
    <3> QED
      BY <1>5, <3>1, <3>2
  <2> HIDE DEF s
  <2>4. TypeOK'
    BY <1>1, <1>2, <2>1, <2>2, <2>3 DEF TypeOK, ConnectorTypeOK
  <2>5. todo' = s \o todo /\ functors' = functors \o <<>>
    BY <1>3, <2>1
  <2> QED
    BY <1>2, <1>4, <2>1, <2>2, <2>4, <2>5, BeginsQuietly
<1>6. ASSUME NEW q, q \in {s, c}, functors' = functors \o q, ConnectFromAfar \/ StopCancel
      PROVE  SocketInv'
  <2>1. /\ Running /\ todo' = todo /\ aborted' = aborted /\ phase' = phase /\ batch' = batch
        /\ UNCHANGED <<channel_, state_, open, connection_, conns, hup, disconnected>>
        /\ UNCHANGED <<retryDelayMs_, timerVars, attempt, gaveUp, farStop>>
        /\ connect_' \in BOOLEAN /\ clientConnect_' \in BOOLEAN /\ starts' \in Nat /\ stopped' \in BOOLEAN
        /\ upc' \in {"idle", "connector", "cancel", "disconnect"}
    <3>1. CASE ConnectFromAfar
      <4>1. /\ connect_' = TRUE /\ clientConnect_' = TRUE /\ stopped' = FALSE /\ starts' = starts + 1
            /\ starts' \in Nat
        BY <1>1, <3>1 DEF ConnectFromAfar, TypeOK
      <4> QED
        BY <1>1, <3>1, <4>1 DEF ConnectFromAfar, TypeOK
    <3>2. CASE StopCancel
      BY <1>1, <3>2 DEF StopCancel, TypeOK, ConnectorTypeOK
    <3> QED
      BY <1>6, <3>1, <3>2
  <2> HIDE DEF s, c
  <2>2. TypeOK'
    BY <1>1, <1>3, <1>6, <2>1 DEF TypeOK, ConnectorTypeOK, timerVars
  <2>3. q \in AtMostOne /\ \A x \in ToSet(q) : x.op \in {"startInLoop", "cancel"}
    BY <1>2, <1>6
  <2>4. todo' = <<>> \o todo
    BY <1>3, <2>1
  <2> QED
    BY <1>4, <1>6, <2>1, <2>2, <2>3, <2>4, BeginsQuietly
<1>7. CASE ConnectFromAfar
  BY <1>6, <1>7 DEF ConnectFromAfar, Queue
<1>8. CASE StopCancel
  BY <1>6, <1>8 DEF StopCancel, Queue
<1> QED
  BY <1>5, <1>7, <1>8

LEMMA UntouchedSockets ==
  ASSUME SocketInv,
         \/ Kernel /\ UNCHANGED clientVars
         \/ (\E id \in TimerSeqs : Ripen(id)) /\ UNCHANGED clientVars
         \/ StopInLoop \/ StopStoreClient \/ StopStoreConnector \/ DisconnectStore
  PROVE  SocketInv'
<1>1. /\ Running /\ aborted' = aborted
      /\ UNCHANGED <<channel_, state_, open, connection_, conns, hup, disconnected,
                     phase, todo, batch, functors>>
  <2>1. CASE Kernel /\ UNCHANGED clientVars
    BY <2>1 DEF Kernel, Resolves, ResetsEarly, IsAt, runVars, clientVars, callVars
  <2>2. CASE (\E id \in TimerSeqs : Ripen(id)) /\ UNCHANGED clientVars
    BY <2>2 DEF Ripen, runVars, clientVars, callVars
  <2>3. CASE StopInLoop \/ StopStoreClient \/ StopStoreConnector \/ DisconnectStore
    BY <2>3 DEF StopInLoop, StopStoreClient, StopStoreConnector, DisconnectStore, InApp, Idle, runVars,
                connectorVars, callVars
  <2> QED
    BY <2>1, <2>2, <2>3
<1>2. TypeOK'
  <2>0. TypeOK
    BY DEF SocketInv
  <2>1. CASE Kernel /\ UNCHANGED clientVars
    <3>1. UNCHANGED <<connect_, retryDelayMs_, timerVars, gaveUp>>
          /\ attempt' \in {"pending", "connected", "selfConnect", "failed"}
      BY <2>1 DEF Kernel, Resolves, ResetsEarly
    <3> QED
      BY <1>1, <2>0, <2>1, <3>1 DEF clientVars, callVars, timerVars, TypeOK, ConnectorTypeOK
  <2>2. CASE (\E id \in TimerSeqs : Ripen(id)) /\ UNCHANGED clientVars
    BY <1>1, <2>0, <2>2 DEF Ripen, clientVars, callVars, TypeOK, ConnectorTypeOK
  <2>3. CASE StopInLoop
    BY <1>1, <2>0, <2>3 DEF StopInLoop, TypeOK, ConnectorTypeOK
  <2>4. CASE StopStoreClient
    BY <1>1, <2>0, <2>4 DEF StopStoreClient, connectorVars, timerVars, TypeOK, ConnectorTypeOK
  <2>5. CASE StopStoreConnector
    BY <1>1, <2>0, <2>5 DEF StopStoreConnector, callVars, timerVars, TypeOK, ConnectorTypeOK
  <2>6. CASE DisconnectStore
    BY <1>1, <2>0, <2>6 DEF DisconnectStore, connectorVars, callVars, timerVars, TypeOK, ConnectorTypeOK
  <2> QED
    BY <2>1, <2>2, <2>3, <2>4, <2>5, <2>6
<1> QED
  BY <1>1, <1>2, Untouched

LEMMA RestartSockets ==
  ASSUME SocketInv, Restart, UNCHANGED clientVars
  PROVE  SocketInv'
<1> DEFINE s == <<Call("startInLoop")>>
           none == <<>>
<1>1. IsAt("restart") /\ TypeOK /\ Running /\ Continue(s) /\ aborted' = aborted
  BY DEF SocketInv, Restart, IsAt
<1>2. s \in AtMostOne /\ (\A x \in ToSet(s) : x.op = "startInLoop") /\ HandsOver(s) = {}
  <2>1. Call("startInLoop") \in Calls /\ Call("startInLoop").op = "startInLoop"
    BY AreCalls
  <2>2. ToSet(s) = {Call("startInLoop")}
    BY <2>1, BeginsOne
  <2> QED
    BY <2>1, <2>2 DEF AtMostOne, HandsOver
<1>3. /\ functors' = functors \o none /\ phase' = phase /\ batch' = batch
      /\ none \in AtMostOne /\ ToSet(none) = {} /\ functors' = functors
  BY <1>1, AheadIs, NothingAdded, Nothing DEF Restart, runVars
<1> HIDE DEF s, none
<1>4. /\ todo' \in Todos /\ CallsInPhase' /\ HandedOver' = {} /\ Once(Ahead')
      /\ ToSet(Ahead') \subseteq ToSet(Ahead) \cup ToSet(s) \cup ToSet(none)
      /\ ~IsAt("handleError")' /\ ~IsAt("restart")' /\ Settled /\ Settled'
  <2>1. \A c \in ToSet(none) : c.op \in Cleanups => c \notin ToSet(Ahead)
    BY <1>3
  <2>2. \A c \in ToSet(s) : \/ c.op \in {"startInLoop", "runAfter"}
                            \/ /\ c.op \in {"newConnection", "restart"} \cup ConnectionOps
                               /\ phase = "events"
    BY <1>2
  <2>3. /\ todo' \in Todos /\ CallsInPhase' /\ HandedOver' = HandsOver(s) /\ Once(Ahead')
        /\ ToSet(Ahead') \subseteq ToSet(Ahead) \cup ToSet(s) \cup ToSet(none)
        /\ ~IsAt("handleError")'
        /\ \A o \in {"restart"} \cup ConnectionOps : IsAt(o)' => \E c \in ToSet(s) : c.op = o
    <3>1. PICK op \in {"restart"} : IsAt(op)
      BY <1>1
    <3> QED
      BY <1>1, <1>2, <1>3, <2>1, <2>2, <3>1, GoesOn
  <2> QED
    BY <1>1, <1>2, <2>3, SettledIs DEF Settled, ConnectionOps
<1>5. HandedOver = {} /\ state_ = "kConnected" /\ connection_ = None /\ ~Registered
  BY <1>1, HandedOverIs DEF SocketInv, ConnectionIsThe, IsAt, ConnectingRegistered
<1>6. /\ connect_' = TRUE /\ state_' = "kDisconnected" /\ retryDelayMs_' = kInitRetryDelayMs
      /\ UNCHANGED <<channel_, open, connection_, conns, hup, disconnected>>
      /\ UNCHANGED <<timerVars, attempt, gaveUp, clientConnect_, upc, starts, stopped, farStop>>
      /\ functors' = functors
  BY DEF Restart, clientVars, callVars, runVars
<1>7. TypeOK'
  <2>1. kInitRetryDelayMs \in kInitRetryDelayMs .. kMaxRetryDelayMs
    BY ConnectorAssumption
  <2> QED
    BY <1>1, <1>3, <1>4, <1>6, <2>1 DEF TypeOK, ConnectorTypeOK, timerVars
<1>8. ConnectingRegistered'
  BY <1>4, <1>5, <1>6 DEF ConnectingRegistered, Registered
<1>9. OneOwner'
  <2>1. \A c \in ToSet(Ahead') : c.op \in Cleanups => c \in ToSet(Ahead)
    BY <1>2, <1>3, <1>4 DEF Cleanups
  <2>2. \A i, j \in DOMAIN Ahead' : Ahead'[i].op \in Cleanups /\ Ahead'[j] = Ahead'[i] => j = i
    BY <1>4 DEF Once
  <2>3. \A c \in ToSet(Ahead') : /\ c.op = "connectDestroyed" => conns[c.arg] \in Closed
                                 /\ c.op = "resetChannel" => channel_ # None
    BY <1>1, <2>1 DEF SocketInv, OneOwner, Cleanups
  <2> QED
    BY <1>4, <1>5, <1>6, <2>2, <2>3 DEF OneOwner, Registered
<1>10. ConnectionIsThe'
  BY <1>1, <1>4, <1>5, <1>6 DEF SocketInv, ConnectionIsThe
<1>11. SocketsOwned'
  BY <1>1, <1>4, <1>5, <1>6 DEF SocketInv, SocketsOwned, Registered
<1>12. ConnectionStates'
  BY <1>1, <1>4, <1>6, StatesKept
<1> QED
  BY <1>4, <1>7, <1>8, <1>9, <1>10, <1>11, <1>12 DEF SocketInv

\* The end of a call that changes what sockets there are, and queues nothing.
LEMMA EndsCall ==
  ASSUME SocketInv, NEW op, IsAt(op), op \notin {"handleError", "runAfter"},
         Continue(<<>>), UNCHANGED runVars
  PROVE  /\ todo' = <<>> /\ todo' \in Todos /\ CallsInPhase' /\ HandedOver' = {} /\ Once(Ahead')
         /\ ToSet(Ahead') \subseteq ToSet(Ahead)
         /\ op \in Cleanups => Head(todo) \notin ToSet(Ahead')
         /\ ~IsAt("handleError")' /\ ~IsAt("restart")' /\ Settled'
<1> DEFINE none == <<>>
<1>1. /\ functors' = functors \o none /\ phase' = phase /\ batch' = batch
      /\ none \in AtMostOne /\ ToSet(none) = {} /\ none \in Seq(Calls)
  BY AheadIs, NothingAdded, Nothing DEF runVars, SocketInv
<1>2. todo' = <<>>
  BY AtIs DEF Continue, SocketInv
<1>3. HandsOver(none) = {}
  BY <1>1 DEF HandsOver
<1>4. Continue(none) /\ \A c \in ToSet(none) : FALSE
  BY <1>1
<1> HIDE DEF none
<1>5. /\ todo' \in Todos /\ CallsInPhase' /\ HandedOver' = {} /\ Once(Ahead')
      /\ ToSet(Ahead') \subseteq ToSet(Ahead) \cup ToSet(none) \cup ToSet(none)
      /\ none = <<>> /\ op \in Cleanups => Head(todo) \notin ToSet(Ahead')
      /\ ~IsAt("handleError")' /\ ~IsAt("restart")' /\ Settled'
  BY <1>1, <1>3, <1>4, GoesOn DEF Settled
<1> QED
  BY <1>1, <1>2, <1>5 DEF none

LEMMA ResetSockets ==
  ASSUME SocketInv, ResetChannel, UNCHANGED clientVars
  PROVE  SocketInv'
<1>1. IsAt("resetChannel") /\ TypeOK /\ Running /\ Continue(<<>>) /\ UNCHANGED runVars
  BY DEF SocketInv, ResetChannel, IsAt
<1>2. /\ todo' \in Todos /\ CallsInPhase' /\ HandedOver' = {} /\ Once(Ahead')
      /\ ToSet(Ahead') \subseteq ToSet(Ahead) /\ Head(todo) \notin ToSet(Ahead')
      /\ ~IsAt("handleError")' /\ ~IsAt("restart")' /\ Settled /\ Settled'
  BY <1>1, EndsCall, SettledIs DEF Cleanups, ConnectionOps
<1>3. Head(todo) \in Calls /\ Head(todo).op = "resetChannel" /\ Head(todo) \in ToSet(Ahead)
      /\ ToSet(Ahead) \subseteq Calls
  BY <1>1, AtIs, TodoIs, InAhead DEF TypeOK
<1>4. \A c \in ToSet(Ahead') : c.op # "resetChannel"
  <2>1. ASSUME NEW c \in ToSet(Ahead'), c.op = "resetChannel" PROVE FALSE
    <3>1. c \in Calls /\ c = Call("resetChannel") /\ Head(todo) = Call("resetChannel")
      BY <1>2, <1>3, <2>1, CallIs DEF ConnectionOps
    <3> QED
      BY <1>2, <2>1, <3>1
  <2> QED
    BY <2>1
<1>5. HandedOver = {} /\ ~Registered
  BY <1>1, <1>3, HandedOverIs DEF SocketInv, OneOwner, IsAt
<1>6. /\ channel_' = None
      /\ UNCHANGED <<connect_, state_, retryDelayMs_, timerVars, attempt, open, functors, batch,
                     phase, gaveUp, aborted>>
      /\ UNCHANGED <<clientConnect_, connection_, conns, hup, upc, starts, stopped, farStop, disconnected>>
  BY DEF ResetChannel, runVars, clientVars, callVars
<1>7. TypeOK'
  BY <1>1, <1>2, <1>6 DEF TypeOK, ConnectorTypeOK, timerVars
<1>8. ConnectingRegistered'
  BY <1>1, <1>2, <1>5, <1>6 DEF SocketInv, ConnectingRegistered, Registered
<1>9. OneOwner'
  <2>1. \A i, j \in DOMAIN Ahead' : Ahead'[i].op \in Cleanups /\ Ahead'[j] = Ahead'[i] => j = i
    BY <1>2 DEF Once
  <2>2. \A c \in ToSet(Ahead') : c.op = "connectDestroyed" => conns[c.arg] \in Closed
    BY <1>1, <1>2 DEF SocketInv, OneOwner
  <2> QED
    BY <1>2, <1>4, <1>6, <2>1, <2>2 DEF OneOwner, Registered
<1>10. ConnectionIsThe'
  BY <1>1, <1>2, <1>6 DEF SocketInv, ConnectionIsThe
<1>11. SocketsOwned'
  BY <1>1, <1>2, <1>5, <1>6 DEF SocketInv, SocketsOwned, Registered
<1>12. ConnectionStates'
  BY <1>1, <1>2, <1>6, StatesKept
<1> QED
  BY <1>2, <1>7, <1>8, <1>9, <1>10, <1>11, <1>12 DEF SocketInv

\* The socket that was handed over is closed, ...
LEMMA HandedSockets ==
  ASSUME SocketInv, CloseConnected, UNCHANGED clientVars
  PROVE  SocketInv'
<1> DEFINE fd == Head(todo).arg
<1>1. IsAt("newConnection") /\ TypeOK /\ Running /\ Continue(<<>>) /\ UNCHANGED runVars
  BY DEF SocketInv, CloseConnected, IsAt
<1>2. /\ todo' \in Todos /\ CallsInPhase' /\ HandedOver' = {} /\ Once(Ahead')
      /\ ToSet(Ahead') \subseteq ToSet(Ahead)
      /\ ~IsAt("handleError")' /\ ~IsAt("restart")' /\ Settled /\ Settled'
  BY <1>1, EndsCall, SettledIs DEF ConnectionOps
<1>3. fd \in Fds /\ HandedOver = {fd}
  BY <1>1, AtIs, CallIs, HandedOverIs DEF IsAt
<1>4. conns[fd] = "none" /\ ~Registered
  BY <1>1, <1>3 DEF SocketInv, OneOwner
<1>5. /\ UNCHANGED <<connect_, state_, channel_, retryDelayMs_, timerVars, attempt, functors, batch,
                     phase, gaveUp, aborted, clientConnect_, hup, upc, starts, stopped, farStop,
                     disconnected, connection_, conns>>
      /\ open' = open \ {fd}
  BY DEF CloseConnected, runVars, clientVars, callVars
<1>6. ConnectingRegistered'
  BY <1>1, <1>2, <1>4, <1>5 DEF SocketInv, ConnectingRegistered, Registered
<1>7. Registered' = FALSE
  BY <1>4, <1>5 DEF Registered
<1> HIDE DEF fd
<1>8. TypeOK'
  BY <1>1, <1>2, <1>5 DEF TypeOK, ConnectorTypeOK, timerVars
<1>9. OneOwner'
  <2>1. \A i, j \in DOMAIN Ahead' : Ahead'[i].op \in Cleanups /\ Ahead'[j] = Ahead'[i] => j = i
    BY <1>2 DEF Once
  <2>2. \A c \in ToSet(Ahead') : /\ c.op = "connectDestroyed" => conns[c.arg] \in Closed
                                 /\ c.op = "resetChannel" => channel_ # None
    BY <1>1, <1>2 DEF SocketInv, OneOwner
  <2> QED
    BY <1>2, <1>5, <1>7, <2>1, <2>2 DEF OneOwner
<1>10. ConnectionIsThe'
  BY <1>1, <1>2, <1>5 DEF SocketInv, ConnectionIsThe
<1>11. SocketsOwned'
  <2>1. open = {f \in Fds : conns[f] # "none"} \cup {fd}
    BY <1>1, <1>3, <1>4 DEF SocketInv, SocketsOwned
  <2> QED
    BY <1>2, <1>4, <1>5, <1>7, <2>1 DEF SocketsOwned
<1>12. ConnectionStates'
  BY <1>1, <1>2, <1>5, StatesKept
<1> QED
  BY <1>2, <1>6, <1>8, <1>9, <1>10, <1>11, <1>12 DEF SocketInv

\* ... or becomes the client's connection, ...
LEMMA NewSockets ==
  ASSUME SocketInv, NewConnection
  PROVE  SocketInv'
<1> DEFINE fd == Head(todo).arg
           s == <<Do("connectEstablished", fd)>>
           none == <<>>
<1>1. IsAt("newConnection") /\ TypeOK /\ CallsInPhase /\ Running /\ Continue(s) /\ UNCHANGED runVars
  BY DEF SocketInv, NewConnection, IsAt
<1>2. /\ fd \in Fds /\ HandedOver = {fd} /\ Settled
      /\ phase = "events" /\ ToSet(Ahead) \subseteq Calls
  <2>1. fd \in Fds /\ HandedOver = {fd}
    BY <1>1, AtIs, CallIs, HandedOverIs DEF IsAt
  <2>2. phase = "events"
    <3>1. Head(todo) \in ToSet(todo) /\ Head(todo).op = "newConnection"
      BY <1>1, TodoIs DEF TypeOK, IsAt
    <3> QED
      BY <1>1, <3>1 DEF CallsInPhase
  <2> QED
    BY <1>1, <2>1, <2>2, SettledIs, InAhead DEF ConnectionOps
<1>3. /\ s \in AtMostOne /\ ToSet(s) = {Do("connectEstablished", fd)} /\ HandsOver(s) = {}
      /\ Do("connectEstablished", fd).op = "connectEstablished"
      /\ Do("connectEstablished", fd).arg = fd
      /\ s # <<>> /\ Head(s) = Do("connectEstablished", fd)
  BY <1>2, OneCall DEF ConnectionOps
<1>4. /\ none \in AtMostOne /\ ToSet(none) = {}
      /\ functors' = functors \o none /\ phase' = phase /\ batch' = batch
  BY <1>1, AheadIs, NothingAdded, Nothing DEF runVars
<1>5. todo' = s
  BY <1>1, <1>3, Follows
<1>6. /\ connection_' = fd /\ conns' = [conns EXCEPT ![fd] = "kConnecting"]
      /\ UNCHANGED <<connect_, state_, channel_, retryDelayMs_, timerVars, attempt, open, functors,
                     batch, phase, gaveUp, aborted, clientConnect_, hup, upc, starts, stopped,
                     farStop, disconnected>>
  BY DEF NewConnection, runVars, callVars
<1> HIDE DEF s, none, fd
<1>7. /\ todo' \in Todos /\ CallsInPhase' /\ HandedOver' = {} /\ Once(Ahead')
      /\ ToSet(Ahead') \subseteq ToSet(Ahead) \cup ToSet(s)
      /\ ~IsAt("handleError")' /\ ~IsAt("restart")'
  <2>1. \A c \in ToSet(s) : c.op \in {"newConnection", "restart"} \cup ConnectionOps
    BY <1>3 DEF ConnectionOps
  <2>2. /\ todo' \in Todos /\ CallsInPhase' /\ HandedOver' = HandsOver(s) /\ Once(Ahead')
        /\ ToSet(Ahead') \subseteq ToSet(Ahead) \cup ToSet(s) \cup ToSet(none)
        /\ ~IsAt("handleError")'
        /\ \A o \in {"restart"} \cup ConnectionOps : IsAt(o)' => \E c \in ToSet(s) : c.op = o
    <3>1. PICK op \in {"newConnection"} : IsAt(op)
      BY <1>1
    <3> QED
      BY <1>1, <1>2, <1>3, <1>4, <2>1, <3>1, GoesOn
  <2> QED
    BY <1>3, <1>4, <2>2
<1>8. IsAt("connectEstablished")' /\ Head(todo').arg = fd /\ ~IsAt("removeConnection")'
  BY <1>1, <1>3, <1>5, <1>6 DEF IsAt, Running
<1>9. /\ conns[fd] = "none" /\ ~Registered /\ connection_ = None /\ hup = {}
      /\ state_ = "kConnected"
  <2>1. None \notin Fds /\ hup \subseteq Fds
    BY <1>1, ConnectorAssumption DEF TypeOK
  <2> QED
    BY <1>1, <1>2, <2>1 DEF SocketInv, OneOwner, ConnectionIsThe
<1>10. /\ conns'[fd] = "kConnecting"
       /\ \A f \in Fds : f # fd => conns'[f] = conns[f]
       /\ conns' \in [Fds -> {"none"} \cup Live \cup Closed]
  <2>1. conns \in [Fds -> {"none"} \cup Live \cup Closed]
    BY <1>1 DEF TypeOK
  <2> QED
    BY <1>2, <1>6, <2>1 DEF Live
<1>11. \A f \in Fds : conns[f] \notin Live
  BY <1>1, <1>9, ConnectorAssumption DEF SocketInv, ConnectionIsThe
<1>12. Registered' = FALSE
  BY <1>6, <1>9 DEF Registered
<1>13. TypeOK'
  BY <1>1, <1>2, <1>6, <1>7, <1>10 DEF TypeOK, ConnectorTypeOK, timerVars
<1>14. ConnectingRegistered'
  BY <1>6, <1>7, <1>9, <1>12 DEF ConnectingRegistered
<1>15. OneOwner'
  <2>1. \A i, j \in DOMAIN Ahead' : Ahead'[i].op \in Cleanups /\ Ahead'[j] = Ahead'[i] => j = i
    BY <1>7 DEF Once
  <2>2. ASSUME NEW c \in ToSet(Ahead')
        PROVE  /\ c.op = "connectDestroyed" => conns'[c.arg] \in Closed
               /\ c.op = "resetChannel" => channel_ # None
    <3>1. c \in ToSet(Ahead) \/ c.op = "connectEstablished"
      BY <1>3, <1>7, <2>2
    <3>2. c \in ToSet(Ahead) /\ c.op = "connectDestroyed" => c.arg \in Fds /\ conns[c.arg] \in Closed
      BY <1>1, <1>2, CallIs DEF SocketInv, OneOwner
    <3>3. c \in ToSet(Ahead) /\ c.op = "resetChannel" => channel_ # None
      BY <1>1 DEF SocketInv, OneOwner
    <3> QED
      BY <1>9, <1>10, <3>1, <3>2, <3>3 DEF Closed
  <2> QED
    BY <1>6, <1>7, <1>12, <2>1, <2>2 DEF OneOwner
<1>16. ConnectionIsThe'
  <2>1. \A f \in Fds : conns'[f] \in Live <=> f = connection_'
    BY <1>2, <1>6, <1>10, <1>11 DEF Live
  <2> QED
    BY <1>6, <1>7, <1>9, <2>1 DEF ConnectionIsThe
<1>17. ConnectionStates'
  <2>1. \A f \in Fds : /\ conns'[f] = "kConnecting" <=> f = fd
                       /\ conns'[f] # "kDisconnected"
                       /\ conns'[f] = "closedDisconnected" => "closing" \in disconnected
    BY <1>1, <1>10, <1>11 DEF SocketInv, ConnectionStates, Live
  <2> QED
    BY <1>6, <1>8, <2>1 DEF ConnectionStates
<1>18. SocketsOwned'
  <2>1. open = {f \in Fds : conns[f] # "none"} \cup {fd}
    BY <1>1, <1>2, <1>9 DEF SocketInv, SocketsOwned
  <2>2. {f \in Fds : conns'[f] # "none"} = {f \in Fds : conns[f] # "none"} \cup {fd}
    BY <1>2, <1>9, <1>10
  <2> QED
    BY <1>6, <1>7, <1>12, <2>1, <2>2 DEF SocketsOwned
<1> QED
  BY <1>7, <1>13, <1>14, <1>15, <1>16, <1>17, <1>18 DEF SocketInv

\* ... which connectEstablished, that finds it kConnecting, makes kConnected.
LEMMA EstablishedSockets ==
  ASSUME SocketInv, ConnectEstablished
  PROVE  SocketInv'
<1> DEFINE fd == Head(todo).arg
<1>1. IsAt("connectEstablished") /\ TypeOK /\ Running
  BY DEF SocketInv, ConnectEstablished, IsAt
<1>2. fd \in Fds /\ HandedOver = {} /\ conns[fd] = "kConnecting"
  <2>1. fd \in Fds
    BY <1>1, AtIs, CallIs DEF ConnectionOps
  <2> QED
    BY <1>1, <2>1, HandedOverIs DEF SocketInv, ConnectionStates, IsAt
<1>3. /\ conns' = [conns EXCEPT ![fd] = "kConnected"] /\ Continue(<<>>)
      /\ UNCHANGED <<connect_, state_, channel_, retryDelayMs_, timerVars, attempt, open, runVars,
                     gaveUp, aborted, clientConnect_, connection_, hup, upc, starts, stopped,
                     farStop, disconnected>>
  BY <1>2 DEF ConnectEstablished, callVars
<1>4. /\ todo' \in Todos /\ CallsInPhase' /\ HandedOver' = {} /\ Once(Ahead')
      /\ ToSet(Ahead') \subseteq ToSet(Ahead)
      /\ ~IsAt("handleError")' /\ ~IsAt("restart")' /\ Settled'
  BY <1>1, <1>3, EndsCall
<1> HIDE DEF fd
<1>5. /\ conns'[fd] = "kConnected"
      /\ \A f \in Fds : f # fd => conns'[f] = conns[f]
      /\ conns' \in [Fds -> {"none"} \cup Live \cup Closed]
  <2>1. conns \in [Fds -> {"none"} \cup Live \cup Closed]
    BY <1>1 DEF TypeOK
  <2> QED
    BY <1>2, <1>3, <2>1 DEF Live
<1>6. UNCHANGED <<state_, channel_, open, connection_, hup, disconnected, phase, functors, batch>>
  BY <1>3 DEF runVars
<1>7. Registered' = Registered
  BY <1>6 DEF Registered
<1>8. TypeOK'
  BY <1>1, <1>3, <1>4, <1>5, <1>6 DEF TypeOK, ConnectorTypeOK, timerVars
<1>9. ConnectingRegistered'
  BY <1>1, <1>4, <1>6, <1>7 DEF SocketInv, ConnectingRegistered
<1>10. OneOwner'
  <2>1. \A i, j \in DOMAIN Ahead' : Ahead'[i].op \in Cleanups /\ Ahead'[j] = Ahead'[i] => j = i
    BY <1>4 DEF Once
  <2>2. ASSUME NEW c \in ToSet(Ahead')
        PROVE  /\ c.op = "connectDestroyed" => conns'[c.arg] \in Closed
               /\ c.op = "resetChannel" => channel_ # None /\ ~Registered
    <3>1. c \in Calls /\ c \in ToSet(Ahead)
      BY <1>1, <1>4, <2>2, InAhead
    <3>2. c.op = "connectDestroyed" => c.arg \in Fds /\ conns[c.arg] \in Closed
      BY <1>1, <3>1, CallIs DEF SocketInv, OneOwner
    <3>3. c.op = "resetChannel" => channel_ # None /\ ~Registered
      BY <1>1, <3>1 DEF SocketInv, OneOwner
    <3> QED
      BY <1>2, <1>5, <3>2, <3>3 DEF Closed
  <2>3. Registered => conns'[channel_.fd] = "none"
    <3>1. Registered => channel_.fd \in Fds /\ conns[channel_.fd] = "none"
      BY <1>1, RegisteredIs DEF SocketInv, OneOwner
    <3> QED
      BY <1>2, <1>5, <3>1
  <2> QED
    BY <1>4, <1>6, <1>7, <2>1, <2>2, <2>3 DEF OneOwner
<1>11. ConnectionIsThe'
  <2>1. \A f \in Fds : conns'[f] \in Live <=> conns[f] \in Live
    BY <1>2, <1>5 DEF Live
  <2> QED
    BY <1>1, <1>4, <1>6, <2>1 DEF SocketInv, ConnectionIsThe
<1>12. ConnectionStates'
  <2>1. /\ \A f \in Fds : conns[f] = "kConnecting" <=> f = fd
        /\ ~IsAt("removeConnection")
    BY <1>1, <1>2 DEF SocketInv, ConnectionStates, IsAt, fd
  <2>2. \A f \in Fds : /\ conns'[f] # "kConnecting"
                       /\ conns'[f] = "kDisconnected" => "open" \in disconnected
                       /\ conns'[f] = "closedDisconnected" => "closing" \in disconnected
    BY <1>1, <1>5, <2>1 DEF SocketInv, ConnectionStates
  <2> QED
    BY <1>4, <1>6, <2>2, SettledIs DEF ConnectionStates, Settled, ConnectionOps
<1>13. SocketsOwned'
  <2>1. {f \in Fds : conns'[f] # "none"} = {f \in Fds : conns[f] # "none"}
    BY <1>2, <1>5
  <2> QED
    BY <1>1, <1>2, <1>4, <1>6, <1>7, <2>1 DEF SocketInv, SocketsOwned
<1> QED
  BY <1>4, <1>8, <1>9, <1>10, <1>11, <1>12, <1>13 DEF SocketInv

LEMMA DestroyedSockets ==
  ASSUME SocketInv, ConnectDestroyed
  PROVE  SocketInv'
<1> DEFINE h == Head(todo)
           fd == h.arg
<1>1. IsAt("connectDestroyed") /\ TypeOK /\ CallsInPhase /\ Running /\ UNCHANGED runVars
  BY DEF SocketInv, ConnectDestroyed, IsAt
<1>2. CASE conns[fd] # "closed"
  <2>1. /\ aborted' # "none"
        /\ UNCHANGED <<connect_, state_, channel_, retryDelayMs_, timerVars, attempt, functors, batch,
                       phase, gaveUp, clientConnect_, connection_, hup, upc, starts, stopped,
                       farStop, disconnected, conns, open, todo>>
    BY <1>2 DEF ConnectDestroyed, Abort, runVars, callVars
  <2>2. TypeOK' /\ CallsInPhase'
    BY <1>1, <2>1 DEF TypeOK, ConnectorTypeOK, timerVars, CallsInPhase
  <2> QED
    BY <2>1, <2>2, Stopped
<1>3. CASE conns[fd] = "closed"
  <2>1. /\ todo' \in Todos /\ CallsInPhase' /\ HandedOver' = {} /\ Once(Ahead')
        /\ ToSet(Ahead') \subseteq ToSet(Ahead) /\ h \notin ToSet(Ahead')
        /\ ~IsAt("handleError")' /\ ~IsAt("restart")' /\ Settled /\ Settled'
    <3>1. Continue(<<>>)
      BY <1>3 DEF ConnectDestroyed
    <3> QED
      BY <1>1, <3>1, EndsCall, SettledIs DEF Cleanups, ConnectionOps
  <2>2. /\ h \in Calls /\ h.op = "connectDestroyed" /\ h \in ToSet(Ahead)
        /\ ToSet(Ahead) \subseteq Calls /\ HandedOver = {}
    BY <1>1, AtIs, TodoIs, InAhead, HandedOverIs DEF TypeOK
  <2>3. fd \in Fds /\ h = Do("connectDestroyed", fd)
    BY <2>2, CallIs
  <2>4. \A c \in ToSet(Ahead') : c.op = "connectDestroyed" => c.arg \in Fds /\ c.arg # fd
    <3>1. ASSUME NEW c \in ToSet(Ahead'), c.op = "connectDestroyed"
          PROVE  c.arg \in Fds /\ c.arg # fd
      <4>1. c \in Calls
        BY <2>1, <2>2
      <4>2. c.arg \in Fds /\ c = Do("connectDestroyed", c.arg)
        BY <3>1, <4>1, CallIs
      <4> QED
        BY <2>1, <2>3, <4>2
    <3> QED
      BY <3>1
  <2>5. /\ conns' = [conns EXCEPT ![fd] = "none"] /\ open' = open \ {fd}
        /\ UNCHANGED <<connect_, state_, channel_, retryDelayMs_, timerVars, attempt, functors, batch,
                       phase, gaveUp, aborted, clientConnect_, connection_, hup, upc, starts, stopped,
                       farStop, disconnected>>
    BY <1>3 DEF ConnectDestroyed, runVars, callVars
  <2>6. conns \in [Fds -> {"none"} \cup Live \cup Closed]
    BY <1>1 DEF TypeOK
  <2> HIDE DEF fd, h
  <2>7. /\ conns'[fd] = "none" /\ \A f \in Fds : f # fd => conns'[f] = conns[f]
        /\ conns' \in [Fds -> {"none"} \cup Live \cup Closed]
    BY <1>3, <2>3, <2>5, <2>6 DEF Closed
  <2>8. TypeOK'
    BY <1>1, <2>1, <2>5, <2>7 DEF TypeOK, ConnectorTypeOK, timerVars
  <2>9. ConnectingRegistered'
    BY <1>1, <2>1, <2>5 DEF SocketInv, ConnectingRegistered, Registered
  <2>10. /\ Registered' = Registered /\ channel_' = channel_
         /\ Registered => channel_.fd \in Fds /\ channel_.fd # fd /\ conns[channel_.fd] = "none"
    BY <1>1, <1>3, <2>3, <2>5, RegisteredIs DEF SocketInv, OneOwner, Registered
  <2>11. OneOwner'
    <3>1. \A i, j \in DOMAIN Ahead' : Ahead'[i].op \in Cleanups /\ Ahead'[j] = Ahead'[i] => j = i
      BY <2>1 DEF Once
    <3>2. \A c \in ToSet(Ahead') : /\ c.op = "connectDestroyed" => conns'[c.arg] \in Closed
                                   /\ c.op = "resetChannel" => channel_ # None /\ ~Registered
      BY <1>1, <2>1, <2>4, <2>7 DEF SocketInv, OneOwner
    <3> QED
      BY <2>1, <2>7, <2>10, <3>1, <3>2 DEF OneOwner
  <2>12. ConnectionIsThe'
    <3>1. \A f \in Fds : conns'[f] \in Live <=> conns[f] \in Live
      BY <1>3, <2>3, <2>7 DEF Live
    <3> QED
      BY <1>1, <2>1, <2>5, <3>1 DEF SocketInv, ConnectionIsThe
  <2>13. SocketsOwned'
    <3>1. {f \in Fds : conns'[f] # "none"} = {f \in Fds : conns[f] # "none"} \ {fd}
      BY <2>7
    <3>2. open = {f \in Fds : conns[f] # "none"} \cup (IF Registered THEN {channel_.fd} ELSE {})
      BY <1>1, <2>2 DEF SocketInv, SocketsOwned
    <3> QED
      BY <2>1, <2>5, <2>10, <3>1, <3>2 DEF SocketsOwned
  <2>14. ConnectionStates'
    <3>1. \A f \in Fds : /\ conns'[f] # "kConnecting"
                         /\ conns'[f] = "kDisconnected" => "open" \in disconnected
                         /\ conns'[f] = "closedDisconnected" => "closing" \in disconnected
      BY <1>1, <2>1, <2>7, SettledIs DEF SocketInv, ConnectionStates
    <3> QED
      BY <2>1, <2>5, <3>1, SettledIs DEF ConnectionStates, Settled, ConnectionOps
  <2> QED
    BY <2>1, <2>8, <2>9, <2>11, <2>12, <2>13, <2>14 DEF SocketInv
<1> QED
  BY <1>2, <1>3

LEMMA ConnectingSockets ==
  ASSUME SocketInv, ConnectInProgress, UNCHANGED clientVars
  PROVE  SocketInv'
<1>1. IsAt("startInLoop") /\ TypeOK /\ Running /\ Continue(<<>>) /\ UNCHANGED runVars
      /\ state_ = "kDisconnected"
  BY DEF SocketInv, ConnectInProgress, Connects, IsAt
<1>2. /\ todo' \in Todos /\ CallsInPhase' /\ HandedOver' = {} /\ Once(Ahead')
      /\ ToSet(Ahead') \subseteq ToSet(Ahead)
      /\ ~IsAt("handleError")' /\ ~IsAt("restart")' /\ Settled /\ Settled'
  BY <1>1, EndsCall, SettledIs DEF ConnectionOps
<1>3. PICK fd \in Fds \ open : connecting(fd)
  BY DEF ConnectInProgress
<1>4. /\ state_' = "kConnecting"
      /\ UNCHANGED <<connect_, retryDelayMs_, timerVars, functors, batch, phase, gaveUp,
                     clientConnect_, connection_, conns, hup, upc, starts, stopped, farStop,
                     disconnected>>
  BY <1>3 DEF ConnectInProgress, connecting, runVars, clientVars, callVars
<1>5. CASE channel_ # None
  <2>1. aborted' # "none" /\ UNCHANGED <<channel_, attempt, open>>
    BY <1>3, <1>5 DEF connecting, Abort
  <2>2. TypeOK'
    BY <1>1, <1>2, <1>4, <2>1 DEF TypeOK, ConnectorTypeOK, timerVars
  <2> QED
    BY <1>2, <2>1, <2>2, Stopped
<1>6. CASE channel_ = None
  <2>1. /\ channel_' = [fd |-> fd, ch |-> Added] /\ attempt' = "pending"
        /\ open' = open \cup {fd} /\ aborted' = aborted
    BY <1>3, <1>6 DEF connecting, Added
  <2>2. channel_' # None /\ channel_'.fd = fd /\ Registered'
    BY <2>1, ChannelIs DEF Registered
  <2>3. ~Registered /\ HandedOver = {} /\ connection_ = None /\ conns[fd] = "none"
    <3>1. ~Registered
      BY <1>6 DEF Registered
    <3>2. HandedOver = {}
      BY <1>1, HandedOverIs DEF IsAt
    <3>3. conns[fd] = "none"
      BY <1>1, <1>3 DEF SocketInv, SocketsOwned
    <3> QED
      BY <1>1, <3>1, <3>2, <3>3 DEF SocketInv, ConnectionIsThe
  <2>4. TypeOK'
    BY <1>1, <1>2, <1>4, <2>1 DEF TypeOK, ConnectorTypeOK, timerVars
  <2>5. ConnectingRegistered'
    BY <1>2, <1>4, <2>2 DEF ConnectingRegistered
  <2>6. OneOwner'
    <3>1. \A i, j \in DOMAIN Ahead' : Ahead'[i].op \in Cleanups /\ Ahead'[j] = Ahead'[i] => j = i
      BY <1>2 DEF Once
    <3>2. \A c \in ToSet(Ahead') : /\ c.op = "connectDestroyed" => conns[c.arg] \in Closed
                                   /\ c.op # "resetChannel"
      BY <1>1, <1>2, <1>6 DEF SocketInv, OneOwner
    <3> QED
      BY <1>2, <1>4, <2>2, <2>3, <3>1, <3>2 DEF OneOwner
  <2>7. ConnectionIsThe'
    BY <1>1, <1>2, <1>4, <2>3 DEF SocketInv, ConnectionIsThe
  <2>8. SocketsOwned'
    BY <1>1, <1>2, <1>4, <2>1, <2>2, <2>3 DEF SocketInv, SocketsOwned
  <2>9. ConnectionStates'
    BY <1>1, <1>2, <1>4, StatesKept
  <2> QED
    BY <1>2, <2>4, <2>5, <2>6, <2>7, <2>8, <2>9 DEF SocketInv
<1> QED
  BY <1>5, <1>6

\* The connect under way is over: channel_ is removed, and its socket closed or
\* handed over.
LEMMA Removes ==
  ASSUME SocketInv, NEW op \in {"handleError", "handleWrite"}, IsAt(op), state_ = "kConnecting",
         removeAndResetChannel, NEW come \in AtMostOne, Continue(come),
         \/ come = retryCalls /\ open' = open \ {channel_.fd} /\ state_' = "kDisconnected"
         \/ /\ op = "handleWrite" /\ come = <<Do("newConnection", channel_.fd)>>
            /\ open' = open /\ state_' = "kConnected",
         UNCHANGED <<connect_, retryDelayMs_, timerVars, attempt, phase, batch, gaveUp, aborted>>,
         UNCHANGED clientVars
  PROVE  SocketInv'
<1> DEFINE fd == channel_.fd
           q == <<Call("resetChannel")>>
<1>1. TypeOK /\ CallsInPhase /\ Running /\ todo # <<>> /\ Head(todo) \in ToSet(todo) /\ Head(todo).op = op
  BY TodoIs DEF SocketInv, IsAt, TypeOK
<1>2. phase = "events" /\ Registered
  BY <1>1 DEF SocketInv, ConnectingRegistered, CallsInPhase
<1>3. /\ fd \in Fds /\ channel_ # None
      /\ channel_' = [fd |-> fd, ch |-> Removed]
  BY <1>1, <1>2, RegisteredIs DEF removeAndResetChannel
<1>4. channel_' # None /\ ~Registered'
  BY <1>3, ChannelIs DEF Registered
<1>5. HandedOver = {} /\ conns[fd] = "none" /\ connection_ = None
  <2>1. HandedOver = {} /\ conns[fd] = "none"
    BY <1>1, <1>2 DEF SocketInv, OneOwner
  <2>2. connection_ = None
    BY <1>1 DEF SocketInv, ConnectionIsThe
  <2> QED
    BY <2>1, <2>2
<1>6. open = {f \in Fds : conns[f] # "none"} \cup {fd}
  BY <1>1, <1>2, <1>5 DEF SocketInv, SocketsOwned
<1>7. /\ q \in AtMostOne /\ ToSet(q) = {Call("resetChannel")} /\ functors' = functors \o q
      /\ functors' \in Seq(FunctorCalls) /\ Call("resetChannel").op = "resetChannel"
  <2>1. Call("resetChannel") \in FunctorCalls /\ Call("resetChannel") \in Calls
        /\ Call("resetChannel").op = "resetChannel"
    BY AreCalls
  <2>2. functors' = functors \o q
    BY DEF removeAndResetChannel, Queue
  <2>3. functors \in Seq(FunctorCalls) /\ q \in Seq(FunctorCalls)
    BY <1>1, <2>1 DEF TypeOK
  <2>4. functors \o q \in Seq(FunctorCalls)
    <3> HIDE DEF q
    <3> QED
      BY <2>3
  <2> QED
    BY <2>1, <2>2, <2>4, BeginsOne DEF AtMostOne
<1>8. \A c \in ToSet(q) : c.op \in Cleanups => c \notin ToSet(Ahead)
  BY <1>1, <1>2, <1>7 DEF SocketInv, OneOwner
<1>9. /\ \A c \in ToSet(come) : c.op \in {"startInLoop", "runAfter"} \/ (c.op = "newConnection" /\ phase = "events")
      /\ op \in {"handleError", "runAfter"} => come = <<>> \/ come = <<Call("runAfter")>>
      /\ HandsOver(come) = IF state_' = "kConnected" THEN {fd} ELSE {}
      /\ \A c \in ToSet(come) : c.op \notin Cleanups \cup {"restart"} \cup ConnectionOps
  <2>1. CASE come = retryCalls /\ open' = open \ {channel_.fd} /\ state_' = "kDisconnected"
    BY <2>1, RetryCallsAre DEF Cleanups, ConnectionOps
  <2>2. CASE /\ op = "handleWrite" /\ come = <<Do("newConnection", channel_.fd)>>
             /\ open' = open /\ state_' = "kConnected"
    <3> DEFINE c == Do("newConnection", fd)
    <3>1. c \in Calls /\ c.op = "newConnection" /\ c.arg = fd
      BY <1>3, AreCalls
    <3>2. come = <<c>>
      BY <2>2
    <3> HIDE DEF c, fd
    <3>3. ToSet(come) = {c}
      BY <3>1, <3>2, BeginsOne
    <3>4. HandsOver(come) = {fd}
      BY <3>1, <3>3 DEF HandsOver
    <3> QED
      BY <1>2, <2>2, <3>1, <3>3, <3>4 DEF Cleanups, ConnectionOps
  <2> QED
    BY <2>1, <2>2
<1> HIDE DEF q, fd
<1>10. /\ todo' \in Todos /\ CallsInPhase' /\ HandedOver' = HandsOver(come) /\ Once(Ahead')
       /\ ToSet(Ahead') \subseteq ToSet(Ahead) \cup ToSet(come) \cup ToSet(q)
       /\ ~IsAt("handleError")' /\ ~IsAt("restart")' /\ Settled /\ Settled'
  <2>1. /\ todo' \in Todos /\ CallsInPhase' /\ HandedOver' = HandsOver(come) /\ Once(Ahead')
        /\ ToSet(Ahead') \subseteq ToSet(Ahead) \cup ToSet(come) \cup ToSet(q)
        /\ ~IsAt("handleError")'
        /\ \A o \in {"restart"} \cup ConnectionOps : IsAt(o)' => \E c \in ToSet(come) : c.op = o
    BY <1>7, <1>8, <1>9, GoesOn
  <2>2. Settled
    BY SettledIs DEF ConnectionOps
  <2> QED
    BY <1>9, <2>1, <2>2 DEF Settled
<1>11. UNCHANGED <<clientConnect_, connection_, conns, hup, upc, starts, stopped, farStop, disconnected>>
  BY DEF clientVars, callVars
<1>12. state_' \in {"kConnected", "kDisconnected"} /\ open' \subseteq open
  OBVIOUS
<1>13. TypeOK'
  BY <1>1, <1>3, <1>7, <1>10, <1>11, <1>12 DEF TypeOK, ConnectorTypeOK, timerVars
<1>14. ConnectingRegistered'
  BY <1>4, <1>10, <1>12 DEF ConnectingRegistered
<1>15. OneOwner'
  <2>1. \A i, j \in DOMAIN Ahead' : Ahead'[i].op \in Cleanups /\ Ahead'[j] = Ahead'[i] => j = i
    BY <1>10 DEF Once
  <2>2. \A c \in ToSet(Ahead') : c.op = "connectDestroyed" => conns[c.arg] \in Closed
    <3>1. \A c \in ToSet(Ahead) : c.op = "connectDestroyed" => conns[c.arg] \in Closed
      BY <1>1 DEF SocketInv, OneOwner
    <3>2. \A c \in ToSet(Ahead') : c.op = "connectDestroyed" => c \in ToSet(Ahead)
      BY <1>7, <1>9, <1>10 DEF Cleanups
    <3> QED
      BY <3>1, <3>2
  <2>3. \A f \in HandedOver' : conns[f] = "none"
    BY <1>5, <1>9, <1>10
  <2> QED
    BY <1>4, <1>11, <2>1, <2>2, <2>3 DEF OneOwner
<1>16. ConnectionIsThe'
  <2>1. HandedOver' # {} => state_' = "kConnected"
    BY <1>9, <1>10
  <2> QED
    BY <1>1, <1>5, <1>10, <1>11, <2>1 DEF SocketInv, ConnectionIsThe
<1>17. SocketsOwned'
  <2>1. open' = {f \in Fds : conns[f] # "none"} \cup HandedOver'
    <3>1. fd \notin {f \in Fds : conns[f] # "none"}
      BY <1>5
    <3>2. state_' = "kConnected" => open' = open
      OBVIOUS
    <3>3. state_' # "kConnected" => open' = open \ {fd}
      BY DEF fd
    <3> QED
      BY <1>6, <1>9, <1>10, <3>1, <3>2, <3>3
  <2> QED
    BY <1>4, <1>11, <2>1 DEF SocketsOwned
<1>18. ConnectionStates'
  BY <1>1, <1>10, <1>11, StatesKept
<1> QED
  BY <1>10, <1>13, <1>14, <1>15, <1>16, <1>17, <1>18 DEF SocketInv

LEMMA HandlersSockets ==
  ASSUME SocketInv, HandleError \/ HandleWrite, UNCHANGED clientVars
  PROVE  SocketInv'
<1>1. PICK op \in {"handleError", "handleWrite"} : IsAt(op) /\ (op = "handleError" <=> HandleError)
  BY DEF HandleError, HandleWrite, IsAt
<1>2. CASE state_ = "kConnecting"
  <2>1. CASE HandleError
    <3>1. /\ Continue(retryCalls) /\ removeAndResetChannel
          /\ open' = open \ {channel_.fd} /\ state_' = "kDisconnected"
          /\ UNCHANGED <<connect_, retryDelayMs_, timerVars, attempt, phase, batch, gaveUp, aborted>>
      BY <1>2, <2>1 DEF HandleError
    <3> QED
      BY <1>1, <1>2, <3>1, RetryCallsAre, Removes
  <2>2. CASE HandleWrite /\ ~HandleError
    <3>1. /\ removeAndResetChannel /\ op = "handleWrite"
          /\ UNCHANGED <<connect_, retryDelayMs_, timerVars, attempt, phase, batch, gaveUp, aborted>>
      BY <1>1, <1>2, <2>2 DEF HandleWrite
    <3>2. CASE attempt = "connected"
      <4> DEFINE come == <<Do("newConnection", channel_.fd)>>
      <4>1. open' = open /\ state_' = "kConnected" /\ Continue(come)
        BY <1>2, <2>2, <3>2 DEF HandleWrite
      <4>2. come \in AtMostOne
        <5>1. TypeOK /\ Registered
          BY <1>1, <1>2 DEF SocketInv, ConnectingRegistered, IsAt
        <5> QED
          BY <5>1, RegisteredIs, AreCalls DEF AtMostOne
      <4>3. \/ come = retryCalls /\ open' = open \ {channel_.fd} /\ state_' = "kDisconnected"
            \/ /\ op = "handleWrite" /\ come = <<Do("newConnection", channel_.fd)>>
               /\ open' = open /\ state_' = "kConnected"
        BY <3>1, <4>1
      <4> HIDE DEF come
      <4> QED
        BY <1>1, <1>2, <3>1, <4>1, <4>2, <4>3, Removes
    <3>3. CASE attempt # "connected"
      <4>1. open' = open \ {channel_.fd} /\ state_' = "kDisconnected" /\ Continue(retryCalls)
        BY <1>2, <2>2, <3>3 DEF HandleWrite
      <4> QED
        BY <1>1, <1>2, <3>1, <4>1, RetryCallsAre, Removes
    <3> QED
      BY <3>2, <3>3
  <2> QED
    BY <2>1, <2>2
<1>3. CASE state_ # "kConnecting"
  <2>1. ~HandleError
    BY <1>1, <1>3 DEF HandleError, SocketInv, ConnectingRegistered, IsAt
  <2>2. /\ op = "handleWrite" /\ Continue(<<>>)
        /\ UNCHANGED <<channel_, functors, open, state_>>
        /\ UNCHANGED <<connect_, retryDelayMs_, timerVars, attempt, phase, batch, gaveUp, aborted>>
    BY <1>1, <1>3, <2>1 DEF HandleWrite
  <2> DEFINE none == <<>>
  <2>3. TypeOK /\ none \in AtMostOne /\ Continue(none) /\ \A c \in ToSet(none) : FALSE
    BY <2>2, Nothing DEF SocketInv
  <2> HIDE DEF none
  <2>4. todo' \in Todos
    BY <1>1, <2>2, <2>3, TodoAfter
  <2>5. UNCHANGED <<clientConnect_, connection_, conns, hup, upc, starts, stopped, farStop, disconnected>>
    BY DEF clientVars, callVars
  <2>6. TypeOK'
    BY <2>2, <2>3, <2>4, <2>5 DEF TypeOK, ConnectorTypeOK, timerVars
  <2> QED
    BY <1>1, <2>2, <2>3, <2>5, <2>6, GoesOnQuietly DEF ConnectionOps
<1> QED
  BY <1>2, <1>3

\* The peer closed the connection: handleClose finds it kConnected, or fails.
LEMMA ClosesSockets ==
  ASSUME SocketInv, NEW fd \in Fds, HandleClose(fd)
  PROVE  SocketInv'
<1> DEFINE s == <<Do("removeConnection", fd)>>
           none == <<>>
<1>1. TypeOK /\ CallsInPhase /\ Running /\ todo = <<>> /\ phase = "events" /\ fd \in hup
  BY DEF SocketInv, HandleClose, Idle
<1>2. connection_ = fd /\ connection_ # None /\ conns[fd] \in Live
  BY <1>1, ConnectorAssumption DEF SocketInv, ConnectionIsThe
<1>3. /\ UNCHANGED <<connect_, state_, channel_, retryDelayMs_, timerVars, attempt, open, phase,
                     functors, batch, gaveUp, clientConnect_, connection_, conns, upc, starts,
                     stopped, farStop, disconnected>>
      /\ hup' = hup \ {fd}
  BY DEF HandleClose, callVars, runVars
<1>4. CASE conns[fd] # "kConnected"
  <2>1. aborted' # "none" /\ todo' = todo
    BY <1>4 DEF HandleClose, Abort
  <2>2. TypeOK' /\ CallsInPhase'
    BY <1>1, <1>3, <2>1 DEF TypeOK, ConnectorTypeOK, timerVars, CallsInPhase
  <2> QED
    BY <2>1, <2>2, Stopped
<1>5. CASE conns[fd] = "kConnected"
  <2>1. todo' = s /\ aborted' = aborted
    BY <1>5 DEF HandleClose
  <2>2. /\ s \in AtMostOne /\ s \in Todos /\ s # <<>> /\ HandsOver(s) = {}
        /\ ToSet(s) = {Do("removeConnection", fd)} /\ Head(s) = Do("removeConnection", fd)
        /\ Do("removeConnection", fd).op = "removeConnection"
        /\ Do("removeConnection", fd).arg = fd
    BY OneCall DEF ConnectionOps
  <2>3. none \in AtMostOne /\ ToSet(none) = {} /\ functors' = functors \o none
    BY <1>1, <1>3, AheadIs, NothingAdded, Nothing
  <2> HIDE DEF s, none
  <2>4. todo' = s \o todo /\ s \in Seq(Calls)
    BY <1>1, <2>1, <2>2, NothingAdded, OnceOne
  <2>5. Fresh(s, none)
    BY <2>2, <2>3 DEF Fresh, Cleanups
  <2>6. /\ ToSet(Ahead') = ToSet(Ahead) \cup {Do("removeConnection", fd)}
        /\ Once(Ahead')
    <3>1. Once(Ahead)
      BY OnceIs, <1>1 DEF SocketInv, OneOwner
    <3> QED
      BY <1>1, <1>3, <2>2, <2>3, <2>4, <2>5, <3>1, Started
  <2>7. HandedOver' = {} /\ HandedOver = {}
    BY <1>1, <2>1, <2>2, HandedOverIs DEF HandedOver, HandsOver
  <2>8. /\ CallsInPhase' /\ ~IsAt("handleError")' /\ ~IsAt("restart")'
        /\ IsAt("removeConnection")' /\ ~IsAt("connectEstablished")' /\ Head(todo').arg = fd
    BY <1>1, <1>3, <2>1, <2>2 DEF CallsInPhase, ConnectionOps, IsAt, Running
  <2>9. TypeOK'
    BY <1>1, <1>3, <2>1, <2>2 DEF TypeOK, ConnectorTypeOK, timerVars
  <2>10. Registered' = Registered
    BY <1>3 DEF Registered
  <2>11. ConnectingRegistered'
    BY <1>1, <1>3, <2>8, <2>10 DEF SocketInv, ConnectingRegistered
  <2>12. OneOwner'
    <3>1. \A i, j \in DOMAIN Ahead' : Ahead'[i].op \in Cleanups /\ Ahead'[j] = Ahead'[i] => j = i
      BY <2>6 DEF Once
    <3>2. \A c \in ToSet(Ahead') : /\ c.op = "connectDestroyed" => conns[c.arg] \in Closed
                                   /\ c.op = "resetChannel" => channel_ # None /\ ~Registered
      BY <1>1, <2>2, <2>6 DEF SocketInv, OneOwner
    <3>3. Registered => conns[channel_.fd] = "none"
      BY <1>1 DEF SocketInv, OneOwner
    <3> QED
      BY <1>3, <2>7, <2>10, <3>1, <3>2, <3>3 DEF OneOwner
  <2>13. hup' = {}
    BY <1>1, <1>2, <1>3 DEF SocketInv, ConnectionIsThe
  <2>14. ConnectionIsThe'
    BY <1>1, <1>2, <1>3, <2>7, <2>8, <2>13 DEF SocketInv, ConnectionIsThe
  <2>15. ConnectionStates'
    <3>1. \A f \in Fds : conns[f] \notin {"kConnecting", "kDisconnected"}
      BY <1>1, <1>2, <1>5 DEF SocketInv, ConnectionIsThe, Live
    <3>2. \A f \in Fds : conns[f] = "closedDisconnected" => "closing" \in disconnected
      BY <1>1 DEF SocketInv, ConnectionStates
    <3> QED
      BY <1>2, <1>3, <2>8, <2>13, <3>1, <3>2 DEF ConnectionStates
  <2>16. SocketsOwned'
    BY <1>1, <1>3, <2>7, <2>10 DEF SocketInv, SocketsOwned
  <2> QED
    BY <2>8, <2>9, <2>11, <2>12, <2>14, <2>15, <2>16 DEF SocketInv
<1> QED
  BY <1>4, <1>5

\* What removeConnection does with the client's connection.
LEMMA RemovesConnection ==
  ASSUME SocketInv, RemoveConnection
  PROVE  LET fd == Head(todo).arg
         IN /\ fd \in Fds /\ connection_ = fd /\ conns[fd] \in {"kConnected", "kDisconnected"}
            /\ phase = "events" /\ hup = {}
            /\ connection_' = None
            /\ conns' = [conns EXCEPT ![fd] =
                           IF @ = "kConnected" THEN "closed" ELSE "closedDisconnected"]
            /\ functors' = functors \o <<Do("connectDestroyed", fd)>>
            /\ Continue(Reconnects) /\ aborted' = aborted
            /\ UNCHANGED <<connect_, state_, channel_, retryDelayMs_, timerVars, attempt, open,
                           phase, batch, gaveUp, clientConnect_, hup, upc, starts, stopped,
                           farStop, disconnected>>
<1> DEFINE fd == Head(todo).arg
<1>1. IsAt("removeConnection") /\ TypeOK /\ CallsInPhase /\ Running
  BY DEF SocketInv, RemoveConnection, IsAt
<1>2. fd \in Fds /\ connection_ = fd /\ hup = {}
  BY <1>1, AtIs, CallIs DEF SocketInv, ConnectionStates, ConnectionOps
<1>3. phase = "events"
  <2>1. Head(todo) \in ToSet(todo) /\ Head(todo).op = "removeConnection"
    BY <1>1, TodoIs DEF TypeOK, IsAt
  <2> QED
    BY <1>1, <2>1 DEF CallsInPhase, ConnectionOps
<1>4. conns[fd] \in {"kConnected", "kDisconnected"}
  <2>1. conns[fd] \in Live
    BY <1>1, <1>2 DEF SocketInv, ConnectionIsThe
  <2>2. conns[fd] # "kConnecting"
    BY <1>1, <1>2 DEF SocketInv, ConnectionStates, IsAt
  <2> QED
    BY <2>1, <2>2 DEF Live
<1> QED
  BY <1>2, <1>3, <1>4 DEF RemoveConnection, Queue, callVars

LEMMA ReconnectsAre ==
  /\ Reconnects \in AtMostOne /\ HandsOver(Reconnects) = {}
  /\ \A c \in ToSet(Reconnects) : c = Call("restart") /\ c.op = "restart"
  /\ BeginningCalls(Reconnects) = IF retry_ /\ clientConnect_ THEN 1 ELSE 0
<1>1. Call("restart") \in Calls /\ Call("restart").op = "restart"
  BY AreCalls
<1>2. Reconnects = IF retry_ /\ clientConnect_ THEN <<Call("restart")>> ELSE <<>>
  BY DEF Reconnects
<1> HIDE DEF Reconnects
<1>3. Reconnects \in AtMostOne
  BY <1>1, <1>2, Nothing DEF AtMostOne
<1>4. \A c \in ToSet(Reconnects) : c = Call("restart") /\ c.op = "restart"
  BY <1>1, <1>2, <1>3, OneCalls
<1>5. HandsOver(Reconnects) = {}
  BY <1>4 DEF HandsOver
<1>6. BeginningCalls(Reconnects) = IF retry_ /\ clientConnect_ THEN 1 ELSE 0
  BY <1>1, <1>2, <1>3, OneCalls DEF Beginning
<1> QED
  BY <1>3, <1>4, <1>5, <1>6

\* The client lets its connection go.
LEMMA LostSockets ==
  ASSUME SocketInv, RemoveConnection
  PROVE  SocketInv'
<1> DEFINE fd == Head(todo).arg
           d == Do("connectDestroyed", fd)
           q == <<d>>
<1>1. IsAt("removeConnection") /\ TypeOK /\ CallsInPhase /\ Running
  BY DEF SocketInv, RemoveConnection, IsAt
<1>2. /\ fd \in Fds /\ connection_ = fd /\ conns[fd] \in {"kConnected", "kDisconnected"}
      /\ phase = "events" /\ hup = {}
  BY RemovesConnection
<1>3. /\ connection_' = None
      /\ conns' = [conns EXCEPT ![fd] =
                     IF @ = "kConnected" THEN "closed" ELSE "closedDisconnected"]
      /\ functors' = functors \o q
      /\ Continue(Reconnects) /\ aborted' = aborted
      /\ UNCHANGED <<connect_, state_, channel_, retryDelayMs_, timerVars, attempt, open, phase,
                     batch, gaveUp, clientConnect_, hup, upc, starts, stopped, farStop, disconnected>>
  BY RemovesConnection
<1>4. d \in FunctorCalls /\ d \in Calls /\ d.op = "connectDestroyed" /\ d.arg = fd
  BY <1>2, AreCalls
<1>5. q \in AtMostOne /\ ToSet(q) = {d} /\ functors' \in Seq(FunctorCalls)
  <2>1. q \in AtMostOne /\ ToSet(q) = {d} /\ q \in Seq(FunctorCalls) /\ functors \in Seq(FunctorCalls)
    BY <1>1, <1>4, BeginsOne DEF AtMostOne, TypeOK
  <2> HIDE DEF q
  <2>2. functors \o q \in Seq(FunctorCalls)
    BY <2>1
  <2> QED
    BY <1>3, <2>1, <2>2
<1>6. \A c \in ToSet(q) : c.op \in Cleanups => c \notin ToSet(Ahead)
  <2>1. ASSUME d \in ToSet(Ahead) PROVE conns[fd] \in Closed
    BY <1>1, <1>4, <2>1 DEF SocketInv, OneOwner
  <2> QED
    BY <1>2, <1>5, <2>1 DEF Closed
<1> HIDE DEF d, q, fd
<1>7. /\ todo' \in Todos /\ CallsInPhase' /\ HandedOver' = {} /\ Once(Ahead')
      /\ ToSet(Ahead') \subseteq ToSet(Ahead) \cup ToSet(Reconnects) \cup {d}
      /\ ~IsAt("handleError")' /\ ~IsAt("connectEstablished")' /\ ~IsAt("removeConnection")'
  <2>1. /\ todo' \in Todos /\ CallsInPhase' /\ HandedOver' = HandsOver(Reconnects) /\ Once(Ahead')
        /\ ToSet(Ahead') \subseteq ToSet(Ahead) \cup ToSet(Reconnects) \cup ToSet(q)
        /\ ~IsAt("handleError")'
        /\ \A o \in {"restart"} \cup ConnectionOps :
             IsAt(o)' => \E c \in ToSet(Reconnects) : c.op = o
    <3>1. PICK op \in {"removeConnection"} : IsAt(op)
      BY <1>1
    <3>2. /\ \A c \in ToSet(Reconnects) : c.op \in {"newConnection", "restart"} \cup ConnectionOps
          /\ Reconnects \in AtMostOne /\ op \notin {"handleError", "runAfter"}
      BY ReconnectsAre
    <3>3. /\ q \in AtMostOne /\ functors' = functors \o q /\ phase = "events" /\ Continue(Reconnects)
          /\ batch' = batch /\ phase' = phase
      BY <1>2, <1>3, <1>5
    <3> QED
      BY <1>6, <3>1, <3>2, <3>3, GoesOn
  <2> QED
    BY <1>5, <2>1, ReconnectsAre DEF ConnectionOps
<1>8. HandedOver = {} /\ state_ = "kConnected"
  BY <1>1, <1>2, HandedOverIs, ConnectorAssumption DEF SocketInv, ConnectionIsThe, IsAt
<1>9. /\ conns'[fd] \in Closed /\ \A f \in Fds : f # fd => conns'[f] = conns[f]
      /\ conns'[fd] = "closedDisconnected" => conns[fd] = "kDisconnected"
      /\ conns' \in [Fds -> {"none"} \cup Live \cup Closed]
  <2>1. conns \in [Fds -> {"none"} \cup Live \cup Closed]
    BY <1>1 DEF TypeOK
  <2>2. conns' = [conns EXCEPT ![fd] = IF conns[fd] = "kConnected" THEN "closed"
                                       ELSE "closedDisconnected"]
    BY <1>3
  <2> QED
    BY <1>2, <2>1, <2>2 DEF Closed
<1>10. TypeOK'
  BY <1>1, <1>3, <1>5, <1>7, <1>9 DEF TypeOK, ConnectorTypeOK, timerVars
<1>11. ConnectingRegistered'
  BY <1>1, <1>3, <1>7 DEF SocketInv, ConnectingRegistered, Registered
<1>12. Registered' = Registered /\ (Registered => channel_.fd # fd /\ channel_.fd \in Fds)
  BY <1>1, <1>2, <1>3, RegisteredIs DEF SocketInv, OneOwner, Registered
<1>13. OneOwner'
  <2>1. \A i, j \in DOMAIN Ahead' : Ahead'[i].op \in Cleanups /\ Ahead'[j] = Ahead'[i] => j = i
    BY <1>7 DEF Once
  <2>2. ASSUME NEW c \in ToSet(Ahead')
        PROVE  /\ c.op = "connectDestroyed" => conns'[c.arg] \in Closed
               /\ c.op = "resetChannel" => channel_ # None /\ ~Registered
    <3>1. CASE c \in ToSet(Ahead)
      <4>1. c \in Calls
        BY <1>1, <3>1, InAhead
      <4>2. c.op = "connectDestroyed" => c.arg \in Fds
        BY <4>1, CallIs
      <4> QED
        BY <1>1, <1>9, <3>1, <4>2 DEF SocketInv, OneOwner
    <3>2. CASE c \in ToSet(Reconnects) \cup {d}
      BY <1>4, <1>9, <3>2, ReconnectsAre
    <3> QED
      BY <1>7, <2>2, <3>1, <3>2
  <2>3. Registered => conns'[channel_.fd] = "none"
    BY <1>1, <1>9, <1>12 DEF SocketInv, OneOwner
  <2> QED
    BY <1>3, <1>7, <1>12, <2>1, <2>2, <2>3 DEF OneOwner
<1>14. \A f \in Fds : conns'[f] \notin Live
  <2>1. \A f \in Fds : f # fd => conns[f] \notin Live
    BY <1>1, <1>2 DEF SocketInv, ConnectionIsThe
  <2> QED
    BY <1>9, <2>1 DEF Live, Closed
<1>15. ConnectionIsThe'
  BY <1>1, <1>2, <1>3, <1>7, <1>8, <1>14, ConnectorAssumption DEF ConnectionIsThe
<1>16. ConnectionStates'
  <2>1. \A f \in Fds : conns'[f] = "closedDisconnected" => "closing" \in disconnected
    BY <1>1, <1>2, <1>9 DEF SocketInv, ConnectionStates
  <2> QED
    BY <1>3, <1>7, <1>14, <2>1 DEF ConnectionStates, Live
<1>17. SocketsOwned'
  <2>1. {f \in Fds : conns'[f] # "none"} = {f \in Fds : conns[f] # "none"}
    BY <1>2, <1>9 DEF Closed
  <2> QED
    BY <1>1, <1>3, <1>7, <1>8, <1>12, <2>1 DEF SocketInv, SocketsOwned
<1> QED
  BY <1>7, <1>10, <1>11, <1>13, <1>15, <1>16, <1>17 DEF SocketInv

\* What epoll_wait's report makes the loop call.
LEMMA Concats ==
  ASSUME NEW a, NEW b
  PROVE  /\ <<>> \o <<>> = <<>>
         /\ <<>> \o <<a>> = <<a>> /\ <<a>> \o <<>> = <<a>> /\ <<a>> \o <<b>> = <<a, b>>
<1> DEFINE S == {a, b}
           u == <<a>> \o <<b>>
<1>1. <<>> \in Seq(S) /\ <<a>> \in Seq(S) /\ <<b>> \in Seq(S) /\ <<a, b>> \in Seq(S)
  OBVIOUS
<1>2. <<>> \o <<>> = <<>>
  BY <1>1
<1>3. <<>> \o <<a>> = <<a>> /\ <<a>> \o <<>> = <<a>>
  BY <1>1
<1>4. u = <<a, b>>
  <2>1. u \in Seq(S) /\ Len(u) = 2 /\ u[1] = a /\ u[2] = b
    BY <1>1
  <2> HIDE DEF u
  <2> QED
    BY <1>1, <2>1
<1> QED
  BY <1>2, <1>3, <1>4

LEMMA HandlersAre ==
  /\ Handlers({}) = <<>>
  /\ Handlers({"OUT"}) = <<Call("handleWrite")>>
  /\ Handlers({"OUT", "ERR", "HUP"}) = <<Call("handleError"), Call("handleWrite")>>
<1> DEFINE cbs == {"handleError", "handleWrite"}
<1>1. handleEvent({}, cbs) = <<>>
  <2>1. handleEvent({}, cbs) = ((<<>> \o <<>>) \o <<>>) \o <<>>
    BY DEF handleEvent
  <2> QED
    BY <2>1, Concats
<1>2. handleEvent({"OUT"}, cbs) = <<"handleWrite">>
  <2>1. handleEvent({"OUT"}, cbs) = ((<<>> \o <<>>) \o <<>>) \o <<"handleWrite">>
    BY DEF handleEvent
  <2>2. <<>> \o <<"handleWrite">> = <<"handleWrite">> /\ <<>> \o <<>> = <<>>
    BY Concats
  <2> QED
    BY <2>1, <2>2
<1>3. handleEvent({"OUT", "ERR", "HUP"}, cbs) = <<"handleError", "handleWrite">>
  <2>1. handleEvent({"OUT", "ERR", "HUP"}, cbs) =
          ((<<>> \o <<"handleError">>) \o <<>>) \o <<"handleWrite">>
    BY DEF handleEvent
  <2>2. /\ <<>> \o <<"handleError">> = <<"handleError">>
        /\ <<"handleError">> \o <<>> = <<"handleError">>
        /\ <<"handleError">> \o <<"handleWrite">> = <<"handleError", "handleWrite">>
    BY Concats
  <2> QED
    BY <2>1, <2>2
<1>4. Handlers({}) = <<>>
  <2>1. Handlers({}) = [i \in DOMAIN <<>> |-> Call(<<>>[i])]
    BY <1>1 DEF Handlers
  <2> QED
    BY <2>1
<1>5. Handlers({"OUT"}) = <<Call("handleWrite")>>
  <2> DEFINE s == <<"handleWrite">>
  <2>1. Handlers({"OUT"}) = [i \in DOMAIN s |-> Call(s[i])]
    BY <1>2 DEF Handlers
  <2>2. DOMAIN s = 1..1 /\ s[1] = "handleWrite"
    OBVIOUS
  <2> HIDE DEF s
  <2>3. [i \in DOMAIN s |-> Call(s[i])] = <<Call("handleWrite")>>
    BY <2>2
  <2> QED
    BY <2>1, <2>3
<1>6. Handlers({"OUT", "ERR", "HUP"}) = <<Call("handleError"), Call("handleWrite")>>
  <2> DEFINE s == <<"handleError", "handleWrite">>
  <2>1. Handlers({"OUT", "ERR", "HUP"}) = [i \in DOMAIN s |-> Call(s[i])]
    BY <1>3 DEF Handlers
  <2>2. DOMAIN s = 1..2 /\ s[1] = "handleError" /\ s[2] = "handleWrite"
    OBVIOUS
  <2> HIDE DEF s
  <2>3. [i \in DOMAIN s |-> Call(s[i])] = <<Call("handleError"), Call("handleWrite")>>
    BY <2>2
  <2> QED
    BY <2>1, <2>3
<1> QED
  BY <1>4, <1>5, <1>6

\* The calls of a report: none begins an attempt or releases anything.
LEMMA ReportIs ==
  ASSUME TypeOK
  PROVE  /\ Handlers(Reported) \in Todos /\ Handlers(Reported) \in Seq(Calls)
         /\ \A c \in ToSet(Handlers(Reported)) : c.op \in {"handleError", "handleWrite"}
         /\ Handlers(Reported) # <<>> => /\ Registered
                                         /\ Head(Handlers(Reported)) \in ToSet(Handlers(Reported))
<1> DEFINE t == Handlers(Reported)
           e == Call("handleError")
           w == Call("handleWrite")
<1>1. t \in {<<>>, <<w>>, <<e, w>>} /\ (t # <<>> => Registered)
  <2>1. Reported \in {{}, {"OUT"}, {"OUT", "ERR", "HUP"}} /\ (Reported # {} => Registered)
    BY DEF Reported
  <2> QED
    BY <2>1, HandlersAre
<1>2. w \in Calls /\ w.op = "handleWrite" /\ e.op = "handleError" /\ e \in Calls
  BY AreCalls
<1>3. t \in Todos
  BY <1>1 DEF Todos, ConnectorCalls
<1>4. \A c \in ToSet(t) : c.op \in {"handleError", "handleWrite"}
  <2> HIDE DEF t
  <2>1. t # <<>> => Head(t) \in {e, w} /\ ToSet(t) \subseteq {Head(t), w}
    <3>1. Head(<<w>>) = w /\ Head(<<e, w>>) = e
      OBVIOUS
    <3> QED
      BY <1>1, <1>3, <3>1, TodoIs
  <2> QED
    BY <1>2, <1>3, <2>1, TodoIs
<1> QED
  BY <1>1, <1>3, <1>4, TodosAre, TodoIs

LEMMA PollSockets ==
  ASSUME SocketInv, ClientPoll
  PROVE  SocketInv'
<1> DEFINE t == Handlers(Reported)
           none == <<>>
<1>1. TypeOK /\ CallsInPhase /\ Running /\ todo = <<>> /\ phase = "poll" /\ Once(Ahead)
  BY OnceIs DEF SocketInv, OneOwner, ClientPoll, Poll, Idle
<1>2. /\ todo' = t /\ phase' = "events" /\ aborted' = aborted
      /\ hup' \subseteq {fd \in Fds : conns[fd] \in {"kConnected", "kDisconnected"}}
      /\ UNCHANGED <<connect_, state_, channel_, retryDelayMs_, timerVars, attempt, open, functors,
                     batch, gaveUp, clientConnect_, connection_, conns, upc, starts, stopped, farStop,
                     disconnected>>
  BY DEF ClientPoll, Poll, callVars
<1>3. /\ t \in Todos /\ t \in Seq(Calls) /\ batch = <<>>
      /\ \A c \in ToSet(t) : c.op \in {"handleError", "handleWrite"}
      /\ t # <<>> => Registered /\ Head(t) \in ToSet(t)
  BY <1>1, ReportIs DEF CallsInPhase
<1> HIDE DEF t
<1>4. /\ none \in AtMostOne /\ ToSet(none) = {} /\ functors' = functors \o none
      /\ todo' = t \o todo
  BY <1>1, <1>2, <1>3, AheadIs, NothingAdded, Nothing
<1> HIDE DEF none
<1>5. Fresh(t, none)
  BY <1>3, <1>4 DEF Fresh, Cleanups
<1>6. ToSet(Ahead') = ToSet(Ahead) \cup ToSet(t) \cup ToSet(none) /\ Once(Ahead')
  BY <1>1, <1>2, <1>3, <1>4, <1>5, Started
<1>7. HandedOver' = {} /\ HandedOver = {}
  BY <1>1, <1>2, <1>3, HandedOverIs DEF HandedOver
<1>8. /\ ~IsAt("restart")' /\ (IsAt("handleError")' => Registered) /\ CallsInPhase'
      /\ Settled /\ Settled'
  BY <1>1, <1>2, <1>3, SettledIs DEF IsAt, CallsInPhase, Settled, ConnectionOps
<1>9. TypeOK'
  BY <1>1, <1>2, <1>3 DEF TypeOK, ConnectorTypeOK, timerVars
<1>10. ConnectingRegistered'
  BY <1>1, <1>2, <1>8 DEF SocketInv, ConnectingRegistered, Registered
<1>11. Registered' = Registered
  BY <1>2 DEF Registered
<1>12. OneOwner'
  <2>1. \A i, j \in DOMAIN Ahead' : Ahead'[i].op \in Cleanups /\ Ahead'[j] = Ahead'[i] => j = i
    BY <1>6 DEF Once
  <2>2. \A c \in ToSet(Ahead') : /\ c.op = "connectDestroyed" => conns[c.arg] \in Closed
                                 /\ c.op = "resetChannel" => channel_ # None /\ ~Registered
    BY <1>1, <1>3, <1>4, <1>6 DEF SocketInv, OneOwner
  <2>3. Registered => conns[channel_.fd] = "none"
    BY <1>1 DEF SocketInv, OneOwner
  <2> QED
    BY <1>2, <1>7, <1>11, <2>1, <2>2, <2>3 DEF OneOwner
<1>13. ConnectionIsThe'
  <2>1. hup' \subseteq {connection_}
    BY <1>1, <1>2 DEF SocketInv, ConnectionIsThe, Live
  <2> QED
    BY <1>1, <1>2, <1>7, <1>8, <2>1 DEF SocketInv, ConnectionIsThe
<1>14. SocketsOwned'
  BY <1>1, <1>2, <1>7, <1>11 DEF SocketInv, SocketsOwned
<1>15. ConnectionStates'
  BY <1>1, <1>2, <1>8, StatesKept
<1> QED
  BY <1>8, <1>9, <1>10, <1>12, <1>13, <1>14, <1>15 DEF SocketInv

\* What shutdown() of the connection changes.
LEMMA ShutsDownIs ==
  ASSUME SocketInv, Running, ShutsDown, connection_' = connection_, todo' = todo,
         hup' = hup, aborted' = aborted
  PROVE  /\ conns' \in [Fds -> {"none"} \cup Live \cup Closed]
         /\ disconnected \subseteq disconnected' /\ disconnected' \subseteq {"open", "closing"}
         /\ \A f \in Fds : /\ conns'[f] \in Live <=> conns[f] \in Live
                           /\ conns'[f] \in Live \/ conns'[f] = conns[f]
         /\ ConnectionStates'
<1> DEFINE shut == {fd \in Fds : fd = connection_ /\ conns[fd] = "kConnected"}
           when == IF IsAt("removeConnection") THEN "closing" ELSE "open"
<1>1. /\ conns' = [fd \in Fds |-> IF fd \in shut THEN "kDisconnected" ELSE conns[fd]]
      /\ disconnected' = IF shut = {} THEN disconnected ELSE disconnected \cup {when}
  BY DEF ShutsDown
<1>2. /\ conns \in [Fds -> {"none"} \cup Live \cup Closed] /\ disconnected \subseteq {"open", "closing"}
      /\ when \in {"open", "closing"}
  BY DEF SocketInv, TypeOK
<1>3. \A f \in Fds : \/ f \notin shut /\ conns'[f] = conns[f]
                     \/ /\ f \in shut /\ conns[f] = "kConnected" /\ conns'[f] = "kDisconnected"
                        /\ when \in disconnected'
  BY <1>1
<1> HIDE DEF shut
<1>4. conns' \in [Fds -> {"none"} \cup Live \cup Closed]
  BY <1>1, <1>2 DEF Live
<1>5. disconnected \subseteq disconnected' /\ disconnected' \subseteq {"open", "closing"}
  BY <1>1, <1>2
<1>6. ConnectionStates'
  <2>1. \A op : IsAt(op)' <=> IsAt(op)
    BY DEF IsAt, Running
  <2>2. \A f \in Fds :
          /\ conns[f] = "kConnecting" <=> IsAt("connectEstablished") /\ Head(todo).arg = f
          /\ conns[f] = "kDisconnected" => when \in disconnected
          /\ conns[f] = "closedDisconnected" => "closing" \in disconnected
    BY DEF SocketInv, ConnectionStates
  <2>3. IsAt("removeConnection") => Head(todo).arg = connection_ /\ hup = {}
    BY DEF SocketInv, ConnectionStates
  <2>4. \A f \in Fds :
          /\ conns'[f] = "kConnecting" <=> IsAt("connectEstablished") /\ Head(todo).arg = f
          /\ conns'[f] = "kDisconnected" => when \in disconnected'
          /\ conns'[f] = "closedDisconnected" => "closing" \in disconnected'
    <3> HIDE DEF when
    <3> QED
      BY <1>3, <1>5, <2>2
  <2> QED
    BY <2>1, <2>3, <2>4 DEF ConnectionStates
<1> QED
  BY <1>3, <1>4, <1>5, <1>6 DEF Live

LEMMA DisconnectSockets ==
  ASSUME SocketInv, DisconnectInLoop \/ DisconnectLocked
  PROVE  SocketInv'
<1>1. TypeOK /\ CallsInPhase /\ Running
  BY DEF SocketInv, DisconnectInLoop, DisconnectLocked, InApp, Idle
<1>2. /\ ShutsDown /\ upc' \in {upc, "idle"} /\ clientConnect_' \in {clientConnect_, FALSE}
      /\ UNCHANGED <<connect_, state_, channel_, retryDelayMs_, timerVars, attempt, open, phase,
                     todo, functors, batch, gaveUp, aborted, connection_, hup, starts, stopped,
                     farStop>>
  BY DEF DisconnectInLoop, DisconnectLocked, connectorVars, runVars
<1>3. /\ Ahead' = Ahead /\ HandedOver' = HandedOver /\ Registered' = Registered
      /\ IsAt("restart")' = IsAt("restart") /\ IsAt("handleError")' = IsAt("handleError")
      /\ CallsInPhase'
  BY <1>1, <1>2 DEF Ahead, HandedOver, Registered, IsAt, Running, CallsInPhase
<1>4. /\ conns' \in [Fds -> {"none"} \cup Live \cup Closed]
      /\ disconnected' \subseteq {"open", "closing"}
      /\ \A f \in Fds : /\ conns'[f] \in Live <=> conns[f] \in Live
                        /\ conns'[f] \in Live \/ conns'[f] = conns[f]
      /\ ConnectionStates'
  BY <1>1, <1>2, ShutsDownIs
<1>5. \A f \in Fds : conns[f] \in {"none"} \cup Closed => conns'[f] = conns[f]
  BY <1>4 DEF Live, Closed
<1>6. TypeOK'
  <2>1. clientConnect_' \in BOOLEAN /\ upc' \in {"idle", "connector", "cancel", "disconnect"}
    BY <1>1, <1>2 DEF TypeOK
  <2> QED
    BY <1>1, <1>2, <1>4, <2>1 DEF TypeOK, ConnectorTypeOK, timerVars
<1>7. ConnectingRegistered'
  BY <1>1, <1>2, <1>3 DEF SocketInv, ConnectingRegistered
<1>8. OneOwner'
  <2>1. ASSUME NEW c \in ToSet(Ahead)
        PROVE  /\ c.op = "connectDestroyed" => conns'[c.arg] \in Closed
               /\ c.op = "resetChannel" => channel_ # None /\ ~Registered
    <3>1. c.op = "connectDestroyed" => c.arg \in Fds
      BY <1>1, <2>1, InAhead, CallIs
    <3> QED
      BY <1>1, <1>5, <2>1, <3>1 DEF SocketInv, OneOwner
  <2>2. Registered => conns'[channel_.fd] = "none" /\ HandedOver = {}
    <3>1. Registered => channel_.fd \in Fds
      BY <1>1, RegisteredIs
    <3> QED
      BY <1>1, <1>5, <3>1 DEF SocketInv, OneOwner
  <2>3. \A f \in HandedOver : conns'[f] = "none"
    <3>1. HandedOver \subseteq Fds
      <4>1. todo # <<>> => Head(todo) \in Calls
        BY <1>1, TodoIs, AheadIs
      <4> QED
        BY <1>1, <4>1, HandedOverIs, CallIs
    <3> QED
      BY <1>1, <1>5, <3>1 DEF SocketInv, OneOwner
  <2>4. \A i, j \in DOMAIN Ahead : Ahead[i].op \in Cleanups /\ Ahead[j] = Ahead[i] => j = i
    BY <1>1 DEF SocketInv, OneOwner
  <2> QED
    BY <1>2, <1>3, <2>1, <2>2, <2>3, <2>4 DEF OneOwner
<1>9. ConnectionIsThe'
  BY <1>1, <1>2, <1>3, <1>4 DEF SocketInv, ConnectionIsThe
<1>10. SocketsOwned'
  <2>1. {f \in Fds : conns'[f] # "none"} = {f \in Fds : conns[f] # "none"}
    BY <1>4 DEF Live
  <2> QED
    BY <1>1, <1>2, <1>3, <2>1 DEF SocketInv, SocketsOwned
<1> QED
  BY <1>3, <1>4, <1>6, <1>7, <1>8, <1>9, <1>10 DEF SocketInv

LEMMA NothingAhead ==
  ASSUME todo = <<>>, batch = <<>>, functors = <<>>
  PROVE  Ahead = <<>> /\ ToSet(Ahead) = {} /\ DOMAIN Ahead = {} /\ HandedOver = {}
         /\ BeginningCalls(Ahead) = 0
<1>1. Ahead = <<>>
  BY Concats DEF Ahead
<1>2. ToSet(todo) = {}
  BY Nothing
<1> QED
  BY <1>1, <1>2, Nothing DEF HandedOver

LEMMA SocketsInit == Init => SocketInv
<1> SUFFICES ASSUME Init PROVE SocketInv
  OBVIOUS
<1>1. Ahead = <<>> /\ ToSet(Ahead) = {} /\ DOMAIN Ahead = {} /\ HandedOver = {}
  BY NothingAhead DEF Init, ConnectorInit
<1>2. TypeOK
  <2>1. kInitRetryDelayMs \in kInitRetryDelayMs .. kMaxRetryDelayMs
    BY ConnectorAssumption
  <2>2. <<>> \in Todos /\ <<>> \in Seq(FunctorCalls)
    BY DEF Todos
  <2>3. ConnectorTypeOK
    BY <2>1 DEF Init, ConnectorInit, ConnectorTypeOK
  <2> QED
    BY <2>2, <2>3 DEF Init, ConnectorInit, TypeOK
<1>3. CallsInPhase
  BY Nothing DEF Init, ConnectorInit, CallsInPhase
<1>4. ~Registered /\ ~IsAt("handleError") /\ ~IsAt("restart")
  BY DEF Init, ConnectorInit, Registered, IsAt
<1>5. ConnectingRegistered /\ OneOwner
  BY <1>1, <1>4 DEF Init, ConnectorInit, ConnectingRegistered, OneOwner
<1>6. ConnectionIsThe
  BY <1>1, <1>4, ConnectorAssumption DEF Init, ConnectionIsThe, Live
<1>7. SocketsOwned
  BY <1>1, <1>4 DEF Init, ConnectorInit, SocketsOwned
<1>8. ConnectionStates
  BY DEF Init, ConnectorInit, ConnectionStates, IsAt
<1> QED
  BY <1>2, <1>3, <1>5, <1>6, <1>7, <1>8 DEF SocketInv

\* A state that does not change.
LEMMA StutterSockets ==
  ASSUME SocketInv, UNCHANGED vars
  PROVE  SocketInv'
<1>1. UNCHANGED <<connect_, state_, channel_, retryDelayMs_, timerId_, timers, ripe, attempt, open,
                  phase, todo, functors, batch, gaveUp, aborted>>
      /\ UNCHANGED <<clientConnect_, connection_, conns, hup, upc, starts, stopped, farStop, disconnected>>
  BY DEF vars, connectorVars, clientVars, callVars, timerVars, runVars
<1>2. Ahead' = Ahead /\ HandedOver' = HandedOver /\ Registered' = Registered
      /\ (\A op : IsAt(op)' <=> IsAt(op)) /\ Running' = Running
  BY <1>1 DEF Ahead, HandedOver, Registered, IsAt, Running
<1>3. TypeOK' /\ CallsInPhase'
  BY <1>1 DEF SocketInv, TypeOK, ConnectorTypeOK, CallsInPhase
<1>4. ConnectingRegistered' /\ OneOwner'
  BY <1>1, <1>2 DEF SocketInv, ConnectingRegistered, OneOwner
<1>5. ConnectionIsThe' /\ ConnectionStates' /\ SocketsOwned'
  BY <1>1, <1>2 DEF SocketInv, ConnectionIsThe, ConnectionStates, SocketsOwned
<1> QED
  BY <1>3, <1>4, <1>5 DEF SocketInv

LEMMA SocketsNext == SocketInv /\ [Next]_vars => SocketInv'
<1> SUFFICES ASSUME SocketInv, [Next]_vars PROVE SocketInv'
  OBVIOUS
<1>1. CASE LoopStep
  <2>1. CASE ConnectorStep /\ UNCHANGED clientVars
    BY <2>1, RefusesSockets, ConnectingSockets, FailsSockets, TimersSockets, ResetSockets,
       HandlersSockets, HandedSockets, RestartSockets, CallersSockets DEF ConnectorStep
  <2>2. CASE ClientPoll \/ NewConnection \/ ConnectEstablished
    BY <2>2, PollSockets, NewSockets, EstablishedSockets
  <2>3. CASE RemoveConnection \/ ConnectDestroyed \/ \E fd \in Fds : HandleClose(fd)
    BY <2>3, LostSockets, DestroyedSockets, ClosesSockets
  <2> QED
    BY <1>1, <2>1, <2>2, <2>3, MachinerySockets DEF LoopStep
<1>2. CASE ConnectGivesUp /\ UNCHANGED clientVars
  BY <1>2, FailsSockets
<1>3. CASE \/ Kernel /\ UNCHANGED clientVars
           \/ \E id \in TimerSeqs : Ripen(id) /\ UNCHANGED clientVars
           \/ StopInLoop \/ StopStoreClient \/ StopStoreConnector \/ DisconnectStore
  BY <1>3, UntouchedSockets
<1>4. CASE ConnectInLoop \/ ConnectFromAfar \/ StopCancel
  BY <1>4, CallersSockets
<1>5. CASE DisconnectInLoop \/ DisconnectLocked
  BY <1>5, DisconnectSockets
<1>6. CASE UNCHANGED vars
  BY <1>6, StutterSockets
<1> QED
  BY <1>1, <1>2, <1>3, <1>4, <1>5, <1>6 DEF Next, Stop

\* No descriptor is leaked, closed twice or used after it was closed, and every
\* variable keeps its type: for every number of connect() calls, however long
\* the callbacks take.
THEOREM SocketsHold == Spec => []SocketInv
<1>1. Init => SocketInv
  BY SocketsInit
<1>2. SocketInv /\ [Next]_vars => SocketInv'
  BY SocketsNext
<1> QED
  BY <1>1, <1>2, PTL DEF Spec

\* The open descriptors are at every moment those of the registered channel, of
\* the connections, and the one handleWrite is handing over.
THEOREM SocketsOwnedHolds == Spec => []SocketsOwned
<1>1. SocketInv => SocketsOwned
  BY DEF SocketInv
<1> QED
  BY <1>1, SocketsHold, PTL

-----------------------------------------------------------------------------
(* The attempts of a client whose connect() is called once, and whose      *)
(* callbacks take less than a retry delay: the rest of IInv, in terms of   *)
(* the calls ahead and of numbers.                                         *)

Has(op) == \E c \in ToSet(Ahead) : c.op = op
Begin == BeginningCalls(Ahead)

Total ==
  Begin + (IF timers = {} THEN 0 ELSE 1) + (IF Registered THEN 1 ELSE 0)
    + (IF HandedOver = {} THEN 0 ELSE 1) + (IF connection_ = None THEN 0 ELSE 1)

AtMostOneAttempt == timers \subseteq {timerId_} /\ Total <= 1

SomethingUnderWay ==
  (Running /\ retry_ /\ clientConnect_ /\ connect_ /\ ~gaveUp)
    => connection_ # None \/ HandedOver # {} \/ Begin > 0 \/ timers # {} \/ Registered

DisconnectedFirst ==
  Running => /\ Has("startInLoop") \/ Has("runAfter") \/ timers # {} => state_ = "kDisconnected"
             /\ Has("startInLoop") \/ Has("restart") => channel_ = None

ResetSoon ==
  (Running /\ channel_ # None /\ ~Registered) =>
    \/ /\ phase = "events" /\ ripe = {} /\ connection_ \notin hup /\ ~Has("removeConnection")
       /\ Call("resetChannel") \in ToSet(functors)
    \/ phase = "functors" /\ Call("resetChannel") \in ToSet(todo) \cup ToSet(batch)

Stops ==
  /\ farStop => ~clientConnect_ /\ starts > 0
  /\ Has("cancel") \/ upc \in {"connector", "cancel"} => farStop
  /\ (stopped /\ ~farStop) =>
       /\ ~clientConnect_ /\ ~connect_ /\ timers = {}
       /\ ~Has("restart") /\ ~Has("runAfter")

Tallied ==
  /\ AtMostOneAttempt /\ SomethingUnderWay /\ NothingBeforeConnect
  /\ DisconnectedFirst /\ ResetSoon /\ Stops /\ AssertionsHold

LEMMA BeginIs ==
  TypeOK =>
    /\ Begin \in Nat
    /\ Begin = 0 <=> ~Has("startInLoop") /\ ~Has("restart") /\ ~Has("runAfter")
<1> SUFFICES ASSUME TypeOK
             PROVE  /\ Begin \in Nat
                    /\ Begin = 0 <=> ~Has("startInLoop") /\ ~Has("restart") /\ ~Has("runAfter")
  OBVIOUS
<1>1. Begin \in Nat /\ (Begin = 0 <=> \A i \in DOMAIN Ahead : Ahead[i].op \notin Beginning)
  BY AheadIs, BeginsFinite DEF Begin
<1>2. (\A i \in DOMAIN Ahead : Ahead[i].op \notin Beginning)
        <=> \A c \in ToSet(Ahead) : c.op \notin Beginning
  BY DEF ToSet
<1> QED
  BY <1>1, <1>2 DEF Has, Beginning

\* removeConnection is never queued: it is ahead only if the loop is at it.
LEMMA RemovingIs ==
  ASSUME TypeOK, Running
  PROVE  Has("removeConnection") <=> IsAt("removeConnection")
<1>1. ToSet(batch) \subseteq FunctorCalls /\ ToSet(functors) \subseteq FunctorCalls
  BY DEF TypeOK, ToSet
<1>2. \A c \in FunctorCalls : c.op # "removeConnection"
  BY FunctorsAre
<1>3. /\ todo = <<>> => ToSet(todo) = {}
      /\ todo # <<>> => /\ Head(todo) \in ToSet(todo)
                        /\ ToSet(todo) \subseteq {Head(todo), Call("handleWrite")}
  BY TodoIs DEF TypeOK
<1>4. ToSet(Ahead) = ToSet(todo) \cup ToSet(batch) \cup ToSet(functors)
  BY InAhead
<1>5. Call("handleWrite").op # "removeConnection"
  BY AreCalls
<1> QED
  BY <1>1, <1>2, <1>3, <1>4, <1>5 DEF Has, IsAt

LEMMA TallyIs == TypeOK => (IInv <=> SocketInv /\ Tallied)
<1> SUFFICES ASSUME TypeOK PROVE IInv <=> SocketInv /\ Tallied
  OBVIOUS
<1>1. \A ops : IsAhead(ops) <=> \E c \in ToSet(Ahead) : c.op \in ops
  BY InAhead
<1>2. /\ IsAhead({"startInLoop", "runAfter"}) <=> Has("startInLoop") \/ Has("runAfter")
      /\ IsAhead({"startInLoop", "restart"}) <=> Has("startInLoop") \/ Has("restart")
      /\ IsAhead({"restart", "runAfter"}) <=> Has("restart") \/ Has("runAfter")
      /\ IsAhead({"cancel"}) <=> Has("cancel")
  BY <1>1 DEF Has
<1>3. ToSet(todo \o batch) = ToSet(todo) \cup ToSet(batch)
  BY AheadIs, ConcatSet
<1>4. Cardinality(HandedOver) = IF HandedOver = {} THEN 0 ELSE 1
  <2>1. HandedOver = {} \/ HandedOver = {Head(todo).arg}
    BY HandedOverIs
  <2>2. HandedOver \subseteq {Head(todo).arg}
    BY <2>1
  <2> QED
    BY <2>2, AtMostOneElement
<1>5. timers \subseteq {timerId_} => Cardinality(timers) = IF timers = {} THEN 0 ELSE 1
  BY AtMostOneElement
<1>6. Begin \in Nat /\ Begin = BeginningCalls(Ahead)
  BY BeginIs DEF Begin
<1>7. timers \subseteq {timerId_} =>
        (OneAttempt /\ NeverStranded <=> AtMostOneAttempt /\ SomethingUnderWay)
  <2> SUFFICES ASSUME timers \subseteq {timerId_}
               PROVE  OneAttempt /\ NeverStranded <=> AtMostOneAttempt /\ SomethingUnderWay
    OBVIOUS
  <2> DEFINE a == Cardinality(timers)
             b == Cardinality(HandedOver)
  <2>1. /\ a = IF timers = {} THEN 0 ELSE 1
        /\ b = IF HandedOver = {} THEN 0 ELSE 1
        /\ UnderWay = Begin + a + (IF Registered THEN 1 ELSE 0)
        /\ OneAttempt <=> UnderWay + b + (IF connection_ # None THEN 1 ELSE 0) <= 1
    BY <1>4, <1>5, <1>6 DEF UnderWay, OneAttempt
  <2> HIDE DEF a, b
  <2>2. OneAttempt <=> Total <= 1
    BY <1>6, <2>1 DEF Total
  <2>3. UnderWay > 0 <=> Begin > 0 \/ timers # {} \/ Registered
    BY <1>6, <2>1
  <2> QED
    BY <2>2, <2>3 DEF AtMostOneAttempt, SomethingUnderWay, NeverStranded
<1>8. BeginsAfresh <=> DisconnectedFirst
  BY <1>2 DEF BeginsAfresh, DisconnectedFirst
<1>9. ResetComes <=> ResetSoon
  BY <1>3, RemovingIs DEF ResetComes, ResetSoon
<1>10. FarStops /\ StopKnowsTimer /\ StopIsFinal <=> Stops /\ timers \subseteq {timerId_}
  BY <1>2 DEF FarStops, StopKnowsTimer, StopIsFinal, Stops
<1>11. Tallied => timers \subseteq {timerId_}
  BY DEF Tallied, AtMostOneAttempt
<1>12. IInv => timers \subseteq {timerId_}
  BY DEF IInv, StopKnowsTimer
<1> QED
  BY <1>7, <1>8, <1>9, <1>10, <1>11, <1>12 DEF IInv, Tallied

LEMMA BeginIsNext ==
  (TypeOK =>
    /\ Begin \in Nat
    /\ Begin = 0 <=> ~Has("startInLoop") /\ ~Has("restart") /\ ~Has("runAfter"))'
BY BeginIs, PTL

LEMMA TallyIsNext == TypeOK' => (IInv' <=> SocketInv' /\ Tallied')
BY TallyIs, PTL

\* What a step within a call does to the calls ahead.
Reset == Call("resetChannel")

WithinCall(op, come, queued) ==
  /\ starts # 0 /\ Running
  /\ Begin \in Nat /\ Begin' \in Nat
  /\ Begin' = Begin + BeginningCalls(come) + BeginningCalls(queued)
                 - (IF op \in Beginning THEN 1 ELSE 0)
  /\ \A c \in ToSet(Ahead') : c \in ToSet(Ahead) \/ c \in ToSet(come) \/ c \in ToSet(queued)
  /\ Has(op)
  /\ op # "resetChannel" /\ Reset \in ToSet(todo) \cup ToSet(batch)
       => Reset \in ToSet(todo') \cup ToSet(batch')

LEMMA WithinCalls ==
  ASSUME SocketInv, Tallied, TypeOK', NEW op, IsAt(op), NEW come \in AtMostOne,
         NEW queued \in AtMostOne, Continue(come), batch' = batch, functors' = functors \o queued
  PROVE  WithinCall(op, come, queued)
<1>1. TypeOK /\ todo # <<>> /\ Running
  BY DEF SocketInv, IsAt
<1>2. /\ Head(todo) \in Calls /\ Head(todo).op = op /\ Tail(todo) \in Seq(Calls)
      /\ todo = <<Head(todo)>> \o Tail(todo) /\ Head(todo) \in ToSet(todo)
  BY <1>1, AtIs, TodoIs DEF TypeOK
<1>3. Has(op) /\ ToSet(Ahead) # {}
  BY <1>1, <1>2, InAhead DEF Has
<1>4. starts # 0
  BY <1>3, Nothing DEF Tallied, NothingBeforeConnect
<1>5. /\ BeginningCalls(Ahead') + (IF op \in Beginning THEN 1 ELSE 0) =
           BeginningCalls(Ahead) + BeginningCalls(come) + BeginningCalls(queued)
      /\ ToSet(Ahead') \subseteq ToSet(Ahead) \cup ToSet(come) \cup ToSet(queued)
  BY <1>1, Continued
<1>6. /\ Begin' = Begin + BeginningCalls(come) + BeginningCalls(queued)
                    - (IF op \in Beginning THEN 1 ELSE 0)
      /\ Begin \in Nat /\ Begin' \in Nat
  <2> DEFINE n == BeginningCalls(Ahead')
             m == BeginningCalls(Ahead)
             k == BeginningCalls(come)
             l == BeginningCalls(queued)
             d == IF op \in Beginning THEN 1 ELSE 0
  <2>1. Begin = m /\ Begin' = n /\ m \in Nat /\ n \in Nat
    BY <1>1, BeginIs, BeginIsNext DEF Begin
  <2>2. k \in Nat /\ l \in Nat /\ d \in Nat
    BY OnceOne, BeginsFinite
  <2>3. n + d = m + k + l
    BY <1>5
  <2> HIDE DEF n, m, k, l, d
  <2>4. n = m + k + l - d
    BY <2>1, <2>2, <2>3
  <2> QED
    BY <2>1, <2>4 DEF n, m, k, l, d
<1>7. ASSUME op # "resetChannel", Reset \in ToSet(todo) \cup ToSet(batch)
      PROVE  Reset \in ToSet(todo') \cup ToSet(batch')
  <2> DEFINE h == <<Head(todo)>>
  <2>1. h \in Seq(Calls) /\ ToSet(h) = {Head(todo)} /\ come \in Seq(Calls)
    BY <1>2, BeginsOne, OnceOne
  <2>2. todo = h \o Tail(todo) /\ todo' = come \o Tail(todo)
    BY <1>2 DEF Continue
  <2> HIDE DEF h
  <2>3. ToSet(todo) = ToSet(h) \cup ToSet(Tail(todo)) /\ ToSet(todo') = ToSet(come) \cup ToSet(Tail(todo))
    BY <1>2, <2>1, <2>2, ConcatSet
  <2>4. Reset.op = "resetChannel"
    BY AreCalls DEF Reset
  <2> QED
    BY <1>2, <1>7, <2>1, <2>3, <2>4
<1> QED
  BY <1>1, <1>3, <1>4, <1>5, <1>6, <1>7 DEF WithinCall

\* A call that queues nothing.
LEMMA WithinCallEnds ==
  ASSUME SocketInv, Tallied, TypeOK', NEW op, IsAt(op), NEW come \in AtMostOne, Continue(come),
         UNCHANGED runVars
  PROVE  /\ WithinCall(op, come, <<>>) /\ ToSet(<<>>) = {} /\ BeginningCalls(<<>>) = 0
         /\ UNCHANGED <<phase, functors, batch>>
<1> DEFINE none == <<>>
<1>1. /\ none \in AtMostOne /\ ToSet(none) = {} /\ BeginningCalls(none) = 0
      /\ functors' = functors \o none /\ UNCHANGED <<phase, functors, batch>>
  BY Nothing, AheadIs, NothingAdded DEF SocketInv, runVars
<1> HIDE DEF none
<1>2. WithinCall(op, come, none)
  BY <1>1, WithinCalls
<1> QED
  BY <1>1, <1>2 DEF none

LEMMA RefusesTally ==
  ASSUME SocketInv, Tallied, SocketInv', StartInLoopRefuses \/ ConnectGivesUp, UNCHANGED clientVars
  PROVE  Tallied'
<1>1. PICK op \in {"startInLoop"} : IsAt(op)
  BY DEF StartInLoopRefuses, ConnectGivesUp, Connects
<1>2. TypeOK /\ TypeOK' /\ Has("startInLoop")
  BY <1>1, AtIs, TodoIs, InAhead DEF SocketInv, TypeOK, Has, IsAt
<1>3. Begin >= 1 /\ Begin \in Nat /\ state_ = "kDisconnected" /\ channel_ = None /\ Running
  BY <1>1, <1>2, BeginIs DEF Tallied, DisconnectedFirst, IsAt
<1>4. /\ Continue(<<>>) /\ UNCHANGED runVars /\ (~connect_ \/ gaveUp')
      /\ UNCHANGED <<connect_, state_, channel_, retryDelayMs_, timerVars, attempt, open, aborted>>
  BY <1>3 DEF StartInLoopRefuses, ConnectGivesUp
<1>5. /\ WithinCall(op, <<>>, <<>>) /\ ToSet(<<>>) = {} /\ BeginningCalls(<<>>) = 0
      /\ UNCHANGED <<phase, functors, batch>>
  BY <1>1, <1>2, <1>4, Nothing, WithinCallEnds
<1>6. Begin = 1 /\ timers = {} /\ ~Registered /\ HandedOver = {} /\ connection_ = None
  BY <1>3 DEF Tallied, AtMostOneAttempt, Total
<1>7. Begin' = 0 /\ starts # 0 /\ \A o : Has(o)' => Has(o)
  BY <1>5, <1>6 DEF WithinCall, Beginning, Has
<1>8. HandedOver' = {}
  BY <1>1, <1>4, EndsCall
<1>9. UNCHANGED <<timers, ripe, timerId_, clientConnect_, connection_, conns, hup, upc, starts, stopped, farStop, disconnected>>
  BY <1>4 DEF timerVars, clientVars, callVars
<1>10. AtMostOneAttempt'
  BY <1>4, <1>6, <1>7, <1>8, <1>9 DEF Tallied, AtMostOneAttempt, Total, Registered
<1>11. SomethingUnderWay'
  BY <1>4 DEF SomethingUnderWay
<1>12. NothingBeforeConnect' /\ AssertionsHold'
  BY <1>3, <1>4, <1>7, <1>9 DEF NothingBeforeConnect, AssertionsHold, Running
<1>13. DisconnectedFirst'
  BY <1>3, <1>4 DEF DisconnectedFirst
<1>14. ResetSoon'
  BY <1>3, <1>4 DEF ResetSoon
<1>15. Stops'
  BY <1>4, <1>6, <1>7, <1>9 DEF Tallied, Stops
<1> QED
  BY <1>10, <1>11, <1>12, <1>13, <1>14, <1>15 DEF Tallied

LEMMA ConnectingTally ==
  ASSUME SocketInv, Tallied, SocketInv', ConnectInProgress, UNCHANGED clientVars
  PROVE  Tallied'
<1>1. PICK op \in {"startInLoop"} : IsAt(op)
  BY DEF ConnectInProgress, Connects
<1>2. TypeOK /\ TypeOK' /\ Has("startInLoop")
  BY <1>1, AtIs, TodoIs, InAhead DEF SocketInv, TypeOK, Has, IsAt
<1>3. Begin >= 1 /\ Begin \in Nat /\ state_ = "kDisconnected" /\ channel_ = None /\ Running
  BY <1>1, <1>2, BeginIs DEF Tallied, DisconnectedFirst, IsAt
<1>4. /\ Continue(<<>>) /\ UNCHANGED runVars /\ aborted' = aborted
      /\ UNCHANGED <<connect_, timerVars, gaveUp>>
  BY <1>3 DEF ConnectInProgress, connecting
<1>5. /\ WithinCall(op, <<>>, <<>>) /\ ToSet(<<>>) = {} /\ BeginningCalls(<<>>) = 0
      /\ UNCHANGED <<phase, functors, batch>>
  BY <1>1, <1>2, <1>4, Nothing, WithinCallEnds
<1>6. Begin = 1 /\ timers = {} /\ ~Registered /\ HandedOver = {} /\ connection_ = None
  BY <1>3 DEF Tallied, AtMostOneAttempt, Total
<1>7. Begin' = 0 /\ starts # 0 /\ \A o : Has(o)' => Has(o)
  BY <1>5, <1>6 DEF WithinCall, Beginning, Has
<1>8. HandedOver' = {}
  BY <1>1, <1>4, EndsCall
<1>9. UNCHANGED <<timers, ripe, timerId_, clientConnect_, connection_, conns, hup, upc, starts, stopped, farStop, disconnected>>
  BY <1>4 DEF timerVars, clientVars, callVars
<1>10. Registered'
  <2>1. PICK fd \in Fds : channel_' = [fd |-> fd, ch |-> Added]
    BY <1>3 DEF ConnectInProgress, connecting, Added
  <2> QED
    BY <2>1, ChannelIs DEF Registered
<1>11. ~Has("startInLoop")' /\ ~Has("restart")' /\ ~Has("runAfter")'
  BY <1>2, <1>7, BeginIsNext
<1>12. AtMostOneAttempt' /\ SomethingUnderWay'
  BY <1>6, <1>7, <1>8, <1>9, <1>10 DEF Tallied, AtMostOneAttempt, Total, SomethingUnderWay
<1>13. NothingBeforeConnect' /\ AssertionsHold'
  BY <1>3, <1>4, <1>7, <1>9 DEF NothingBeforeConnect, AssertionsHold, Running
<1>14. DisconnectedFirst' /\ ResetSoon'
  BY <1>6, <1>9, <1>10, <1>11 DEF DisconnectedFirst, ResetSoon
<1>15. Stops'
  BY <1>4, <1>6, <1>7, <1>9 DEF Tallied, Stops
<1> QED
  BY <1>12, <1>13, <1>14, <1>15 DEF Tallied

LEMMA FailsTally ==
  ASSUME SocketInv, Tallied, SocketInv', ConnectFails, UNCHANGED clientVars
  PROVE  Tallied'
<1>1. PICK op \in {"startInLoop"} : IsAt(op)
  BY DEF ConnectFails, Connects
<1>2. TypeOK /\ TypeOK' /\ Has("startInLoop")
  BY <1>1, AtIs, TodoIs, InAhead DEF SocketInv, TypeOK, Has, IsAt
<1>3. Begin >= 1 /\ Begin \in Nat /\ state_ = "kDisconnected" /\ channel_ = None /\ Running
  BY <1>1, <1>2, BeginIs DEF Tallied, DisconnectedFirst, IsAt
<1>4. /\ Continue(retryCalls) /\ UNCHANGED runVars /\ connect_
      /\ UNCHANGED <<connect_, state_, channel_, timerVars, gaveUp, aborted>>
  BY DEF ConnectFails, Connects
<1>5. /\ WithinCall(op, retryCalls, <<>>) /\ ToSet(<<>>) = {} /\ BeginningCalls(<<>>) = 0
      /\ UNCHANGED <<phase, functors, batch>>
  BY <1>1, <1>2, <1>4, RetryCallsAre, WithinCallEnds
<1>6. Begin = 1 /\ timers = {} /\ ~Registered /\ HandedOver = {} /\ connection_ = None
  BY <1>3 DEF Tallied, AtMostOneAttempt, Total
<1>7. /\ Begin' = 1 /\ starts # 0
      /\ \A o : Has(o)' => Has(o) \/ o = "runAfter"
  BY <1>4, <1>5, <1>6, RetryCallsAre DEF WithinCall, Beginning, Has
<1>8. HandedOver' = {}
  <2>1. HandsOver(todo') = HandsOver(retryCalls)
    BY <1>1, <1>2, <1>4, RetryCallsAre, TodoAfter
  <2> QED
    BY <2>1, RetryCallsAre DEF HandsOver, HandedOver
<1>9. UNCHANGED <<timers, ripe, timerId_, clientConnect_, connection_, conns, hup, upc, starts, stopped, farStop, disconnected>>
  BY <1>4 DEF timerVars, clientVars, callVars
<1>10. AtMostOneAttempt' /\ SomethingUnderWay'
  BY <1>4, <1>6, <1>7, <1>8, <1>9 DEF Tallied, AtMostOneAttempt, Total, SomethingUnderWay, Registered
<1>11. NothingBeforeConnect' /\ AssertionsHold'
  BY <1>3, <1>4, <1>7, <1>9 DEF NothingBeforeConnect, AssertionsHold, Running
<1>12. DisconnectedFirst' /\ ResetSoon'
  BY <1>3, <1>4 DEF DisconnectedFirst, ResetSoon
<1>13. Stops'
  BY <1>4, <1>7, <1>9 DEF Tallied, Stops
<1> QED
  BY <1>10, <1>11, <1>12, <1>13 DEF Tallied

LEMMA RunAfterTally ==
  ASSUME SocketInv, Tallied, SocketInv', RunAfter, UNCHANGED clientVars
  PROVE  Tallied'
<1>1. PICK op \in {"runAfter"} : IsAt(op)
  BY DEF RunAfter
<1>2. TypeOK /\ TypeOK' /\ Has("runAfter")
  BY <1>1, AtIs, TodoIs, InAhead DEF SocketInv, TypeOK, Has, IsAt
<1>3. Begin >= 1 /\ Begin \in Nat /\ state_ = "kDisconnected" /\ Running
  BY <1>1, <1>2, BeginIs DEF Tallied, DisconnectedFirst, IsAt
<1>4. /\ Continue(<<>>) /\ UNCHANGED runVars /\ IsAt("runAfter")
      /\ UNCHANGED <<connect_, state_, channel_, ripe, gaveUp, aborted>>
  BY DEF RunAfter
<1>5. PICK id : timers' = timers \cup {id} /\ timerId_' = id
  BY DEF RunAfter
<1>6. /\ WithinCall(op, <<>>, <<>>) /\ ToSet(<<>>) = {} /\ BeginningCalls(<<>>) = 0
      /\ UNCHANGED <<phase, functors, batch>>
  BY <1>1, <1>2, <1>4, Nothing, WithinCallEnds
<1>7. Begin = 1 /\ timers = {} /\ ~Registered /\ HandedOver = {} /\ connection_ = None
  BY <1>3 DEF Tallied, AtMostOneAttempt, Total
<1>8. Begin' = 0 /\ starts # 0 /\ \A o : Has(o)' => Has(o)
  BY <1>6, <1>7 DEF WithinCall, Beginning, Has
<1>9. ~Has("startInLoop")' /\ ~Has("restart")' /\ ~Has("runAfter")'
  BY <1>2, <1>8, BeginIsNext
<1>10. HandedOver' = {}
  <2>1. HandsOver(todo') = HandsOver(<<>>)
    BY <1>1, <1>2, <1>4, Nothing, TodoAfter
  <2> QED
    BY <2>1, Nothing DEF HandsOver, HandedOver
<1>11. UNCHANGED <<clientConnect_, connection_, conns, hup, upc, starts, stopped, farStop, disconnected>>
  BY DEF clientVars, callVars
<1>12. AtMostOneAttempt' /\ SomethingUnderWay'
  BY <1>4, <1>5, <1>7, <1>8, <1>10, <1>11 DEF AtMostOneAttempt, Total, SomethingUnderWay, Registered
<1>13. NothingBeforeConnect' /\ AssertionsHold'
  BY <1>3, <1>4, <1>8, <1>11 DEF NothingBeforeConnect, AssertionsHold, Running
<1>14. DisconnectedFirst'
  BY <1>3, <1>4, <1>9 DEF DisconnectedFirst
<1>15. ResetSoon'
  BY <1>1, <1>3, <1>4, <1>6, <1>8, <1>11 DEF Tallied, ResetSoon, WithinCall, Reset, Registered
<1>16. Stops'
  BY <1>2, <1>4, <1>5, <1>8, <1>11 DEF Tallied, Stops
<1> QED
  BY <1>12, <1>13, <1>14, <1>15, <1>16 DEF Tallied

\* Functors, the end of handleWrite for a connect that was already over.
LEMMA EndingsTally ==
  ASSUME SocketInv, Tallied, SocketInv',
         \/ (ResetChannel \/ CancelTimer \/ CloseConnected) /\ UNCHANGED clientVars
         \/ HandleWrite /\ state_ # "kConnecting" /\ UNCHANGED clientVars
         \/ ConnectEstablished
         \/ ConnectDestroyed /\ aborted' = aborted
  PROVE  Tallied'
<1>1. PICK op \in {"resetChannel", "cancel", "newConnection", "handleWrite",
                "connectEstablished", "connectDestroyed"} :
        /\ IsAt(op)
        /\ op = "newConnection" => ~connect_ /\ connect_' = connect_
        /\ op # "resetChannel" => channel_' = channel_
        /\ op = "resetChannel" => channel_' = None
        /\ op # "cancel" => timers' = timers /\ ripe' = ripe
  BY DEF ResetChannel, CancelTimer, CloseConnected, HandleWrite, ConnectEstablished,
         ConnectDestroyed, timerVars
<1>2. /\ Continue(<<>>) /\ UNCHANGED runVars
      /\ UNCHANGED <<connect_, state_, timerId_, gaveUp, aborted>>
      /\ timers' \subseteq timers /\ ripe' \subseteq ripe
  <2>1. CASE ConnectEstablished
    <3>1. conns[Head(todo).arg] = "kConnecting"
      <4>1. IsAt("connectEstablished") /\ TypeOK /\ Running
        BY <2>1 DEF ConnectEstablished, IsAt, SocketInv
      <4>2. Head(todo).arg \in Fds
        BY <4>1, AtIs, CallIs DEF ConnectionOps
      <4> QED
        BY <4>1, <4>2 DEF SocketInv, ConnectionStates
    <3> QED
      BY <2>1, <3>1 DEF ConnectEstablished, timerVars
  <2>2. CASE ConnectDestroyed /\ aborted' = aborted
    <3>1. aborted = "none"
      BY <2>2 DEF ConnectDestroyed, IsAt, Running
    <3> QED
      BY <2>2, <3>1 DEF ConnectDestroyed, Abort, timerVars
  <2>3. CASE \/ (ResetChannel \/ CancelTimer \/ CloseConnected) /\ UNCHANGED clientVars
             \/ HandleWrite /\ state_ # "kConnecting" /\ UNCHANGED clientVars
    BY <2>3 DEF ResetChannel, CancelTimer, CloseConnected, HandleWrite, timerVars, runVars
  <2> QED
    BY <2>1, <2>2, <2>3
<1>3. UNCHANGED <<clientConnect_, connection_, hup, upc, starts, stopped, farStop, disconnected>>
  BY DEF clientVars, callVars, ConnectEstablished, ConnectDestroyed
<1>4. TypeOK /\ TypeOK' /\ Has(op) /\ Running /\ Begin \in Nat
  BY <1>1, AtIs, TodoIs, InAhead, BeginIs DEF SocketInv, TypeOK, Has, IsAt, Begin
<1>5. /\ WithinCall(op, <<>>, <<>>) /\ ToSet(<<>>) = {} /\ BeginningCalls(<<>>) = 0
      /\ UNCHANGED <<phase, functors, batch>>
  BY <1>1, <1>2, <1>4, Nothing, WithinCallEnds
<1>6. Begin' = Begin /\ starts # 0 /\ \A o : Has(o)' => Has(o)
  BY <1>4, <1>5 DEF WithinCall, Beginning, Has
<1>7. HandedOver' = {} /\ (HandedOver # {} => op = "newConnection")
  BY <1>1, <1>2, <1>4, EndsCall, HandedOverIs DEF IsAt
<1>8. Registered' = Registered
  <2>1. op = "resetChannel" => ~Registered
    <3>1. Head(todo) \in ToSet(Ahead) /\ Head(todo).op = op
      BY <1>1, <1>4, AtIs, TodoIs, InAhead DEF TypeOK
    <3> QED
      BY <1>4, <3>1 DEF SocketInv, OneOwner
  <2> QED
    BY <1>1, <2>1 DEF Registered
<1>9. AtMostOneAttempt'
  BY <1>2, <1>3, <1>4, <1>6, <1>7, <1>8 DEF Tallied, AtMostOneAttempt, Total
<1>10. SomethingUnderWay'
  <2>1. op = "cancel" => ~clientConnect_
    BY <1>4 DEF Tallied, Stops
  <2> QED
    BY <1>1, <1>2, <1>3, <1>4, <1>6, <1>7, <1>8, <2>1 DEF Tallied, SomethingUnderWay
<1>11. NothingBeforeConnect' /\ AssertionsHold'
  BY <1>2, <1>3, <1>4, <1>6 DEF NothingBeforeConnect, AssertionsHold, Running
<1>12. DisconnectedFirst'
  BY <1>1, <1>2, <1>4, <1>6 DEF Tallied, DisconnectedFirst
<1>13. ResetSoon'
  BY <1>1, <1>2, <1>3, <1>4, <1>5, <1>6, <1>8 DEF Tallied, ResetSoon, WithinCall, Reset
<1>14. Stops'
  BY <1>2, <1>3, <1>6 DEF Tallied, Stops
<1> QED
  BY <1>9, <1>10, <1>11, <1>12, <1>13, <1>14 DEF Tallied

\* connectDestroyed finds a connection that another thread shut down after
\* handleClose's assertion.
LEMMA DestroyedTally ==
  ASSUME SocketInv, Tallied, SocketInv', ConnectDestroyed, aborted' # aborted
  PROVE  Tallied'
<1>1. IsAt("connectDestroyed") /\ TypeOK /\ Running /\ aborted = "none"
  BY DEF ConnectDestroyed, IsAt, Running, SocketInv
<1>2. conns[Head(todo).arg] # "closed" /\ aborted' = "connectDestroyed"
  BY DEF ConnectDestroyed, Abort
<1>3. UNCHANGED <<connect_, state_, channel_, timerId_, timers, ripe, todo, functors, batch, clientConnect_,
                  connection_, conns, upc, starts, stopped, farStop, disconnected>>
  BY <1>2 DEF ConnectDestroyed, timerVars, runVars, callVars
<1>4. "closing" \in disconnected
  <2>1. /\ Head(todo) \in Calls /\ Head(todo).op = "connectDestroyed"
        /\ Head(todo) \in ToSet(Ahead)
    BY <1>1, AtIs, TodoIs, InAhead DEF TypeOK
  <2>2. Head(todo).arg \in Fds /\ conns[Head(todo).arg] \in Closed
    BY <1>1, <2>1, CallIs DEF SocketInv, OneOwner
  <2> QED
    BY <1>1, <1>2, <2>2 DEF SocketInv, ConnectionStates, Closed
<1>5. Ahead' = Ahead /\ HandedOver' = HandedOver /\ Registered' = Registered /\ Begin' = Begin
      /\ \A op : Has(op)' <=> Has(op)
  BY <1>3 DEF Ahead, HandedOver, Registered, Begin, Has
<1>6. AtMostOneAttempt' /\ NothingBeforeConnect' /\ Stops' /\ AssertionsHold'
  BY <1>2, <1>3, <1>4, <1>5
     DEF Tallied, AtMostOneAttempt, Total, NothingBeforeConnect, Stops, AssertionsHold
<1>7. SomethingUnderWay' /\ DisconnectedFirst' /\ ResetSoon'
  BY <1>2 DEF SomethingUnderWay, DisconnectedFirst, ResetSoon, Running
<1> QED
  BY <1>6, <1>7 DEF Tallied

LEMMA NewConnectionTally ==
  ASSUME SocketInv, Tallied, SocketInv', NewConnection
  PROVE  Tallied'
<1> DEFINE t == <<Do("connectEstablished", Head(todo).arg)>>
<1>1. PICK op \in {"newConnection"} : IsAt(op)
  BY DEF NewConnection
<1>2. /\ Continue(t) /\ UNCHANGED runVars
      /\ UNCHANGED <<connect_, state_, channel_, timerId_, timers, ripe, gaveUp, aborted>>
      /\ UNCHANGED <<clientConnect_, hup, upc, starts, stopped, farStop, disconnected>>
      /\ connection_' = Head(todo).arg
  BY DEF NewConnection, timerVars, callVars
<1>3. TypeOK /\ TypeOK' /\ Has(op) /\ Running /\ Begin \in Nat
  BY <1>1, AtIs, TodoIs, InAhead, BeginIs DEF SocketInv, TypeOK, Has, IsAt, Begin
<1>4. /\ WithinCall(op, t, <<>>) /\ ToSet(<<>>) = {} /\ BeginningCalls(<<>>) = 0
      /\ UNCHANGED <<phase, functors, batch>>
      /\ todo' = t /\ HandsOver(t) = {} /\ BeginningCalls(t) = 0
      /\ \A c \in ToSet(t) : c.op = "connectEstablished"
  <2> DEFINE c == Do("connectEstablished", Head(todo).arg)
  <2>1. Head(todo).arg \in Fds
    BY <1>1, <1>3, AtIs, CallIs
  <2>2. /\ t \in AtMostOne /\ ToSet(t) = {c} /\ c.op = "connectEstablished" /\ HandsOver(t) = {}
        /\ c \in Calls /\ t = <<c>>
    BY <2>1, OneCall, AreCalls DEF ConnectionOps
  <2> HIDE DEF t, c
  <2>3. BeginningCalls(t) = 0
    BY <2>2, OneCalls DEF Beginning
  <2>4. todo' = t
    BY <1>1, <1>2, <1>3, <2>2, Follows
  <2> QED
    BY <1>1, <1>2, <1>3, <2>2, <2>3, <2>4, WithinCallEnds
<1> HIDE DEF t
<1>5. Begin' = Begin /\ starts # 0 /\ \A o : Has(o)' => Has(o) \/ o = "connectEstablished"
  BY <1>3, <1>4 DEF WithinCall, Beginning, Has
<1>6. HandedOver' = {} /\ HandedOver # {} /\ connection_' \in Fds /\ connection_' # None
  <2>1. HandedOver' = HandsOver(todo')
    BY DEF HandedOver, HandsOver
  <2> QED
    BY <1>1, <1>2, <1>3, <1>4, <2>1, HandedOverIs, AtIs, CallIs, ConnectorAssumption DEF IsAt
<1>7. connection_ = None /\ hup = {}
  <2>1. connection_ = None /\ hup \subseteq {None} /\ hup \subseteq Fds
    BY <1>3, <1>6 DEF SocketInv, ConnectionIsThe, TypeOK
  <2> QED
    BY <2>1, ConnectorAssumption
<1>8. Registered' = Registered
  BY <1>2 DEF Registered
<1>9. AtMostOneAttempt' /\ SomethingUnderWay'
  BY <1>2, <1>3, <1>5, <1>6, <1>7, <1>8 DEF Tallied, AtMostOneAttempt, Total, SomethingUnderWay
<1>10. NothingBeforeConnect' /\ AssertionsHold'
  BY <1>2, <1>3, <1>5 DEF NothingBeforeConnect, AssertionsHold, Running
<1>11. DisconnectedFirst'
  BY <1>2, <1>3, <1>5 DEF Tallied, DisconnectedFirst
<1>12. ResetSoon'
  BY <1>1, <1>2, <1>3, <1>4, <1>5, <1>7, <1>8 DEF Tallied, ResetSoon, WithinCall, Reset
<1>13. Stops'
  BY <1>2, <1>5 DEF Tallied, Stops
<1> QED
  BY <1>9, <1>10, <1>11, <1>12, <1>13 DEF Tallied

LEMMA RestartTally ==
  ASSUME SocketInv, Tallied, SocketInv', Restart, UNCHANGED clientVars
  PROVE  Tallied'
<1> DEFINE s == <<Call("startInLoop")>>
<1>1. PICK op \in {"restart"} : IsAt(op)
  BY DEF Restart
<1>2. /\ Continue(s) /\ UNCHANGED runVars /\ state_' = "kDisconnected"
      /\ UNCHANGED <<channel_, timerId_, timers, ripe, gaveUp, aborted>>
      /\ UNCHANGED <<clientConnect_, connection_, hup, upc, starts, stopped, farStop, disconnected>>
  BY DEF Restart, timerVars, clientVars, callVars
<1>3. TypeOK /\ TypeOK' /\ Has("restart") /\ Running
  BY <1>1, AtIs, TodoIs, InAhead DEF SocketInv, TypeOK, Has, IsAt
<1>4. s \in AtMostOne /\ BeginningCalls(s) = 1 /\ (\A c \in ToSet(s) : c.op = "startInLoop") /\ HandsOver(s) = {}
  <2>1. Call("startInLoop") \in Calls /\ Call("startInLoop").op = "startInLoop"
    BY AreCalls
  <2>2. ToSet(s) = {Call("startInLoop")} /\ BeginningCalls(s) = 1
    BY <2>1, BeginsOne DEF Beginning
  <2> QED
    BY <2>1, <2>2 DEF AtMostOne, HandsOver
<1> HIDE DEF s
<1>5. /\ WithinCall(op, s, <<>>) /\ ToSet(<<>>) = {} /\ BeginningCalls(<<>>) = 0
      /\ UNCHANGED <<phase, functors, batch>>
  BY <1>1, <1>2, <1>3, <1>4, WithinCallEnds
<1>6. Begin >= 1 /\ Begin \in Nat /\ channel_ = None
  BY <1>3, BeginIs DEF Tallied, DisconnectedFirst
<1>7. Begin = 1 /\ timers = {} /\ ~Registered /\ HandedOver = {} /\ connection_ = None
  BY <1>6 DEF Tallied, AtMostOneAttempt, Total
<1>8. Begin' = 1 /\ starts # 0 /\ \A o : Has(o)' => Has(o) \/ o = "startInLoop"
  BY <1>4, <1>5, <1>7 DEF WithinCall, Beginning, Has
<1>9. HandedOver' = {}
  <2>1. HandsOver(todo') = HandsOver(s)
    BY <1>1, <1>2, <1>3, <1>4, TodoAfter
  <2> QED
    BY <1>4, <2>1 DEF HandsOver, HandedOver
<1>10. AtMostOneAttempt' /\ SomethingUnderWay'
  BY <1>2, <1>7, <1>8, <1>9 DEF AtMostOneAttempt, Total, SomethingUnderWay, Registered
<1>11. NothingBeforeConnect' /\ AssertionsHold'
  BY <1>2, <1>3, <1>8 DEF NothingBeforeConnect, AssertionsHold, Running
<1>12. DisconnectedFirst' /\ ResetSoon'
  BY <1>2, <1>6 DEF DisconnectedFirst, ResetSoon
<1>13. Stops'
  BY <1>2, <1>3, <1>8 DEF Tallied, Stops
<1> QED
  BY <1>10, <1>11, <1>12, <1>13 DEF Tallied

LEMMA RemovesTally ==
  ASSUME SocketInv, Tallied, SocketInv', HandleError \/ HandleWrite, state_ = "kConnecting",
         UNCHANGED clientVars
  PROVE  Tallied'
<1> DEFINE q == <<Reset>>
           c == Do("newConnection", channel_.fd)
<1>1. PICK op \in {"handleError", "handleWrite"} : IsAt(op)
  BY DEF HandleError, HandleWrite
<1>2. TypeOK /\ TypeOK' /\ Has(op) /\ Running /\ Begin \in Nat /\ Registered /\ phase = "events"
  BY <1>1, AtIs, TodoIs, InAhead, BeginIs
     DEF SocketInv, TypeOK, Has, IsAt, Begin, ConnectingRegistered, CallsInPhase
<1>3. c \in Calls /\ c.op = "newConnection" /\ Reset \in Calls /\ Reset.op = "resetChannel"
  BY <1>2, RegisteredIs, AreCalls DEF Reset
<1>4. /\ removeAndResetChannel
      /\ UNCHANGED <<connect_, timerId_, timers, ripe, phase, batch, gaveUp, aborted>>
      /\ UNCHANGED <<clientConnect_, connection_, conns, hup, upc, starts, stopped, farStop, disconnected>>
  BY DEF HandleError, HandleWrite, timerVars, clientVars, callVars
<1>5. \/ Continue(retryCalls) /\ state_' = "kDisconnected"
      \/ Continue(<<c>>) /\ state_' = "kConnected" /\ op = "handleWrite"
  BY <1>1 DEF HandleError, HandleWrite, IsAt
<1> HIDE DEF c
<1>6. /\ <<c>> \in AtMostOne /\ ToSet(<<c>>) = {c} /\ BeginningCalls(<<c>>) = 0
      /\ q \in AtMostOne /\ ToSet(q) = {Reset} /\ BeginningCalls(q) = 0
      /\ functors' = functors \o q
      /\ HandsOver(<<c>>) = {c.arg}
  <2>1. ToSet(<<c>>) = {c}
    BY <1>3, BeginsOne
  <2>2. HandsOver(<<c>>) = {c.arg}
    BY <1>3, <2>1 DEF HandsOver
  <2> QED
    BY <1>3, <1>4, <2>1, <2>2, BeginsOne DEF AtMostOne, Beginning, removeAndResetChannel, Queue, Reset
<1> HIDE DEF q
<1>7. ~Registered' /\ channel_' # None
  <2>1. channel_' = [fd |-> channel_.fd, ch |-> Removed] /\ channel_.fd \in Fds
    BY <1>2, <1>4, RegisteredIs DEF removeAndResetChannel
  <2> QED
    BY <2>1, ChannelIs DEF Registered
<1>8. Begin = 0 /\ timers = {} /\ HandedOver = {} /\ connection_ = None /\ hup = {} /\ ripe = {}
  <2>1. Begin = 0 /\ timers = {} /\ HandedOver = {} /\ connection_ = None
    BY <1>2 DEF Tallied, AtMostOneAttempt, Total
  <2>2. ripe \subseteq timers /\ hup \subseteq Fds /\ hup \subseteq {connection_}
    BY <1>2 DEF SocketInv, TypeOK, ConnectorTypeOK, ConnectionIsThe
  <2> QED
    BY <2>1, <2>2, ConnectorAssumption
<1>9. ~Has("startInLoop") /\ ~Has("restart") /\ ~Has("runAfter")
  BY <1>2, <1>8, BeginIs
<1>10. Reset \in ToSet(functors')
  <2>1. ToSet(functors \o q) = ToSet(functors) \cup ToSet(q)
    BY <1>2, <1>6, AheadIs, ConcatSet, OnceOne
  <2> QED
    BY <1>6, <2>1
<1>11. AssertionsHold' /\ ~Has("removeConnection")
  BY <1>1, <1>2, <1>4, RemovingIs DEF AssertionsHold, Running, IsAt
<1>12. CASE Continue(retryCalls) /\ state_' = "kDisconnected"
  <2>1. WithinCall(op, retryCalls, q)
    BY <1>1, <1>2, <1>4, <1>6, <1>12, RetryCallsAre, WithinCalls
  <2>2. /\ Begin' = IF connect_ THEN 1 ELSE 0
        /\ starts # 0
        /\ \A o : Has(o)' => Has(o) \/ o = "resetChannel" \/ (o = "runAfter" /\ connect_)
    <3>1. connect_ \/ ToSet(retryCalls) = {}
      BY Nothing DEF retryCalls
    <3>2. BeginningCalls(retryCalls) = (IF connect_ THEN 1 ELSE 0) /\ op \notin Beginning
      BY RetryCallsAre DEF Beginning
    <3>3. Begin' = (IF connect_ THEN 1 ELSE 0) /\ starts # 0
      <4>1. /\ starts # 0
            /\ Begin' = Begin + BeginningCalls(retryCalls) + BeginningCalls(q) - 0
        BY <2>1, <3>2 DEF WithinCall
      <4> QED
        BY <1>6, <1>8, <3>2, <4>1
    <3>4. \A x \in ToSet(retryCalls) : x.op = "runAfter" /\ connect_
      BY <3>1, RetryCallsAre
    <3>5. \A x \in ToSet(Ahead') : x \in ToSet(Ahead) \/ x \in ToSet(retryCalls) \/ x = Reset
      BY <1>6, <2>1 DEF WithinCall
    <3>6. ASSUME NEW o, Has(o)' PROVE Has(o) \/ o = "resetChannel" \/ (o = "runAfter" /\ connect_)
      BY <1>3, <3>4, <3>5, <3>6 DEF Has
    <3> QED
      BY <3>3, <3>6
  <2>3. HandedOver' = {}
    <3>1. HandsOver(todo') = HandsOver(retryCalls)
      BY <1>1, <1>2, <1>12, RetryCallsAre, TodoAfter
    <3> QED
      BY <3>1, RetryCallsAre DEF HandsOver, HandedOver
  <2>4. AtMostOneAttempt' /\ SomethingUnderWay'
    BY <1>2, <1>4, <1>7, <1>8, <2>2, <2>3 DEF AtMostOneAttempt, Total, SomethingUnderWay
  <2>5. NothingBeforeConnect'
    BY <1>4, <2>2 DEF NothingBeforeConnect
  <2>6. DisconnectedFirst'
    BY <1>9, <1>12, <2>2 DEF DisconnectedFirst
  <2>7. Stops'
    BY <1>4, <1>9, <2>2 DEF Tallied, Stops
  <2>8. ResetSoon'
    BY <1>2, <1>4, <1>8, <1>10, <1>11, <2>2 DEF ResetSoon, Reset
  <2> QED
    BY <1>11, <2>4, <2>5, <2>6, <2>7, <2>8 DEF Tallied
<1>13. CASE Continue(<<c>>) /\ state_' = "kConnected" /\ op = "handleWrite"
  <2>1. WithinCall(op, <<c>>, q)
    BY <1>1, <1>2, <1>4, <1>6, <1>13, WithinCalls
  <2>2. Begin' = 0 /\ starts # 0
        /\ \A o : Has(o)' => Has(o) \/ o = "resetChannel" \/ o = "newConnection"
    <3>1. Begin' = 0 /\ starts # 0
      <4>1. op \notin Beginning
        BY DEF Beginning
      <4>2. starts # 0 /\ Begin' = Begin + BeginningCalls(<<c>>) + BeginningCalls(q) - 0
        BY <2>1, <4>1 DEF WithinCall
      <4> QED
        BY <1>6, <1>8, <4>2
    <3>2. \A x \in ToSet(Ahead') : x \in ToSet(Ahead) \/ x = c \/ x = Reset
      BY <1>6, <2>1 DEF WithinCall
    <3>3. ASSUME NEW o, Has(o)' PROVE Has(o) \/ o = "resetChannel" \/ o = "newConnection"
      BY <1>3, <3>2, <3>3 DEF Has
    <3> QED
      BY <3>1, <3>3
  <2>3. HandedOver' # {}
    <3>1. HandsOver(todo') = HandsOver(<<c>>)
      BY <1>1, <1>2, <1>6, <1>13, TodoAfter
    <3> QED
      BY <1>6, <3>1 DEF HandsOver, HandedOver
  <2>4. AtMostOneAttempt' /\ SomethingUnderWay'
    BY <1>2, <1>4, <1>7, <1>8, <2>2, <2>3 DEF AtMostOneAttempt, Total, SomethingUnderWay
  <2>5. NothingBeforeConnect'
    BY <1>4, <2>2 DEF NothingBeforeConnect
  <2>6. DisconnectedFirst'
    BY <1>4, <1>8, <1>9, <2>2 DEF DisconnectedFirst
  <2>7. Stops'
    BY <1>4, <1>9, <2>2 DEF Tallied, Stops
  <2>8. ResetSoon'
    BY <1>2, <1>4, <1>8, <1>10, <1>11, <2>2 DEF ResetSoon, Reset
  <2> QED
    BY <1>11, <2>4, <2>5, <2>6, <2>7, <2>8 DEF Tallied
<1> QED
  BY <1>5, <1>12, <1>13

\* Before connect() the client is as it was made.
LEMMA FirstConnect ==
  ASSUME SocketInv, Tallied, MayConnect, MaxStarts <= 1
  PROVE  /\ starts = 0 /\ Ahead = <<>> /\ ToSet(Ahead) = {} /\ Begin = 0 /\ HandedOver = {}
         /\ timers = {} /\ ripe = {} /\ channel_ = None /\ ~Registered
         /\ state_ = "kDisconnected" /\ connection_ = None
         /\ ~farStop /\ upc \notin {"connector", "cancel"} /\ \A op : ~Has(op)
<1>1. TypeOK /\ starts \in Nat /\ MaxStarts \in Nat
  BY TcpClientAssumption DEF SocketInv, TypeOK
<1>2. starts = 0
  BY <1>1 DEF MayConnect
<1>3. /\ Ahead = <<>> /\ timers = {} /\ channel_ = None /\ state_ = "kDisconnected"
      /\ connection_ = None
  BY <1>2 DEF Tallied, NothingBeforeConnect
<1>4. ToSet(Ahead) = {} /\ Begin = 0
  BY <1>3, Nothing DEF Begin
<1>5. HandedOver = {}
  BY <1>1, <1>4, InAhead DEF HandedOver
<1>6. ripe = {} /\ ~Registered
  BY <1>1, <1>3 DEF TypeOK, ConnectorTypeOK, Registered
<1>7. ~farStop /\ upc \notin {"connector", "cancel"}
  BY <1>2 DEF Tallied, Stops
<1> QED
  BY <1>2, <1>3, <1>4, <1>5, <1>6, <1>7 DEF Has

LEMMA ConnectTally ==
  ASSUME SocketInv, Tallied, SocketInv', ConnectInLoop \/ ConnectFromAfar, MaxStarts <= 1
  PROVE  Tallied'
<1> DEFINE s == <<Call("startInLoop")>>
           none == <<>>
<1>1. /\ MayConnect /\ Running /\ aborted' = aborted /\ starts' = starts + 1
      /\ clientConnect_' = TRUE /\ connect_' = TRUE /\ stopped' = FALSE
      /\ UNCHANGED <<state_, channel_, timers, timerId_, ripe, gaveUp, connection_, upc, farStop, batch>>
  BY DEF ConnectInLoop, ConnectFromAfar, InApp, Idle, timerVars, runVars
<1>2. TypeOK /\ TypeOK'
  BY DEF SocketInv
<1>3. s \in AtMostOne /\ BeginningCalls(s) = 1 /\ (\A c \in ToSet(s) : c.op = "startInLoop")
      /\ s \in Seq(Calls) /\ none \in AtMostOne /\ ToSet(none) = {} /\ BeginningCalls(none) = 0
      /\ none \in Seq(Calls)
  <2>1. Call("startInLoop") \in Calls /\ Call("startInLoop").op = "startInLoop"
    BY AreCalls
  <2>2. ToSet(s) = {Call("startInLoop")} /\ BeginningCalls(s) = 1
    BY <2>1, BeginsOne DEF Beginning
  <2> QED
    BY <2>1, <2>2, Nothing DEF AtMostOne
<1>4. \/ todo' = s \o todo /\ functors' = functors \o none
      \/ todo' = none \o todo /\ functors' = functors \o s
  <2>1. CASE ConnectInLoop
    BY <1>2, <1>3, <2>1, AheadIs, NothingAdded DEF ConnectInLoop, InApp, Idle, runVars
  <2>2. CASE ConnectFromAfar
    BY <1>2, <2>2, AheadIs, NothingAdded DEF ConnectFromAfar, Queue
  <2> QED
    BY <2>1, <2>2
<1> HIDE DEF s, none
<1>5. /\ starts = 0 /\ ToSet(Ahead) = {} /\ Begin = 0 /\ timers = {} /\ channel_ = None /\ ~Registered
      /\ state_ = "kDisconnected" /\ connection_ = None /\ ~farStop
      /\ upc \notin {"connector", "cancel"}
  BY <1>1, FirstConnect
<1>6. BeginningCalls(Ahead') = 1 /\ ToSet(Ahead') = ToSet(s) /\ ToSet(todo') \subseteq ToSet(s)
  <2>1. BeginningCalls(Ahead) = 0 /\ ToSet(todo) = {} /\ todo \in Seq(Calls)
    BY <1>2, <1>5, InAhead, AheadIs DEF Begin
  <2>2. CASE todo' = s \o todo /\ functors' = functors \o none
    <3>1. /\ BeginningCalls(Ahead') = BeginningCalls(Ahead) + BeginningCalls(s) + BeginningCalls(none)
          /\ ToSet(Ahead') = ToSet(Ahead) \cup ToSet(s) \cup ToSet(none)
      BY <1>1, <1>2, <1>3, <2>2, Started
    <3>2. ToSet(todo') = ToSet(s) \cup ToSet(todo)
      BY <1>3, <2>1, <2>2, ConcatSet
    <3> QED
      BY <1>3, <1>5, <2>1, <3>1, <3>2
  <2>3. CASE todo' = none \o todo /\ functors' = functors \o s
    <3>1. /\ BeginningCalls(Ahead') = BeginningCalls(Ahead) + BeginningCalls(none) + BeginningCalls(s)
          /\ ToSet(Ahead') = ToSet(Ahead) \cup ToSet(none) \cup ToSet(s)
      BY <1>1, <1>2, <1>3, <2>3, Started
    <3>2. ToSet(todo') = ToSet(none) \cup ToSet(todo)
      BY <1>3, <2>1, <2>3, ConcatSet
    <3> QED
      BY <1>3, <1>5, <2>1, <3>1, <3>2
  <2> QED
    BY <1>4, <2>2, <2>3
<1>7. Begin' = 1 /\ \A o : Has(o)' => o = "startInLoop"
  BY <1>3, <1>6 DEF Begin, Has
<1>8. HandedOver' = {}
  BY <1>3, <1>6 DEF HandedOver
<1>9. AtMostOneAttempt' /\ SomethingUnderWay'
  BY <1>1, <1>5, <1>7, <1>8 DEF AtMostOneAttempt, Total, SomethingUnderWay, Registered
<1>10. NothingBeforeConnect' /\ AssertionsHold' /\ DisconnectedFirst' /\ ResetSoon'
  BY <1>1, <1>5 DEF NothingBeforeConnect, AssertionsHold, Running, DisconnectedFirst, ResetSoon
<1>11. Stops'
  BY <1>1, <1>5, <1>7 DEF Stops
<1> QED
  BY <1>9, <1>10, <1>11 DEF Tallied

\* Between two calls of the loop only functors are ahead.
LEMMA BetweenCalls ==
  ASSUME SocketInv, todo = <<>>
  PROVE  /\ HandedOver = {} /\ ~Has("restart") /\ ~Has("runAfter")
         /\ TypeOK /\ ToSet(todo) = {} /\ Begin \in Nat
         /\ Begin = 0 <=> ~Has("startInLoop")
<1>1. TypeOK /\ ToSet(todo) = {}
  BY Nothing DEF SocketInv
<1>2. ToSet(batch) \subseteq FunctorCalls /\ ToSet(functors) \subseteq FunctorCalls
  BY <1>1 DEF TypeOK, ToSet
<1>3. ToSet(Ahead) \subseteq FunctorCalls
  BY <1>1, <1>2, InAhead
<1>4. ~Has("restart") /\ ~Has("runAfter")
  BY <1>3, FunctorsAre DEF Has
<1> QED
  BY <1>1, <1>4, HandedOverIs, BeginIs

\* A step that changes no call.
LEMMA UntouchedTally ==
  ASSUME SocketInv, Tallied, SocketInv',
         \/ Kernel /\ UNCHANGED clientVars
         \/ (\E id \in TimerSeqs : Ripen(id)) /\ ~SlowCallbacks /\ UNCHANGED clientVars
         \/ StopInLoop \/ StopStoreClient \/ StopStoreConnector \/ DisconnectStore
  PROVE  Tallied'
<1>1. /\ Running /\ aborted' = aborted
      /\ UNCHANGED <<channel_, state_, connection_, conns, hup, starts, disconnected, gaveUp,
                     phase, todo, batch, functors, timerId_>>
      /\ timers' \subseteq timers
      /\ connect_' => connect_
      /\ clientConnect_' => clientConnect_
  <2>1. CASE Kernel /\ UNCHANGED clientVars
    BY <2>1 DEF Kernel, Resolves, ResetsEarly, IsAt, timerVars, runVars, clientVars, callVars
  <2>2. CASE (\E id \in TimerSeqs : Ripen(id)) /\ UNCHANGED clientVars
    BY <2>2 DEF Ripen, runVars, clientVars, callVars
  <2>3. CASE StopInLoop \/ StopStoreClient \/ StopStoreConnector \/ DisconnectStore
    BY <2>3 DEF StopInLoop, StopStoreClient, StopStoreConnector, DisconnectStore, InApp, Idle, runVars, timerVars,
                connectorVars, callVars
  <2> QED
    BY <2>1, <2>2, <2>3
<1>2. \/ UNCHANGED <<timers, ripe>> /\ connect_' = connect_ /\ phase' = phase
      \/ timers' = timers /\ connect_' = connect_ /\ phase = "poll"
      \/ StopInLoop
      \/ UNCHANGED <<timers, ripe>> /\ StopStoreConnector
  BY DEF Kernel, Resolves, ResetsEarly, Ripen, StopStoreClient, StopStoreConnector,
         DisconnectStore, timerVars, runVars, connectorVars
<1>3. Ahead' = Ahead /\ HandedOver' = HandedOver /\ Registered' = Registered /\ Begin' = Begin
      /\ \A op : Has(op)' <=> Has(op)
  BY <1>1 DEF Ahead, HandedOver, Registered, Begin, Has
<1>4. TypeOK /\ Begin \in Nat /\ timers \subseteq {timerId_}
  BY BeginIs DEF SocketInv, Tallied, AtMostOneAttempt
<1>5. AtMostOneAttempt'
  BY <1>1, <1>3, <1>4 DEF Tallied, AtMostOneAttempt, Total
<1>6. SomethingUnderWay'
  <2>1. ASSUME ~StopInLoop, ~StopStoreConnector PROVE SomethingUnderWay'
    BY <1>1, <1>2, <1>3, <2>1 DEF Tallied, SomethingUnderWay
  <2>2. ASSUME StopInLoop \/ StopStoreConnector PROVE SomethingUnderWay'
    BY <2>2 DEF StopInLoop, StopStoreConnector, SomethingUnderWay
  <2> QED
    BY <2>1, <2>2
<1>7. NothingBeforeConnect' /\ AssertionsHold' /\ DisconnectedFirst'
  BY <1>1, <1>3 DEF Tallied, NothingBeforeConnect, AssertionsHold, DisconnectedFirst, Running
<1>8. ResetSoon'
  <2>1. CASE UNCHANGED ripe
    BY <1>1, <1>3, <2>1 DEF Tallied, ResetSoon
  <2>2. CASE phase = "poll"
    BY <1>1, <1>3, <2>2 DEF Tallied, ResetSoon
  <2>3. CASE StopInLoop
    <3>1. ripe' \subseteq ripe
      BY <2>3 DEF StopInLoop
    <3> QED
      BY <1>1, <1>3, <3>1 DEF Tallied, ResetSoon
  <2> QED
    BY <1>2, <2>1, <2>2, <2>3
<1>9. Stops'
  <2>1. CASE StopInLoop
    <3>1. todo = <<>> /\ clientConnect_' = FALSE /\ connect_' = FALSE /\ timers' = timers \ {timerId_}
          /\ UNCHANGED <<upc, farStop>>
      BY <2>1 DEF StopInLoop, InApp, Idle
    <3>2. timers' = {} /\ ~Has("restart") /\ ~Has("runAfter")
      BY <1>4, <3>1, BetweenCalls
    <3> QED
      BY <1>1, <1>3, <3>1, <3>2 DEF Tallied, Stops
  <2>2. CASE StopStoreClient
    <3>1. farStop' = TRUE /\ clientConnect_' = FALSE /\ starts > 0
      BY <2>2 DEF StopStoreClient
    <3> QED
      BY <1>1, <3>1 DEF Stops
  <2>3. CASE StopStoreConnector
    <3>1. farStop /\ UNCHANGED <<farStop, clientConnect_>>
      BY <2>3 DEF StopStoreConnector, Tallied, Stops, callVars
    <3> QED
      BY <1>1, <3>1 DEF Tallied, Stops
  <2>4. CASE /\ Kernel \/ \E id \in TimerSeqs : Ripen(id)
             /\ UNCHANGED clientVars
    <3>1. UNCHANGED <<farStop, upc, clientConnect_, stopped, connect_, timers>>
      BY <2>4 DEF clientVars, callVars, Kernel, Resolves, ResetsEarly, Ripen, timerVars
    <3> QED
      BY <1>1, <1>3, <3>1 DEF Tallied, Stops
  <2>5. CASE DisconnectStore
    <3>1. upc' = "disconnect" /\ clientConnect_' = FALSE
          /\ UNCHANGED <<farStop, stopped, connect_, timers>>
      BY <2>5 DEF DisconnectStore, connectorVars, callVars, timerVars
    <3> QED
      BY <1>1, <1>3, <3>1 DEF Tallied, Stops
  <2> QED
    BY <2>1, <2>2, <2>3, <2>4, <2>5
<1> QED
  BY <1>5, <1>6, <1>7, <1>8, <1>9 DEF Tallied

LEMMA DisconnectTally ==
  ASSUME SocketInv, Tallied, SocketInv', DisconnectInLoop \/ DisconnectLocked
  PROVE  Tallied'
<1>1. /\ ShutsDown /\ upc' \in {upc, "idle"} /\ (clientConnect_' => clientConnect_)
      /\ UNCHANGED <<connect_, state_, channel_, timerId_, timers, ripe, phase,
                     todo, functors, batch, gaveUp, aborted, connection_, hup, starts,
                     stopped, farStop>>
      /\ Running
  BY DEF DisconnectInLoop, DisconnectLocked, InApp, Idle, connectorVars, timerVars, runVars
<1>2. Ahead' = Ahead /\ HandedOver' = HandedOver /\ Registered' = Registered /\ Begin' = Begin
      /\ \A op : Has(op)' <=> Has(op)
  BY <1>1 DEF Ahead, HandedOver, Registered, Begin, Has
<1>3. AtMostOneAttempt' /\ SomethingUnderWay' /\ DisconnectedFirst' /\ ResetSoon'
  BY <1>1, <1>2 DEF Tallied, AtMostOneAttempt, Total, SomethingUnderWay, DisconnectedFirst, ResetSoon
<1>4. NothingBeforeConnect'
  <2>1. ASSUME starts = 0 PROVE conns' = [fd \in Fds |-> "none"]
    <3>1. connection_ = None /\ conns = [fd \in Fds |-> "none"]
      BY <2>1 DEF Tallied, NothingBeforeConnect
    <3>2. /\ \A fd \in Fds : conns'[fd] = "none"
          /\ conns' \in [Fds -> {"none"} \cup Live \cup Closed]
      BY <1>1, <3>1, ShutsDownIs DEF Live
    <3> QED
      BY <3>2
  <2> QED
    BY <1>1, <1>2, <2>1 DEF Tallied, NothingBeforeConnect
<1>5. AssertionsHold' /\ Stops'
  BY <1>1, <1>2 DEF Tallied, AssertionsHold, Stops, Running
<1> QED
  BY <1>3, <1>4, <1>5 DEF Tallied

\* The other thread's last step in stop().
LEMMA CancelTally ==
  ASSUME SocketInv, Tallied, SocketInv', StopCancel
  PROVE  Tallied'
<1> DEFINE c == Do("cancel", timerId_)
           q == <<c>>
           none == <<>>
<1>1. /\ Running /\ upc = "cancel" /\ functors' = functors \o q /\ upc' = "idle" /\ aborted' = aborted
      /\ UNCHANGED <<connect_, state_, channel_, timerId_, timers, ripe, phase, todo, batch, gaveUp,
                     clientConnect_, connection_, conns, hup, starts, farStop, disconnected>>
  BY DEF StopCancel, Queue, timerVars
<1>2. TypeOK /\ TypeOK' /\ farStop /\ ~clientConnect_ /\ starts > 0 /\ starts \in Nat
  BY <1>1 DEF SocketInv, Tallied, Stops, TypeOK
<1>3. c \in Calls /\ c.op = "cancel" /\ q \in AtMostOne /\ ToSet(q) = {c} /\ BeginningCalls(q) = 0
  <2>1. c \in Calls /\ c.op = "cancel"
    BY <1>2, AreCalls DEF TypeOK, ConnectorTypeOK
  <2> QED
    BY <2>1, BeginsOne DEF AtMostOne, Beginning
<1>4. none \in Seq(Calls) /\ ToSet(none) = {} /\ BeginningCalls(none) = 0 /\ todo' = none \o todo
  BY <1>1, <1>2, AheadIs, NothingAdded, Nothing
<1> HIDE DEF c, q, none
<1>5. /\ BeginningCalls(Ahead') = BeginningCalls(Ahead) + BeginningCalls(none) + BeginningCalls(q)
      /\ ToSet(Ahead') = ToSet(Ahead) \cup ToSet(none) \cup ToSet(q)
  BY <1>1, <1>2, <1>3, <1>4, Started
<1>6. BeginningCalls(Ahead') = Begin /\ Begin \in Nat /\ Begin' = Begin
  BY <1>2, <1>3, <1>4, <1>5, BeginIs DEF Begin
<1>7. \A op : Has(op)' => Has(op) \/ op = "cancel"
  BY <1>3, <1>4, <1>5 DEF Has
<1>8. HandedOver' = HandedOver /\ Registered' = Registered
  BY <1>1 DEF HandedOver, Registered
<1>9. AtMostOneAttempt' /\ SomethingUnderWay'
  BY <1>1, <1>2, <1>6, <1>8 DEF Tallied, AtMostOneAttempt, Total, SomethingUnderWay
<1>10. NothingBeforeConnect' /\ AssertionsHold' /\ DisconnectedFirst'
  BY <1>1, <1>2, <1>7 DEF Tallied, NothingBeforeConnect, AssertionsHold, DisconnectedFirst, Running
<1>11. ResetSoon'
  <2>1. ToSet(functors') = ToSet(functors) \cup ToSet(q)
    BY <1>1, <1>2, <1>3, AheadIs, ConcatSet, OnceOne
  <2> QED
    BY <1>1, <1>7, <1>8, <2>1 DEF Tallied, ResetSoon
<1>12. Stops'
  BY <1>1, <1>2, <1>7 DEF Tallied, Stops
<1> QED
  BY <1>9, <1>10, <1>11, <1>12 DEF Tallied

LEMMA FiresTally ==
  ASSUME SocketInv, Tallied, SocketInv', NEW id \in TimerSeqs, TimerFires(id), UNCHANGED clientVars
  PROVE  Tallied'
<1> DEFINE s == <<Call("startInLoop")>>
           none == <<>>
<1>1. /\ Running /\ todo = <<>> /\ phase = "events" /\ id \in ripe /\ timers' = timers \ {id}
      /\ todo' = s
      /\ UNCHANGED <<connect_, state_, channel_, timerId_, phase, functors, batch, gaveUp, aborted,
                     clientConnect_, connection_, conns, hup, upc, starts, stopped, farStop,
                     disconnected>>
  BY DEF TimerFires, Idle, runVars, clientVars, callVars
<1>2. TypeOK /\ TypeOK' /\ Begin \in Nat /\ HandedOver = {}
  BY <1>1, BetweenCalls DEF SocketInv
<1>3. id \in timers /\ timers = {id} /\ timers' = {}
  BY <1>1, <1>2 DEF Tallied, AtMostOneAttempt, TypeOK, ConnectorTypeOK
<1>4. Begin = 0 /\ ~Registered /\ connection_ = None /\ state_ = "kDisconnected"
  BY <1>1, <1>2, <1>3 DEF Tallied, AtMostOneAttempt, Total, DisconnectedFirst
<1>5. channel_ = None
  BY <1>1, <1>4 DEF Tallied, ResetSoon
<1>6. starts # 0
  BY <1>3 DEF Tallied, NothingBeforeConnect
<1>7. /\ s \in AtMostOne /\ BeginningCalls(s) = 1 /\ (\A c \in ToSet(s) : c.op = "startInLoop")
      /\ s \in Seq(Calls) /\ none \in AtMostOne /\ ToSet(none) = {} /\ BeginningCalls(none) = 0
  <2>1. Call("startInLoop") \in Calls /\ Call("startInLoop").op = "startInLoop"
    BY AreCalls
  <2>2. ToSet(s) = {Call("startInLoop")} /\ BeginningCalls(s) = 1
    BY <2>1, BeginsOne DEF Beginning
  <2> QED
    BY <2>1, <2>2, Nothing DEF AtMostOne
<1>8. todo' = s \o todo /\ functors' = functors \o none
  BY <1>1, <1>2, <1>7, AheadIs, NothingAdded
<1> HIDE DEF s, none
<1>9. /\ BeginningCalls(Ahead') = BeginningCalls(Ahead) + BeginningCalls(s) + BeginningCalls(none)
      /\ ToSet(Ahead') = ToSet(Ahead) \cup ToSet(s) \cup ToSet(none)
  BY <1>1, <1>2, <1>7, <1>8, Started
<1>10. BeginningCalls(Ahead') = 1 /\ Begin' = 1
  BY <1>2, <1>4, <1>7, <1>9 DEF Begin
<1>11. \A op : Has(op)' => Has(op) \/ op = "startInLoop"
  BY <1>7, <1>9 DEF Has
<1>12. HandedOver' = {}
  BY <1>1, <1>7 DEF HandedOver
<1>13. AtMostOneAttempt' /\ SomethingUnderWay'
  BY <1>1, <1>3, <1>4, <1>10, <1>12 DEF AtMostOneAttempt, Total, SomethingUnderWay, Registered
<1>14. NothingBeforeConnect' /\ AssertionsHold' /\ DisconnectedFirst' /\ ResetSoon'
  BY <1>1, <1>4, <1>5, <1>6
     DEF NothingBeforeConnect, AssertionsHold, DisconnectedFirst, ResetSoon, Running
<1>15. Stops'
  BY <1>1, <1>3, <1>11 DEF Tallied, Stops
<1> QED
  BY <1>13, <1>14, <1>15 DEF Tallied

LEMMA MachineryTally ==
  ASSUME SocketInv, Tallied, SocketInv', LoopMachinery, UNCHANGED clientVars
  PROVE  Tallied'
<1>1. /\ Running /\ todo = <<>>
      /\ UNCHANGED <<connect_, state_, channel_, timerId_, timers, ripe, gaveUp, aborted,
                     clientConnect_, connection_, conns, hup, upc, starts, stopped, farStop,
                     disconnected>>
  BY DEF LoopMachinery, SwapPending, RunFunctor, FunctorsDone, Idle, timerVars, clientVars, callVars
<1>2. TypeOK /\ CallsInPhase /\ ToSet(todo) = {} /\ HandedOver = {}
  BY <1>1, BetweenCalls DEF SocketInv
<1>3. Ahead' = Ahead /\ Begin' = Begin /\ Registered' = Registered /\ \A op : Has(op)' <=> Has(op)
  BY <1>1, <1>2, Kept DEF Begin, Has, Registered
<1>4. HandedOver' = {}
  <2>1. CASE SwapPending \/ FunctorsDone
    BY <1>1, <1>2, <2>1 DEF SwapPending, FunctorsDone, HandedOver
  <2>2. CASE RunFunctor
    <3> DEFINE c == Head(batch)
    <3>1. c \in FunctorCalls /\ todo' = <<c>>
      BY <1>2, <2>2 DEF RunFunctor, TypeOK
    <3> HIDE DEF c
    <3>2. HandsOver(todo') = {}
      BY <3>1, FunctorsAre
    <3> QED
      BY <3>2 DEF HandedOver, HandsOver
  <2> QED
    BY <2>1, <2>2 DEF LoopMachinery
<1>5. AtMostOneAttempt' /\ SomethingUnderWay'
  BY <1>1, <1>2, <1>3, <1>4 DEF Tallied, AtMostOneAttempt, Total, SomethingUnderWay
<1>6. NothingBeforeConnect' /\ AssertionsHold' /\ DisconnectedFirst' /\ Stops'
  BY <1>1, <1>3 DEF Tallied, NothingBeforeConnect, AssertionsHold, DisconnectedFirst, Stops, Running
<1>7. ResetSoon'
  <2>1. CASE SwapPending
    BY <1>1, <1>3, <2>1 DEF SwapPending, Tallied, ResetSoon
  <2>2. CASE RunFunctor
    <3> DEFINE c == Head(batch)
               h == <<c>>
    <3>1. /\ phase = "functors" /\ todo' = h /\ batch' = Tail(batch) /\ functors' = functors
          /\ phase' = phase
      BY <2>2 DEF RunFunctor
    <3>2. c \in Calls /\ h \in Seq(Calls) /\ Tail(batch) \in Seq(Calls) /\ batch = h \o Tail(batch)
      BY <1>2, <2>2, AheadIs DEF RunFunctor
    <3> HIDE DEF c, h
    <3>3. ToSet(batch) = ToSet(h) \cup ToSet(Tail(batch))
      BY <3>2, ConcatSet
    <3>4. ToSet(todo') \cup ToSet(batch') = ToSet(batch)
      BY <3>1, <3>3
    <3> QED
      BY <1>1, <1>2, <1>3, <3>1, <3>4 DEF Tallied, ResetSoon
  <2>3. CASE FunctorsDone
    <3>1. phase = "functors" /\ batch = <<>>
      BY <2>3 DEF FunctorsDone
    <3>2. ToSet(batch) = {}
      BY <3>1, Nothing
    <3> QED
      BY <1>1, <1>2, <1>3, <3>1, <3>2 DEF Tallied, ResetSoon
  <2> QED
    BY <2>1, <2>2, <2>3 DEF LoopMachinery
<1> QED
  BY <1>5, <1>6, <1>7 DEF Tallied

LEMMA PollTally ==
  ASSUME SocketInv, Tallied, SocketInv', ClientPoll
  PROVE  Tallied'
<1> DEFINE t == Handlers(Reported)
           none == <<>>
<1>1. /\ Running /\ todo = <<>> /\ phase = "poll" /\ todo' = t /\ phase' = "events"
      /\ UNCHANGED <<connect_, state_, channel_, timerId_, timers, ripe, functors, batch, gaveUp,
                     aborted, clientConnect_, connection_, conns, upc, starts, stopped, farStop,
                     disconnected>>
  BY DEF ClientPoll, Poll, Idle, timerVars, callVars
<1>2. TypeOK /\ TypeOK' /\ HandedOver = {} /\ Begin \in Nat
  BY <1>1, BetweenCalls DEF SocketInv
<1>3. /\ t \in Seq(Calls) /\ \A c \in ToSet(t) : c.op \in {"handleError", "handleWrite"}
      /\ t # <<>> => Registered
  BY <1>2, ReportIs
<1> HIDE DEF t
<1>4. /\ none \in AtMostOne /\ ToSet(none) = {} /\ BeginningCalls(none) = 0
      /\ functors' = functors \o none /\ todo' = t \o todo
  BY <1>1, <1>2, <1>3, AheadIs, NothingAdded, Nothing
<1> HIDE DEF none
<1>5. /\ BeginningCalls(Ahead') = BeginningCalls(Ahead) + BeginningCalls(t) + BeginningCalls(none)
      /\ ToSet(Ahead') = ToSet(Ahead) \cup ToSet(t) \cup ToSet(none)
  BY <1>1, <1>2, <1>3, <1>4, Started
<1>6. BeginningCalls(t) = 0
  <2>1. \A i \in DOMAIN t : t[i].op \notin Beginning
    BY <1>3 DEF ToSet, Beginning
  <2> QED
    BY <1>3, <2>1, BeginsFinite
<1>7. BeginningCalls(Ahead') = Begin /\ Begin' = Begin
  BY <1>2, <1>4, <1>5, <1>6 DEF Begin
<1>8. \A op : Has(op)' => Has(op) \/ op \in {"handleError", "handleWrite"}
  BY <1>3, <1>4, <1>5 DEF Has
<1>9. HandedOver' = {} /\ Registered' = Registered
  BY <1>1, <1>3 DEF HandedOver, Registered
<1>10. AtMostOneAttempt' /\ SomethingUnderWay'
  BY <1>1, <1>2, <1>7, <1>9 DEF Tallied, AtMostOneAttempt, Total, SomethingUnderWay
<1>11. NothingBeforeConnect'
  <2>1. ASSUME starts = 0 PROVE Ahead' = <<>>
    <3>1. channel_ = None /\ Ahead = <<>>
      BY <2>1 DEF Tallied, NothingBeforeConnect
    <3>2. t = <<>>
      BY <1>3, <3>1 DEF Registered
    <3>3. todo' = todo
      BY <1>1, <3>2
    <3> QED
      BY <1>1, <3>1, <3>3 DEF Ahead
  <2> QED
    BY <1>1, <2>1 DEF Tallied, NothingBeforeConnect
<1>12. AssertionsHold' /\ DisconnectedFirst' /\ Stops'
  BY <1>1, <1>8 DEF Tallied, AssertionsHold, DisconnectedFirst, Stops, Running
<1>13. ResetSoon'
  BY <1>1, <1>9 DEF Tallied, ResetSoon
<1> QED
  BY <1>10, <1>11, <1>12, <1>13 DEF Tallied

\* handleClose's assertion, for a connection disconnect() shut down or did not.
LEMMA ClosesTally ==
  ASSUME SocketInv, Tallied, SocketInv', NEW fd \in Fds, HandleClose(fd)
  PROVE  Tallied'
<1> DEFINE s == <<Do("removeConnection", fd)>>
           none == <<>>
<1>1. /\ TypeOK /\ TypeOK' /\ Running /\ todo = <<>> /\ phase = "events" /\ fd \in hup
      /\ HandedOver = {} /\ Begin \in Nat /\ Settled /\ ~IsAt("removeConnection")
  BY BetweenCalls, SettledIs DEF SocketInv, HandleClose, Idle
<1>2. /\ connection_ = fd /\ conns[fd] \in {"kConnected", "kDisconnected"} /\ connection_ # None
      /\ conns[fd] = "kDisconnected" => "open" \in disconnected
  <2>1. connection_ = fd /\ connection_ # None /\ conns[fd] \in Live
    BY <1>1, ConnectorAssumption DEF SocketInv, ConnectionIsThe
  <2>2. /\ conns[fd] = "kDisconnected" => "open" \in disconnected
        /\ conns[fd] # "kConnecting"
    BY <1>1, SettledIs DEF SocketInv, ConnectionStates
  <2> QED
    BY <2>1, <2>2 DEF Live
<1>3. UNCHANGED <<connect_, state_, channel_, timerId_, timers, ripe, phase, functors, batch, gaveUp,
                  clientConnect_, connection_, conns, upc, starts, stopped, farStop, disconnected>>
  BY DEF HandleClose, timerVars, runVars, callVars
<1>4. starts # 0
  BY <1>2 DEF Tallied, NothingBeforeConnect
<1>5. Registered' = Registered /\ ~Registered /\ channel_ = None
  <2>1. Registered' = Registered
    BY <1>3 DEF Registered
  <2>2. ~Registered
    BY <1>1, <1>2 DEF Tallied, AtMostOneAttempt, Total
  <2> QED
    BY <1>1, <1>2, <2>1, <2>2 DEF Tallied, ResetSoon
<1>6. CASE conns[fd] # "kConnected"
  <2>1. aborted' = "handleClose" /\ todo' = todo
    BY <1>6 DEF HandleClose, Abort
  <2>2. Ahead' = Ahead /\ HandedOver' = HandedOver /\ Begin' = Begin /\ \A op : Has(op)' <=> Has(op)
    BY <1>3, <2>1 DEF Ahead, HandedOver, Begin, Has
  <2>3. AtMostOneAttempt'
    BY <1>3, <1>5, <2>1, <2>2 DEF Tallied, AtMostOneAttempt, Total
  <2>4. NothingBeforeConnect' /\ AssertionsHold' /\ Stops'
    BY <1>2, <1>3, <1>4, <1>6, <2>1, <2>2 DEF Tallied, NothingBeforeConnect, AssertionsHold, Stops
  <2>5. ~Running'
    BY <2>1 DEF Running
  <2>6. SomethingUnderWay' /\ DisconnectedFirst' /\ ResetSoon'
    BY <2>5 DEF SomethingUnderWay, DisconnectedFirst, ResetSoon
  <2> QED
    BY <2>3, <2>4, <2>6 DEF Tallied
<1>7. CASE conns[fd] = "kConnected"
  <2> DEFINE c == Do("removeConnection", fd)
  <2>1. todo' = s /\ aborted' = aborted
    BY <1>7 DEF HandleClose
  <2>2. /\ s \in AtMostOne /\ ToSet(s) = {c} /\ c.op = "removeConnection" /\ HandsOver(s) = {}
        /\ c \in Calls /\ s = <<c>>
    BY OneCall, AreCalls DEF ConnectionOps
  <2>3. none \in AtMostOne /\ ToSet(none) = {} /\ BeginningCalls(none) = 0
        /\ functors' = functors \o none
    BY <1>1, <1>3, AheadIs, NothingAdded, Nothing
  <2> HIDE DEF s, none, c
  <2>4. BeginningCalls(s) = 0 /\ todo' = s \o todo /\ s \in Seq(Calls)
    BY <1>1, <2>1, <2>2, OneCalls, NothingAdded, OnceOne DEF Beginning
  <2>5. /\ BeginningCalls(Ahead') = BeginningCalls(Ahead) + BeginningCalls(s) + BeginningCalls(none)
        /\ ToSet(Ahead') = ToSet(Ahead) \cup ToSet(s) \cup ToSet(none)
    BY <1>1, <1>3, <2>3, <2>4, Started
  <2>6. BeginningCalls(Ahead') = Begin /\ Begin' = Begin
    BY <1>1, <2>3, <2>4, <2>5 DEF Begin
  <2>7. \A op : Has(op)' => Has(op) \/ op = "removeConnection"
    BY <2>2, <2>3, <2>5 DEF Has
  <2>8. HandedOver' = HandedOver
    BY <1>1, <2>1, <2>2 DEF HandedOver, HandsOver
  <2>9. AtMostOneAttempt' /\ SomethingUnderWay'
    BY <1>3, <1>5, <2>1, <2>6, <2>8 DEF Tallied, AtMostOneAttempt, Total, SomethingUnderWay, Running
  <2>10. NothingBeforeConnect' /\ AssertionsHold' /\ DisconnectedFirst' /\ ResetSoon'
    BY <1>1, <1>3, <1>4, <1>5, <2>1, <2>7
       DEF Tallied, NothingBeforeConnect, AssertionsHold, DisconnectedFirst, ResetSoon, Running
  <2>11. Stops'
    BY <1>3, <2>7 DEF Tallied, Stops
  <2> QED
    BY <2>9, <2>10, <2>11 DEF Tallied
<1> QED
  BY <1>2, <1>6, <1>7

\* The client lets its connection go, and begins anew with retry_.
LEMMA LostTally ==
  ASSUME SocketInv, Tallied, SocketInv', RemoveConnection
  PROVE  Tallied'
<1> DEFINE fd == Head(todo).arg
           d == Do("connectDestroyed", fd)
           q == <<d>>
           come == Reconnects
<1>1. PICK op \in {"removeConnection"} : IsAt(op)
  BY DEF RemoveConnection
<1>2. /\ TypeOK /\ TypeOK' /\ Running /\ Has("removeConnection") /\ HandedOver = {} /\ Begin \in Nat
  BY <1>1, BeginIs, RemovingIs, HandedOverIs DEF SocketInv, IsAt
<1>3. /\ fd \in Fds /\ connection_ = fd /\ connection_ # None /\ phase = "events"
      /\ connection_' = None /\ functors' = functors \o q /\ Continue(come) /\ aborted' = aborted
      /\ UNCHANGED <<connect_, state_, channel_, timerId_, timers, ripe, phase, batch, gaveUp,
                     clientConnect_, hup, upc, starts, stopped, farStop, disconnected>>
  BY RemovesConnection, ConnectorAssumption DEF timerVars
<1>4. /\ come \in AtMostOne /\ HandsOver(come) = {}
      /\ \A c \in ToSet(come) : c.op = "restart"
      /\ BeginningCalls(come) = IF retry_ /\ clientConnect_ THEN 1 ELSE 0
  BY ReconnectsAre
<1>5. (retry_ /\ clientConnect_) \/ ToSet(come) = {}
  BY Nothing DEF Reconnects
<1>6. d \in Calls /\ d.op = "connectDestroyed"
  BY <1>3, AreCalls
<1>7. q \in AtMostOne /\ ToSet(q) = {d} /\ BeginningCalls(q) = 0
  BY <1>6, BeginsOne DEF AtMostOne, Beginning
<1> HIDE DEF d, q, come, fd
<1>8. WithinCall(op, come, q)
  BY <1>1, <1>2, <1>3, <1>4, <1>7, WithinCalls
<1>9. todo' = come
  BY <1>1, <1>2, <1>3, <1>4, Follows
<1>10. Begin = 0 /\ timers = {} /\ ~Registered /\ channel_ = None
  <2>1. Begin = 0 /\ timers = {} /\ ~Registered
    BY <1>2, <1>3 DEF Tallied, AtMostOneAttempt, Total
  <2> QED
    BY <1>2, <1>3, <2>1 DEF Tallied, ResetSoon
<1>11. Begin' = (IF retry_ /\ clientConnect_ THEN 1 ELSE 0) /\ starts # 0
  <2>1. starts # 0 /\ Begin' = Begin + BeginningCalls(come) + BeginningCalls(q) - 0
    BY <1>8 DEF WithinCall, Beginning
  <2> QED
    BY <1>4, <1>7, <1>10, <2>1
<1>12. \A o : Has(o)' => Has(o) \/ (o = "restart" /\ clientConnect_) \/ o = "connectDestroyed"
  <2>1. \A x \in ToSet(Ahead') : x \in ToSet(Ahead) \/ x \in ToSet(come) \/ x = d
    BY <1>7, <1>8 DEF WithinCall
  <2> QED
    BY <1>4, <1>5, <1>6, <2>1 DEF Has
<1>13. ~Has("startInLoop") /\ ~Has("restart") /\ ~Has("runAfter")
  BY <1>2, <1>10, BeginIs
<1>14. HandedOver' = {}
  BY <1>4, <1>9 DEF HandedOver, HandsOver
<1>15. Registered' = Registered
  BY <1>3 DEF Registered
<1>16. AtMostOneAttempt' /\ SomethingUnderWay'
  BY <1>3, <1>10, <1>11, <1>14, <1>15 DEF AtMostOneAttempt, Total, SomethingUnderWay
<1>17. NothingBeforeConnect' /\ AssertionsHold' /\ ResetSoon'
  BY <1>2, <1>3, <1>10, <1>11 DEF NothingBeforeConnect, AssertionsHold, ResetSoon, Running
<1>18. DisconnectedFirst'
  BY <1>3, <1>10, <1>12, <1>13 DEF DisconnectedFirst
<1>19. Stops'
  BY <1>3, <1>10, <1>12, <1>13 DEF Tallied, Stops
<1> QED
  BY <1>16, <1>17, <1>18, <1>19 DEF Tallied

LEMMA StutterTally ==
  ASSUME SocketInv, Tallied, UNCHANGED vars
  PROVE  Tallied'
<1>1. UNCHANGED <<connect_, state_, channel_, timerId_, timers, ripe,
                  phase, todo, functors, batch, gaveUp, aborted>>
      /\ UNCHANGED <<clientConnect_, connection_, conns, hup, upc, starts, stopped, farStop, disconnected>>
  BY DEF vars, connectorVars, clientVars, callVars, timerVars, runVars
<1>2. Ahead' = Ahead /\ HandedOver' = HandedOver /\ Registered' = Registered /\ Begin' = Begin
      /\ (\A op : Has(op)' <=> Has(op)) /\ Running' = Running
  BY <1>1 DEF Ahead, HandedOver, Registered, Begin, Has, Running
<1>3. AtMostOneAttempt' /\ SomethingUnderWay' /\ DisconnectedFirst' /\ ResetSoon'
  BY <1>1, <1>2 DEF Tallied, AtMostOneAttempt, Total, SomethingUnderWay, DisconnectedFirst, ResetSoon
<1>4. NothingBeforeConnect' /\ AssertionsHold' /\ Stops'
  BY <1>1, <1>2 DEF Tallied, NothingBeforeConnect, AssertionsHold, Stops
<1> QED
  BY <1>3, <1>4 DEF Tallied

LEMMA InvInit == Init => IInv
<1> SUFFICES ASSUME Init PROVE IInv
  OBVIOUS
<1>1. SocketInv /\ TypeOK
  BY SocketsInit DEF SocketInv
<1>2. /\ Ahead = <<>> /\ ToSet(Ahead) = {} /\ HandedOver = {} /\ Begin = 0 /\ \A op : ~Has(op)
  BY NothingAhead DEF Init, ConnectorInit, Begin, Has
<1>3. /\ state_ = "kDisconnected" /\ channel_ = None /\ ~Registered /\ timers = {} /\ timerId_ = None
      /\ aborted = "none" /\ ~clientConnect_ /\ connection_ = None
      /\ conns = [fd \in Fds |-> "none"] /\ upc = "idle" /\ ~farStop /\ ~stopped
  BY DEF Init, ConnectorInit, Registered
<1>4. AtMostOneAttempt /\ SomethingUnderWay
  BY <1>2, <1>3 DEF AtMostOneAttempt, Total, SomethingUnderWay
<1>5. NothingBeforeConnect /\ AssertionsHold /\ DisconnectedFirst /\ ResetSoon /\ Stops
  BY <1>2, <1>3 DEF NothingBeforeConnect, AssertionsHold, DisconnectedFirst, ResetSoon, Stops
<1> QED
  BY <1>1, <1>4, <1>5, TallyIs DEF Tallied

LEMMA InvNext ==
  ASSUME MaxStarts <= 1, ~SlowCallbacks
  PROVE  IInv /\ [Next]_vars => IInv'
<1> SUFFICES ASSUME IInv, [Next]_vars PROVE IInv'
  OBVIOUS
<1>1. SocketInv /\ Tallied
  BY TallyIs DEF IInv, SocketInv
<1>2. SocketInv' /\ TypeOK'
  BY <1>1, SocketsNext DEF SocketInv
<1>3. Tallied'
  <2>1. CASE LoopStep
    <3>1. CASE ConnectorStep /\ UNCHANGED clientVars
      <4>1. CASE StartInLoopRefuses \/ ConnectInProgress \/ ConnectFails \/ RunAfter
        BY <1>1, <1>2, <3>1, <4>1, RefusesTally, ConnectingTally, FailsTally, RunAfterTally
      <4>2. CASE ResetChannel \/ CloseConnected \/ CancelTimer \/ Restart
        BY <1>1, <1>2, <3>1, <4>2, EndingsTally, RestartTally
      <4>3. CASE HandleError \/ HandleWrite
        <5>1. CASE state_ = "kConnecting"
          BY <1>1, <1>2, <3>1, <4>3, <5>1, RemovesTally
        <5>2. CASE state_ # "kConnecting"
          <6>1. ~HandleError
            <7>1. ASSUME HandleError PROVE Registered /\ Running
              BY <1>1, <7>1 DEF HandleError, IsAt, SocketInv, ConnectingRegistered
            <7> QED
              BY <1>1, <5>2, <7>1 DEF SocketInv, ConnectingRegistered
          <6> QED
            BY <1>1, <1>2, <3>1, <4>3, <5>2, <6>1, EndingsTally
        <5> QED
          BY <5>1, <5>2
      <4>4. CASE \E id \in TimerSeqs : TimerFires(id)
        BY <1>1, <1>2, <3>1, <4>4, FiresTally
      <4> QED
        BY <3>1, <4>1, <4>2, <4>3, <4>4 DEF ConnectorStep
    <3>2. CASE ClientPoll \/ NewConnection \/ ConnectEstablished \/ ConnectDestroyed
      BY <1>1, <1>2, <3>2, PollTally, NewConnectionTally, EndingsTally, DestroyedTally
    <3>3. CASE LoopMachinery /\ UNCHANGED clientVars
      BY <1>1, <1>2, <3>3, MachineryTally
    <3>4. CASE RemoveConnection \/ \E fd \in Fds : HandleClose(fd)
      BY <1>1, <1>2, <3>4, LostTally, ClosesTally
    <3> QED
      BY <2>1, <3>1, <3>2, <3>3, <3>4 DEF LoopStep
  <2>2. CASE ConnectGivesUp /\ UNCHANGED clientVars
    BY <1>1, <1>2, <2>2, RefusesTally
  <2>3. CASE \/ Kernel /\ UNCHANGED clientVars
             \/ \E id \in TimerSeqs : Ripen(id) /\ UNCHANGED clientVars
             \/ StopInLoop \/ StopStoreClient \/ StopStoreConnector \/ DisconnectStore
    BY <1>1, <1>2, <2>3, UntouchedTally
  <2>4. CASE ConnectInLoop \/ ConnectFromAfar
    BY <1>1, <1>2, <2>4, ConnectTally
  <2>5. CASE StopCancel \/ DisconnectInLoop \/ DisconnectLocked
    BY <1>1, <1>2, <2>5, CancelTally, DisconnectTally
  <2>6. CASE UNCHANGED vars
    BY <1>1, <2>6, StutterTally
  <2> QED
    BY <2>1, <2>2, <2>3, <2>4, <2>5, <2>6 DEF Next, Stop
<1> QED
  BY <1>2, <1>3, TallyIsNext

\* A client whose connect() is called once and whose callbacks take less than a
\* retry delay: the types, the sockets, and at every moment exactly the
\* attempts, timers and connections there should be.
THEOREM InvariantHolds ==
  ASSUME MaxStarts <= 1, ~SlowCallbacks
  PROVE  Spec => []IInv
<1>1. Init => IInv
  BY InvInit
<1>2. IInv /\ [Next]_vars => IInv'
  BY InvNext
<1> QED
  BY <1>1, <1>2, PTL DEF Spec

\* No assertion of startInLoop, connecting, handleError, connectEstablished or
\* removeConnection fails; handleClose's fails only after a disconnect() that shut
\* the connection down before its peer closed it, connectDestroyed's only after
\* one of another thread between handleClose's assertion and removeConnection's
\* lock.
THEOREM AssertionsHoldHolds ==
  ASSUME MaxStarts <= 1, ~SlowCallbacks
  PROVE  Spec => []AssertionsHold
<1>1. IInv => AssertionsHold
  BY DEF IInv
<1> QED
  BY <1>1, InvariantHolds, PTL

\* After stop() of the loop's thread the connector stays told not to connect,
\* and its retry timer is taken back, whichever retry set it.
THEOREM StopIsFinalHolds ==
  ASSUME MaxStarts <= 1, ~SlowCallbacks
  PROVE  Spec => []StopIsFinal
<1>1. IInv => StopIsFinal
  BY DEF IInv
<1> QED
  BY <1>1, InvariantHolds, PTL

\* Never two attempts at a time, nor one beside a connection; and a client that
\* is to be connected never without any.
THEOREM OneAttemptHolds ==
  ASSUME MaxStarts <= 1, ~SlowCallbacks
  PROVE  Spec => [](OneAttempt /\ NeverStranded)
<1>1. IInv => OneAttempt /\ NeverStranded
  BY DEF IInv
<1> QED
  BY <1>1, InvariantHolds, PTL
=============================================================================
