--------------------------- MODULE TcpServerProofs ---------------------------
(***************************************************************************)
(* The invariant of the server, and what follows from it.                  *)
(*                                                                         *)
(* Lawful, for any loops and any threads of the application: the types, what*)
(* a connection is between two steps (Sound: the epoll set agrees with the *)
(* channel, the stream is in order, EPOLLOUT is asked for while data is    *)
(* buffered), and why each waiting step, call and report is legal.  A      *)
(* handler changes one connection from one sound record to another that    *)
(* keeps every justification (Evolved, Grown), so one lemma, HandlerLawful,*)
(* serves all of them.                                                     *)
(*                                                                         *)
(* Ownership, when only callbacks use the connections: connections_ or the *)
(* connectDestroyed on its way keeps a connection until removeChannel.     *)
(* With other threads it does not hold: send() and shutdown() queue        *)
(* functors bound to a raw this.                                           *)
(*                                                                         *)
(* Orderly, for any threads: the order of a connection's life.  One step   *)
(* of its way from newConnection to connectDestroyed waits anywhere        *)
(* (OneLife); its record agrees with connections_ and with the epoll set   *)
(* (Coherent, Anchored); every waiting step and every report comes at its  *)
(* time (Timely, TimelyReport); and a loop is in one phase of one call     *)
(* (Tidy).  All of it has one exception, late data: what a send left in    *)
(* the buffer after the channel was disabled, which enables writing again. *)
(* A step replaces the first step of one loop's agenda, queues functors on *)
(* one loop and changes one record: Moves and OnceStays are about the      *)
(* agendas, Steady and StaysLate about the record, OneOrderly and          *)
(* AsideOrderly join the two, and the handlers cite these.  An assertion   *)
(* that fails then finds a connection that was shut down, or late data.    *)
(***************************************************************************)
EXTENDS TcpServer, SequenceTheorems, TLAPS

-----------------------------------------------------------------------------
(* Sequences of steps.                                                     *)

\* What a concatenation holds.
LEMMA Joined ==
  ASSUME NEW S, NEW s \in Seq(S), NEW t \in Seq(S)
  PROVE  /\ s \o t \in Seq(S)
         /\ ToSet(s \o t) = ToSet(s) \cup ToSet(t)
<1>1. /\ Len(s) \in Nat /\ Len(t) \in Nat /\ s \o t \in Seq(S)
      /\ DOMAIN s = 1..Len(s) /\ DOMAIN t = 1..Len(t)
      /\ DOMAIN (s \o t) = 1..Len(s) + Len(t)
      /\ \A i \in 1..Len(s) : (s \o t)[i] = s[i]
      /\ \A i \in 1..Len(t) : (s \o t)[Len(s) + i] = t[i]
  OBVIOUS
<1> DEFINE u == s \o t
<1>2. ASSUME NEW x \in ToSet(u) PROVE x \in ToSet(s) \cup ToSet(t)
  <2>1. PICK i \in DOMAIN u : u[i] = x
    BY <1>2 DEF ToSet
  <2>2. CASE i <= Len(s)
    <3>1. i \in DOMAIN s /\ s[i] = x
      BY <1>1, <2>1, <2>2
    <3> QED
      BY <3>1 DEF ToSet
  <2>3. CASE i > Len(s)
    <3>1. i - Len(s) \in 1..Len(t) /\ Len(s) + (i - Len(s)) = i
      BY <1>1, <2>1, <2>3
    <3>2. i - Len(s) \in DOMAIN t /\ t[i - Len(s)] = x
      BY <1>1, <2>1, <3>1
    <3> QED
      BY <3>2 DEF ToSet
  <2> QED
    BY <1>1, <2>1, <2>2, <2>3
<1>3. ASSUME NEW x \in ToSet(s) PROVE x \in ToSet(u)
  <2>1. PICK i \in DOMAIN s : s[i] = x
    BY <1>3 DEF ToSet
  <2>2. i \in DOMAIN u /\ u[i] = x
    BY <1>1, <2>1
  <2> QED
    BY <2>2 DEF ToSet
<1>4. ASSUME NEW x \in ToSet(t) PROVE x \in ToSet(u)
  <2>1. PICK i \in DOMAIN t : t[i] = x
    BY <1>4 DEF ToSet
  <2>2. Len(s) + i \in DOMAIN u /\ u[Len(s) + i] = x
    BY <1>1, <2>1
  <2> QED
    BY <2>2 DEF ToSet
<1> QED
  BY <1>1, <1>2, <1>3, <1>4

\* The first of a sequence and the others.
LEMMA Taken ==
  ASSUME NEW S, NEW s \in Seq(S), s # <<>>
  PROVE  /\ Head(s) \in S /\ Tail(s) \in Seq(S)
         /\ ToSet(s) = {Head(s)} \cup ToSet(Tail(s))
         /\ Len(Tail(s)) = Len(s) - 1 /\ Len(s) \in Nat /\ Len(s) > 0
         /\ DOMAIN s = 1..Len(s) /\ DOMAIN Tail(s) = 1..Len(s) - 1
         /\ Head(s) = s[1]
         /\ \A i \in DOMAIN Tail(s) : Tail(s)[i] = s[i + 1]
<1>1. /\ Head(s) \in S /\ Tail(s) \in Seq(S) /\ Head(s) = s[1]
      /\ Len(Tail(s)) = Len(s) - 1 /\ Len(s) \in Nat /\ Len(s) > 0
      /\ DOMAIN s = 1..Len(s) /\ DOMAIN Tail(s) = 1..Len(s) - 1
      /\ \A i \in 1..Len(s) - 1 : Tail(s)[i] = s[i + 1]
  OBVIOUS
<1> DEFINE t == Tail(s)
<1> HIDE DEF t
<1>2. ASSUME NEW x \in ToSet(s) PROVE x \in {Head(s)} \cup ToSet(t)
  <2>1. PICK i \in DOMAIN s : s[i] = x
    BY <1>2 DEF ToSet
  <2>2. CASE i = 1
    BY <1>1, <2>1, <2>2
  <2>3. CASE i # 1
    <3>1. i - 1 \in 1..Len(s) - 1 /\ (i - 1) + 1 = i
      BY <1>1, <2>1, <2>3
    <3>2. i - 1 \in DOMAIN t /\ t[i - 1] = x
      BY <1>1, <2>1, <3>1 DEF t
    <3> QED
      BY <3>2 DEF ToSet
  <2> QED
    BY <2>2, <2>3
<1>3. ASSUME NEW x \in ToSet(t) PROVE x \in ToSet(s)
  <2>1. PICK i \in DOMAIN t : t[i] = x
    BY <1>3 DEF ToSet
  <2>2. i + 1 \in DOMAIN s /\ s[i + 1] = x
    BY <1>1, <2>1 DEF t
  <2> QED
    BY <2>2 DEF ToSet
<1>4. Head(s) \in ToSet(s)
  <2>1. 1 \in DOMAIN s /\ s[1] = Head(s)
    BY <1>1
  <2> QED
    BY <2>1 DEF ToSet
<1> QED
  BY <1>1, <1>2, <1>3, <1>4 DEF t

\* A sequence of one, and none.
LEMMA Few ==
  ASSUME NEW S, NEW a \in S
  PROVE  /\ <<a>> \in Seq(S) /\ ToSet(<<a>>) = {a}
         /\ <<>> \in Seq(S) /\ ToSet(<<>>) = {}
<1> DEFINE s == <<a>>
<1>1. s \in Seq(S) /\ DOMAIN s = {1} /\ s[1] = a /\ <<>> \in Seq(S) /\ DOMAIN <<>> = {}
  OBVIOUS
<1> HIDE DEF s
<1>2. ToSet(s) = {a} /\ ToSet(<<>>) = {}
  BY <1>1 DEF ToSet
<1> QED
  BY <1>1, <1>2 DEF s

LEMMA OnceJoined ==
  ASSUME NEW S, NEW R, NEW s \in Seq(S), NEW t \in Seq(S),
         OnceIn(s, R), \A x \in ToSet(t) : x \notin R
  PROVE  OnceIn(s \o t, R) /\ OnceIn(t \o s, R)
<1>1. /\ Len(s) \in Nat /\ Len(t) \in Nat
      /\ DOMAIN s = 1..Len(s) /\ DOMAIN t = 1..Len(t)
  OBVIOUS
<1>2. \A i \in DOMAIN t : t[i] \notin R
  BY DEF ToSet
<1>3. OnceIn(s \o t, R)
  <2> DEFINE u == s \o t
  <2>1. /\ DOMAIN u = 1..Len(s) + Len(t)
        /\ \A i \in 1..Len(s) : u[i] = s[i]
        /\ \A i \in 1..Len(t) : u[Len(s) + i] = t[i]
    OBVIOUS
  <2> HIDE DEF u
  <2>2. ASSUME NEW i \in DOMAIN u, u[i] \in R PROVE i \in DOMAIN s /\ u[i] = s[i]
    <3>1. CASE i > Len(s)
      <4>1. i - Len(s) \in 1..Len(t) /\ Len(s) + (i - Len(s)) = i
        BY <1>1, <2>1, <2>2, <3>1
      <4> QED
        BY <1>1, <1>2, <2>1, <2>2, <4>1
    <3> QED
      BY <1>1, <2>1, <2>2, <3>1
  <2> QED
    BY <2>2 DEF OnceIn, u
<1>4. OnceIn(t \o s, R)
  <2> DEFINE u == t \o s
  <2>1. /\ DOMAIN u = 1..Len(t) + Len(s)
        /\ \A i \in 1..Len(t) : u[i] = t[i]
        /\ \A i \in 1..Len(s) : u[Len(t) + i] = s[i]
    OBVIOUS
  <2> HIDE DEF u
  <2>2. ASSUME NEW i \in DOMAIN u, u[i] \in R
        PROVE  i - Len(t) \in DOMAIN s /\ u[i] = s[i - Len(t)]
    <3>1. CASE i \in 1..Len(t)
      BY <1>1, <1>2, <2>1, <2>2, <3>1
    <3>2. CASE i \notin 1..Len(t)
      <4>1. i - Len(t) \in 1..Len(s) /\ Len(t) + (i - Len(t)) = i
        BY <1>1, <2>1, <2>2, <3>2
      <4> QED
        BY <1>1, <2>1, <4>1
    <3> QED
      BY <3>1, <3>2
  <2>3. ASSUME NEW i \in DOMAIN u, NEW j \in DOMAIN u, u[i] \in R, u[j] \in R PROVE i = j
    <3>1. i - Len(t) = j - Len(t)
      BY <2>2, <2>3 DEF OnceIn
    <3> QED
      BY <1>1, <2>1, <3>1
  <2> QED
    BY <2>3 DEF OnceIn, u
<1> QED
  BY <1>3, <1>4

LEMMA OnceTaken ==
  ASSUME NEW S, NEW R, NEW s \in Seq(S), s # <<>>, OnceIn(s, R)
  PROVE  /\ OnceIn(Tail(s), R)
         /\ Head(s) \in R => \A x \in ToSet(Tail(s)) : x \notin R
<1> DEFINE t == Tail(s)
<1>1. /\ Len(s) \in Nat /\ Len(s) > 0 /\ Head(s) = s[1]
      /\ DOMAIN s = 1..Len(s) /\ DOMAIN t = 1..Len(s) - 1
      /\ \A i \in DOMAIN t : t[i] = s[i + 1]
  BY Taken
<1> HIDE DEF t
<1>2. \A i \in DOMAIN t : i + 1 \in DOMAIN s /\ t[i] = s[i + 1] /\ i \in Int /\ i + 1 # 1
  BY <1>1
<1>3. OnceIn(t, R)
  <2>1. ASSUME NEW i \in DOMAIN t, NEW j \in DOMAIN t, t[i] \in R, t[j] \in R PROVE i = j
    <3>1. i + 1 = j + 1
      BY <1>2, <2>1 DEF OnceIn
    <3> QED
      BY <1>2, <3>1
  <2> QED
    BY <2>1 DEF OnceIn
<1>4. ASSUME Head(s) \in R, NEW x \in ToSet(t), x \in R PROVE FALSE
  <2>1. PICK i \in DOMAIN t : t[i] = x
    BY <1>4 DEF ToSet
  <2>2. i + 1 = 1
    BY <1>1, <1>2, <1>4, <2>1 DEF OnceIn
  <2> QED
    BY <1>2, <2>2
<1> QED
  BY <1>3, <1>4 DEF t

Reads == {s \in Step : s.op = "handleRead"}

\* OneRead in these words.
LEMMA OneReadIs ==
  ASSUME NEW s \in Seq(Step)
  PROVE  OneRead(s) <=> OnceIn(s, Reads)
<1>1. \A i \in DOMAIN s : s[i] \in Step
  OBVIOUS
<1> QED
  BY <1>1 DEF OneRead, OnceIn, Reads

-----------------------------------------------------------------------------
(* The calls of a report.                                                  *)

\* handleEvent makes each call at most once, and handleRead and handleClose only
\* for EPOLLIN and EPOLLHUP.
LEMMA CallbacksAre ==
  ASSUME NEW revents \in SUBSET Revents
  PROVE  /\ Callbacks(revents) \in Seq(HandlerNames)
         /\ OnceIn(Callbacks(revents), {"handleRead"})
         /\ "handleRead" \in ToSet(Callbacks(revents)) => "IN" \in revents
         /\ "handleClose" \in ToSet(Callbacks(revents)) => "HUP" \in revents
<1> DEFINE a == IF "HUP" \in revents /\ "IN" \notin revents THEN <<"handleClose">> ELSE <<>>
           b == IF "ERR" \in revents THEN <<"handleError">> ELSE <<>>
           c == IF "IN" \in revents THEN <<"handleRead">> ELSE <<>>
           d == IF "OUT" \in revents THEN <<"handleWrite">> ELSE <<>>
<1>1. Callbacks(revents) = ((a \o b) \o c) \o d
  BY DEF Callbacks, handleEvent
<1>2. a \in Seq(HandlerNames) /\ ToSet(a) = (IF "HUP" \in revents /\ "IN" \notin revents
                                               THEN {"handleClose"} ELSE {})
  BY Few DEF HandlerNames
<1>3. b \in Seq(HandlerNames) /\ ToSet(b) = (IF "ERR" \in revents THEN {"handleError"} ELSE {})
  BY Few DEF HandlerNames
<1>4. c \in Seq(HandlerNames) /\ ToSet(c) = (IF "IN" \in revents THEN {"handleRead"} ELSE {})
  BY Few DEF HandlerNames
<1>5. d \in Seq(HandlerNames) /\ ToSet(d) = (IF "OUT" \in revents THEN {"handleWrite"} ELSE {})
  BY Few DEF HandlerNames
<1>6. OnceIn(c, {"handleRead"})
  <2>1. DOMAIN c \in {{}, {1}}
    OBVIOUS
  <2> HIDE DEF c
  <2> QED
    BY <2>1 DEF OnceIn
<1> HIDE DEF a, b, c, d
<1>7. a \o b \in Seq(HandlerNames) /\ ToSet(a \o b) = ToSet(a) \cup ToSet(b)
  BY <1>2, <1>3, Joined
<1>8. /\ (a \o b) \o c \in Seq(HandlerNames)
      /\ ToSet((a \o b) \o c) = ToSet(a \o b) \cup ToSet(c)
      /\ OnceIn((a \o b) \o c, {"handleRead"})
  <2>1. \A x \in ToSet(a \o b) : x \notin {"handleRead"}
    BY <1>2, <1>3, <1>7
  <2> DEFINE u == a \o b
             R == {"handleRead"}
  <2>2. u \in Seq(HandlerNames) /\ \A x \in ToSet(u) : x \notin R
    BY <1>7, <2>1
  <2>3. OnceIn(c, R)
    BY <1>6
  <2> HIDE DEF u, R
  <2>4. u \o c \in Seq(HandlerNames) /\ ToSet(u \o c) = ToSet(u) \cup ToSet(c)
    BY <1>4, <2>2, Joined
  <2>5. OnceIn(u \o c, R)
    BY <1>4, <2>2, <2>3, OnceJoined
  <2> QED
    BY <2>4, <2>5 DEF u, R
<1>9. /\ ((a \o b) \o c) \o d \in Seq(HandlerNames)
      /\ ToSet(((a \o b) \o c) \o d) = ToSet((a \o b) \o c) \cup ToSet(d)
      /\ OnceIn(((a \o b) \o c) \o d, {"handleRead"})
  <2>1. \A x \in ToSet(d) : x \notin {"handleRead"}
    BY <1>5
  <2> DEFINE u == (a \o b) \o c
             R == {"handleRead"}
  <2>2. u \in Seq(HandlerNames) /\ OnceIn(u, R) /\ \A x \in ToSet(d) : x \notin R
    BY <1>8, <2>1
  <2> HIDE DEF u, R
  <2>3. u \o d \in Seq(HandlerNames) /\ ToSet(u \o d) = ToSet(u) \cup ToSet(d)
    BY <1>5, <2>2, Joined
  <2>4. OnceIn(u \o d, R)
    BY <1>5, <2>2, OnceJoined
  <2> QED
    BY <2>3, <2>4 DEF u, R
<1>10. ToSet(Callbacks(revents)) = ToSet(a) \cup ToSet(b) \cup ToSet(c) \cup ToSet(d)
  BY <1>1, <1>7, <1>8, <1>9
<1>11. "handleRead" \in ToSet(Callbacks(revents)) => "IN" \in revents
  BY <1>2, <1>3, <1>4, <1>5, <1>10
<1>12. "handleClose" \in ToSet(Callbacks(revents)) => "HUP" \in revents
  BY <1>2, <1>3, <1>4, <1>5, <1>10
<1> QED
  BY <1>1, <1>9, <1>11, <1>12

\* The steps of a dispatch.
Handlers(revents, c) ==
  [i \in DOMAIN Callbacks(revents) |-> Do(Callbacks(revents)[i], c)]

LEMMA HandlersAre ==
  ASSUME NEW revents \in SUBSET Revents, NEW c \in Conns
  PROVE  /\ Handlers(revents, c) \in Seq(Step)
         /\ OneRead(Handlers(revents, c))
         /\ \A s \in ToSet(Handlers(revents, c)) :
              /\ s \in Step /\ s.conn = c /\ s.op \in HandlerNames
              /\ s.op = "handleRead" => "IN" \in revents
              /\ s.op = "handleClose" => "HUP" \in revents
<1> DEFINE n == Callbacks(revents)
           h == Handlers(revents, c)
<1>1. /\ n \in Seq(HandlerNames) /\ OnceIn(n, {"handleRead"})
      /\ "handleRead" \in ToSet(n) => "IN" \in revents
      /\ "handleClose" \in ToSet(n) => "HUP" \in revents
  BY CallbacksAre
<1>2. h = [i \in DOMAIN n |-> Do(n[i], c)]
  BY DEF Handlers
<1> HIDE DEF n, h
<1>3. \A x \in HandlerNames : Do(x, c) \in Step /\ Do(x, c).op = x /\ Do(x, c).conn = c
  BY DEF HandlerNames, Step, Do, RawOps
<1>4. Len(n) \in Nat /\ DOMAIN n = 1..Len(n) /\ \A i \in DOMAIN n : n[i] \in HandlerNames
  BY <1>1
<1>5. DOMAIN h = DOMAIN n /\ \A i \in DOMAIN n : h[i] = Do(n[i], c) /\ h[i] \in Step
  BY <1>2, <1>3, <1>4
<1>6. h \in Seq(Step)
  <2>1. h = [i \in 1..Len(n) |-> Do(n[i], c)]
    BY <1>2, <1>4
  <2>2. \A i \in 1..Len(n) : Do(n[i], c) \in Step
    BY <1>3, <1>4
  <2> DEFINE e(i) == Do(n[i], c)
  <2>3. \A i \in 1..Len(n) : e(i) \in Step
    BY <2>2
  <2> HIDE DEF e
  <2>4. [i \in 1..Len(n) |-> e(i)] \in Seq(Step)
    BY <1>4, <2>3
  <2> QED
    BY <2>1, <2>4 DEF e
<1>7. OneRead(h)
  BY <1>1, <1>3, <1>4, <1>5 DEF OneRead, OnceIn
<1>8. ASSUME NEW s \in ToSet(h)
      PROVE  /\ s \in Step /\ s.conn = c /\ s.op \in HandlerNames
             /\ s.op \in ToSet(n)
  <2>1. PICK i \in DOMAIN h : h[i] = s
    BY <1>8 DEF ToSet
  <2>2. i \in DOMAIN n /\ s = Do(n[i], c) /\ n[i] \in HandlerNames
    BY <1>4, <1>5, <2>1
  <2>3. n[i] \in ToSet(n)
    BY <2>2 DEF ToSet
  <2> QED
    BY <1>3, <2>2, <2>3
<1> QED
  BY <1>1, <1>6, <1>7, <1>8 DEF h

-----------------------------------------------------------------------------
(* The stream.                                                             *)

Regroups(s, t, u) == (s \o t) \o u = s \o (t \o u)

LEMMA Associative ==
  ASSUME NEW s \in Seq(Nat), NEW t \in Seq(Nat), NEW u \in Seq(Nat)
  PROVE  Regroups(s, t, u)
BY SMTT(60) DEF Regroups

Count(n) == [i \in 1..n |-> i]

\* A message continues the stream, and is what is left of it behind any cut.
LEMMA MessageIs ==
  ASSUME NEW k \in ConnType
  PROVE  /\ NextUnits(k) \in Seq(Nat) /\ Len(NextUnits(k)) = MsgLen
         /\ MsgLen \in Nat /\ MsgLen > 0 /\ k.sent \in Nat
         /\ Count(k.sent) \o NextUnits(k) = Count(k.sent + MsgLen)
         /\ \A n \in 0..MsgLen :
              /\ SubSeq(NextUnits(k), 1, n) \in Seq(Nat)
              /\ SubSeq(NextUnits(k), n + 1, MsgLen) \in Seq(Nat)
              /\ SubSeq(NextUnits(k), 1, n) \o SubSeq(NextUnits(k), n + 1, MsgLen)
                   = NextUnits(k)
              /\ SubSeq(NextUnits(k), n + 1, MsgLen) = <<>> <=> n = MsgLen
         /\ SubSeq(NextUnits(k), 1, 0) = <<>>
<1> DEFINE u == NextUnits(k)
           m == k.sent
<1>1. m \in Nat /\ MsgLen \in Nat /\ MsgLen > 0
  BY TcpConnectionAssumption DEF ConnType
<1>2. u = [i \in 1..MsgLen |-> m + i]
  BY DEF NextUnits
<1> HIDE DEF u, m
<1>3. u \in Seq(Nat) /\ Len(u) = MsgLen
  BY <1>1, <1>2
<1>4. Count(m) \o u = Count(m + MsgLen)
  <2> DEFINE c == Count(m)
             v == c \o u
             w == Count(m + MsgLen)
  <2>1. c \in Seq(Nat) /\ Len(c) = m /\ \A i \in 1..m : c[i] = i
    BY <1>1 DEF Count
  <2>2. w \in Seq(Nat) /\ Len(w) = m + MsgLen /\ \A i \in 1..m + MsgLen : w[i] = i
    BY <1>1 DEF Count
  <2> HIDE DEF c, w
  <2>3. /\ v \in Seq(Nat) /\ Len(v) = m + MsgLen
        /\ \A i \in 1..m + MsgLen : v[i] = IF i <= m THEN c[i] ELSE u[i - m]
    BY <1>1, <1>3, <2>1, ConcatProperties
  <2> HIDE DEF v
  <2>4. \A i \in 1..m + MsgLen : v[i] = i
    <3>1. ASSUME NEW i \in 1..m + MsgLen PROVE v[i] = i
      <4>1. CASE i <= m
        BY <1>1, <2>1, <2>3, <4>1
      <4>2. CASE i > m
        <5>1. i - m \in 1..MsgLen /\ m + (i - m) = i
          BY <1>1, <4>2
        <5>2. u[i - m] = m + (i - m)
          BY <1>2, <5>1
        <5> QED
          BY <1>1, <2>3, <4>2, <5>1, <5>2
      <4> QED
        BY <1>1, <4>1, <4>2
    <3> QED
      BY <3>1
  <2>5. v = w
    BY <2>2, <2>3, <2>4
  <2> QED
    BY <2>5 DEF v, w, c
<1>5. ASSUME NEW n \in 0..MsgLen
      PROVE  /\ SubSeq(u, 1, n) \in Seq(Nat) /\ SubSeq(u, n + 1, MsgLen) \in Seq(Nat)
             /\ SubSeq(u, 1, n) \o SubSeq(u, n + 1, MsgLen) = u
             /\ SubSeq(u, n + 1, MsgLen) = <<>> <=> n = MsgLen
  <2>1. n \in Nat /\ n <= MsgLen /\ n \in 1 - 1 .. Len(u) /\ MsgLen \in n .. Len(u)
        /\ 1 \in 1 .. Len(u) + 1 /\ n + 1 \in Int
    BY <1>1, <1>3
  <2>2. SubSeq(u, 1, n) \o SubSeq(u, n + 1, MsgLen) = SubSeq(u, 1, MsgLen)
    BY <1>3, <2>1, ConcatAdjacentSubSeq
  <2>3. SubSeq(u, 1, MsgLen) = u
    BY <1>3, SubSeqFull
  <2>4. \A i \in 1..MsgLen : u[i] \in Nat
    BY <1>3
  <2>5. /\ SubSeq(u, n + 1, MsgLen) \in Seq(Nat)
        /\ Len(SubSeq(u, n + 1, MsgLen)) = IF n + 1 <= MsgLen THEN MsgLen - (n + 1) + 1 ELSE 0
    <3>1. \A i \in n + 1 .. MsgLen : u[i] \in Nat
      BY <1>1, <2>1, <2>4
    <3> QED
      BY <1>1, <2>1, <3>1, SubSeqProperties
  <2>6. SubSeq(u, 1, n) \in Seq(Nat)
    <3>1. \A i \in 1 .. n : u[i] \in Nat
      BY <1>1, <2>1, <2>4
    <3> QED
      BY <1>1, <2>1, <3>1, SubSeqProperties
  <2>7. SubSeq(u, n + 1, MsgLen) = <<>> <=> Len(SubSeq(u, n + 1, MsgLen)) = 0
    <3> DEFINE r == SubSeq(u, n + 1, MsgLen)
    <3>1. r \in Seq(Nat)
      BY <2>5
    <3> HIDE DEF r
    <3>2. r = <<>> <=> Len(r) = 0
      BY <3>1
    <3> QED
      BY <3>2 DEF r
  <2>8. Len(SubSeq(u, n + 1, MsgLen)) = 0 <=> n = MsgLen
    BY <1>1, <2>1, <2>5
  <2> QED
    BY <2>2, <2>3, <2>5, <2>6, <2>7, <2>8
<1>6. SubSeq(u, 1, 0) = <<>>
  BY SubSeqEmpty
<1> QED
  BY <1>1, <1>3, <1>4, <1>5, <1>6 DEF u, m

\* ::write takes no more than it is given, nor than the send buffer has room for.
LEMMA WriteResultIs ==
  ASSUME NEW k \in ConnType, NEW n \in Nat
  PROVE  /\ WriteResult(k, n) \in 0..n
         /\ k.room - WriteResult(k, n) \in 0..SndBuf
<1>1. k.room \in 0..SndBuf /\ SndBuf \in Nat
  BY TcpConnectionAssumption DEF ConnType
<1> QED
  BY <1>1 DEF WriteResult

-----------------------------------------------------------------------------
(* The channel.                                                            *)

LEMMA UpdateIs ==
  ASSUME NEW ch \in ChannelType, ~ch.fatal, ch.registered <=> ch.index = "kAdded"
  PROVE  /\ updateChannel(ch) \in ChannelType /\ EpollAgrees(updateChannel(ch))
         /\ updateChannel(ch).events = ch.events
<1>1. CASE ch.index = "kNew"
  <2>1. updateChannel(ch) = [ch EXCEPT !.index = "kAdded", !.registered = TRUE,
                                       !.interest = ch.events]
    BY <1>1 DEF updateChannel, update, ChannelType
  <2> QED
    BY <2>1 DEF ChannelType, EpollAgrees
<1>2. CASE ch.index # "kNew"
  <2>1. ch.registered /\ ch.index = "kAdded"
    BY <1>2 DEF ChannelType
  <2>2. CASE ch.events = {}
    <3>1. updateChannel(ch) = [ch EXCEPT !.registered = FALSE, !.interest = {}, !.index = "kNew"]
      BY <1>2, <2>2 DEF updateChannel, update, ChannelType
    <3> QED
      BY <2>2, <3>1 DEF ChannelType, EpollAgrees
  <2>3. CASE ch.events # {}
    <3>1. updateChannel(ch) = [ch EXCEPT !.interest = ch.events]
      BY <1>2, <2>1, <2>3 DEF updateChannel, update, ChannelType
    <3> QED
      BY <2>1, <3>1 DEF ChannelType, EpollAgrees
  <2> QED
    BY <2>2, <2>3
<1> QED
  BY <1>1, <1>2

\* What the operations of a Channel do to events_; the epoll set follows.
LEMMA ChannelIs ==
  ASSUME NEW ch \in ChannelType, EpollAgrees(ch)
  PROVE  /\ enableReading(ch) \in ChannelType /\ EpollAgrees(enableReading(ch))
         /\ enableReading(ch).events = ch.events \cup {"read"}
         /\ enableWriting(ch) \in ChannelType /\ EpollAgrees(enableWriting(ch))
         /\ enableWriting(ch).events = ch.events \cup {"write"}
         /\ disableWriting(ch) \in ChannelType /\ EpollAgrees(disableWriting(ch))
         /\ disableWriting(ch).events = ch.events \ {"write"}
         /\ disableAll(ch) \in ChannelType /\ EpollAgrees(disableAll(ch))
         /\ disableAll(ch).events = {}
         /\ removeChannelAsserts(ch) =>
              /\ removeChannel(ch) \in ChannelType /\ EpollAgrees(removeChannel(ch))
              /\ removeChannel(ch).events = ch.events /\ ~removeChannel(ch).registered
<1>1. ASSUME NEW e \in SUBSET Interests
      PROVE  /\ updateChannel([ch EXCEPT !.events = e]) \in ChannelType
             /\ EpollAgrees(updateChannel([ch EXCEPT !.events = e]))
             /\ updateChannel([ch EXCEPT !.events = e]).events = e
  <2> DEFINE d == [ch EXCEPT !.events = e]
  <2>1. d \in ChannelType /\ ~d.fatal /\ (d.registered <=> d.index = "kAdded") /\ d.events = e
    BY DEF ChannelType, EpollAgrees
  <2> HIDE DEF d
  <2>2. updateChannel(d) \in ChannelType /\ EpollAgrees(updateChannel(d))
        /\ updateChannel(d).events = d.events
    BY <2>1, UpdateIs
  <2> QED
    BY <2>1, <2>2 DEF d
<1>2. /\ ch.events \cup {"read"} \in SUBSET Interests
      /\ ch.events \cup {"write"} \in SUBSET Interests
      /\ ch.events \ {"write"} \in SUBSET Interests
      /\ {} \in SUBSET Interests
  BY DEF ChannelType, Interests
<1>3. removeChannelAsserts(ch) =>
        /\ removeChannel(ch) \in ChannelType /\ EpollAgrees(removeChannel(ch))
        /\ removeChannel(ch).events = ch.events /\ ~removeChannel(ch).registered
  BY DEF removeChannel, update, ChannelType, EpollAgrees
<1>4. /\ enableReading(ch) \in ChannelType /\ EpollAgrees(enableReading(ch))
      /\ enableReading(ch).events = ch.events \cup {"read"}
  BY <1>1, <1>2 DEF enableReading
<1>5. /\ enableWriting(ch) \in ChannelType /\ EpollAgrees(enableWriting(ch))
      /\ enableWriting(ch).events = ch.events \cup {"write"}
  BY <1>1, <1>2 DEF enableWriting
<1>6. /\ disableWriting(ch) \in ChannelType /\ EpollAgrees(disableWriting(ch))
      /\ disableWriting(ch).events = ch.events \ {"write"}
  BY <1>1, <1>2 DEF disableWriting
<1>7. /\ disableAll(ch) \in ChannelType /\ EpollAgrees(disableAll(ch))
      /\ disableAll(ch).events = {}
  BY <1>1, <1>2 DEF disableAll
<1> QED
  BY <1>3, <1>4, <1>5, <1>6, <1>7

-----------------------------------------------------------------------------
(* One connection.                                                         *)

\* What no step takes back; only handleRead takes the data that waits.
Grown(k, k2) ==
  /\ k.made => k2.made /\ k2.loop = k.loop
  /\ k.state # "kConnecting" => k2.state # "kConnecting"
  /\ k.peer # "open" => k2.peer # "open"
Evolved(k, k2) == Grown(k, k2) /\ (k.unread > 0 => k2.unread > 0)

\* A step that touches nothing but the channel and the state keeps the stream.
LEMMA InOrderKept ==
  ASSUME NEW k, NEW k2, InOrder(k), k2.written = k.written,
         k2.outputBuffer = k.outputBuffer, k2.sent = k.sent
  PROVE  InOrder(k2)
BY DEF InOrder

Established(k) == [k EXCEPT !.state = "kConnected", !.channel = enableReading(@)]

LEMMA EstablishedIs ==
  ASSUME NEW k \in ConnType, Sound(k), k.state = "kConnecting", k.made
  PROVE  /\ Established(k) \in ConnType /\ Sound(Established(k))
         /\ Evolved(k, Established(k)) /\ Established(k).state # "kConnecting"
<1> DEFINE k2 == Established(k)
<1>1. k.channel \in ChannelType /\ EpollAgrees(k.channel) /\ k.channel = NewChannel
      /\ k.outputBuffer = <<>>
  BY DEF ConnType, Sound
<1>2. /\ enableReading(k.channel) \in ChannelType /\ EpollAgrees(enableReading(k.channel))
      /\ enableReading(k.channel).events = {"read"}
  BY <1>1, ChannelIs DEF NewChannel
<1>3. /\ k2 \in ConnType
      /\ k2 = [k EXCEPT !.state = "kConnected", !.channel = enableReading(k.channel)]
  BY <1>2 DEF Established, ConnType
<1>4. /\ k2.channel = enableReading(k.channel) /\ k2.state = "kConnected"
      /\ k2.outputBuffer = k.outputBuffer /\ k2.written = k.written /\ k2.sent = k.sent
      /\ k2.made = k.made /\ k2.loop = k.loop /\ k2.peer = k.peer /\ k2.err = k.err
      /\ k2.unread = k.unread
  BY <1>3 DEF ConnType
<1> HIDE DEF k2
<1>5. InOrder(k2)
  BY <1>4, InOrderKept DEF Sound
<1>6. BufferWaitedFor(k2)
  BY <1>1, <1>2, <1>4 DEF BufferWaitedFor, isWriting
<1>7. Sound(k2)
  BY <1>2, <1>4, <1>5, <1>6 DEF Sound
<1> QED
  BY <1>3, <1>4, <1>7 DEF Evolved, Grown, k2

\* handleClose and, with the state and the history, connectDestroyed.
Closed(k) == [k EXCEPT !.channel = disableAll(@)]
Ended(k) == [k EXCEPT !.state = "kDisconnected", !.channel = disableAll(@), !.downs = @ + 1]

LEMMA ClosedIs ==
  ASSUME NEW k \in ConnType, Sound(k), k.state # "kConnecting", k.peer # "open"
  PROVE  /\ Closed(k) \in ConnType /\ Sound(Closed(k)) /\ Evolved(k, Closed(k))
         /\ Ended(k) \in ConnType /\ Sound(Ended(k)) /\ Evolved(k, Ended(k))
         /\ Ended(k).state = "kDisconnected" /\ Ended(k).channel.events = {}
         /\ Ended(k).loop = k.loop /\ Ended(k).made /\ k.made
         /\ Ended(k).shutWr = k.shutWr /\ Closed(k).shutWr = k.shutWr
<1>1. k.channel \in ChannelType /\ EpollAgrees(k.channel) /\ k.made
  BY DEF ConnType, Sound
<1>2. /\ disableAll(k.channel) \in ChannelType /\ EpollAgrees(disableAll(k.channel))
      /\ disableAll(k.channel).events = {}
  BY <1>1, ChannelIs
<1>3. ASSUME NEW k2 \in ConnType,
             k2.channel = disableAll(k.channel), k2.state # "kConnecting",
             k2.outputBuffer = k.outputBuffer, k2.written = k.written, k2.sent = k.sent,
             k2.made = k.made, k2.loop = k.loop, k2.peer = k.peer, k2.err = k.err,
             k2.unread = k.unread
      PROVE  Sound(k2) /\ Evolved(k, k2)
  <2>1. InOrder(k2)
    BY <1>3, InOrderKept DEF Sound
  <2>2. BufferWaitedFor(k2)
    BY <1>2, <1>3 DEF BufferWaitedFor
  <2>3. Sound(k2)
    BY <1>1, <1>2, <1>3, <2>1, <2>2 DEF Sound
  <2> QED
    BY <1>3, <2>3 DEF Evolved, Grown
<1>4. Closed(k) \in ConnType /\ Sound(Closed(k)) /\ Evolved(k, Closed(k)) /\ Closed(k).shutWr = k.shutWr
  <2> DEFINE k2 == Closed(k)
  <2>1. k2 \in ConnType /\ k2 = [k EXCEPT !.channel = disableAll(k.channel)]
    BY <1>2 DEF Closed, ConnType
  <2>2. /\ k2.channel = disableAll(k.channel) /\ k2.state = k.state
        /\ k2.outputBuffer = k.outputBuffer /\ k2.written = k.written /\ k2.sent = k.sent
        /\ k2.made = k.made /\ k2.loop = k.loop /\ k2.peer = k.peer /\ k2.err = k.err
        /\ k2.unread = k.unread /\ k2.shutWr = k.shutWr
    BY <2>1 DEF ConnType
  <2> HIDE DEF k2
  <2>3. Sound(k2) /\ Evolved(k, k2)
    BY <1>3, <2>1, <2>2
  <2> QED
    BY <2>1, <2>2, <2>3 DEF k2
<1>5. /\ Ended(k) \in ConnType /\ Sound(Ended(k)) /\ Evolved(k, Ended(k))
      /\ Ended(k).state = "kDisconnected" /\ Ended(k).channel.events = {}
      /\ Ended(k).loop = k.loop /\ Ended(k).made = k.made /\ Ended(k).shutWr = k.shutWr
  <2> DEFINE k2 == Ended(k)
             n == k.downs + 1
  <2>1. /\ k2 \in ConnType
        /\ k2 = [k EXCEPT !.state = "kDisconnected", !.channel = disableAll(k.channel),
                          !.downs = n]
    <3>1. n \in Nat
      BY DEF ConnType
    <3>2. k2 = [k EXCEPT !.state = "kDisconnected", !.channel = disableAll(k.channel),
                         !.downs = n]
      BY DEF Ended
    <3> HIDE DEF k2, n
    <3> QED
      BY <1>2, <3>1, <3>2 DEF ConnType
  <2>2. /\ k2.channel = disableAll(k.channel) /\ k2.state = "kDisconnected"
        /\ k2.outputBuffer = k.outputBuffer /\ k2.written = k.written /\ k2.sent = k.sent
        /\ k2.made = k.made /\ k2.loop = k.loop /\ k2.peer = k.peer /\ k2.err = k.err
        /\ k2.unread = k.unread /\ k2.shutWr = k.shutWr
    BY <2>1 DEF ConnType
  <2> HIDE DEF k2
  <2>3. Sound(k2) /\ Evolved(k, k2)
    BY <1>3, <2>1, <2>2
  <2> QED
    BY <1>2, <2>1, <2>2, <2>3 DEF k2
<1> QED
  BY <1>1, <1>4, <1>5

Removed(k) == [k EXCEPT !.channel = removeChannel(@)]

LEMMA RemovedIs ==
  ASSUME NEW k \in ConnType, Sound(k), removeChannelAsserts(k.channel)
  PROVE  /\ Removed(k) \in ConnType /\ Sound(Removed(k)) /\ Evolved(k, Removed(k))
         /\ Removed(k).channel.events = {} /\ ~Removed(k).channel.registered
         /\ Removed(k).state = k.state /\ Removed(k).loop = k.loop /\ Removed(k).made = k.made
         /\ Removed(k).shutWr = k.shutWr
<1> DEFINE k2 == Removed(k)
<1>1. k.channel \in ChannelType /\ EpollAgrees(k.channel)
  BY DEF ConnType, Sound
<1>2. /\ removeChannel(k.channel) \in ChannelType /\ EpollAgrees(removeChannel(k.channel))
      /\ removeChannel(k.channel).events = {} /\ ~removeChannel(k.channel).registered
      /\ k.channel.index = "kAdded" /\ k.channel.events = {}
  BY <1>1, ChannelIs DEF removeChannelAsserts
<1>3. k2 \in ConnType /\ k2 = [k EXCEPT !.channel = removeChannel(k.channel)]
  BY <1>2 DEF Removed, ConnType
<1>4. /\ k2.channel = removeChannel(k.channel) /\ k2.state = k.state
      /\ k2.outputBuffer = k.outputBuffer /\ k2.written = k.written /\ k2.sent = k.sent
      /\ k2.made = k.made /\ k2.loop = k.loop /\ k2.peer = k.peer /\ k2.err = k.err
      /\ k2.unread = k.unread /\ k2.shutWr = k.shutWr
  BY <1>3 DEF ConnType
<1> HIDE DEF k2
<1>5. InOrder(k2)
  BY <1>4, InOrderKept DEF Sound
<1>6. BufferWaitedFor(k2)
  BY <1>2, <1>4 DEF BufferWaitedFor
<1>7. k.state # "kConnecting" /\ k.peer # "open"
  <2>1. NewChannel.index # "kAdded"
    BY DEF NewChannel
  <2> QED
    BY <1>2, <2>1 DEF Sound
<1>8. Sound(k2)
  BY <1>2, <1>4, <1>5, <1>6, <1>7 DEF Sound
<1> QED
  BY <1>2, <1>3, <1>4, <1>8 DEF Evolved, Grown, k2

\* The other steps of the connection and of its peer leave the channel alone.
ReadOnce(k) == [k EXCEPT !.unread = @ - 1]
ErrorRead(k) == [k EXCEPT !.err = FALSE]
Shut(k) == [k EXCEPT !.state = "kDisconnected"]
DataCame(k) == [k EXCEPT !.unread = 1]
RoomMade(k) == [k EXCEPT !.room = SndBuf]
PeerClosed(k) == [k EXCEPT !.peer = "closed"]
PeerReset(k) == [k EXCEPT !.peer = "reset", !.err = TRUE]

SameChannel(k, k2) ==
  /\ k2.channel = k.channel /\ k2.loop = k.loop /\ k2.made = k.made
  /\ k2.outputBuffer = k.outputBuffer /\ k2.written = k.written /\ k2.sent = k.sent
  /\ k2.shutWr = k.shutWr

LEMMA SoundKept ==
  ASSUME NEW k \in ConnType, NEW k2 \in ConnType, Sound(k), SameChannel(k, k2),
         k2.state = k.state \/ (k2.state # "kConnecting" /\ k.state # "kConnecting"),
         k2.peer = k.peer \/ k2.peer # "open",
         k2.err => k2.peer = "reset"
  PROVE  Sound(k2)
<1>1. InOrder(k2)
  BY InOrderKept DEF Sound, SameChannel
<1>2. BufferWaitedFor(k2)
  BY DEF BufferWaitedFor, Sound, SameChannel
<1> QED
  BY <1>1, <1>2 DEF Sound, SameChannel

LEMMA ReadOnceIs ==
  ASSUME NEW k \in ConnType, Sound(k), k.unread > 0
  PROVE  /\ ReadOnce(k) \in ConnType /\ Sound(ReadOnce(k)) /\ SameChannel(k, ReadOnce(k))
         /\ ReadOnce(k).state = k.state /\ ReadOnce(k).peer = k.peer
<1> DEFINE k2 == ReadOnce(k)
<1>1. k.unread - 1 \in 0..1
  BY DEF ConnType
<1>2. /\ k2 \in ConnType /\ SameChannel(k, k2)
      /\ k2.state = k.state /\ k2.peer = k.peer /\ k2.err = k.err
  <2> DEFINE n == k.unread - 1
  <2>1. k2 = [k EXCEPT !.unread = n] /\ n \in 0..1
    BY <1>1 DEF ReadOnce
  <2> HIDE DEF k2, n
  <2> QED
    BY <2>1 DEF ConnType, SameChannel
<1> HIDE DEF k2
<1>3. Sound(k2)
  BY <1>2, SoundKept DEF Sound
<1> QED
  BY <1>2, <1>3 DEF k2

LEMMA ErrorReadIs ==
  ASSUME NEW k \in ConnType, Sound(k)
  PROVE  /\ ErrorRead(k) \in ConnType /\ Sound(ErrorRead(k)) /\ SameChannel(k, ErrorRead(k))
         /\ Evolved(k, ErrorRead(k)) /\ ErrorRead(k).state = k.state
<1> DEFINE k2 == ErrorRead(k)
<1>1. /\ k2 \in ConnType /\ SameChannel(k, k2)
      /\ k2.state = k.state /\ k2.peer = k.peer /\ ~k2.err /\ k2.unread = k.unread
  BY DEF ErrorRead, ConnType, SameChannel
<1> HIDE DEF k2
<1>2. Sound(k2)
  BY <1>1, SoundKept
<1> QED
  BY <1>1, <1>2 DEF Evolved, Grown, SameChannel, k2

LEMMA ShutIs ==
  ASSUME NEW k \in ConnType, Sound(k), k.state # "kConnecting"
  PROVE  /\ Shut(k) \in ConnType /\ Sound(Shut(k)) /\ SameChannel(k, Shut(k))
         /\ Evolved(k, Shut(k)) /\ Shut(k).state = "kDisconnected" /\ Shut(k).peer = k.peer
<1> DEFINE k2 == Shut(k)
<1>1. /\ k2 \in ConnType /\ SameChannel(k, k2)
      /\ k2.state = "kDisconnected" /\ k2.peer = k.peer /\ k2.err = k.err /\ k2.unread = k.unread
  BY DEF Shut, ConnType, SameChannel
<1> HIDE DEF k2
<1>2. Sound(k2)
  BY <1>1, SoundKept DEF Sound
<1> QED
  BY <1>1, <1>2 DEF Evolved, Grown, SameChannel, k2

LEMMA PeerIs ==
  ASSUME NEW k \in ConnType, Sound(k), NEW k2,
         \/ k2 = DataCame(k)
         \/ k2 = RoomMade(k)
         \/ k2 = PeerClosed(k) /\ k.peer = "open"
         \/ k2 = PeerReset(k)
  PROVE  /\ k2 \in ConnType /\ Sound(k2) /\ SameChannel(k, k2) /\ Evolved(k, k2)
         /\ k2.state = k.state
<1>1. SndBuf \in 0..SndBuf /\ 1 \in 0..1
  BY TcpConnectionAssumption
<1>2. /\ k2 \in ConnType /\ SameChannel(k, k2)
      /\ k2.state = k.state /\ (k2.peer = k.peer \/ k2.peer # "open")
      /\ k2.unread = k.unread \/ k2.unread = 1
      /\ (k2.err = k.err /\ (k2.peer = k.peer \/ k.peer = "open")) \/ k2.peer = "reset"
  <2>1. CASE k2 = DataCame(k)
    BY <1>1, <2>1 DEF DataCame, ConnType, SameChannel
  <2>2. CASE k2 = RoomMade(k)
    BY <1>1, <2>2 DEF RoomMade, ConnType, SameChannel
  <2>3. CASE k2 = PeerClosed(k) /\ k.peer = "open"
    BY <2>3 DEF PeerClosed, ConnType, SameChannel
  <2>4. CASE k2 = PeerReset(k)
    BY <2>4 DEF PeerReset, ConnType, SameChannel
  <2> QED
    BY <2>1, <2>2, <2>3, <2>4
<1>3. k2.err => k2.peer = "reset"
  BY <1>2 DEF Sound
<1>4. Sound(k2)
  BY <1>2, <1>3, SoundKept
<1>5. Evolved(k, k2)
  BY <1>2 DEF Evolved, Grown, SameChannel
<1> QED
  BY <1>2, <1>4, <1>5

\* What a write or a half-close leaves alone.
SameLife(k, k2) ==
  /\ k2.loop = k.loop /\ k2.made = k.made /\ k2.state = k.state /\ k2.peer = k.peer
  /\ k2.downs = k.downs

\* shutdownInLoop half-closes only what is drained, as long as the peer is there.
LEMMA ShutdownInLoopIs ==
  ASSUME NEW k \in ConnType, Sound(k), k.state # "kConnecting"
  PROVE  /\ shutdownInLoop(k) \in ConnType /\ Sound(shutdownInLoop(k))
         /\ Evolved(k, shutdownInLoop(k)) /\ shutdownInLoop(k).state = k.state
         /\ k.peer = "open" /\ ~k.shutWr /\ shutdownInLoop(k).shutWr
              => shutdownInLoop(k).outputBuffer = <<>>
         /\ shutdownInLoop(k).channel = k.channel
         /\ shutdownInLoop(k).outputBuffer = k.outputBuffer
         /\ SameLife(k, shutdownInLoop(k))
<1> DEFINE k2 == shutdownInLoop(k)
<1>1. CASE isWriting(k.channel)
  <2>1. k2 = k
    BY <1>1 DEF shutdownInLoop
  <2> HIDE DEF k2
  <2> QED
    BY <2>1 DEF Evolved, Grown, SameLife, k2
<1>2. CASE ~isWriting(k.channel)
  <2>1. k2 = [k EXCEPT !.shutWr = TRUE]
    BY <1>2 DEF shutdownInLoop
  <2> HIDE DEF k2
  <2>2. /\ k2 \in ConnType
        /\ k2.channel = k.channel /\ k2.loop = k.loop /\ k2.made = k.made
        /\ k2.outputBuffer = k.outputBuffer /\ k2.written = k.written /\ k2.sent = k.sent
        /\ k2.state = k.state /\ k2.peer = k.peer /\ k2.err = k.err /\ k2.unread = k.unread
        /\ k2.downs = k.downs
    BY <2>1 DEF ConnType
  <2>3. InOrder(k2)
    BY <2>2, InOrderKept DEF Sound
  <2>4. BufferWaitedFor(k2)
    BY <2>2 DEF BufferWaitedFor, Sound
  <2>5. Sound(k2)
    BY <2>2, <2>3, <2>4 DEF Sound
  <2>6. k.peer = "open" => k2.outputBuffer = <<>>
    BY <1>2, <2>2 DEF Sound, BufferWaitedFor
  <2> QED
    BY <2>2, <2>5, <2>6 DEF Evolved, Grown, SameLife, k2
<1> QED
  BY <1>1, <1>2

\* sendInLoop adds a message at the end of the stream, and waits for the socket
\* if not all of it was written.
LEMMA SendInLoopIs ==
  ASSUME NEW k \in ConnType, Sound(k), k.state # "kConnecting"
  PROVE  /\ sendInLoop(k) \in ConnType /\ Sound(sendInLoop(k))
         /\ Evolved(k, sendInLoop(k)) /\ sendInLoop(k).state = k.state
         /\ sendInLoop(k).shutWr = k.shutWr
         /\ SameLife(k, sendInLoop(k))
         /\ k.outputBuffer # <<>> => sendInLoop(k).outputBuffer # <<>>
         /\ \/ sendInLoop(k).channel = k.channel
            \/ /\ sendInLoop(k).channel = enableWriting(k.channel)
               /\ sendInLoop(k).outputBuffer # <<>>
<1> DEFINE k2 == sendInLoop(k)
           n == IF WritesDirectly(k) THEN WriteResult(k, MsgLen) ELSE 0
           now == SubSeq(NextUnits(k), 1, n)
           later == SubSeq(NextUnits(k), n + 1, MsgLen)
           ch == IF n < MsgLen /\ ~isWriting(k.channel) THEN enableWriting(k.channel)
                 ELSE k.channel
           r == k.room - n
           m == k.sent + MsgLen
<1>1. k2 = [k EXCEPT !.sent = m, !.written = k.written \o now, !.room = r,
                     !.outputBuffer = k.outputBuffer \o later, !.channel = ch]
  BY DEF sendInLoop
<1>2. n \in 0..MsgLen /\ r \in 0..SndBuf /\ n \in Nat /\ MsgLen \in Nat /\ m \in Nat
  <2>1. MsgLen \in Nat /\ SndBuf \in Nat /\ k.sent \in Nat /\ k.room \in 0..SndBuf
    BY TcpConnectionAssumption DEF ConnType
  <2>2. WriteResult(k, MsgLen) \in 0..MsgLen /\ k.room - WriteResult(k, MsgLen) \in 0..SndBuf
    BY <2>1, WriteResultIs
  <2> QED
    BY <2>1, <2>2
<1>3. /\ now \in Seq(Nat) /\ later \in Seq(Nat) /\ now \o later = NextUnits(k)
      /\ (later = <<>> <=> n = MsgLen) /\ NextUnits(k) \in Seq(Nat)
      /\ Count(k.sent) \o NextUnits(k) = Count(m)
  <2> HIDE DEF n
  <2> QED
    BY <1>2, MessageIs
<1>4. n # 0 => k.outputBuffer = <<>> /\ ~isWriting(k.channel)
  BY DEF WritesDirectly
<1>5. n = 0 => now = <<>> /\ later = NextUnits(k)
  <2>1. ASSUME n = 0 PROVE now = <<>>
    <3> HIDE DEF n
    <3> QED
      BY <2>1, MessageIs
  <2> HIDE DEF now, later, n
  <2>2. <<>> \o later = later
    BY <1>3, ConcatEmptySeq
  <2> QED
    BY <1>3, <2>1, <2>2
<1>6. /\ ch \in ChannelType /\ EpollAgrees(ch) /\ k.channel \in ChannelType
      /\ ch.events = IF n < MsgLen THEN k.channel.events \cup {"write"} ELSE k.channel.events
      /\ ch = k.channel \/ (n < MsgLen /\ ch = enableWriting(k.channel))
  <2>1. k.channel \in ChannelType /\ EpollAgrees(k.channel)
    BY DEF ConnType, Sound
  <2>2. /\ enableWriting(k.channel) \in ChannelType /\ EpollAgrees(enableWriting(k.channel))
        /\ enableWriting(k.channel).events = k.channel.events \cup {"write"}
    BY <2>1, ChannelIs
  <2>3. isWriting(k.channel) => k.channel.events \cup {"write"} = k.channel.events
    BY DEF isWriting
  <2> HIDE DEF n
  <2> QED
    BY <2>1, <2>2, <2>3
<1> HIDE DEF k2, n, now, later, ch, r, m
<1>7. /\ k.written \in Seq(Nat) /\ k.outputBuffer \in Seq(Nat)
      /\ k.written \o now \in Seq(Nat) /\ k.outputBuffer \o later \in Seq(Nat)
  <2>1. k.written \in Seq(Nat) /\ k.outputBuffer \in Seq(Nat)
    BY DEF ConnType
  <2> QED
    BY <1>3, <2>1, ConcatProperties
<1>8. /\ k2 \in ConnType
      /\ k2.channel = ch /\ k2.state = k.state /\ k2.outputBuffer = k.outputBuffer \o later
      /\ k2.written = k.written \o now /\ k2.sent = m /\ k2.made = k.made /\ k2.loop = k.loop
      /\ k2.peer = k.peer /\ k2.err = k.err /\ k2.unread = k.unread /\ k2.shutWr = k.shutWr
      /\ k2.downs = k.downs
  <2> DEFINE w == k.written \o now
             b == k.outputBuffer \o later
  <2>1. w \in Seq(Nat) /\ b \in Seq(Nat)
        /\ k2 = [k EXCEPT !.sent = m, !.written = w, !.room = r, !.outputBuffer = b, !.channel = ch]
    BY <1>1, <1>7
  <2> HIDE DEF w, b
  <2>2. /\ k2 \in ConnType
        /\ k2.channel = ch /\ k2.state = k.state /\ k2.outputBuffer = b
        /\ k2.written = w /\ k2.sent = m /\ k2.made = k.made /\ k2.loop = k.loop
        /\ k2.peer = k.peer /\ k2.err = k.err /\ k2.unread = k.unread /\ k2.shutWr = k.shutWr
        /\ k2.downs = k.downs
    BY <1>2, <1>6, <2>1 DEF ConnType
  <2> QED
    BY <2>2 DEF w, b
<1>9. (k.written \o now) \o (k.outputBuffer \o later)
        = (k.written \o k.outputBuffer) \o NextUnits(k)
  <2>1. CASE n = 0
    <3>1. k.written \o now = k.written /\ later = NextUnits(k)
      BY <1>5, <1>7, <2>1, ConcatEmptySeq
    <3>2. Regroups(k.written, k.outputBuffer, NextUnits(k))
      BY <1>3, <1>7, Associative
    <3> QED
      BY <3>1, <3>2 DEF Regroups
  <2>2. CASE n # 0
    <3>1. k.outputBuffer \o later = later /\ k.written \o k.outputBuffer = k.written
      BY <1>3, <1>4, <1>7, <2>2, ConcatEmptySeq
    <3>2. Regroups(k.written, now, later)
      BY <1>3, <1>7, Associative
    <3> QED
      BY <1>3, <3>1, <3>2 DEF Regroups
  <2> QED
    BY <2>1, <2>2
<1>10. InOrder(k2)
  <2>1. k.written \o k.outputBuffer = Count(k.sent)
    BY DEF Sound, InOrder, Count
  <2>2. k2.written \o k2.outputBuffer = Count(m)
    BY <1>3, <1>8, <1>9, <2>1
  <2> QED
    BY <1>8, <2>2 DEF InOrder, Count
<1>11. k2.outputBuffer # <<>> <=> (n < MsgLen \/ k.outputBuffer # <<>>)
  <2>1. k.outputBuffer \o later = <<>> <=> (k.outputBuffer = <<>> /\ later = <<>>)
    BY <1>3, <1>7, ConcatEqualIffEmpty
  <2>2. n = MsgLen <=> ~(n < MsgLen)
    BY <1>2
  <2> QED
    BY <1>3, <1>8, <2>1, <2>2
<1>12. BufferWaitedFor(k2)
  <2>1. "read" \in ch.events <=> "read" \in k.channel.events
    BY <1>6
  <2>2. "write" \in ch.events <=> (n < MsgLen \/ "write" \in k.channel.events)
    BY <1>6
  <2>3. "read" \in k.channel.events =>
          ("write" \in k.channel.events <=> k.outputBuffer # <<>>)
    BY DEF Sound, BufferWaitedFor, isWriting
  <2> QED
    BY <1>8, <1>11, <2>1, <2>2, <2>3 DEF BufferWaitedFor, isWriting
<1>13. Sound(k2)
  <2>1. "read" \in ch.events <=> "read" \in k.channel.events
    BY <1>6
  <2> QED
    BY <1>6, <1>8, <1>10, <1>12, <2>1 DEF Sound
<1> QED
  BY <1>6, <1>8, <1>11, <1>13 DEF Evolved, Grown, SameLife, k2

\* A write from outputBuffer_ that the socket took some of.
WritesSome(k, k2) ==
  /\ isWriting(k.channel) /\ k.peer # "reset" /\ SameLife(k, k2)
  /\ k2.shutWr => k.shutWr \/ k.state = "kDisconnected"
  /\ \/ k2.channel = k.channel /\ k2.outputBuffer # <<>>
     \/ k2.channel = disableWriting(k.channel) /\ k2.outputBuffer = <<>>

\* handleWrite moves the beginning of outputBuffer_ to the socket and, once it is
\* drained, does the half-close that was put off.
LEMMA HandleWriteIs ==
  ASSUME NEW k \in ConnType, Sound(k)
  PROVE  /\ handleWrite(k) \in ConnType /\ Sound(handleWrite(k))
         /\ Evolved(k, handleWrite(k)) /\ handleWrite(k).state = k.state
         /\ k.peer = "open" /\ ~k.shutWr /\ handleWrite(k).shutWr
              => handleWrite(k).outputBuffer = <<>>
         /\ handleWrite(k) = k \/ WritesSome(k, handleWrite(k))
<1> DEFINE b == k.outputBuffer
           n == WriteResult(k, Len(b))
           now == SubSeq(b, 1, n)
           later == SubSeq(b, n + 1, Len(b))
           w == [k EXCEPT !.written = @ \o now, !.outputBuffer = later, !.room = @ - n]
           d == [w EXCEPT !.channel = disableWriting(@)]
<1>1. \/ handleWrite(k) = k
      \/ /\ n # 0 /\ isWriting(k.channel)
         /\ \/ later # <<>> /\ handleWrite(k) = w
            \/ later = <<>> /\ d.state = "kDisconnected" /\ handleWrite(k) = shutdownInLoop(d)
            \/ later = <<>> /\ handleWrite(k) = d
  <2> DEFINE w1 == [k EXCEPT !.written = @ \o SubSeq(k.outputBuffer, 1, n),
                             !.outputBuffer = SubSeq(@, n + 1, Len(@)),
                             !.room = @ - n]
             d1 == [w1 EXCEPT !.channel = disableWriting(@)]
  <2>1. w1 = w
    OBVIOUS
  <2>2. w.outputBuffer = later
    BY DEF ConnType
  <2>3. handleWrite(k) = IF ~isWriting(k.channel) \/ n = 0 THEN k
                         ELSE IF w1.outputBuffer # <<>> THEN w1
                         ELSE IF d1.state = "kDisconnected" THEN shutdownInLoop(d1)
                         ELSE d1
    BY DEF handleWrite
  <2> HIDE DEF w, d, w1, n, now, later
  <2>4. d1 = d
    BY <2>1 DEF d
  <2> HIDE DEF d1
  <2> QED
    BY <2>1, <2>2, <2>3, <2>4
<1>2. b \in Seq(Nat) /\ Len(b) \in Nat /\ k.written \in Seq(Nat)
  BY DEF ConnType
<1>3. n \in 0..Len(b) /\ k.room - n \in 0..SndBuf
  BY <1>2, WriteResultIs
<1>16. n # 0 => k.peer # "reset"
  BY DEF WriteResult
<1> HIDE DEF n
<1>4. now \o later = b /\ now \in Seq(Nat) /\ later \in Seq(Nat)
  <2> HIDE DEF b
  <2>1. n \in 1 - 1 .. Len(b) /\ Len(b) \in n .. Len(b) /\ 1 \in 1 .. Len(b) + 1
        /\ n \in Int /\ n + 1 \in Int /\ Len(b) \in Int /\ n <= Len(b) /\ n >= 0
    BY <1>2, <1>3
  <2>2. now \o later = SubSeq(b, 1, Len(b))
    BY <1>2, <2>1, ConcatAdjacentSubSeq
  <2>3. SubSeq(b, 1, Len(b)) = b
    BY <1>2, SubSeqFull
  <2>4. \A i \in 1 .. Len(b) : b[i] \in Nat
    BY <1>2
  <2>5. now \in Seq(Nat)
    <3>1. \A i \in 1 .. n : b[i] \in Nat
      BY <2>1, <2>4
    <3> QED
      BY <2>1, <3>1, SubSeqProperties
  <2>6. later \in Seq(Nat)
    <3>1. \A i \in n + 1 .. Len(b) : b[i] \in Nat
      BY <2>1, <2>4
    <3> QED
      BY <2>1, <3>1, SubSeqProperties
  <2> QED
    BY <2>2, <2>3, <2>5, <2>6
<1> HIDE DEF now, later
<1>5. /\ w \in ConnType
      /\ w.channel = k.channel /\ w.state = k.state /\ w.outputBuffer = later
      /\ w.written = k.written \o now /\ w.sent = k.sent /\ w.made = k.made /\ w.loop = k.loop
      /\ w.peer = k.peer /\ w.err = k.err /\ w.unread = k.unread /\ w.shutWr = k.shutWr
      /\ w.downs = k.downs
  <2> DEFINE v == k.written \o now
             r == k.room - n
  <2>1. v \in Seq(Nat) /\ r \in 0..SndBuf
        /\ w = [k EXCEPT !.written = v, !.outputBuffer = later, !.room = r]
    BY <1>2, <1>3, <1>4, ConcatProperties
  <2> HIDE DEF v, r, w
  <2>2. /\ w \in ConnType
        /\ w.channel = k.channel /\ w.state = k.state /\ w.outputBuffer = later
        /\ w.written = v /\ w.sent = k.sent /\ w.made = k.made /\ w.loop = k.loop
        /\ w.peer = k.peer /\ w.err = k.err /\ w.unread = k.unread /\ w.shutWr = k.shutWr
        /\ w.downs = k.downs
    BY <1>4, <2>1 DEF ConnType
  <2> QED
    BY <2>2 DEF v
<1>6. InOrder(w)
  <2>1. Regroups(k.written, now, later)
    BY <1>2, <1>4, Associative
  <2> HIDE DEF w
  <2> QED
    BY <1>4, <1>5, <2>1 DEF Sound, InOrder, Regroups
<1> HIDE DEF w
<1>7. k.channel \in ChannelType /\ EpollAgrees(k.channel)
  BY DEF ConnType, Sound
<1>8. /\ disableWriting(k.channel) \in ChannelType /\ EpollAgrees(disableWriting(k.channel))
      /\ disableWriting(k.channel).events = k.channel.events \ {"write"}
  BY <1>7, ChannelIs
<1>9. /\ d \in ConnType
      /\ d.channel = disableWriting(k.channel) /\ d.state = k.state /\ d.outputBuffer = later
      /\ d.written = w.written /\ d.sent = k.sent /\ d.made = k.made /\ d.loop = k.loop
      /\ d.peer = k.peer /\ d.err = k.err /\ d.unread = k.unread /\ d.shutWr = k.shutWr
      /\ d.downs = k.downs
  <2>1. d = [w EXCEPT !.channel = disableWriting(k.channel)]
    BY <1>5
  <2> HIDE DEF d
  <2> QED
    BY <1>5, <1>8, <2>1 DEF ConnType
<1> HIDE DEF d
<1>10. isWriting(k.channel) => k.state # "kConnecting"
  BY DEF isWriting, Sound, NewChannel
<1>11. CASE n # 0 /\ isWriting(k.channel) /\ later # <<>> /\ handleWrite(k) = w
  <2>1. BufferWaitedFor(w)
    BY <1>5, <1>11 DEF BufferWaitedFor
  <2>2. Sound(w)
    BY <1>5, <1>6, <1>7, <1>10, <1>11, <2>1 DEF Sound
  <2>3. WritesSome(k, w)
    BY <1>5, <1>11, <1>16 DEF WritesSome, SameLife
  <2> QED
    BY <1>5, <1>11, <2>2, <2>3 DEF Evolved, Grown
<1>12. ASSUME isWriting(k.channel), later = <<>>
       PROVE  Sound(d) /\ Evolved(k, d) /\ d.state # "kConnecting" /\ d.outputBuffer = <<>>
  <2>1. InOrder(d)
    BY <1>5, <1>6, <1>9 DEF InOrder
  <2>2. BufferWaitedFor(d)
    BY <1>8, <1>9, <1>12 DEF BufferWaitedFor, isWriting
  <2>3. Sound(d)
    BY <1>8, <1>9, <1>10, <1>12, <2>1, <2>2 DEF Sound
  <2> QED
    BY <1>9, <1>10, <1>12, <2>3 DEF Evolved, Grown
<1>13. CASE n # 0 /\ isWriting(k.channel) /\ later = <<>> /\ handleWrite(k) = d
  <2>1. WritesSome(k, d)
    BY <1>9, <1>13, <1>16 DEF WritesSome, SameLife
  <2> QED
    BY <1>9, <1>12, <1>13, <2>1
<1>14. CASE /\ n # 0 /\ isWriting(k.channel) /\ later = <<>> /\ d.state = "kDisconnected"
            /\ handleWrite(k) = shutdownInLoop(d)
  <2>1. /\ shutdownInLoop(d) \in ConnType /\ Sound(shutdownInLoop(d))
        /\ Evolved(d, shutdownInLoop(d)) /\ shutdownInLoop(d).state = d.state
        /\ d.peer = "open" /\ ~d.shutWr /\ shutdownInLoop(d).shutWr
             => shutdownInLoop(d).outputBuffer = <<>>
        /\ shutdownInLoop(d).channel = d.channel /\ SameLife(d, shutdownInLoop(d))
        /\ shutdownInLoop(d).outputBuffer = d.outputBuffer
    BY <1>9, <1>12, <1>14, ShutdownInLoopIs
  <2>2. Evolved(k, shutdownInLoop(d))
    BY <1>12, <1>14, <2>1 DEF Evolved, Grown
  <2>3. WritesSome(k, shutdownInLoop(d))
    BY <1>9, <1>14, <1>16, <2>1 DEF WritesSome, SameLife
  <2> QED
    BY <1>9, <1>14, <2>1, <2>2, <2>3
<1>15. CASE handleWrite(k) = k
  BY <1>15 DEF Evolved, Grown
<1> QED
  BY <1>1, <1>11, <1>13, <1>14, <1>15

-----------------------------------------------------------------------------
(* The calls of the loops.                                                 *)

\* IInv but for what depends on nobody else using the connections.
Lawful ==
  /\ TypeOK
  /\ \A c \in Conns : Sound(conn[c])
  /\ \A u \in Users : ucall[u] # NoCall => Justified(ucall[u])
  /\ \A l \in Loops : LoopSound(l)

LEMMA AreSteps ==
  ASSUME NEW c \in Conns, NEW op \in SharedOps \cup RawOps
  PROVE  Do(op, c) \in Step /\ Do(op, c).op = op /\ Do(op, c).conn = c
BY DEF Do, Step

\* The step a loop is at.
LEMMA HeadIs ==
  ASSUME TypeOK, NEW l \in Loops, todo[l] # <<>>
  PROVE  /\ todo[l] \in Seq(Step)
         /\ Head(todo[l]) \in Step /\ Head(todo[l]) \in ToSet(todo[l])
         /\ Current(l) \in Conns /\ Current(l) = Head(todo[l]).conn
         /\ Head(todo[l]) = Do(Head(todo[l]).op, Current(l))
         /\ Tail(todo[l]) \in Seq(Step)
         /\ ToSet(todo[l]) = {Head(todo[l])} \cup ToSet(Tail(todo[l]))
         /\ conn[Current(l)] \in ConnType
<1> DEFINE t == todo[l]
<1>1. t \in Seq(Step) /\ t # <<>>
  BY DEF TypeOK, ConnTypeOK
<1> HIDE DEF t
<1>2. /\ Head(t) \in Step /\ Tail(t) \in Seq(Step)
      /\ ToSet(t) = {Head(t)} \cup ToSet(Tail(t))
  BY <1>1, Taken
<1> DEFINE h == Head(t)
<1> HIDE DEF h
<1>3. h.conn \in Conns /\ h = Do(h.op, h.conn)
  BY <1>2 DEF Step, Do, h
<1>4. Current(l) = h.conn
  BY DEF Current, t, h
<1> QED
  BY <1>1, <1>2, <1>3, <1>4 DEF t, h, TypeOK, ConnTypeOK

\* What Continue leaves to do.
LEMMA Continued ==
  ASSUME Lawful, NEW l \in Loops, todo[l] # <<>>, NEW steps \in Seq(Step),
         \A s \in ToSet(steps) : s.op # "handleRead",
         Continue(l, steps)
  PROVE  /\ todo' \in [Loops -> Seq(Step)]
         /\ ToSet(todo'[l]) = ToSet(steps) \cup ToSet(Tail(todo[l]))
         /\ \A m \in Loops : m # l => todo'[m] = todo[m]
         /\ \A m \in Loops : OneRead(todo'[m])
<1> DEFINE t == Tail(todo[l])
           u == steps \o t
<1>1. todo \in [Loops -> Seq(Step)] /\ TypeOK
  BY DEF Lawful, TypeOK, ConnTypeOK
<1>2. \A m \in Loops : OneRead(todo[m]) /\ todo[m] \in Seq(Step)
  BY <1>1 DEF Lawful, LoopSound
<1>3. t \in Seq(Step) /\ OnceIn(t, Reads)
  <2>1. OnceIn(todo[l], Reads)
    BY <1>2, OneReadIs
  <2> QED
    BY <1>2, <2>1, Taken, OnceTaken
<1> HIDE DEF t
<1>4. u \in Seq(Step) /\ ToSet(u) = ToSet(steps) \cup ToSet(t) /\ OneRead(u)
  <2>1. u \in Seq(Step) /\ ToSet(u) = ToSet(steps) \cup ToSet(t)
    BY <1>3, Joined
  <2>2. \A s \in ToSet(steps) : s \notin Reads
    BY DEF Reads
  <2>3. OnceIn(u, Reads)
    BY <1>3, <2>2, OnceJoined
  <2> HIDE DEF u
  <2> QED
    BY <2>1, <2>3, OneReadIs
<1>5. todo' = [todo EXCEPT ![l] = u]
  BY DEF Continue, t
<1> HIDE DEF u
<1>6. todo'[l] = u /\ \A m \in Loops : m # l => todo'[m] = todo[m]
  BY <1>1, <1>5
<1>7. todo' \in [Loops -> Seq(Step)]
  BY <1>1, <1>4, <1>5
<1>8. \A m \in Loops : OneRead(todo'[m])
  BY <1>2, <1>4, <1>6
<1> QED
  BY <1>4, <1>6, <1>7, <1>8 DEF t

\* What Queue adds to the functors.
LEMMA Queued ==
  ASSUME TypeOK, NEW l \in Loops, NEW q \in Seq(Step), Queue(l, q)
  PROVE  /\ functors' \in [Loops -> Seq(Step)]
         /\ ToSet(functors'[l]) = ToSet(functors[l]) \cup ToSet(q)
         /\ \A m \in Loops : m # l => functors'[m] = functors[m]
<1> DEFINE f == functors[l]
           u == f \o q
<1>1. functors \in [Loops -> Seq(Step)] /\ f \in Seq(Step)
  BY DEF TypeOK, ConnTypeOK
<1> HIDE DEF f
<1>2. u \in Seq(Step) /\ ToSet(u) = ToSet(f) \cup ToSet(q)
  BY <1>1, Joined
<1>3. functors' = [functors EXCEPT ![l] = u]
  BY DEF Queue, f
<1> HIDE DEF u
<1> QED
  BY <1>1, <1>2, <1>3 DEF f

\* Nothing queued is a queueing of nothing.
LEMMA NothingQueued ==
  ASSUME TypeOK, UNCHANGED functors, NEW l \in Loops
  PROVE  Queue(l, <<>>) /\ <<>> \in Seq(Step) /\ ToSet(<<>>) = {}
<1> DEFINE f == functors[l]
<1>1. functors \in [Loops -> Seq(Step)] /\ f \in Seq(Step)
  BY DEF TypeOK, ConnTypeOK
<1> HIDE DEF f
<1>2. f \o <<>> = f
  BY <1>1
<1>3. <<>> \in Seq(Step) /\ ToSet(<<>>) = {}
  BY DEF ToSet
<1> QED
  BY <1>1, <1>2, <1>3 DEF Queue, f

\* A callback that goes on is a callback to be continued.
LEMMA StillThere ==
  ASSUME TypeOK, NEW l \in Loops, todo[l] # <<>>, UNCHANGED todo
  PROVE  /\ Continue(l, <<Head(todo[l])>>) /\ <<Head(todo[l])>> \in Seq(Step)
         /\ ToSet(<<Head(todo[l])>>) = {Head(todo[l])}
<1> DEFINE t == todo[l]
<1>1. todo \in [Loops -> Seq(Step)] /\ t \in Seq(Step) /\ t # <<>> /\ Head(t) \in Step
  BY HeadIs DEF TypeOK, ConnTypeOK
<1> HIDE DEF t
<1>2. <<Head(t)>> \o Tail(t) = t
  BY <1>1
<1>3. <<Head(t)>> \in Seq(Step) /\ ToSet(<<Head(t)>>) = {Head(t)}
  BY <1>1, Few
<1> QED
  BY <1>1, <1>2, <1>3 DEF Continue, t

\* What makes the step legal that a step leads to.
JustifiedBy(k, op) ==
  /\ k.made
  /\ op \in {"sendInLoop", "shutdownInLoop"} => k.state # "kConnecting"
  /\ op \in {"handleClose", "closeCallback", "removeConnectionInLoop",
             "connectDestroyed"} => k.peer # "open"

\* A step that is legal stays so.
LEMMA StaysJustified ==
  ASSUME NEW s \in Step, Justified(s), Grown(conn[s.conn], conn[s.conn]')
  PROVE  Justified(s)'
BY DEF Justified, Grown

\* What a step of the program has to respect.
LEMMA StaysLawful ==
  ASSUME Lawful, TypeOK', \A c \in Conns : Sound(conn[c])',
         \A c \in Conns : Grown(conn[c], conn[c]'),
         \A c \in Conns :
           conn[c].unread > 0 =>
             \/ conn[c].unread' > 0
             \/ \A l \in Loops :
                  /\ \A r \in active'[l] : r[1] # c
                  /\ \A s \in ToSet(todo'[l]) : ~(s.op = "handleRead" /\ s.conn = c),
         \A u \in Users : ucall'[u] = ucall[u] \/ ucall'[u] = NoCall
                            \/ Justified(ucall[u])',
         \A l \in Loops : active'[l] \subseteq active[l],
         \A l \in Loops : OneRead(todo'[l]),
         \A l \in Loops : \A s \in ToSet(todo'[l]) :
           s \in ToSet(todo[l]) \/ (Justified(s)' /\ s.op # "handleRead"),
         \A l \in Loops : \A s \in ToSet(functors'[l]) \cup ToSet(left'[l]) :
           \/ s \in ToSet(functors[l]) \cup ToSet(left[l])
           \/ Justified(s)' /\ s.op \in FunctorOps
  PROVE  Lawful'
<1>1. \A l \in Loops :
        /\ \A s \in ToSet(todo[l]) \cup ToSet(functors[l]) \cup ToSet(left[l]) : s \in Step
        /\ \A r \in active[l] : r[1] \in Conns /\ r[2] \in SUBSET Revents
  <2> SUFFICES ASSUME NEW l \in Loops
               PROVE  /\ ToSet(todo[l]) \cup ToSet(functors[l]) \cup ToSet(left[l]) \subseteq Step
                      /\ \A r \in active[l] : r[1] \in Conns /\ r[2] \in SUBSET Revents
    OBVIOUS
  <2>1. /\ todo[l] \in Seq(Step) /\ functors[l] \in Seq(Step) /\ left[l] \in Seq(Step)
        /\ active[l] \subseteq Conns \X SUBSET Revents
    BY DEF Lawful, TypeOK, ConnTypeOK
  <2>2. ToSet(todo[l]) \subseteq Step /\ ToSet(functors[l]) \subseteq Step
        /\ ToSet(left[l]) \subseteq Step
    BY <2>1 DEF ToSet
  <2> QED
    BY <2>1, <2>2
<1>2. \A s \in Step : Justified(s) => Justified(s)'
  <2> SUFFICES ASSUME NEW s \in Step, Justified(s) PROVE Justified(s)'
    OBVIOUS
  <2>1. s.conn \in Conns
    BY DEF Step
  <2> QED
    BY <2>1, StaysJustified
<1>3. ASSUME NEW u \in Users, ucall'[u] # NoCall PROVE Justified(ucall[u])'
  <2>1. CASE ucall'[u] = ucall[u]
    <3>1. ucall[u] # NoCall /\ Justified(ucall[u])
      BY <1>3, <2>1 DEF Lawful
    <3>2. ucall[u] \in Step
      BY <3>1 DEF Lawful, TypeOK, ConnTypeOK, Step, RawOps
    <3>3. ucall[u].conn \in Conns
      BY <3>2 DEF Step
    <3> QED
      BY <2>1, <3>1, <3>3 DEF Justified, Grown
  <2> QED
    BY <1>3, <2>1
<1>4. ASSUME NEW l \in Loops PROVE LoopSound(l)'
  <2>1. LoopSound(l)
    BY DEF Lawful
  <2>2. ASSUME NEW r, r \in Conns \X SUBSET Revents, NEW m \in Loops, Founded(r, m),
               conn[r[1]].unread > 0 => conn'[r[1]].unread > 0
        PROVE  Founded(r, m)'
    <3>1. Grown(conn[r[1]], conn'[r[1]])
      BY <2>2
    <3> QED
      BY <2>2, <3>1 DEF Founded, Grown
  <2>3. ASSUME NEW r \in active'[l] PROVE Founded(r, l)'
    <3>1. r \in active[l] /\ r \in Conns \X SUBSET Revents /\ r[1] \in Conns
      BY DEF Lawful, TypeOK, ConnTypeOK
    <3>2. Founded(r, l)
      BY <2>1, <3>1 DEF LoopSound
    <3>3. conn[r[1]].unread > 0 => conn'[r[1]].unread > 0
      BY <2>3, <3>1
    <3> QED
      BY <2>2, <3>1, <3>2, <3>3
  <2>4. ASSUME NEW s \in ToSet(todo'[l])
        PROVE  /\ Justified(s)'
               /\ s.op = "handleRead" => /\ Founded(<<s.conn, {"IN"}>>, l)'
                                         /\ \A r \in active'[l] : r[1] # s.conn
    <3>1. CASE s \notin ToSet(todo[l])
      BY <2>4, <3>1
    <3>2. CASE s \in ToSet(todo[l])
      <4>1. s \in Step /\ Justified(s) /\ s.conn \in Conns
        <5>1. s \in Step
          BY <1>1, <3>2
        <5>2. Justified(s)
          BY <2>1, <3>2 DEF LoopSound
        <5> QED
          BY <5>1, <5>2 DEF Step
      <4>3. Justified(s)'
        BY <1>2, <4>1
      <4>2. ASSUME s.op = "handleRead"
            PROVE  /\ Founded(<<s.conn, {"IN"}>>, l)'
                   /\ \A r \in active'[l] : r[1] # s.conn
        <5> DEFINE r == <<s.conn, {"IN"}>>
        <5>1. Founded(r, l) /\ \A x \in active[l] : x[1] # s.conn
          BY <2>1, <3>2, <4>2 DEF LoopSound
        <5>2. r \in Conns \X SUBSET Revents /\ r[1] = s.conn
          BY <4>1 DEF Revents
        <5>3. conn[s.conn].unread > 0 => conn'[s.conn].unread > 0
          BY <2>4, <4>1, <4>2
        <5> HIDE DEF r
        <5>4. Founded(r, l)'
          BY <2>2, <5>1, <5>2, <5>3
        <5> QED
          BY <5>1, <5>4 DEF r
      <4> QED
        BY <4>2, <4>3
    <3> QED
      BY <3>1, <3>2
  <2>5. ASSUME NEW s \in ToSet(functors'[l]) \cup ToSet(left'[l])
        PROVE  Justified(s)' /\ s.op \in FunctorOps
    <3>1. CASE s \in ToSet(functors[l]) \cup ToSet(left[l])
      <4>1. s \in Step /\ Justified(s) /\ s.op \in FunctorOps
        BY <1>1, <2>1, <3>1 DEF LoopSound
      <4> QED
        BY <1>2, <4>1
    <3> QED
      BY <2>5, <3>1
  <2>6. \A r1, r2 \in active'[l] : r1[1] = r2[1] => r1 = r2
    BY <2>1 DEF LoopSound
  <2> QED
    BY <2>3, <2>4, <2>5, <2>6 DEF LoopSound
<1> QED
  BY <1>3, <1>4 DEF Lawful

\* A step that replaces the connection's record.
LEMMA Replaced ==
  ASSUME Lawful, NEW c \in Conns, NEW k2 \in ConnType, Sound(k2),
         conn' = [conn EXCEPT ![c] = k2]
  PROVE  /\ conn' \in [Conns -> ConnType] /\ conn'[c] = k2
         /\ \A d \in Conns : d # c => conn'[d] = conn[d]
         /\ \A d \in Conns : Sound(conn[d])'
<1>1. conn \in [Conns -> ConnType] /\ \A d \in Conns : Sound(conn[d])
  BY DEF Lawful, TypeOK, ConnTypeOK
<1>2. conn' \in [Conns -> ConnType] /\ conn'[c] = k2 /\ \A d \in Conns : d # c => conn'[d] = conn[d]
  BY <1>1
<1>3. ASSUME NEW d \in Conns PROVE Sound(conn'[d])
  BY <1>1, <1>2
<1> QED
  BY <1>2, <1>3

LEMMA NotReplaced ==
  ASSUME TypeOK, UNCHANGED conn, NEW c \in Conns
  PROVE  conn' = [conn EXCEPT ![c] = conn[c]] /\ conn[c] \in ConnType /\ Evolved(conn[c], conn[c])
BY DEF TypeOK, ConnTypeOK, Evolved, Grown

\* A step of a call on loop l, with what it leaves to do and what it queues.
LEMMA HandlerLawful ==
  ASSUME Lawful, NEW l \in Loops, todo[l] # <<>>,
         NEW k2 \in ConnType, Sound(k2), Evolved(conn[Current(l)], k2),
         conn' = [conn EXCEPT ![Current(l)] = k2],
         NEW steps \in Seq(Step), Continue(l, steps),
         NEW m \in Loops, NEW q \in Seq(Step), Queue(m, q),
         \A s \in ToSet(steps) :
           s.op # "handleRead" /\ s.conn = Current(l) /\ JustifiedBy(k2, s.op),
         \A s \in ToSet(q) :
           s.op \in FunctorOps /\ s.conn = Current(l) /\ JustifiedBy(k2, s.op),
         UNCHANGED <<lpc, active, batch, left, userVars, loops_, next_>>,
         connections_' \subseteq Conns, aborted' \in Assertions
  PROVE  Lawful'
<1> DEFINE c == Current(l)
<1>1. TypeOK /\ c \in Conns
  BY HeadIs DEF Lawful
<1> HIDE DEF c
<1>2. /\ conn' \in [Conns -> ConnType] /\ conn'[c] = k2
      /\ \A d \in Conns : d # c => conn'[d] = conn[d]
      /\ \A d \in Conns : Sound(conn[d])'
  BY <1>1, Replaced DEF c
<1>3. /\ todo' \in [Loops -> Seq(Step)]
      /\ ToSet(todo'[l]) = ToSet(steps) \cup ToSet(Tail(todo[l]))
      /\ \A x \in Loops : x # l => todo'[x] = todo[x]
      /\ \A x \in Loops : OneRead(todo'[x])
  BY Continued
<1>4. ToSet(Tail(todo[l])) \subseteq ToSet(todo[l])
  BY <1>1, HeadIs
<1>5. /\ functors' \in [Loops -> Seq(Step)]
      /\ ToSet(functors'[m]) = ToSet(functors[m]) \cup ToSet(q)
      /\ \A x \in Loops : x # m => functors'[x] = functors[x]
  BY <1>1, Queued
<1>6. TypeOK'
  BY <1>1, <1>2, <1>3, <1>5 DEF TypeOK, ConnTypeOK, userVars
<1>7. \A d \in Conns : Evolved(conn[d], conn[d]')
  <2>1. ASSUME NEW d \in Conns PROVE Evolved(conn[d], conn'[d])
    <3>1. CASE d = c
      BY <1>2, <3>1 DEF c
    <3>2. CASE d # c
      BY <1>2, <3>2 DEF Evolved, Grown
    <3> QED
      BY <3>1, <3>2
  <2> QED
    BY <2>1
<1>8. \A d \in Conns : Grown(conn[d], conn[d]') /\ (conn[d].unread > 0 => conn[d].unread' > 0)
  BY <1>7 DEF Evolved
<1>10. \A s : s.conn = c /\ JustifiedBy(k2, s.op) => Justified(s)'
  BY <1>2 DEF Justified, JustifiedBy
<1>11. ASSUME NEW x \in Loops, NEW s \in ToSet(todo'[x])
       PROVE  s \in ToSet(todo[x]) \/ (Justified(s)' /\ s.op # "handleRead")
  BY <1>3, <1>4, <1>10, <1>11 DEF c
<1>12. ASSUME NEW x \in Loops, NEW s \in ToSet(functors'[x]) \cup ToSet(left'[x])
       PROVE  \/ s \in ToSet(functors[x]) \cup ToSet(left[x])
              \/ Justified(s)' /\ s.op \in FunctorOps
  <2>1. left' = left
    OBVIOUS
  <2> QED
    BY <1>5, <1>10, <1>12, <2>1 DEF c
<1>13. \A u \in Users : ucall'[u] = ucall[u]
  BY DEF userVars
<1>14. \A x \in Loops : active'[x] \subseteq active[x]
  OBVIOUS
<1> QED
  BY <1>2, <1>3, <1>6, <1>8, <1>11, <1>12, <1>13, <1>14, StaysLawful

\* A step that fails an assertion, and one that changes nothing else.
LEMMA AbortLawful ==
  ASSUME Lawful, UNCHANGED <<conn, loopVars, userVars, loops_, next_>>,
         connections_' \subseteq Conns, aborted' \in Assertions
  PROVE  Lawful'
<1>1. /\ conn' = conn /\ lpc' = lpc /\ active' = active /\ todo' = todo /\ functors' = functors
      /\ batch' = batch /\ left' = left /\ ucall' = ucall /\ uref' = uref /\ loops_' = loops_
      /\ next_' = next_
  BY DEF loopVars, userVars
<1>2. TypeOK'
  BY <1>1 DEF Lawful, TypeOK, ConnTypeOK
<1>3. \A s : Justified(s) => Justified(s)'
  BY <1>1 DEF Justified
<1>4. \A r, l : Founded(r, l) => Founded(r, l)'
  BY <1>1 DEF Founded
<1>5. \A l \in Loops : LoopSound(l)'
  <2> SUFFICES ASSUME NEW l \in Loops PROVE LoopSound(l)'
    OBVIOUS
  <2>1. LoopSound(l)
    BY DEF Lawful
  <2> QED
    BY <1>1, <1>3, <1>4, <2>1 DEF LoopSound
<1>6. (\A c \in Conns : Sound(conn[c]))' /\ \A u \in Users : ucall'[u] # NoCall => Justified(ucall[u])'
  <2>1. \A c \in Conns : Sound(conn[c])
    BY DEF Lawful
  <2>2. \A u \in Users : ucall[u] # NoCall => Justified(ucall[u])
    BY DEF Lawful
  <2> QED
    BY <1>1, <2>1, <2>2 DEF Justified
<1> QED
  BY <1>2, <1>5, <1>6 DEF Lawful

\* What is known of the step a loop is at.
LEMMA AtStep ==
  ASSUME Lawful, NEW l \in Loops, todo[l] # <<>>
  PROVE  /\ Current(l) \in Conns /\ conn[Current(l)] \in ConnType /\ Sound(conn[Current(l)])
         /\ JustifiedBy(conn[Current(l)], Head(todo[l]).op)
         /\ conn[Current(l)].made
<1>1. /\ Head(todo[l]) \in ToSet(todo[l]) /\ Current(l) \in Conns
      /\ Current(l) = Head(todo[l]).conn /\ conn[Current(l)] \in ConnType
  BY HeadIs DEF Lawful
<1>2. Justified(Head(todo[l])) /\ Sound(conn[Current(l)])
  BY <1>1 DEF Lawful, LoopSound
<1> QED
  BY <1>1, <1>2 DEF Justified, JustifiedBy

\* The steps a handler leads to: none, one or two.
LEMMA None ==
  <<>> \in Seq(Step) /\ ToSet(<<>>) = {}
BY DEF ToSet

LEMMA Single ==
  ASSUME NEW x \in Step
  PROVE  <<x>> \in Seq(Step) /\ ToSet(<<x>>) = {x}
BY Few

LEMMA Pair ==
  ASSUME NEW x \in Step, NEW y \in Step
  PROVE  <<x, y>> \in Seq(Step) /\ ToSet(<<x, y>>) = {x, y}
<1> DEFINE s == <<x, y>>
<1>1. s \in Seq(Step) /\ DOMAIN s = {1, 2} /\ s[1] = x /\ s[2] = y
  OBVIOUS
<1> HIDE DEF s
<1>2. ToSet(s) = {x, y}
  BY <1>1 DEF ToSet
<1> QED
  BY <1>1, <1>2 DEF s

DoIs(op, c) == Do(op, c) \in Step /\ Do(op, c).op = op /\ Do(op, c).conn = c

LEMMA Dos ==
  ASSUME NEW c \in Conns
  PROVE  /\ DoIs("callback", c) /\ DoIs("removeChannel", c) /\ DoIs("handleError", c)
         /\ DoIs("handleClose", c) /\ DoIs("closeCallback", c)
         /\ DoIs("removeConnectionInLoop", c) /\ DoIs("connectDestroyed", c)
         /\ DoIs("connectEstablished", c)
BY DEF DoIs, Do, Step, SharedOps, RawOps

\* What the steps of a call leave alone.
Rest == <<lpc, active, batch, left, userVars, connections_, loops_, next_>>

\* A step that may change its connection and leads to other steps.
LEMMA RunsLawful ==
  ASSUME Lawful, NEW l \in Loops, todo[l] # <<>>,
         NEW k2 \in ConnType, Sound(k2), Evolved(conn[Current(l)], k2),
         conn' = [conn EXCEPT ![Current(l)] = k2],
         NEW steps \in Seq(Step), Continue(l, steps),
         \A s \in ToSet(steps) :
           s.op # "handleRead" /\ s.conn = Current(l) /\ JustifiedBy(k2, s.op),
         UNCHANGED functors, UNCHANGED Rest, UNCHANGED aborted
  PROVE  Lawful'
<1> DEFINE q == <<>>
<1>1. TypeOK
  BY DEF Lawful
<1>2. Queue(l, q) /\ q \in Seq(Step) /\ ToSet(q) = {}
  BY <1>1, NothingQueued
<1> HIDE DEF q
<1>3. /\ UNCHANGED <<lpc, active, batch, left, userVars, loops_, next_>>
      /\ connections_' \subseteq Conns /\ aborted' \in Assertions
  BY <1>1 DEF Rest, TypeOK, ConnTypeOK
<1>4. \A s \in ToSet(q) :
        s.op \in FunctorOps /\ s.conn = Current(l) /\ JustifiedBy(k2, s.op)
  BY <1>2
<1> QED
  BY <1>2, <1>3, <1>4, HandlerLawful

\* A step that fails an assertion.
LEMMA FailsLawful ==
  ASSUME Lawful, UNCHANGED <<conn, todo>>, UNCHANGED functors, UNCHANGED Rest,
         aborted' \in Assertions
  PROVE  Lawful'
<1>1. /\ UNCHANGED <<conn, loopVars, userVars, loops_, next_>>
      /\ connections_' \subseteq Conns
  BY DEF Rest, loopVars, Lawful, TypeOK, ConnTypeOK
<1> QED
  BY <1>1, AbortLawful

LEMMA ConnectEstablishedLawful ==
  ASSUME Lawful, NEW l \in Loops, ConnectEstablished(l), UNCHANGED serverVars
  PROVE  Lawful'
<1> DEFINE c == Current(l)
           k == conn[c]
           k2 == Established(k)
           q == <<Do("callback", c)>>
<1>1. todo[l] # <<>> /\ UNCHANGED Rest /\ UNCHANGED functors
  BY DEF ConnectEstablished, IsAt, serverVars, Rest
<1>2. c \in Conns /\ k \in ConnType /\ Sound(k) /\ k.made
  BY <1>1, AtStep
<1>3. CASE k.state = "kConnecting"
  <2>1. conn' = [conn EXCEPT ![c] = k2] /\ Continue(l, q) /\ UNCHANGED aborted
    BY <1>3 DEF ConnectEstablished, Established
  <2>2. k2 \in ConnType /\ Sound(k2) /\ Evolved(k, k2) /\ k2.made
    BY <1>2, <1>3, EstablishedIs DEF Evolved, Grown
  <2> HIDE DEF k2
  <2>3. /\ q \in Seq(Step)
        /\ \A s \in ToSet(q) : s.op = "callback" /\ s.conn = c
    BY <1>2, Dos, Single DEF DoIs
  <2> HIDE DEF q
  <2>4. \A s \in ToSet(q) : s.op # "handleRead" /\ s.conn = c /\ JustifiedBy(k2, s.op)
    BY <2>2, <2>3 DEF JustifiedBy
  <2> QED
    BY <1>1, <2>1, <2>2, <2>3, <2>4, RunsLawful
<1>4. CASE k.state # "kConnecting"
  <2>1. UNCHANGED <<conn, todo>> /\ aborted' \in Assertions
    BY <1>4 DEF ConnectEstablished, Abort, Assertions
  <2> QED
    BY <1>1, <2>1, FailsLawful
<1> QED
  BY <1>3, <1>4

LEMMA ConnectDestroyedLawful ==
  ASSUME Lawful, NEW l \in Loops, ConnectDestroyed(l), UNCHANGED serverVars
  PROVE  Lawful'
<1> DEFINE c == Current(l)
           k == conn[c]
           k2 == Ended(k)
           x == Do("callback", c)
           y == Do("removeChannel", c)
           q == <<x, y>>
<1>1. todo[l] # <<>> /\ UNCHANGED Rest /\ UNCHANGED functors /\ Head(todo[l]).op = "connectDestroyed"
  BY DEF ConnectDestroyed, IsAt, serverVars, Rest
<1>2. c \in Conns /\ k \in ConnType /\ Sound(k) /\ k.peer # "open"
  BY <1>1, AtStep DEF JustifiedBy
<1>3. CASE k.state = "kConnected"
  <2>1. conn' = [conn EXCEPT ![c] = k2] /\ Continue(l, q) /\ UNCHANGED aborted
    BY <1>3 DEF ConnectDestroyed, Ended
  <2>2. k2 \in ConnType /\ Sound(k2) /\ Evolved(k, k2) /\ k2.made
    BY <1>2, <1>3, ClosedIs
  <2> HIDE DEF k2
  <2>3. DoIs("callback", c) /\ DoIs("removeChannel", c)
    BY <1>2, Dos
  <2>4. /\ x \in Step /\ x.op = "callback" /\ x.conn = c
        /\ y \in Step /\ y.op = "removeChannel" /\ y.conn = c
    BY <2>3 DEF DoIs
  <2> HIDE DEF x, y
  <2>5. q \in Seq(Step) /\ ToSet(q) = {x, y}
    BY <2>4, Pair
  <2> HIDE DEF q
  <2>6. \A s \in ToSet(q) : s.op # "handleRead" /\ s.conn = c /\ JustifiedBy(k2, s.op)
    BY <2>2, <2>4, <2>5 DEF JustifiedBy
  <2> QED
    BY <1>1, <2>1, <2>2, <2>5, <2>6, RunsLawful
<1>4. CASE k.state # "kConnected"
  <2>1. UNCHANGED <<conn, todo>> /\ aborted' \in Assertions
    BY <1>4 DEF ConnectDestroyed, Abort, Assertions
  <2> QED
    BY <1>1, <2>1, FailsLawful
<1> QED
  BY <1>3, <1>4

LEMMA RemoveChannelLawful ==
  ASSUME Lawful, NEW l \in Loops, RemoveChannel(l), UNCHANGED serverVars
  PROVE  Lawful'
<1> DEFINE c == Current(l)
           k == conn[c]
           k2 == Removed(k)
           q == <<>>
<1>1. todo[l] # <<>> /\ UNCHANGED Rest /\ UNCHANGED functors
  BY DEF RemoveChannel, IsAt, serverVars, Rest
<1>2. c \in Conns /\ k \in ConnType /\ Sound(k)
  BY <1>1, AtStep
<1>3. CASE removeChannelAsserts(k.channel)
  <2>1. conn' = [conn EXCEPT ![c] = k2] /\ Continue(l, q) /\ UNCHANGED aborted
    BY <1>3 DEF RemoveChannel, Removed
  <2>2. k2 \in ConnType /\ Sound(k2) /\ Evolved(k, k2)
    BY <1>2, <1>3, RemovedIs
  <2> HIDE DEF k2
  <2>3. q \in Seq(Step) /\ ToSet(q) = {}
    BY None
  <2> HIDE DEF q
  <2>4. \A s \in ToSet(q) : s.op # "handleRead" /\ s.conn = c /\ JustifiedBy(k2, s.op)
    BY <2>3
  <2> QED
    BY <1>1, <2>1, <2>2, <2>3, <2>4, RunsLawful
<1>4. CASE ~removeChannelAsserts(k.channel)
  <2>1. UNCHANGED <<conn, todo>> /\ aborted' \in Assertions
    BY <1>4 DEF RemoveChannel, Abort, Assertions
  <2> QED
    BY <1>1, <2>1, FailsLawful
<1> QED
  BY <1>3, <1>4

LEMMA HandleCloseLawful ==
  ASSUME Lawful, NEW l \in Loops, HandleClose(l), UNCHANGED serverVars
  PROVE  Lawful'
<1> DEFINE c == Current(l)
           k == conn[c]
           k2 == Closed(k)
           q == <<Do("closeCallback", c)>>
<1>1. todo[l] # <<>> /\ UNCHANGED Rest /\ UNCHANGED functors /\ Head(todo[l]).op = "handleClose"
  BY DEF HandleClose, IsAt, serverVars, Rest
<1>2. c \in Conns /\ k \in ConnType /\ Sound(k) /\ k.peer # "open"
  BY <1>1, AtStep DEF JustifiedBy
<1>3. CASE k.state = "kConnected"
  <2>1. conn' = [conn EXCEPT ![c] = k2] /\ Continue(l, q) /\ UNCHANGED aborted
    BY <1>3 DEF HandleClose, Closed
  <2>2. k2 \in ConnType /\ Sound(k2) /\ Evolved(k, k2) /\ k2.made /\ k2.peer # "open"
    BY <1>2, <1>3, ClosedIs DEF Evolved, Grown
  <2> HIDE DEF k2
  <2>3. /\ q \in Seq(Step)
        /\ \A s \in ToSet(q) : s.op = "closeCallback" /\ s.conn = c
    BY <1>2, Dos, Single DEF DoIs
  <2> HIDE DEF q
  <2>4. \A s \in ToSet(q) : s.op # "handleRead" /\ s.conn = c /\ JustifiedBy(k2, s.op)
    BY <2>2, <2>3 DEF JustifiedBy
  <2> QED
    BY <1>1, <2>1, <2>2, <2>3, <2>4, RunsLawful
<1>4. CASE k.state # "kConnected"
  <2>1. UNCHANGED <<conn, todo>> /\ aborted' \in Assertions
    BY <1>4 DEF HandleClose, Abort, Assertions
  <2> QED
    BY <1>1, <2>1, FailsLawful
<1> QED
  BY <1>3, <1>4

\* A step that changes its connection and is over.
LEMMA EndsLawful ==
  ASSUME Lawful, NEW l \in Loops, todo[l] # <<>>,
         NEW k2 \in ConnType, Sound(k2), Evolved(conn[Current(l)], k2),
         conn' = [conn EXCEPT ![Current(l)] = k2], Continue(l, <<>>),
         UNCHANGED functors, UNCHANGED Rest, UNCHANGED aborted
  PROVE  Lawful'
<1> DEFINE q == <<>>
<1>1. q \in Seq(Step) /\ ToSet(q) = {} /\ Continue(l, q)
  BY None
<1> HIDE DEF q
<1>2. \A s \in ToSet(q) : s.op # "handleRead" /\ s.conn = Current(l) /\ JustifiedBy(k2, s.op)
  BY <1>1
<1> QED
  BY <1>1, <1>2, RunsLawful

LEMMA HandleWriteLawful ==
  ASSUME Lawful, NEW l \in Loops, HandleWrite(l), UNCHANGED serverVars
  PROVE  Lawful'
<1> DEFINE k == conn[Current(l)]
<1>1. todo[l] # <<>> /\ UNCHANGED Rest /\ UNCHANGED functors /\ UNCHANGED aborted
      /\ conn' = [conn EXCEPT ![Current(l)] = handleWrite(k)] /\ Continue(l, <<>>)
  BY DEF HandleWrite, IsAt, serverVars, Rest
<1>2. k \in ConnType /\ Sound(k)
  BY <1>1, AtStep
<1>3. handleWrite(k) \in ConnType /\ Sound(handleWrite(k)) /\ Evolved(k, handleWrite(k))
  BY <1>2, HandleWriteIs
<1> QED
  BY <1>1, <1>3, EndsLawful

LEMMA HandleErrorLawful ==
  ASSUME Lawful, NEW l \in Loops, HandleError(l), UNCHANGED serverVars
  PROVE  Lawful'
<1> DEFINE k == conn[Current(l)]
<1>1. todo[l] # <<>> /\ UNCHANGED Rest /\ UNCHANGED functors /\ UNCHANGED aborted
      /\ conn' = [conn EXCEPT ![Current(l)] = ErrorRead(k)] /\ Continue(l, <<>>)
  BY DEF HandleError, IsAt, serverVars, Rest, ErrorRead
<1>2. k \in ConnType /\ Sound(k)
  BY <1>1, AtStep
<1>3. ErrorRead(k) \in ConnType /\ Sound(ErrorRead(k)) /\ Evolved(k, ErrorRead(k))
  BY <1>2, ErrorReadIs
<1> QED
  BY <1>1, <1>3, EndsLawful

LEMMA ShutdownInLoopLawful ==
  ASSUME Lawful, NEW l \in Loops, ShutdownInLoop(l), UNCHANGED serverVars
  PROVE  Lawful'
<1> DEFINE k == conn[Current(l)]
<1>1. todo[l] # <<>> /\ UNCHANGED Rest /\ UNCHANGED functors /\ UNCHANGED aborted
      /\ conn' = [conn EXCEPT ![Current(l)] = shutdownInLoop(k)] /\ Continue(l, <<>>)
      /\ Head(todo[l]).op = "shutdownInLoop"
  BY DEF ShutdownInLoop, IsAt, serverVars, Rest
<1>2. k \in ConnType /\ Sound(k) /\ k.state # "kConnecting"
  BY <1>1, AtStep DEF JustifiedBy
<1>3. /\ shutdownInLoop(k) \in ConnType /\ Sound(shutdownInLoop(k))
      /\ Evolved(k, shutdownInLoop(k))
  BY <1>2, ShutdownInLoopIs
<1> QED
  BY <1>1, <1>3, EndsLawful

LEMMA CallbackReturnsLawful ==
  ASSUME Lawful, NEW l \in Loops, CallbackReturns(l), UNCHANGED serverVars
  PROVE  Lawful'
<1> DEFINE c == Current(l)
<1>1. todo[l] # <<>> /\ UNCHANGED Rest /\ UNCHANGED functors /\ UNCHANGED aborted
      /\ UNCHANGED conn /\ Continue(l, <<>>)
  BY DEF CallbackReturns, IsAt, serverVars, Rest
<1>2. c \in Conns /\ Sound(conn[c]) /\ TypeOK
  BY <1>1, AtStep DEF Lawful
<1>3. conn' = [conn EXCEPT ![c] = conn[c]] /\ conn[c] \in ConnType /\ Evolved(conn[c], conn[c])
  BY <1>1, <1>2, NotReplaced
<1> QED
  BY <1>1, <1>2, <1>3, EndsLawful

\* A write that took the whole message queues one callback.
LEMMA CompletesIs ==
  ASSUME NEW c \in Conns
  PROVE  /\ sendCompletes(c) \in Seq(Step)
         /\ \A s \in ToSet(sendCompletes(c)) : s.op = "callback" /\ s.conn = c
<1>1. DoIs("callback", c)
  BY Dos
<1> DEFINE x == Do("callback", c)
           q == <<x>>
<1>2. x \in Step /\ x.op = "callback" /\ x.conn = c
  BY <1>1 DEF DoIs
<1> HIDE DEF x
<1>3. q \in Seq(Step) /\ ToSet(q) = {x}
  BY <1>2, Single
<1>4. sendCompletes(c) = q \/ sendCompletes(c) = <<>>
  BY DEF sendCompletes, x
<1> HIDE DEF q
<1>5. CASE sendCompletes(c) = q
  BY <1>2, <1>3, <1>5
<1>6. CASE sendCompletes(c) = <<>>
  BY <1>6, None
<1> QED
  BY <1>4, <1>5, <1>6

\* sendInLoop, as a functor or in a callback that goes on.
LEMMA SendsLawful ==
  ASSUME Lawful, NEW l \in Loops, todo[l] # <<>>, conn[Current(l)].state # "kConnecting",
         conn' = [conn EXCEPT ![Current(l)] = sendInLoop(@)],
         Queue(l, sendCompletes(Current(l))),
         NEW steps \in Seq(Step), Continue(l, steps),
         \A s \in ToSet(steps) : s.op = "callback" /\ s.conn = Current(l),
         UNCHANGED Rest, UNCHANGED aborted
  PROVE  Lawful'
<1> DEFINE c == Current(l)
           k == conn[c]
           k2 == sendInLoop(k)
           q == sendCompletes(c)
<1>1. c \in Conns /\ k \in ConnType /\ Sound(k) /\ k.made
  BY AtStep
<1>2. k2 \in ConnType /\ Sound(k2) /\ Evolved(k, k2) /\ k2.made /\ conn' = [conn EXCEPT ![c] = k2]
  BY <1>1, SendInLoopIs DEF Evolved, Grown
<1> HIDE DEF k2
<1>3. q \in Seq(Step) /\ \A s \in ToSet(q) : s.op = "callback" /\ s.conn = c
  BY <1>1, CompletesIs
<1>4. Queue(l, q)
  OBVIOUS
<1> HIDE DEF q
<1>5. \A s \in ToSet(q) : s.op \in FunctorOps /\ s.conn = c /\ JustifiedBy(k2, s.op)
  BY <1>2, <1>3 DEF JustifiedBy, FunctorOps
<1>6. \A s \in ToSet(steps) : s.op # "handleRead" /\ s.conn = c /\ JustifiedBy(k2, s.op)
  BY <1>2 DEF JustifiedBy
<1>7. /\ UNCHANGED <<lpc, active, batch, left, userVars, loops_, next_>>
      /\ connections_' \subseteq Conns /\ aborted' \in Assertions
  BY DEF Rest, Lawful, TypeOK, ConnTypeOK
<1> QED
  BY <1>2, <1>3, <1>4, <1>5, <1>6, <1>7, HandlerLawful

LEMMA SendInLoopLawful ==
  ASSUME Lawful, NEW l \in Loops, SendInLoop(l), UNCHANGED serverVars
  PROVE  Lawful'
<1> DEFINE q == <<>>
<1>1. /\ todo[l] # <<>> /\ UNCHANGED Rest /\ UNCHANGED aborted
      /\ conn' = [conn EXCEPT ![Current(l)] = sendInLoop(@)]
      /\ Queue(l, sendCompletes(Current(l))) /\ Continue(l, q)
      /\ Head(todo[l]).op = "sendInLoop"
  BY DEF SendInLoop, IsAt, serverVars, Rest
<1>2. conn[Current(l)].state # "kConnecting"
  BY <1>1, AtStep DEF JustifiedBy
<1>3. q \in Seq(Step) /\ ToSet(q) = {}
  BY None
<1> HIDE DEF q
<1>4. \A s \in ToSet(q) : s.op = "callback" /\ s.conn = Current(l)
  BY <1>3
<1> QED
  BY <1>1, <1>2, <1>3, <1>4, SendsLawful

LEMMA AppSendLawful ==
  ASSUME Lawful, NEW l \in Loops, AppSend(l), UNCHANGED serverVars
  PROVE  Lawful'
<1> DEFINE q == <<Head(todo[l])>>
<1>1. /\ todo[l] # <<>> /\ UNCHANGED Rest /\ UNCHANGED aborted /\ UNCHANGED todo
      /\ conn' = [conn EXCEPT ![Current(l)] = sendInLoop(@)]
      /\ Queue(l, sendCompletes(Current(l)))
      /\ Head(todo[l]).op = "callback" /\ Current(l) = Head(todo[l]).conn
      /\ conn[Current(l)].state # "kConnecting" /\ TypeOK
  BY DEF AppSend, IsAt, serverVars, Rest, Current, Lawful
<1>2. Continue(l, q) /\ q \in Seq(Step) /\ ToSet(q) = {Head(todo[l])}
  BY <1>1, StillThere
<1> HIDE DEF q
<1>3. \A s \in ToSet(q) : s.op = "callback" /\ s.conn = Current(l)
  BY <1>1, <1>2
<1> QED
  BY <1>1, <1>2, <1>3, SendsLawful

\* shutdown() in a callback: setState and shutdownInLoop.
LEMMA AppShutdownIs ==
  ASSUME NEW k \in ConnType, Sound(k), k.state # "kConnecting"
  PROVE  LET k2 == shutdownInLoop(Shut(k)) IN
         /\ k2 \in ConnType /\ Sound(k2) /\ Evolved(k, k2)
         /\ k.peer = "open" /\ ~k.shutWr /\ k2.shutWr => k2.outputBuffer = <<>>
<1> DEFINE s == Shut(k)
           k2 == shutdownInLoop(s)
<1>1. s \in ConnType /\ Sound(s) /\ SameChannel(k, s) /\ Evolved(k, s)
      /\ s.state = "kDisconnected" /\ s.peer = k.peer
  BY ShutIs
<1> HIDE DEF s
<1>2. /\ k2 \in ConnType /\ Sound(k2) /\ Evolved(s, k2)
      /\ s.peer = "open" /\ ~s.shutWr /\ k2.shutWr => k2.outputBuffer = <<>>
  BY <1>1, ShutdownInLoopIs
<1> HIDE DEF k2
<1>3. Evolved(k, k2)
  BY <1>1, <1>2 DEF Evolved, Grown
<1> QED
  BY <1>1, <1>2, <1>3 DEF SameChannel, k2, s

LEMMA AppShutdownLawful ==
  ASSUME Lawful, NEW l \in Loops, AppShutdown(l), UNCHANGED serverVars
  PROVE  Lawful'
<1> DEFINE c == Current(l)
           k == conn[c]
           k2 == shutdownInLoop(Shut(k))
           q == <<Head(todo[l])>>
<1>1. /\ todo[l] # <<>> /\ UNCHANGED Rest /\ UNCHANGED functors /\ UNCHANGED aborted
      /\ UNCHANGED todo /\ conn' = [conn EXCEPT ![c] = k2]
      /\ Head(todo[l]).op = "callback" /\ c = Head(todo[l]).conn
      /\ k.state = "kConnected" /\ TypeOK
  BY DEF AppShutdown, IsAt, serverVars, Rest, Current, Lawful, loopVars, Shut
<1>2. Continue(l, q) /\ q \in Seq(Step) /\ ToSet(q) = {Head(todo[l])}
  BY <1>1, StillThere
<1> HIDE DEF q
<1>3. k \in ConnType /\ Sound(k) /\ k.made
  BY <1>1, AtStep
<1>4. k2 \in ConnType /\ Sound(k2) /\ Evolved(k, k2) /\ k2.made
  BY <1>1, <1>3, AppShutdownIs DEF Evolved, Grown
<1> HIDE DEF k2
<1>5. \A s \in ToSet(q) : s.op # "handleRead" /\ s.conn = c /\ JustifiedBy(k2, s.op)
  BY <1>1, <1>2, <1>4 DEF JustifiedBy
<1> QED
  BY <1>1, <1>2, <1>4, <1>5, RunsLawful

\* The read that handleRead makes, which takes the data a report was about.
LEMMA DataReadLawful ==
  ASSUME Lawful, NEW l \in Loops, todo[l] # <<>>, Head(todo[l]).op = "handleRead",
         conn[Current(l)].unread > 0,
         conn' = [conn EXCEPT ![Current(l)] = ReadOnce(@)],
         Continue(l, <<Do("callback", Current(l))>>),
         UNCHANGED functors, UNCHANGED Rest, UNCHANGED aborted
  PROVE  Lawful'
<1> DEFINE c == Current(l)
           h == Head(todo[l])
           k == conn[c]
           k2 == ReadOnce(k)
           q == <<Do("callback", c)>>
<1>1. TypeOK /\ c \in Conns /\ k \in ConnType /\ Sound(k) /\ k.made /\ LoopSound(l)
  BY AtStep DEF Lawful
<1>2. /\ h \in Step /\ h \in ToSet(todo[l]) /\ c = h.conn /\ todo[l] \in Seq(Step)
      /\ ToSet(todo[l]) = {h} \cup ToSet(Tail(todo[l]))
  BY <1>1, HeadIs
<1>3. k.loop = l /\ \A r \in active[l] : r[1] # c
  BY <1>1, <1>2 DEF LoopSound, Founded
<1>4. \A s \in ToSet(Tail(todo[l])) : s \notin Reads
  <2>1. OnceIn(todo[l], Reads)
    BY <1>1, <1>2, OneReadIs DEF LoopSound
  <2>2. h \in Reads
    BY <1>2 DEF Reads
  <2> QED
    BY <1>2, <2>1, <2>2, OnceTaken
<1>5. /\ k2 \in ConnType /\ Sound(k2) /\ SameChannel(k, k2)
      /\ k2.state = k.state /\ k2.peer = k.peer /\ conn' = [conn EXCEPT ![c] = k2]
  BY <1>1, ReadOnceIs
<1> HIDE DEF k2
<1>6. /\ conn' \in [Conns -> ConnType] /\ conn'[c] = k2
      /\ \A d \in Conns : d # c => conn'[d] = conn[d]
      /\ \A d \in Conns : Sound(conn[d])'
  BY <1>1, <1>5, Replaced
<1>7. q \in Seq(Step) /\ Continue(l, q) /\ \A s \in ToSet(q) : s.op = "callback" /\ s.conn = c
  BY <1>1, Dos, Single DEF DoIs
<1> HIDE DEF q, h
<1>8. /\ todo' \in [Loops -> Seq(Step)]
      /\ ToSet(todo'[l]) = ToSet(q) \cup ToSet(Tail(todo[l]))
      /\ \A x \in Loops : x # l => todo'[x] = todo[x]
      /\ \A x \in Loops : OneRead(todo'[x])
  <2>1. \A s \in ToSet(q) : s.op # "handleRead"
    BY <1>7
  <2> QED
    BY <1>7, <2>1, Continued
<1>9. TypeOK'
  BY <1>1, <1>6, <1>8 DEF TypeOK, ConnTypeOK, Rest, userVars
<1>10. \A d \in Conns : Grown(conn[d], conn[d]')
  BY <1>5, <1>6 DEF Grown, SameChannel
<1>11. UNCHANGED <<active, functors, left, ucall>>
  BY DEF Rest, userVars
<1>12. ASSUME NEW m \in Loops
       PROVE  /\ \A r \in active'[m] : r[1] # c
              /\ \A s \in ToSet(todo'[m]) : ~(s.op = "handleRead" /\ s.conn = c)
  <2>1. LoopSound(m)
    BY DEF Lawful
  <2>2. CASE m # l
    <3>1. todo'[m] = todo[m] /\ active'[m] = active[m]
      BY <1>8, <1>11, <2>2
    <3>2. ASSUME NEW r \in active[m] PROVE r[1] # c
      BY <1>3, <2>1, <2>2 DEF LoopSound, Founded
    <3>3. ASSUME NEW s \in ToSet(todo[m]), s.op = "handleRead" PROVE s.conn # c
      BY <1>3, <2>1, <2>2, <3>3 DEF LoopSound, Founded
    <3> QED
      BY <3>1, <3>2, <3>3
  <2>3. CASE m = l
    <3>1. ASSUME NEW s \in ToSet(Tail(todo[l])) PROVE s.op # "handleRead"
      <4>1. s \in Step
        <5>1. ToSet(todo[l]) \subseteq Step
          BY <1>2 DEF ToSet
        <5> QED
          BY <1>2, <5>1
      <4> QED
        BY <1>4, <4>1 DEF Reads
    <3>2. ASSUME NEW s \in ToSet(todo'[l]) PROVE s.op # "handleRead"
      BY <1>7, <1>8, <3>1
    <3> QED
      BY <1>3, <1>11, <2>3, <3>2
  <2> QED
    BY <2>2, <2>3
<1>13. \A d \in Conns :
         conn[d].unread > 0 =>
           \/ conn[d].unread' > 0
           \/ \A m \in Loops :
                /\ \A r \in active'[m] : r[1] # d
                /\ \A s \in ToSet(todo'[m]) : ~(s.op = "handleRead" /\ s.conn = d)
  <2>1. ASSUME NEW d \in Conns, d # c, conn[d].unread > 0 PROVE conn'[d].unread > 0
    BY <1>6, <2>1
  <2> QED
    BY <1>12, <2>1
<1>14. \A s : s.op = "callback" /\ s.conn = c => Justified(s)'
  BY <1>1, <1>5, <1>6 DEF Justified, SameChannel
<1>15. ASSUME NEW m \in Loops, NEW s \in ToSet(todo'[m])
       PROVE  s \in ToSet(todo[m]) \/ (Justified(s)' /\ s.op # "handleRead")
  BY <1>2, <1>7, <1>8, <1>14, <1>15 DEF h
<1>16. /\ \A u \in Users : ucall'[u] = ucall[u]
       /\ \A m \in Loops : active'[m] \subseteq active[m]
       /\ \A m \in Loops : functors'[m] = functors[m] /\ left'[m] = left[m]
  BY <1>11
<1> QED
  BY <1>6, <1>8, <1>9, <1>10, <1>13, <1>15, <1>16, StaysLawful

LEMMA HandleReadLawful ==
  ASSUME Lawful, NEW l \in Loops, HandleRead(l), UNCHANGED serverVars
  PROVE  Lawful'
<1> DEFINE c == Current(l)
           k == conn[c]
<1>1. todo[l] # <<>> /\ UNCHANGED Rest /\ UNCHANGED functors /\ UNCHANGED aborted
      /\ Head(todo[l]).op = "handleRead"
  BY DEF HandleRead, IsAt, serverVars, Rest
<1>2. c \in Conns /\ k \in ConnType /\ Sound(k) /\ k.made /\ TypeOK
  BY <1>1, AtStep DEF Lawful
<1>3. \/ k.unread > 0 /\ conn' = [conn EXCEPT ![c] = ReadOnce(@)]
           /\ Continue(l, <<Do("callback", c)>>)
      \/ conn' = [conn EXCEPT ![c] = ErrorRead(k)] /\ Continue(l, <<Do("handleError", c)>>)
      \/ k.unread = 0 /\ UNCHANGED conn /\ Continue(l, <<Do("handleClose", c)>>)
  BY DEF HandleRead, ReadOnce, ErrorRead
<1>4. CASE k.unread > 0 /\ conn' = [conn EXCEPT ![c] = ReadOnce(@)]
             /\ Continue(l, <<Do("callback", c)>>)
  BY <1>1, <1>4, DataReadLawful
<1>5. CASE conn' = [conn EXCEPT ![c] = ErrorRead(k)] /\ Continue(l, <<Do("handleError", c)>>)
  <2> DEFINE q == <<Do("handleError", c)>>
             k2 == ErrorRead(k)
  <2>1. k2 \in ConnType /\ Sound(k2) /\ Evolved(k, k2) /\ k2.made
    BY <1>2, ErrorReadIs DEF SameChannel
  <2>2. q \in Seq(Step) /\ \A s \in ToSet(q) : s.op = "handleError" /\ s.conn = c
    BY <1>2, Dos, Single DEF DoIs
  <2>3. conn' = [conn EXCEPT ![c] = k2] /\ Continue(l, q)
    BY <1>5
  <2> HIDE DEF q, k2
  <2>4. \A s \in ToSet(q) : s.op # "handleRead" /\ s.conn = c /\ JustifiedBy(k2, s.op)
    BY <2>1, <2>2 DEF JustifiedBy
  <2> QED
    BY <1>1, <2>1, <2>2, <2>3, <2>4, RunsLawful
<1>6. CASE k.unread = 0 /\ UNCHANGED conn /\ Continue(l, <<Do("handleClose", c)>>)
  <2> DEFINE q == <<Do("handleClose", c)>>
             h == Head(todo[l])
  <2>1. q \in Seq(Step) /\ \A s \in ToSet(q) : s.op = "handleClose" /\ s.conn = c
    BY <1>2, Dos, Single DEF DoIs
  <2>2. Continue(l, q)
    BY <1>6
  <2> HIDE DEF q
  <2>3. h \in ToSet(todo[l]) /\ c = h.conn /\ LoopSound(l)
    BY <1>1, <1>2, HeadIs DEF Lawful
  <2>4. Founded(<<c, {"IN"}>>, l)
    BY <1>1, <2>3 DEF LoopSound
  <2>5. k.peer # "open"
    BY <1>2, <1>6, <2>4 DEF Founded
  <2>6. conn' = [conn EXCEPT ![c] = k] /\ Evolved(k, k)
    BY <1>2, <1>6, NotReplaced
  <2>7. \A s \in ToSet(q) : s.op # "handleRead" /\ s.conn = c /\ JustifiedBy(k, s.op)
    BY <1>2, <2>1, <2>5 DEF JustifiedBy
  <2> QED
    BY <1>1, <1>2, <2>1, <2>2, <2>6, <2>7, RunsLawful
<1> QED
  BY <1>3, <1>4, <1>5, <1>6

LEMMA RemoveConnectionLawful ==
  ASSUME Lawful, NEW l \in Loops, RemoveConnection(l)
  PROVE  Lawful'
<1> DEFINE c == Current(l)
           k == conn[c]
           x == Do("removeConnectionInLoop", c)
           remove == <<x>>
           none == <<>>
<1>1. /\ todo[l] # <<>> /\ Head(todo[l]).op = "closeCallback" /\ UNCHANGED conn
      /\ UNCHANGED <<lpc, active, batch, left, userVars, loops_, next_>>
      /\ connections_' = connections_ /\ aborted' = aborted
      /\ \/ Continue(l, remove) /\ UNCHANGED functors
         \/ Queue(BaseLoop, remove) /\ Continue(l, none)
  BY DEF RemoveConnection, IsAt, serverVars
<1>2. /\ c \in Conns /\ k \in ConnType /\ Sound(k) /\ k.made /\ k.peer # "open" /\ TypeOK
      /\ BaseLoop \in Loops /\ connections_ \subseteq Conns /\ aborted \in Assertions
  BY <1>1, AtStep, TcpServerAssumption DEF Lawful, JustifiedBy, TypeOK, ConnTypeOK
<1>3. conn' = [conn EXCEPT ![c] = k] /\ Evolved(k, k)
  BY <1>1, <1>2, NotReplaced
<1>4. /\ remove \in Seq(Step) /\ none \in Seq(Step) /\ ToSet(none) = {}
      /\ \A s \in ToSet(remove) : s.op = "removeConnectionInLoop" /\ s.conn = c
  BY <1>2, Dos, Single, None DEF DoIs
<1> HIDE DEF remove, x
<1>5. \A s \in ToSet(remove) : /\ s.op # "handleRead" /\ s.op \in FunctorOps /\ s.conn = c
                               /\ JustifiedBy(k, s.op)
  BY <1>2, <1>4 DEF JustifiedBy, FunctorOps
<1>6. \E m \in Loops : \E steps, q \in {remove, none} :
         Continue(l, steps) /\ Queue(m, q)
  <2>1. CASE Continue(l, remove) /\ UNCHANGED functors
    <3>1. Queue(BaseLoop, none)
      BY <1>2, <2>1, NothingQueued
    <3> QED
      BY <1>2, <2>1, <3>1
  <2>2. CASE Queue(BaseLoop, remove) /\ Continue(l, none)
    BY <1>2, <2>2
  <2> QED
    BY <1>1, <2>1, <2>2
<1> HIDE DEF none
<1>7. PICK m \in Loops, steps \in {remove, none}, q \in {remove, none} :
        Continue(l, steps) /\ Queue(m, q)
  BY <1>6
<1>8. /\ steps \in Seq(Step) /\ q \in Seq(Step)
      /\ \A s \in ToSet(steps) : s.op # "handleRead" /\ s.conn = c /\ JustifiedBy(k, s.op)
      /\ \A s \in ToSet(q) : s.op \in FunctorOps /\ s.conn = c /\ JustifiedBy(k, s.op)
  BY <1>4, <1>5, <1>7
<1>9. connections_' \subseteq Conns /\ aborted' \in Assertions
  BY <1>1, <1>2
<1> QED
  BY <1>1, <1>2, <1>3, <1>7, <1>8, <1>9, HandlerLawful

LEMMA RemoveConnectionInLoopLawful ==
  ASSUME Lawful, NEW l \in Loops, RemoveConnectionInLoop(l)
  PROVE  Lawful'
<1> DEFINE c == Current(l)
           k == conn[c]
           m == k.loop
           x == Do("connectDestroyed", c)
           q == <<x>>
           none == <<>>
<1>1. /\ todo[l] # <<>> /\ Head(todo[l]).op = "removeConnectionInLoop" /\ UNCHANGED conn
      /\ UNCHANGED <<lpc, active, batch, left, userVars, loops_, next_>>
      /\ connections_' \subseteq connections_
      /\ \/ Queue(m, q) /\ Continue(l, none) /\ UNCHANGED aborted
         \/ aborted' = "removeConnectionInLoop" /\ UNCHANGED <<connections_, functors, todo>>
  BY DEF RemoveConnectionInLoop, IsAt, Abort
<1>2. /\ c \in Conns /\ k \in ConnType /\ Sound(k) /\ k.made /\ k.peer # "open" /\ TypeOK
      /\ connections_ \subseteq Conns /\ aborted \in Assertions
  BY <1>1, AtStep DEF Lawful, JustifiedBy, TypeOK, ConnTypeOK
<1>3. CASE Queue(m, q) /\ Continue(l, none) /\ UNCHANGED aborted
  <2>1. conn' = [conn EXCEPT ![c] = k] /\ Evolved(k, k) /\ m \in Loops
    BY <1>1, <1>2, NotReplaced DEF ConnType
  <2>2. /\ q \in Seq(Step) /\ none \in Seq(Step) /\ ToSet(none) = {}
        /\ \A s \in ToSet(q) : s.op = "connectDestroyed" /\ s.conn = c
    BY <1>2, Dos, Single, None DEF DoIs
  <2>3. Queue(m, q) /\ Continue(l, none)
    BY <1>3
  <2> HIDE DEF q, x, m, none
  <2>4. \A s \in ToSet(q) : s.op \in FunctorOps /\ s.conn = c /\ JustifiedBy(k, s.op)
    BY <1>2, <2>2 DEF JustifiedBy, FunctorOps
  <2>5. \A s \in ToSet(none) : s.op # "handleRead" /\ s.conn = c /\ JustifiedBy(k, s.op)
    BY <2>2
  <2>6. connections_' \subseteq Conns /\ aborted' \in Assertions
    BY <1>1, <1>2, <1>3
  <2> QED
    BY <1>1, <1>2, <2>1, <2>2, <2>3, <2>4, <2>5, <2>6, HandlerLawful
<1>4. CASE aborted' = "removeConnectionInLoop" /\ UNCHANGED <<connections_, functors, todo>>
  <2>1. /\ UNCHANGED <<conn, loopVars, userVars, loops_, next_>>
        /\ connections_' \subseteq Conns /\ aborted' \in Assertions
    BY <1>1, <1>2, <1>4 DEF loopVars, Assertions
  <2> QED
    BY <2>1, AbortLawful
<1> QED
  BY <1>1, <1>3, <1>4

LEMMA UseDestroyedLawful ==
  ASSUME Lawful, NEW l \in Loops, UseDestroyed(l), UNCHANGED serverVars
  PROVE  Lawful'
<1>1. /\ UNCHANGED <<conn, loopVars, userVars, loops_, next_>>
      /\ connections_' \subseteq Conns /\ aborted' \in Assertions
  BY DEF UseDestroyed, Abort, serverVars, Assertions, Lawful, TypeOK, ConnTypeOK
<1> QED
  BY <1>1, AbortLawful

-----------------------------------------------------------------------------
(* The application's threads and the peer.                                 *)

\* A step outside the loops.
LEMMA OutsideLawful ==
  ASSUME Lawful, NEW c \in Conns, NEW k2 \in ConnType, Sound(k2), Evolved(conn[c], k2),
         conn' = [conn EXCEPT ![c] = k2],
         NEW m \in Loops, NEW q \in Seq(Step), Queue(m, q),
         \A s \in ToSet(q) : s.op \in FunctorOps /\ Justified(s)',
         UNCHANGED <<lpc, active, todo, batch, left, aborted, serverVars>>,
         ucall' \in [Users -> {NoCall} \cup [op : {"sendInLoop", "shutdownInLoop"}, conn : Conns]],
         uref' \in [Users -> SUBSET Conns],
         \A u \in Users : ucall'[u] = ucall[u] \/ ucall'[u] = NoCall \/ Justified(ucall[u])'
  PROVE  Lawful'
<1>1. TypeOK
  BY DEF Lawful
<1>2. /\ conn' \in [Conns -> ConnType] /\ conn'[c] = k2
      /\ \A d \in Conns : d # c => conn'[d] = conn[d]
      /\ \A d \in Conns : Sound(conn[d])'
  BY Replaced
<1>3. /\ functors' \in [Loops -> Seq(Step)]
      /\ ToSet(functors'[m]) = ToSet(functors[m]) \cup ToSet(q)
      /\ \A x \in Loops : x # m => functors'[x] = functors[x]
  BY <1>1, Queued
<1>4. TypeOK'
  BY <1>1, <1>2, <1>3 DEF TypeOK, ConnTypeOK, serverVars
<1>5. \A d \in Conns : Evolved(conn[d], conn[d]')
  <2>1. ASSUME NEW d \in Conns PROVE Evolved(conn[d], conn'[d])
    <3>1. CASE d = c
      BY <1>2, <3>1
    <3>2. CASE d # c
      BY <1>2, <3>2 DEF Evolved, Grown
    <3> QED
      BY <3>1, <3>2
  <2> QED
    BY <2>1
<1>6. \A d \in Conns : Grown(conn[d], conn[d]') /\ (conn[d].unread > 0 => conn[d].unread' > 0)
  BY <1>5 DEF Evolved
<1>7. \A x \in Loops : OneRead(todo'[x])
  BY DEF Lawful, LoopSound
<1>8. ASSUME NEW x \in Loops, NEW s \in ToSet(functors'[x]) \cup ToSet(left'[x])
      PROVE  \/ s \in ToSet(functors[x]) \cup ToSet(left[x])
             \/ Justified(s)' /\ s.op \in FunctorOps
  <2>1. left' = left
    OBVIOUS
  <2> QED
    BY <1>3, <1>8, <2>1
<1>9. /\ \A x \in Loops : active'[x] \subseteq active[x]
      /\ \A x \in Loops : \A s \in ToSet(todo'[x]) : s \in ToSet(todo[x])
  OBVIOUS
<1> QED
  BY <1>2, <1>4, <1>6, <1>7, <1>8, <1>9, StaysLawful

\* What the peer and the kernel do to a connection.
LEMMA PeerLawful ==
  ASSUME Lawful, NEW c \in Conns, Peer(c), UNCHANGED serverVars
  PROVE  Lawful'
<1> DEFINE k == conn[c]
           q == <<>>
<1>1. TypeOK /\ k \in ConnType /\ Sound(k) /\ k.loop \in Loops
  BY DEF Lawful, TypeOK, ConnTypeOK, ConnType
<1>2. PICK k2 : /\ conn' = [conn EXCEPT ![c] = k2]
                /\ \/ k2 = DataCame(k) \/ k2 = RoomMade(k)
                   \/ k2 = PeerClosed(k) /\ k.peer = "open"
                   \/ k2 = PeerReset(k)
  <2>1. CASE PeerSends(c)
    BY <2>1 DEF PeerSends, DataCame
  <2>2. CASE PeerReads(c)
    BY <2>2 DEF PeerReads, RoomMade
  <2>3. CASE PeerCloses(c)
    BY <2>3 DEF PeerCloses, PeerClosed
  <2>4. CASE PeerResets(c)
    BY <2>4 DEF PeerResets, PeerReset
  <2> QED
    BY <2>1, <2>2, <2>3, <2>4 DEF Peer
<1>3. k2 \in ConnType /\ Sound(k2) /\ Evolved(k, k2)
  BY <1>1, <1>2, PeerIs
<1>4. UNCHANGED <<lpc, active, todo, functors, batch, left, ucall, uref, aborted>>
  BY DEF Peer, PeerSends, PeerReads, PeerCloses, PeerResets, loopVars, userVars
<1>5. Queue(k.loop, q) /\ q \in Seq(Step) /\ ToSet(q) = {}
  BY <1>1, <1>4, NothingQueued
<1> HIDE DEF q
<1>6. \A s \in ToSet(q) : s.op \in FunctorOps /\ Justified(s)'
  BY <1>5
<1>7. /\ ucall' \in [Users -> {NoCall} \cup [op : {"sendInLoop", "shutdownInLoop"}, conn : Conns]]
      /\ uref' \in [Users -> SUBSET Conns] /\ \A u \in Users : ucall'[u] = ucall[u]
  BY <1>1, <1>4 DEF TypeOK, ConnTypeOK
<1> QED
  BY <1>1, <1>2, <1>3, <1>4, <1>5, <1>6, <1>7, OutsideLawful

\* A step that changes what the user threads hold and nothing else.
LEMMA HoldingLawful ==
  ASSUME Lawful, NEW c \in Conns, UNCHANGED <<conn, loopVars, aborted, serverVars>>,
         ucall' \in [Users -> {NoCall} \cup [op : {"sendInLoop", "shutdownInLoop"}, conn : Conns]],
         uref' \in [Users -> SUBSET Conns],
         \A u \in Users : ucall'[u] = ucall[u] \/ ucall'[u] = NoCall \/ Justified(ucall[u])'
  PROVE  Lawful'
<1> DEFINE k == conn[c]
           q == <<>>
<1>1. TypeOK /\ k \in ConnType /\ Sound(k) /\ k.loop \in Loops
  BY DEF Lawful, TypeOK, ConnTypeOK, ConnType
<1>2. UNCHANGED <<lpc, active, todo, functors, batch, left, conn, aborted, serverVars>>
  BY DEF loopVars
<1>3. conn' = [conn EXCEPT ![c] = k] /\ Evolved(k, k)
  BY <1>1, <1>2, NotReplaced
<1>4. Queue(k.loop, q) /\ q \in Seq(Step) /\ ToSet(q) = {}
  BY <1>1, <1>2, NothingQueued
<1> HIDE DEF q
<1>5. \A s \in ToSet(q) : s.op \in FunctorOps /\ Justified(s)'
  BY <1>4
<1> QED
  BY <1>1, <1>2, <1>3, <1>4, <1>5, OutsideLawful

LEMMA AppSharesLawful ==
  ASSUME Lawful, NEW l \in Loops, NEW u \in Users, AppShares(l, u), UNCHANGED serverVars
  PROVE  Lawful'
<1>1. TypeOK /\ todo[l] # <<>> /\ Current(l) \in Conns
  BY AtStep DEF AppShares, IsAt, Lawful
<1>2. UNCHANGED <<conn, loopVars, aborted, serverVars>> /\ ucall' = ucall
      /\ uref' = [uref EXCEPT ![u] = @ \cup {Current(l)}]
  BY DEF AppShares
<1>3. /\ ucall' \in [Users -> {NoCall} \cup [op : {"sendInLoop", "shutdownInLoop"}, conn : Conns]]
      /\ uref' \in [Users -> SUBSET Conns]
  BY <1>1, <1>2 DEF TypeOK, ConnTypeOK
<1> QED
  BY <1>1, <1>2, <1>3, HoldingLawful

LEMMA UserReleasesLawful ==
  ASSUME Lawful, NEW u \in Users, NEW c \in Conns, UserReleases(u, c), UNCHANGED serverVars
  PROVE  Lawful'
<1>1. UNCHANGED <<conn, loopVars, aborted, serverVars>> /\ ucall' = ucall
      /\ uref' = [uref EXCEPT ![u] = @ \ {c}]
  BY DEF UserReleases
<1>2. /\ ucall' \in [Users -> {NoCall} \cup [op : {"sendInLoop", "shutdownInLoop"}, conn : Conns]]
      /\ uref' \in [Users -> SUBSET Conns]
  BY <1>1 DEF Lawful, TypeOK, ConnTypeOK
<1> QED
  BY <1>1, <1>2, HoldingLawful

LEMMA UserTestsStateLawful ==
  ASSUME Lawful, NEW u \in Users, NEW c \in Conns,
         UserTestsState(u, c, "sendInLoop") \/ UserTestsState(u, c, "shutdownInLoop"),
         UNCHANGED serverVars
  PROVE  Lawful'
<1>1. PICK op \in {"sendInLoop", "shutdownInLoop"} :
        ucall' = [ucall EXCEPT ![u] = Do(op, c)]
  BY DEF UserTestsState
<1>2. UNCHANGED <<conn, loopVars, aborted, serverVars>> /\ uref' = uref
      /\ conn[c].state = "kConnected"
  BY DEF UserTestsState
<1>3. ucall \in [Users -> {NoCall} \cup [op : {"sendInLoop", "shutdownInLoop"}, conn : Conns]]
      /\ uref \in [Users -> SUBSET Conns] /\ Sound(conn[c])
  BY DEF Lawful, TypeOK, ConnTypeOK
<1> DEFINE d == Do(op, c)
<1>4. d.op = op /\ d.conn = c /\ d \in [op : {"sendInLoop", "shutdownInLoop"}, conn : Conns]
  BY DEF Do
<1> HIDE DEF d
<1>5. /\ ucall' \in [Users -> {NoCall} \cup [op : {"sendInLoop", "shutdownInLoop"}, conn : Conns]]
      /\ uref' \in [Users -> SUBSET Conns]
      /\ ucall'[u] = d /\ \A v \in Users : v # u => ucall'[v] = ucall[v]
  BY <1>1, <1>2, <1>3, <1>4 DEF d
<1>6. Justified(ucall[u])'
  <2>1. conn'[c].made /\ conn'[c].state # "kConnecting"
    BY <1>2, <1>3 DEF Sound
  <2>2. op \notin {"handleClose", "closeCallback", "removeConnectionInLoop", "connectDestroyed"}
    BY <1>1
  <2> QED
    BY <1>4, <1>5, <2>1, <2>2 DEF Justified
<1>7. \A v \in Users : ucall'[v] = ucall[v] \/ ucall'[v] = NoCall \/ Justified(ucall[v])'
  BY <1>5, <1>6
<1> QED
  BY <1>2, <1>5, <1>7, HoldingLawful

LEMMA UserQueuesLawful ==
  ASSUME Lawful, NEW u \in Users, UserQueues(u), UNCHANGED serverVars
  PROVE  Lawful'
<1> PICK s : s = ucall[u]
  OBVIOUS
<1> DEFINE c == s.conn
           k == conn[c]
           q == <<s>>
<1>1. /\ s # NoCall
      /\ conn' = IF s.op = "shutdownInLoop" THEN [conn EXCEPT ![c] = Shut(k)] ELSE conn
      /\ Queue(k.loop, q) /\ ucall' = [ucall EXCEPT ![u] = NoCall]
      /\ UNCHANGED <<lpc, active, todo, batch, left, aborted, serverVars>> /\ uref' = uref
  BY DEF UserQueues, Shut
<1>2. /\ TypeOK /\ s \in [op : {"sendInLoop", "shutdownInLoop"}, conn : Conns] /\ Justified(s)
      /\ ucall \in [Users -> {NoCall} \cup [op : {"sendInLoop", "shutdownInLoop"}, conn : Conns]]
      /\ uref \in [Users -> SUBSET Conns]
  BY <1>1 DEF Lawful, TypeOK, ConnTypeOK
<1>3. /\ s \in Step /\ c \in Conns /\ s.op \in FunctorOps
      /\ s.op \in {"sendInLoop", "shutdownInLoop"}
  BY <1>2 DEF Step, RawOps, FunctorOps
<1>4. k \in ConnType /\ Sound(k) /\ k.state # "kConnecting" /\ k.loop \in Loops
  BY <1>2, <1>3 DEF Lawful, TypeOK, ConnTypeOK, Justified, ConnType
<1>5. q \in Seq(Step) /\ ToSet(q) = {s}
  BY <1>3, Single
<1> HIDE DEF q
<1>6. PICK k2 \in ConnType : Sound(k2) /\ Evolved(k, k2) /\ conn' = [conn EXCEPT ![c] = k2]
  <2>1. CASE s.op = "shutdownInLoop"
    <3>1. Shut(k) \in ConnType /\ Sound(Shut(k)) /\ Evolved(k, Shut(k))
      BY <1>4, ShutIs
    <3> QED
      BY <1>1, <2>1, <3>1
  <2>2. CASE s.op # "shutdownInLoop"
    <3>1. UNCHANGED conn
      BY <1>1, <2>2
    <3>2. conn' = [conn EXCEPT ![c] = k] /\ Evolved(k, k)
      BY <1>2, <1>3, <3>1, NotReplaced
    <3> QED
      BY <1>4, <3>2
  <2> QED
    BY <2>1, <2>2
<1>7. Justified(s)'
  <2>1. conn'[c] = k2
    BY <1>2, <1>3, <1>6 DEF TypeOK, ConnTypeOK
  <2> QED
    BY <1>2, <1>6, <2>1 DEF Justified, Evolved, Grown
<1>8. /\ ucall' \in [Users -> {NoCall} \cup [op : {"sendInLoop", "shutdownInLoop"}, conn : Conns]]
      /\ \A v \in Users : ucall'[v] = ucall[v] \/ ucall'[v] = NoCall
      /\ uref' \in [Users -> SUBSET Conns]
  BY <1>1, <1>2
<1>9. \A x \in ToSet(q) : x.op \in FunctorOps /\ Justified(x)'
  BY <1>3, <1>5, <1>7
<1> QED
  BY <1>1, <1>3, <1>4, <1>5, <1>6, <1>8, <1>9, OutsideLawful

-----------------------------------------------------------------------------
(* The loops.                                                              *)

\* A step of one loop that leaves the connections and the threads alone.
LEMMA OneLoopLawful ==
  ASSUME Lawful, NEW l \in Loops, TypeOK', UNCHANGED <<conn, userVars>>,
         \A m \in Loops : m # l => /\ todo'[m] = todo[m] /\ functors'[m] = functors[m]
                                   /\ left'[m] = left[m] /\ active'[m] = active[m],
         LoopSound(l)'
  PROVE  Lawful'
<1>1. conn' = conn /\ ucall' = ucall
  BY DEF userVars
<1>2. \A s : Justified(s) => Justified(s)'
  BY <1>1 DEF Justified
<1>3. \A r, m : Founded(r, m) => Founded(r, m)'
  BY <1>1 DEF Founded
<1>4. \A m \in Loops : LoopSound(m)'
  <2> SUFFICES ASSUME NEW m \in Loops, m # l PROVE LoopSound(m)'
    OBVIOUS
  <2>1. LoopSound(m)
    BY DEF Lawful
  <2>2. /\ todo'[m] = todo[m] /\ functors'[m] = functors[m]
        /\ left'[m] = left[m] /\ active'[m] = active[m]
    OBVIOUS
  <2> QED
    BY <1>2, <1>3, <2>1, <2>2 DEF LoopSound
<1>5. (\A c \in Conns : Sound(conn[c]))' /\ \A u \in Users : ucall'[u] # NoCall => Justified(ucall[u])'
  <2>1. \A c \in Conns : Sound(conn[c])
    BY DEF Lawful
  <2>2. \A u \in Users : ucall[u] # NoCall => Justified(ucall[u])
    BY DEF Lawful
  <2> QED
    BY <1>1, <2>1, <2>2 DEF Justified
<1> QED
  BY <1>4, <1>5 DEF Lawful

\* Whoever is held is a connection.
LEMMA AliveIs ==
  ASSUME TypeOK
  PROVE  Alive \subseteq Conns
<1>1. ASSUME NEW t \in Seq(Step), NEW c \in Held(t) PROVE c \in Conns
  <2>1. PICK s \in ToSet(t) : s.conn = c
    BY <1>1 DEF Held
  <2>2. s \in Step
    BY <2>1 DEF ToSet
  <2> QED
    BY <2>1, <2>2 DEF Step
<1>2. ASSUME NEW l \in Loops
      PROVE  Held(todo[l]) \cup Held(functors[l]) \cup Held(batch[l]) \subseteq Conns
  <2>1. todo[l] \in Seq(Step) /\ functors[l] \in Seq(Step) /\ batch[l] \in Seq(Step)
    BY DEF TypeOK, ConnTypeOK
  <2> QED
    BY <1>1, <2>1
<1>3. connections_ \subseteq Conns /\ \A u \in Users : uref[u] \subseteq Conns
  BY DEF TypeOK, ConnTypeOK
<1> DEFINE A == UNION {Held(todo[l]) \cup Held(functors[l]) \cup Held(batch[l]) : l \in Loops}
           B == UNION {uref[u] : u \in Users}
<1>4. A \subseteq Conns
  <2>1. ASSUME NEW S \in {Held(todo[l]) \cup Held(functors[l]) \cup Held(batch[l]) : l \in Loops}
        PROVE  S \subseteq Conns
    <3>1. PICK l \in Loops : S = Held(todo[l]) \cup Held(functors[l]) \cup Held(batch[l])
      OBVIOUS
    <3> QED
      BY <1>2, <3>1
  <2> QED
    BY <2>1
<1>5. B \subseteq Conns
  BY <1>3
<1>6. Alive = (connections_ \cup A) \cup B
  BY Zenon DEF Alive
<1> HIDE DEF A, B
<1> QED
  BY <1>3, <1>4, <1>5, <1>6

\* What epoll reports of a connection is so.
LEMMA ReportsAre ==
  ASSUME Lawful, NEW l \in Loops
  PROVE  /\ Reports(l) \subseteq Conns \X SUBSET Revents
         /\ \A r \in Reports(l) : /\ Founded(r, l) /\ r[1] \in Alive
                                  /\ conn[r[1]].channel.registered
         /\ \A r1, r2 \in Reports(l) : r1[1] = r2[1] => r1 = r2
<1>1. Alive \subseteq Conns
  BY AliveIs DEF Lawful
<1>2. \A k : /\ ReventsOf(k) \in SUBSET Revents
             /\ "IN" \in ReventsOf(k) => k.unread > 0 \/ k.peer # "open"
             /\ "HUP" \in ReventsOf(k) => k.peer # "open"
  <2> TAKE k
  <2> DEFINE a == IF "read" \in k.channel.interest /\ (k.unread > 0 \/ k.peer # "open")
                  THEN {"IN"} ELSE {}
             b == IF "write" \in k.channel.interest
                     /\ (k.room > 0 \/ k.shutWr \/ k.peer = "reset")
                  THEN {"OUT"} ELSE {}
             h == IF k.peer = "reset" \/ (k.peer = "closed" /\ k.shutWr) THEN {"HUP"} ELSE {}
             e == IF k.err THEN {"ERR"} ELSE {}
  <2>1. ReventsOf(k) = a \cup b \cup h \cup e
    BY DEF ReventsOf
  <2>2. /\ a \subseteq {"IN"} /\ b \subseteq {"OUT"} /\ h \subseteq {"HUP"} /\ e \subseteq {"ERR"}
        /\ "IN" \in a => k.unread > 0 \/ k.peer # "open"
        /\ "HUP" \in h => k.peer # "open"
    OBVIOUS
  <2> HIDE DEF a, b, h, e
  <2> QED
    BY <2>1, <2>2 DEF Revents
<1>3. ASSUME NEW r \in Reports(l)
      PROVE  /\ r \in Conns \X SUBSET Revents /\ Founded(r, l)
             /\ r = <<r[1], ReventsOf(conn[r[1]])>> /\ r[1] \in Alive
             /\ conn[r[1]].channel.registered
  <2>1. PICK c \in Alive : /\ r = <<c, ReventsOf(conn[c])>> /\ conn[c].loop = l
                           /\ conn[c].channel.registered
    BY <1>3 DEF Reports
  <2>2. c \in Conns /\ Sound(conn[c])
    BY <1>1, <2>1 DEF Lawful
  <2>3. conn[c].made
    BY <2>1, <2>2 DEF Sound, NewChannel
  <2> DEFINE e == ReventsOf(conn[c])
  <2>4. e \in SUBSET Revents /\ r[1] = c /\ r[2] = e /\ r = <<c, e>>
    BY <1>2, <2>1
  <2>5. /\ "IN" \in e => conn[c].unread > 0 \/ conn[c].peer # "open"
        /\ "HUP" \in e => conn[c].peer # "open"
    BY <1>2
  <2> HIDE DEF e
  <2> QED
    BY <2>1, <2>2, <2>3, <2>4, <2>5 DEF Founded, e
<1> QED
  BY <1>3

LEMMA PollLawful ==
  ASSUME Lawful, NEW l \in Loops, Poll(l), UNCHANGED serverVars
  PROVE  Lawful'
<1>1. /\ TypeOK /\ todo[l] = <<>> /\ active' = [active EXCEPT ![l] = Reports(l)]
      /\ UNCHANGED <<conn, todo, functors, batch, left, userVars, aborted, serverVars>>
      /\ lpc' = [lpc EXCEPT ![l] = "dispatch"]
  BY DEF Poll, Idle, Lawful
<1> DEFINE R == Reports(l)
<1>2. /\ R \subseteq Conns \X SUBSET Revents /\ \A r \in R : Founded(r, l)
      /\ \A r1, r2 \in R : r1[1] = r2[1] => r1 = r2
  BY ReportsAre
<1> HIDE DEF R
<1>3. active' \in [Loops -> SUBSET (Conns \X SUBSET Revents)] /\ active'[l] = R
      /\ \A m \in Loops : m # l => active'[m] = active[m]
  BY <1>1, <1>2 DEF TypeOK, ConnTypeOK, R
<1>4. TypeOK'
  BY <1>1, <1>3 DEF TypeOK, ConnTypeOK, userVars, serverVars
<1>5. \A s : Justified(s) => Justified(s)'
  BY <1>1 DEF Justified
<1>6. \A r, m : Founded(r, m) => Founded(r, m)'
  BY <1>1 DEF Founded
<1>7. LoopSound(l) /\ ToSet(todo[l]) = {} /\ todo'[l] = todo[l] /\ functors'[l] = functors[l] /\ left'[l] = left[l]
  BY <1>1, None DEF Lawful
<1>8. LoopSound(l)'
  BY <1>2, <1>3, <1>5, <1>6, <1>7 DEF LoopSound
<1>9. \A m \in Loops : m # l => /\ todo'[m] = todo[m] /\ functors'[m] = functors[m]
                                /\ left'[m] = left[m] /\ active'[m] = active[m]
  BY <1>1, <1>3
<1> QED
  BY <1>1, <1>4, <1>8, <1>9, OneLoopLawful

LEMMA DispatchLawful ==
  ASSUME Lawful, NEW l \in Loops, Dispatch(l), UNCHANGED serverVars
  PROVE  Lawful'
<1>1. PICK r \in active[l] : /\ active' = [active EXCEPT ![l] = @ \ {r}]
                             /\ todo' = [todo EXCEPT ![l] = Handlers(r[2], r[1])]
  BY DEF Dispatch, Handlers
<1>2. /\ TypeOK /\ LoopSound(l)
      /\ UNCHANGED <<conn, lpc, functors, batch, left, userVars, aborted, serverVars>>
  BY DEF Dispatch, Lawful
<1>3. r[1] \in Conns /\ r[2] \in SUBSET Revents
  BY <1>2 DEF TypeOK, ConnTypeOK
<1> DEFINE h == Handlers(r[2], r[1])
<1>4. /\ h \in Seq(Step) /\ OneRead(h)
      /\ \A s \in ToSet(h) : /\ s \in Step /\ s.conn = r[1] /\ s.op \in HandlerNames
                             /\ s.op = "handleRead" => "IN" \in r[2]
                             /\ s.op = "handleClose" => "HUP" \in r[2]
  BY <1>3, HandlersAre
<1>5. todo' = [todo EXCEPT ![l] = h]
  BY <1>1
<1> HIDE DEF h
<1>6. /\ todo' \in [Loops -> Seq(Step)] /\ todo'[l] = h
      /\ \A m \in Loops : m # l => todo'[m] = todo[m]
  BY <1>2, <1>4, <1>5 DEF TypeOK, ConnTypeOK
<1>7. /\ active' \in [Loops -> SUBSET (Conns \X SUBSET Revents)] /\ active'[l] = active[l] \ {r}
      /\ \A m \in Loops : m # l => active'[m] = active[m]
  BY <1>1, <1>2 DEF TypeOK, ConnTypeOK
<1>8. TypeOK'
  BY <1>2, <1>6, <1>7 DEF TypeOK, ConnTypeOK, userVars, serverVars
<1>9. \A s : Justified(s) => Justified(s)'
  BY <1>2 DEF Justified
<1>10. \A x, m : Founded(x, m) => Founded(x, m)'
  BY <1>2 DEF Founded
<1>11. Founded(r, l) /\ \A x \in active[l] : x[1] = r[1] => x = r
  BY <1>2 DEF LoopSound
<1>12. ASSUME NEW s \in ToSet(h)
       PROVE  /\ Justified(s)
              /\ s.op = "handleRead" => /\ Founded(<<s.conn, {"IN"}>>, l)
                                        /\ \A x \in active'[l] : x[1] # s.conn
  <2>1. /\ s.conn = r[1] /\ s.op \in HandlerNames
        /\ s.op = "handleRead" => "IN" \in r[2]
        /\ s.op = "handleClose" => "HUP" \in r[2]
    BY <1>4
  <2>2. Justified(s)
    BY <1>11, <2>1 DEF Justified, Founded, HandlerNames
  <2>3. ASSUME s.op = "handleRead" PROVE Founded(<<s.conn, {"IN"}>>, l)
    BY <1>11, <2>1, <2>3 DEF Founded
  <2>4. \A x \in active'[l] : x[1] # s.conn
    BY <1>7, <1>11, <2>1
  <2> QED
    BY <2>2, <2>3, <2>4
<1>13. UNCHANGED <<functors, left>>
  BY <1>2
<1>14. \A s \in ToSet(functors'[l]) \cup ToSet(left'[l]) : Justified(s)' /\ s.op \in FunctorOps
  BY <1>2, <1>9, <1>13 DEF LoopSound
<1>15. /\ \A x \in active'[l] : Founded(x, l)'
       /\ \A x, y \in active'[l] : x[1] = y[1] => x = y
  BY <1>2, <1>7, <1>10 DEF LoopSound
<1>16. \A s \in ToSet(todo'[l]) :
         /\ Justified(s)'
         /\ s.op = "handleRead" => /\ Founded(<<s.conn, {"IN"}>>, l)'
                                   /\ \A x \in active'[l] : x[1] # s.conn
  BY <1>6, <1>9, <1>10, <1>12
<1>17. LoopSound(l)'
  BY <1>4, <1>6, <1>14, <1>15, <1>16 DEF LoopSound
<1>18. \A m \in Loops : m # l => /\ todo'[m] = todo[m] /\ functors'[m] = functors[m]
                                 /\ left'[m] = left[m] /\ active'[m] = active[m]
  BY <1>6, <1>7, <1>13
<1> QED
  BY <1>2, <1>8, <1>17, <1>18, OneLoopLawful

\* A step of a loop that only passes functors on.
LEMMA PassesLawful ==
  ASSUME Lawful, NEW l \in Loops, UNCHANGED <<conn, active, userVars, aborted, serverVars>>,
         lpc' \in [Loops -> {"poll", "dispatch", "functors"}],
         batch' \in [Loops -> Seq(Step)],
         todo' \in [Loops -> Seq(Step)], functors' \in [Loops -> Seq(Step)],
         left' \in [Loops -> Seq(Step)],
         \A m \in Loops : m # l => /\ todo'[m] = todo[m] /\ functors'[m] = functors[m]
                                   /\ left'[m] = left[m],
         OneRead(todo'[l]),
         \A s \in ToSet(todo'[l]) \cup ToSet(functors'[l]) \cup ToSet(left'[l]) :
           s \in ToSet(functors[l]) \cup ToSet(left[l])
  PROVE  Lawful'
<1>1. TypeOK /\ LoopSound(l)
  BY DEF Lawful
<1>2. TypeOK'
  BY <1>1 DEF TypeOK, ConnTypeOK, userVars, serverVars
<1>3. \A s : Justified(s) => Justified(s)'
  BY DEF Justified
<1>4. \A x, m : Founded(x, m) => Founded(x, m)'
  BY DEF Founded
<1>5. \A s \in ToSet(functors[l]) \cup ToSet(left[l]) :
        Justified(s)' /\ s.op \in FunctorOps /\ s.op # "handleRead"
  BY <1>1, <1>3 DEF LoopSound, FunctorOps
<1>6. /\ \A r \in active'[l] : Founded(r, l)'
      /\ \A r1, r2 \in active'[l] : r1[1] = r2[1] => r1 = r2
  BY <1>1, <1>4 DEF LoopSound
<1>7. LoopSound(l)'
  BY <1>5, <1>6 DEF LoopSound
<1> QED
  BY <1>2, <1>7, OneLoopLawful

LEMMA SwapPendingLawful ==
  ASSUME Lawful, NEW l \in Loops, SwapPending(l), UNCHANGED serverVars
  PROVE  Lawful'
<1>1. /\ TypeOK /\ todo[l] = <<>> /\ UNCHANGED <<conn, active, todo, userVars, aborted, serverVars>>
      /\ lpc' = [lpc EXCEPT ![l] = "functors"] /\ batch' = [batch EXCEPT ![l] = functors[l]]
      /\ left' = [left EXCEPT ![l] = functors[l]] /\ functors' = [functors EXCEPT ![l] = <<>>]
  BY DEF SwapPending, Idle, Lawful
<1>2. /\ functors[l] \in Seq(Step) /\ <<>> \in Seq(Step) /\ ToSet(<<>>) = {}
      /\ functors \in [Loops -> Seq(Step)] /\ left \in [Loops -> Seq(Step)]
      /\ batch \in [Loops -> Seq(Step)] /\ todo \in [Loops -> Seq(Step)]
      /\ lpc \in [Loops -> {"poll", "dispatch", "functors"}]
  BY <1>1, None DEF TypeOK, ConnTypeOK
<1>3. /\ functors' \in [Loops -> Seq(Step)] /\ left' \in [Loops -> Seq(Step)]
      /\ batch' \in [Loops -> Seq(Step)] /\ todo' \in [Loops -> Seq(Step)]
      /\ lpc' \in [Loops -> {"poll", "dispatch", "functors"}]
  BY <1>1, <1>2
<1>4. /\ functors'[l] = <<>> /\ left'[l] = functors[l] /\ todo'[l] = <<>>
      /\ \A m \in Loops : m # l => /\ todo'[m] = todo[m] /\ functors'[m] = functors[m]
                                   /\ left'[m] = left[m]
  BY <1>1, <1>2
<1>5. OneRead(todo'[l])
  BY <1>1 DEF Lawful, LoopSound
<1>6. \A s \in ToSet(todo'[l]) \cup ToSet(functors'[l]) \cup ToSet(left'[l]) :
        s \in ToSet(functors[l]) \cup ToSet(left[l])
  BY <1>2, <1>4
<1> QED
  BY <1>1, <1>3, <1>4, <1>5, <1>6, PassesLawful

LEMMA RunFunctorLawful ==
  ASSUME Lawful, NEW l \in Loops, RunFunctor(l), UNCHANGED serverVars
  PROVE  Lawful'
<1> DEFINE h == Head(left[l])
           q == <<h>>
<1>1. /\ TypeOK /\ left[l] # <<>>
      /\ UNCHANGED <<conn, lpc, active, functors, batch, userVars, aborted, serverVars>>
      /\ todo' = [todo EXCEPT ![l] = q] /\ left' = [left EXCEPT ![l] = Tail(@)]
  BY DEF RunFunctor, Lawful
<1>2. /\ functors \in [Loops -> Seq(Step)] /\ left \in [Loops -> Seq(Step)]
      /\ batch \in [Loops -> Seq(Step)] /\ todo \in [Loops -> Seq(Step)]
      /\ lpc \in [Loops -> {"poll", "dispatch", "functors"}] /\ left[l] \in Seq(Step)
  BY <1>1 DEF TypeOK, ConnTypeOK
<1>3. /\ h \in Step /\ Tail(left[l]) \in Seq(Step)
      /\ ToSet(left[l]) = {h} \cup ToSet(Tail(left[l]))
  BY <1>1, <1>2, Taken
<1>4. q \in Seq(Step) /\ ToSet(q) = {h} /\ OneRead(q)
  <2>1. DOMAIN q = {1}
    OBVIOUS
  <2>2. OneRead(q)
    BY <2>1 DEF OneRead
  <2> QED
    BY <1>3, <2>2, Single
<1> HIDE DEF q, h
<1>5. /\ functors' \in [Loops -> Seq(Step)] /\ left' \in [Loops -> Seq(Step)]
      /\ batch' \in [Loops -> Seq(Step)] /\ todo' \in [Loops -> Seq(Step)]
      /\ lpc' \in [Loops -> {"poll", "dispatch", "functors"}]
  BY <1>1, <1>2, <1>3, <1>4
<1>6. /\ functors'[l] = functors[l] /\ left'[l] = Tail(left[l]) /\ todo'[l] = q
      /\ \A m \in Loops : m # l => /\ todo'[m] = todo[m] /\ functors'[m] = functors[m]
                                   /\ left'[m] = left[m]
  BY <1>1, <1>2
<1>7. \A s \in ToSet(todo'[l]) \cup ToSet(functors'[l]) \cup ToSet(left'[l]) :
        s \in ToSet(functors[l]) \cup ToSet(left[l])
  BY <1>3, <1>4, <1>6
<1> QED
  BY <1>1, <1>4, <1>5, <1>6, <1>7, PassesLawful

LEMMA FunctorsDoneLawful ==
  ASSUME Lawful, NEW l \in Loops, FunctorsDone(l), UNCHANGED serverVars
  PROVE  Lawful'
<1>1. /\ TypeOK /\ todo[l] = <<>>
      /\ UNCHANGED <<conn, active, todo, functors, left, userVars, aborted, serverVars>>
      /\ lpc' = [lpc EXCEPT ![l] = "poll"] /\ batch' = [batch EXCEPT ![l] = <<>>]
  BY DEF FunctorsDone, Idle, Lawful
<1>2. /\ functors \in [Loops -> Seq(Step)] /\ left \in [Loops -> Seq(Step)]
      /\ batch \in [Loops -> Seq(Step)] /\ todo \in [Loops -> Seq(Step)]
      /\ lpc \in [Loops -> {"poll", "dispatch", "functors"}]
      /\ <<>> \in Seq(Step) /\ ToSet(<<>>) = {} /\ OneRead(todo[l])
  BY <1>1, None DEF TypeOK, ConnTypeOK, Lawful, LoopSound
<1>3. batch' \in [Loops -> Seq(Step)] /\ lpc' \in [Loops -> {"poll", "dispatch", "functors"}]
  BY <1>1, <1>2
<1>4. \A s \in ToSet(todo'[l]) \cup ToSet(functors'[l]) \cup ToSet(left'[l]) :
        s \in ToSet(functors[l]) \cup ToSet(left[l])
  BY <1>1, <1>2
<1>5. todo' = todo /\ functors' = functors /\ left' = left
  BY <1>1
<1> QED
  BY <1>1, <1>2, <1>3, <1>4, <1>5, PassesLawful

\* A new connection goes to a loop.
LEMMA LoopChosen ==
  ASSUME TypeOK
  PROVE  getNextLoop \in Loops
<1>1. Pools \subseteq Seq(Loops \ {BaseLoop}) /\ BaseLoop \in Loops
  BY TcpServerAssumption
<1>2. CASE loops_ = <<>>
  BY <1>1, <1>2 DEF getNextLoop
<1>3. CASE loops_ # <<>>
  <2>1. loops_ \in Seq(Loops \ {BaseLoop}) /\ next_ \in 0 .. Len(loops_) /\ next_ < Len(loops_)
    BY <1>1, <1>3 DEF TypeOK
  <2>2. Len(loops_) \in Nat /\ \A i \in 1 .. Len(loops_) : loops_[i] \in Loops
    BY <2>1
  <2>3. next_ + 1 \in 1 .. Len(loops_)
    BY <2>1, <2>2
  <2> QED
    BY <1>3, <2>2, <2>3 DEF getNextLoop
<1> QED
  BY <1>2, <1>3

LEMMA NewConnectionLawful ==
  ASSUME Lawful, NEW c \in Conns, NewConnection(c)
  PROVE  Lawful'
<1> DEFINE l == getNextLoop
           k == conn[c]
           k2 == [k EXCEPT !.made = TRUE, !.loop = l]
           x == Do("connectEstablished", c)
           q == <<x>>
<1>1. /\ TypeOK /\ todo[BaseLoop] = <<>> /\ ~k.made
      /\ conn' = [conn EXCEPT ![c] = k2]
      /\ next_' = IF loops_ = <<>> THEN next_ ELSE (next_ + 1) % Len(loops_)
      /\ connections_' = connections_ \cup {c}
      /\ \/ l = BaseLoop /\ todo' = [todo EXCEPT ![l] = q] /\ UNCHANGED functors
         \/ Queue(l, q) /\ UNCHANGED todo
      /\ UNCHANGED <<lpc, active, batch, left, userVars, aborted, loops_>>
  BY DEF NewConnection, Idle, Lawful
<1>2. l \in Loops /\ BaseLoop \in Loops
  BY <1>1, LoopChosen, TcpServerAssumption
<1>3. k \in ConnType /\ Sound(k)
  BY <1>1 DEF Lawful, TypeOK, ConnTypeOK
<1> HIDE DEF l
<1>4. /\ k2 \in ConnType /\ k2.made /\ k2.state = k.state /\ k2.peer = k.peer
      /\ k2.unread = k.unread /\ k2.channel = k.channel /\ k2.outputBuffer = k.outputBuffer
      /\ k2.written = k.written /\ k2.sent = k.sent /\ k2.err = k.err
  BY <1>2, <1>3 DEF ConnType
<1>5. /\ x \in Step /\ q \in Seq(Step) /\ ToSet(q) = {x}
      /\ x.op = "connectEstablished" /\ x.conn = c
  BY Dos, Single DEF DoIs
<1>6. OneRead(q)
  <2>1. DOMAIN q = {1}
    OBVIOUS
  <2> QED
    BY <2>1 DEF OneRead
<1> HIDE DEF k2, q, x
<1>7. Sound(k2)
  <2>1. InOrder(k2)
    BY <1>3, <1>4, InOrderKept DEF Sound
  <2>2. BufferWaitedFor(k2)
    BY <1>3, <1>4 DEF Sound, BufferWaitedFor
  <2> QED
    BY <1>3, <1>4, <2>1, <2>2 DEF Sound
<1>8. /\ conn' \in [Conns -> ConnType] /\ conn'[c] = k2
      /\ \A d \in Conns : d # c => conn'[d] = conn[d]
      /\ \A d \in Conns : Sound(conn[d])'
  BY <1>1, <1>4, <1>7, Replaced
<1>9. \A d \in Conns : Grown(conn[d], conn[d]')
                         /\ (conn[d].unread > 0 => conn[d].unread' > 0)
  <2>1. ASSUME NEW d \in Conns
        PROVE  Grown(conn[d], conn'[d]) /\ (conn[d].unread > 0 => conn'[d].unread > 0)
    <3>1. CASE d = c
      BY <1>1, <1>4, <1>8, <3>1 DEF Grown
    <3>2. CASE d # c
      BY <1>8, <3>2 DEF Grown
    <3> QED
      BY <3>1, <3>2
  <2> QED
    BY <2>1
<1>10. Justified(x)'
  BY <1>4, <1>5, <1>8 DEF Justified
<1>11. /\ todo' \in [Loops -> Seq(Step)]
       /\ \A m \in Loops : OneRead(todo'[m])
       /\ \A m \in Loops : \A s \in ToSet(todo'[m]) : s \in ToSet(todo[m]) \/ s = x
  <2>1. todo \in [Loops -> Seq(Step)] /\ \A m \in Loops : OneRead(todo[m])
    BY <1>1 DEF Lawful, TypeOK, ConnTypeOK, LoopSound
  <2>2. CASE UNCHANGED todo
    BY <2>1, <2>2
  <2>3. CASE todo' = [todo EXCEPT ![l] = q]
    <3>1. todo'[l] = q /\ \A m \in Loops : m # l => todo'[m] = todo[m]
      BY <1>2, <2>1, <2>3
    <3> QED
      BY <1>2, <1>5, <1>6, <2>1, <2>3, <3>1
  <2> QED
    BY <1>1, <2>2, <2>3
<1>12. /\ functors' \in [Loops -> Seq(Step)]
       /\ \A m \in Loops : \A s \in ToSet(functors'[m]) : s \in ToSet(functors[m]) \/ s = x
  <2>1. CASE UNCHANGED functors
    BY <1>1, <2>1 DEF TypeOK, ConnTypeOK
  <2>2. CASE Queue(l, q)
    BY <1>1, <1>2, <1>5, <2>2, Queued
  <2> QED
    BY <1>1, <2>1, <2>2
<1>13. next_' \in 0 .. Len(loops_) /\ (loops_ # <<>> => next_' < Len(loops_))
  <2>1. loops_ \in Seq(Loops) /\ next_ \in 0 .. Len(loops_) /\ Len(loops_) \in Nat
    BY <1>1, TcpServerAssumption DEF TypeOK
  <2>2. CASE loops_ = <<>>
    BY <1>1, <2>1, <2>2
  <2>3. CASE loops_ # <<>>
    <3>1. Len(loops_) > 0 /\ next_ \in Nat
      BY <2>1, <2>3
    <3>2. (next_ + 1) % Len(loops_) \in 0 .. Len(loops_) - 1
      BY <2>1, <3>1
    <3> QED
      BY <1>1, <2>1, <2>3, <3>2
  <2> QED
    BY <2>2, <2>3
<1>14. TypeOK'
  BY <1>1, <1>8, <1>11, <1>12, <1>13 DEF TypeOK, ConnTypeOK, userVars
<1>15. /\ \A u \in Users : ucall'[u] = ucall[u]
       /\ \A m \in Loops : active'[m] \subseteq active[m]
       /\ \A m \in Loops : left'[m] = left[m]
  BY <1>1 DEF userVars
<1>16. \A m \in Loops : \A s \in ToSet(todo'[m]) :
         s \in ToSet(todo[m]) \/ (Justified(s)' /\ s.op # "handleRead")
  BY <1>5, <1>10, <1>11
<1>17. \A m \in Loops : \A s \in ToSet(functors'[m]) \cup ToSet(left'[m]) :
         \/ s \in ToSet(functors[m]) \cup ToSet(left[m])
         \/ Justified(s)' /\ s.op \in FunctorOps
  BY <1>5, <1>10, <1>12, <1>15 DEF FunctorOps
<1> QED
  BY <1>8, <1>9, <1>11, <1>14, <1>15, <1>16, <1>17, StaysLawful

-----------------------------------------------------------------------------
(* The program.                                                            *)

LEMMA StepLawful ==
  ASSUME Lawful, [Next]_vars
  PROVE  Lawful'
<1>1. CASE UNCHANGED vars
  <2>1. /\ UNCHANGED <<conn, loopVars, userVars, loops_, next_>>
        /\ connections_' \subseteq Conns /\ aborted' \in Assertions
    BY <1>1 DEF vars, loopVars, userVars, Lawful, TypeOK, ConnTypeOK
  <2> QED
    BY <2>1, AbortLawful
<1>2. ASSUME NEW l \in Loops, LoopMachinery(l), UNCHANGED serverVars PROVE Lawful'
  BY <1>2, PollLawful, DispatchLawful, SwapPendingLawful, RunFunctorLawful, FunctorsDoneLawful
     DEF LoopMachinery
<1>3. ASSUME NEW l \in Loops, ConnStep(l), UNCHANGED serverVars PROVE Lawful'
  BY <1>3, ConnectEstablishedLawful, ConnectDestroyedLawful, RemoveChannelLawful,
     HandleReadLawful, HandleWriteLawful, HandleCloseLawful, HandleErrorLawful,
     SendInLoopLawful, ShutdownInLoopLawful, CallbackReturnsLawful
     DEF ConnStep
<1>4. ASSUME NEW l \in Loops, LoopStep(l) PROVE Lawful'
  BY <1>2, <1>3, <1>4, UseDestroyedLawful, RemoveConnectionLawful, RemoveConnectionInLoopLawful
     DEF LoopStep, ConnHandler
<1>5. ASSUME Application, UNCHANGED serverVars PROVE Lawful'
  BY <1>5, AppSendLawful, AppShutdownLawful, AppSharesLawful, UserQueuesLawful,
     UserTestsStateLawful, UserReleasesLawful
     DEF Application
<1> QED
  BY <1>1, <1>4, <1>5, NewConnectionLawful, PeerLawful DEF Next

LEMMA InitLawful ==
  ASSUME Init
  PROVE  Lawful
<1>1. \A k \in {Unmade(l) : l \in Loops} :
        k \in ConnType /\ Sound(k) /\ ~k.made
  <2> SUFFICES ASSUME NEW l \in Loops PROVE Unmade(l) \in ConnType /\ Sound(Unmade(l)) /\ ~Unmade(l).made
    OBVIOUS
  <2> DEFINE k == Unmade(l)
  <2>1. /\ NewChannel \in ChannelType /\ EpollAgrees(NewChannel) /\ NewChannel.events = {}
    BY DEF NewChannel, ChannelType, EpollAgrees, Interests
  <2>2. SndBuf \in 0..SndBuf /\ 0 \in 0..1 /\ 0 \in Nat /\ <<>> \in Seq(Nat)
    BY TcpConnectionAssumption
  <2>3. k \in ConnType
    BY <2>1, <2>2 DEF Unmade, ConnType
  <2>4. /\ k.state = "kConnecting" /\ k.channel = NewChannel /\ k.outputBuffer = <<>>
        /\ k.sent = 0 /\ k.written = <<>> /\ k.err = FALSE /\ k.made = FALSE
    BY DEF Unmade
  <2> HIDE DEF k
  <2>5. InOrder(k)
    <3>1. <<>> \o <<>> = <<>> /\ [i \in 1..0 |-> i] = <<>>
      OBVIOUS
    <3> QED
      BY <2>4, <3>1 DEF InOrder
  <2>6. BufferWaitedFor(k)
    BY <2>1, <2>4 DEF BufferWaitedFor
  <2> QED
    BY <2>1, <2>3, <2>4, <2>5, <2>6 DEF Sound, k
<1>2. conn \in [Conns -> {Unmade(l) : l \in Loops}]
  BY DEF Init, ConnInit
<1>3. \A c \in Conns : conn[c] \in ConnType /\ Sound(conn[c])
  BY <1>1, <1>2
<1>4. conn \in [Conns -> ConnType]
  BY <1>2, <1>3
<1>5. /\ \A l \in Loops : lpc[l] = "poll" /\ active[l] = {} /\ todo[l] = <<>>
                            /\ functors[l] = <<>> /\ left[l] = <<>> /\ batch[l] = <<>>
      /\ \A u \in Users : ucall[u] = NoCall
  BY DEF Init, ConnInit
<1>6. TypeOK
  <2>1. <<>> \in Seq(Step) /\ loops_ \in Pools /\ next_ = 0 /\ loops_ \in Seq(Loops)
    BY TcpServerAssumption DEF Init
  <2>2. next_ \in 0 .. Len(loops_) /\ (loops_ # <<>> => next_ < Len(loops_))
    BY <2>1
  <2>3. /\ lpc \in [Loops -> {"poll", "dispatch", "functors"}]
        /\ active \in [Loops -> SUBSET (Conns \X SUBSET Revents)]
        /\ todo \in [Loops -> Seq(Step)] /\ functors \in [Loops -> Seq(Step)]
        /\ batch \in [Loops -> Seq(Step)] /\ left \in [Loops -> Seq(Step)]
    BY <2>1 DEF Init, ConnInit
  <2>4. /\ ucall \in [Users -> {NoCall} \cup [op : {"sendInLoop", "shutdownInLoop"}, conn : Conns]]
        /\ uref \in [Users -> SUBSET Conns] /\ connections_ \subseteq Conns
        /\ aborted \in Assertions
    BY DEF Init, ConnInit, Assertions
  <2> QED
    BY <1>4, <2>1, <2>2, <2>3, <2>4 DEF TypeOK, ConnTypeOK
<1>7. \A l \in Loops : LoopSound(l)
  <2> SUFFICES ASSUME NEW l \in Loops PROVE LoopSound(l)
    OBVIOUS
  <2>1. /\ active[l] = {} /\ todo[l] = <<>> /\ functors[l] = <<>> /\ left[l] = <<>>
        /\ ToSet(<<>>) = {}
    BY <1>5, None
  <2>2. OneRead(<<>>)
    BY DEF OneRead
  <2> QED
    BY <2>1, <2>2 DEF LoopSound
<1> QED
  BY <1>3, <1>5, <1>6, <1>7 DEF Lawful

\* In every state, whatever the loops, the application's threads and the peers do:
\* every connection is sound, and every step, call and report that waits is legal.
THEOREM LawfulAlways == Spec => []Lawful
<1>1. Init => Lawful
  BY InitLawful
<1>2. Lawful /\ [Next]_vars => Lawful'
  BY StepLawful
<1> QED
  BY <1>1, <1>2, PTL DEF Spec

\* Messages reach the socket in order: in every state of every connection what
\* was written and what is buffered is what sendInLoop was given.
THEOREM MessagesInOrder == Spec => []StreamInOrder
<1>1. Lawful => StreamInOrder
  BY DEF Lawful, StreamInOrder, Sound
<1> QED
  BY <1>1, LawfulAlways, PTL

\* EPOLLOUT is asked for exactly while outputBuffer_ holds something.
THEOREM BufferIsWaitedFor == Spec => []WritingIffBuffered
<1>1. Lawful => WritingIffBuffered
  BY DEF Lawful, WritingIffBuffered, Sound
<1> QED
  BY <1>1, LawfulAlways, PTL

-----------------------------------------------------------------------------
(* shutdown() loses nothing.                                               *)

Drains(k, k2) == k.peer = "open" /\ ~k.shutWr /\ k2.shutWr => k2.outputBuffer = <<>>
AllDrain == \A c \in Conns : Drains(conn[c], conn'[c])

LEMMA ChangeDrains ==
  ASSUME TypeOK, NEW c \in Conns, NEW k2, conn' = [conn EXCEPT ![c] = k2],
         Drains(conn[c], k2)
  PROVE  AllDrain
<1>1. conn'[c] = k2 /\ \A d \in Conns : d # c => conn'[d] = conn[d]
  BY DEF TypeOK, ConnTypeOK
<1>2. ASSUME NEW d \in Conns PROVE Drains(conn[d], conn'[d])
  <2>1. CASE d = c
    BY <1>1, <2>1
  <2>2. CASE d # c
    BY <1>1, <2>2 DEF Drains
  <2> QED
    BY <2>1, <2>2
<1> QED
  BY <1>2 DEF AllDrain

LEMMA NothingDrains ==
  ASSUME UNCHANGED conn
  PROVE  AllDrain
BY DEF AllDrain, Drains

\* The handlers and functors of a connection.
LEMMA HandlersDrain ==
  ASSUME Lawful, NEW l \in Loops, ConnStep(l)
  PROVE  AllDrain
<1> DEFINE c == Current(l)
           k == conn[c]
<1>1. todo[l] # <<>>
  BY DEF ConnStep, ConnectEstablished, ConnectDestroyed, RemoveChannel, HandleRead, HandleWrite,
         HandleClose, HandleError, SendInLoop, ShutdownInLoop, CallbackReturns, IsAt
<1>2. /\ TypeOK /\ c \in Conns /\ k \in ConnType /\ Sound(k)
      /\ JustifiedBy(k, Head(todo[l]).op)
  BY <1>1, AtStep DEF Lawful
<1>3. ASSUME NEW k2, conn' = [conn EXCEPT ![c] = k2], Drains(k, k2) PROVE AllDrain
  BY <1>2, <1>3, ChangeDrains
<1>4. CASE ConnectEstablished(l)
  <2>1. CASE UNCHANGED conn
    BY <2>1, NothingDrains
  <2>2. CASE conn' = [conn EXCEPT ![c] = Established(k)]
    <3>1. Established(k).shutWr = k.shutWr
      BY <1>2 DEF Established, ConnType
    <3>2. Drains(k, Established(k))
      BY <3>1 DEF Drains
    <3> QED
      BY <1>3, <2>2, <3>2
  <2> QED
    BY <1>4, <2>1, <2>2 DEF ConnectEstablished, Established
<1>5. CASE ConnectDestroyed(l)
  <2>1. CASE UNCHANGED conn
    BY <2>1, NothingDrains
  <2>2. CASE conn' = [conn EXCEPT ![c] = Ended(k)]
    <3>1. Ended(k).shutWr = k.shutWr
      <4> DEFINE n == k.downs + 1
      <4>1. Ended(k) = [k EXCEPT !.state = "kDisconnected", !.channel = disableAll(k.channel),
                                 !.downs = n]
        BY DEF Ended
      <4> HIDE DEF n
      <4> QED
        BY <1>2, <4>1 DEF ConnType
    <3>2. Drains(k, Ended(k))
      BY <3>1 DEF Drains
    <3> QED
      BY <1>3, <2>2, <3>2
  <2> QED
    BY <1>5, <2>1, <2>2 DEF ConnectDestroyed, Ended
<1>6. CASE RemoveChannel(l)
  <2>1. CASE UNCHANGED conn
    BY <2>1, NothingDrains
  <2>2. CASE conn' = [conn EXCEPT ![c] = Removed(k)]
    <3>1. Removed(k).shutWr = k.shutWr
      BY <1>2 DEF Removed, ConnType
    <3>2. Drains(k, Removed(k))
      BY <3>1 DEF Drains
    <3> QED
      BY <1>3, <2>2, <3>2
  <2> QED
    BY <1>6, <2>1, <2>2 DEF RemoveChannel, Removed
<1>7. CASE HandleRead(l)
  <2>1. CASE UNCHANGED conn
    BY <2>1, NothingDrains
  <2>2. ASSUME NEW k2 \in {ReadOnce(k), ErrorRead(k)}, conn' = [conn EXCEPT ![c] = k2]
        PROVE  AllDrain
    <3>1. k2.shutWr = k.shutWr
      BY <1>2, <2>2 DEF ReadOnce, ErrorRead, ConnType
    <3>2. Drains(k, k2)
      BY <3>1 DEF Drains
    <3> QED
      BY <1>3, <2>2, <3>2
  <2>3. UNCHANGED conn \/ \E k2 \in {ReadOnce(k), ErrorRead(k)} : conn' = [conn EXCEPT ![c] = k2]
    BY <1>7 DEF HandleRead, ReadOnce, ErrorRead
  <2> QED
    BY <2>1, <2>2, <2>3
<1>8. CASE HandleWrite(l)
  <2>1. conn' = [conn EXCEPT ![c] = handleWrite(k)]
    BY <1>8 DEF HandleWrite
  <2>2. Drains(k, handleWrite(k))
    BY <1>2, HandleWriteIs DEF Drains
  <2> QED
    BY <1>3, <2>1, <2>2
<1>9. CASE HandleClose(l)
  <2>1. CASE UNCHANGED conn
    BY <2>1, NothingDrains
  <2>2. CASE conn' = [conn EXCEPT ![c] = Closed(k)]
    <3>1. Closed(k).shutWr = k.shutWr
      BY <1>2 DEF Closed, ConnType
    <3>2. Drains(k, Closed(k))
      BY <3>1 DEF Drains
    <3> QED
      BY <1>3, <2>2, <3>2
  <2> QED
    BY <1>9, <2>1, <2>2 DEF HandleClose, Closed
<1>10. CASE HandleError(l)
  <2>1. conn' = [conn EXCEPT ![c] = ErrorRead(k)]
    BY <1>10 DEF HandleError, ErrorRead
  <2>2. ErrorRead(k).shutWr = k.shutWr
    BY <1>2 DEF ErrorRead, ConnType
  <2>3. Drains(k, ErrorRead(k))
    BY <2>2 DEF Drains
  <2> QED
    BY <1>3, <2>1, <2>3
<1>11. CASE SendInLoop(l)
  <2>1. conn' = [conn EXCEPT ![c] = sendInLoop(k)] /\ k.state # "kConnecting"
    BY <1>2, <1>11 DEF SendInLoop, IsAt, JustifiedBy
  <2>2. Drains(k, sendInLoop(k))
    BY <1>2, <2>1, SendInLoopIs DEF Drains
  <2> QED
    BY <1>3, <2>1, <2>2
<1>12. CASE ShutdownInLoop(l)
  <2>1. conn' = [conn EXCEPT ![c] = shutdownInLoop(k)] /\ k.state # "kConnecting"
    BY <1>2, <1>12 DEF ShutdownInLoop, IsAt, JustifiedBy
  <2>2. Drains(k, shutdownInLoop(k))
    BY <1>2, <2>1, ShutdownInLoopIs DEF Drains
  <2> QED
    BY <1>3, <2>1, <2>2
<1>13. CASE CallbackReturns(l)
  BY <1>13, NothingDrains DEF CallbackReturns
<1> QED
  BY <1>4, <1>5, <1>6, <1>7, <1>8, <1>9, <1>10, <1>11, <1>12, <1>13 DEF ConnStep

LEMMA ApplicationDrains ==
  ASSUME Lawful, Application
  PROVE  AllDrain
<1> USE DEF Application
<1>1. ASSUME NEW l \in Loops, AppSend(l) \/ AppShutdown(l) PROVE AllDrain
  <2> DEFINE c == Current(l)
             k == conn[c]
  <2>1. todo[l] # <<>> /\ k.state # "kConnecting"
    BY <1>1 DEF AppSend, AppShutdown, IsAt
  <2>2. TypeOK /\ c \in Conns /\ k \in ConnType /\ Sound(k)
    BY <2>1, AtStep DEF Lawful
  <2>3. CASE AppSend(l)
    <3>1. conn' = [conn EXCEPT ![c] = sendInLoop(k)]
      BY <2>3 DEF AppSend
    <3>2. Drains(k, sendInLoop(k))
      BY <2>1, <2>2, SendInLoopIs DEF Drains
    <3> QED
      BY <2>2, <3>1, <3>2, ChangeDrains
  <2>4. CASE AppShutdown(l)
    <3>1. conn' = [conn EXCEPT ![c] = shutdownInLoop(Shut(k))]
      BY <2>4 DEF AppShutdown, Shut
    <3>2. Drains(k, shutdownInLoop(Shut(k)))
      BY <2>1, <2>2, AppShutdownIs DEF Drains
    <3> QED
      BY <2>2, <3>1, <3>2, ChangeDrains
  <2> QED
    BY <1>1, <2>3, <2>4
<1>2. ASSUME NEW u \in Users, UserQueues(u) PROVE AllDrain
  <2> DEFINE c == ucall[u].conn
             k == conn[c]
  <2>1. \/ UNCHANGED conn
        \/ conn' = [conn EXCEPT ![c] = Shut(k)]
    BY <1>2 DEF UserQueues, Shut
  <2>2. TypeOK /\ c \in Conns /\ k \in ConnType
    <3>1. ucall[u] \in [op : {"sendInLoop", "shutdownInLoop"}, conn : Conns]
      BY <1>2 DEF UserQueues, Lawful, TypeOK, ConnTypeOK
    <3> QED
      BY <3>1 DEF Lawful, TypeOK, ConnTypeOK
  <2>3. Shut(k).shutWr = k.shutWr
    BY <2>2 DEF Shut, ConnType
  <2>4. Drains(k, Shut(k))
    BY <2>3 DEF Drains
  <2>5. CASE UNCHANGED conn
    BY <2>5, NothingDrains
  <2>6. CASE conn' = [conn EXCEPT ![c] = Shut(k)]
    BY <2>2, <2>4, <2>6, ChangeDrains
  <2> QED
    BY <2>1, <2>5, <2>6
<1>3. CASE UNCHANGED conn
  BY <1>3, NothingDrains
<1> QED
  BY <1>1, <1>2, <1>3 DEF AppShares, UserTestsState, UserReleases

LEMMA StepDrains ==
  ASSUME Lawful, [Next]_vars
  PROVE  AllDrain
<1>1. CASE UNCHANGED conn
  BY <1>1, NothingDrains
<1>2. ASSUME NEW l \in Loops, LoopStep(l) PROVE AllDrain
  <2>1. CASE LoopMachinery(l)
    BY <1>1, <2>1 DEF LoopMachinery, Poll, Dispatch, SwapPending, RunFunctor, FunctorsDone
  <2>2. CASE ConnHandler(l)
    BY <1>1, <2>2, HandlersDrain DEF ConnHandler, UseDestroyed
  <2>3. CASE RemoveConnection(l) \/ RemoveConnectionInLoop(l)
    BY <1>1, <2>3 DEF RemoveConnection, RemoveConnectionInLoop
  <2> QED
    BY <1>2, <2>1, <2>2, <2>3 DEF LoopStep
<1>3. ASSUME NEW c \in Conns, Peer(c) PROVE AllDrain
  <2> DEFINE k == conn[c]
  <2>1. TypeOK /\ k \in ConnType
    BY DEF Lawful, TypeOK, ConnTypeOK
  <2>2. PICK k2 \in {DataCame(k), RoomMade(k), PeerClosed(k), PeerReset(k)} :
          conn' = [conn EXCEPT ![c] = k2]
    BY <1>3 DEF Peer, PeerSends, PeerReads, PeerCloses, PeerResets,
                DataCame, RoomMade, PeerClosed, PeerReset
  <2>3. k2.shutWr = k.shutWr
    BY <2>1, <2>2 DEF DataCame, RoomMade, PeerClosed, PeerReset, ConnType
  <2>4. Drains(k, k2)
    BY <2>3 DEF Drains
  <2> QED
    BY <2>1, <2>2, <2>4, ChangeDrains
<1>4. ASSUME NEW c \in Conns, NewConnection(c) PROVE AllDrain
  <2> DEFINE k == conn[c]
             l == getNextLoop
             k2 == [k EXCEPT !.made = TRUE, !.loop = l]
  <2>1. TypeOK /\ k \in ConnType /\ conn' = [conn EXCEPT ![c] = k2]
    BY <1>4 DEF Lawful, TypeOK, ConnTypeOK, NewConnection
  <2> HIDE DEF l
  <2>2. k2.shutWr = k.shutWr
    BY <2>1 DEF ConnType
  <2>3. Drains(k, k2)
    BY <2>2 DEF Drains
  <2> QED
    BY <2>1, <2>3, ChangeDrains
<1> QED
  BY <1>1, <1>2, <1>3, <1>4, ApplicationDrains DEF Next, vars

\* shutdown() loses nothing: while the peer is there, SHUT_WR is done only when
\* everything given to sendInLoop before it is written.
THEOREM ShutdownLosesNothing == Spec => ShutdownAfterDrain
<1> DEFINE Drained == \A c \in Conns :
             (conn[c].peer = "open" /\ ~conn[c].shutWr /\ conn'[c].shutWr)
               => conn'[c].outputBuffer = <<>>
<1>1. Lawful /\ [Next]_vars => [Drained]_vars
  BY StepDrains DEF AllDrain, Drains
<1>2. ShutdownAfterDrain <=> [][Drained]_vars
  BY DEF ShutdownAfterDrain
<1> QED
  BY <1>1, <1>2, LawfulAlways, PTL DEF Spec

-----------------------------------------------------------------------------
(* Who keeps a connection, in a server whose connections are used in        *)
(* callbacks only.                                                         *)

\* The two parts of LoopKeeps that are about one step and about one functor.
StepKept(s, l) ==
  /\ s.op \in {"connectDestroyed", "removeChannel"} =>
       lpc[l] = "functors" /\ Do("connectDestroyed", s.conn) \in ToSet(batch[l])
  /\ s.op \in {"handleClose", "handleError", "handleRead", "handleWrite"} =>
       lpc[l] = "dispatch" /\ conn[s.conn].loop = l /\ Kept(s.conn)
  /\ s.op = "connectDestroyed" => conn[s.conn].loop = l
  /\ s.op \notin {"sendInLoop", "shutdownInLoop"}
FunctorKept(s, l) ==
  /\ s.op = "connectDestroyed" => conn[s.conn].loop = l
  /\ s.op \notin {"sendInLoop", "shutdownInLoop"}

LEMMA LoopKeepsIs ==
  ASSUME NEW l \in Loops
  PROVE  LoopKeeps(l) <=>
           /\ lpc[l] # "functors" => left[l] = <<>>
           /\ ToSet(left[l]) \subseteq ToSet(batch[l])
           /\ \A s \in ToSet(todo[l]) : StepKept(s, l)
           /\ \A s \in ToSet(functors[l]) \cup ToSet(left[l]) : FunctorKept(s, l)
           /\ \A r \in active[l] : lpc[l] = "dispatch" /\ Kept(r[1])
BY DEF LoopKeeps, StepKept, FunctorKept

\* The steps that wait are steps of connections that were made.
LEMMA WaitingIs ==
  ASSUME Lawful, NEW l \in Loops,
         NEW s \in ToSet(todo[l]) \cup ToSet(functors[l]) \cup ToSet(left[l])
  PROVE  s \in Step /\ s.conn \in Conns /\ conn[s.conn].made
<1>1. /\ todo[l] \in Seq(Step) /\ functors[l] \in Seq(Step) /\ left[l] \in Seq(Step)
  BY DEF Lawful, TypeOK, ConnTypeOK
<1>2. ToSet(todo[l]) \subseteq Step /\ ToSet(functors[l]) \subseteq Step
      /\ ToSet(left[l]) \subseteq Step
  BY <1>1 DEF ToSet
<1>3. s \in Step
  BY <1>2
<1>4. Justified(s)
  BY DEF Lawful, LoopSound
<1> QED
  BY <1>3, <1>4 DEF Step, Justified

\* What a step of the program has to respect.
LEMMA OwnershipStays ==
  ASSUME Lawful, Ownership,
         \A c \in Conns : Grown(conn[c], conn[c]'),
         \A c \in Conns : conn[c].made /\ Kept(c) =>
           Kept(c)' \/ (lpc[conn[c].loop] # "dispatch" /\ Down(c)'),
         \A c \in Conns : conn[c].made /\ Down(c) /\ ~Kept(c) => Down(c)',
         \A c \in Conns : ~conn[c].made /\ conn[c]'.made => Kept(c)',
         UNCHANGED <<lpc, batch, left>>,
         \A l \in Loops : active'[l] \subseteq active[l],
         \A l \in Loops : \A s \in ToSet(todo'[l]) :
           \/ s \in ToSet(todo[l])
           \/ StepKept(s, l) /\ s.conn \in Conns /\ conn[s.conn].made
           \/ s.op = "connectEstablished",
         \A l \in Loops : \A s \in ToSet(functors'[l]) :
           \/ s \in ToSet(functors[l])
           \/ FunctorKept(s, l) /\ s.conn \in Conns /\ conn[s.conn].made
           \/ s.op = "connectEstablished"
  PROVE  Ownership'
<1>1. ASSUME NEW c \in Conns, conn'[c].made PROVE (Kept(c) \/ Down(c))'
  <2>1. CASE conn[c].made
    <3>1. Kept(c) \/ Down(c)
      BY <2>1 DEF Ownership
    <3> QED
      BY <2>1, <3>1
  <2>2. CASE ~conn[c].made
    BY <1>1, <2>2
  <2> QED
    BY <2>1, <2>2
<1>2. ASSUME NEW l \in Loops, NEW s, s.conn \in Conns, conn[s.conn].made, StepKept(s, l)
      PROVE  StepKept(s, l)'
  <2>1. lpc' = lpc /\ batch' = batch
    OBVIOUS
  <2>2. conn'[s.conn].loop = conn[s.conn].loop
    BY <1>2 DEF Grown
  <2>3. ASSUME conn[s.conn].loop = l, lpc[l] = "dispatch", Kept(s.conn)
        PROVE  Kept(s.conn)'
    BY <1>2, <2>3
  <2> QED
    BY <1>2, <2>1, <2>2, <2>3 DEF StepKept
<1>3. ASSUME NEW l \in Loops, NEW s, s.conn \in Conns, conn[s.conn].made, FunctorKept(s, l)
      PROVE  FunctorKept(s, l)'
  <2>1. conn'[s.conn].loop = conn[s.conn].loop
    BY <1>3 DEF Grown
  <2> QED
    BY <1>3, <2>1 DEF FunctorKept
<1>4. ASSUME NEW l \in Loops PROVE LoopKeeps(l)'
  <2>1. LoopKeeps(l)
    BY DEF Ownership
  <2>2. /\ lpc[l] # "functors" => left[l] = <<>>
        /\ ToSet(left[l]) \subseteq ToSet(batch[l])
        /\ \A s \in ToSet(todo[l]) : StepKept(s, l)
        /\ \A s \in ToSet(functors[l]) \cup ToSet(left[l]) : FunctorKept(s, l)
        /\ \A r \in active[l] : lpc[l] = "dispatch" /\ Kept(r[1])
    BY <2>1, LoopKeepsIs
  <2>3. lpc' = lpc /\ batch' = batch /\ left' = left
    OBVIOUS
  <2>4. ASSUME NEW s \in ToSet(todo'[l]) PROVE StepKept(s, l)'
    <3>1. CASE s \in ToSet(todo[l])
      <4>1. s.conn \in Conns /\ conn[s.conn].made
        BY <3>1, WaitingIs
      <4> QED
        BY <1>2, <2>2, <3>1, <4>1
    <3>2. CASE StepKept(s, l) /\ s.conn \in Conns /\ conn[s.conn].made
      BY <1>2, <3>2
    <3>3. CASE s.op = "connectEstablished"
      BY <3>3 DEF StepKept
    <3> QED
      BY <2>4, <3>1, <3>2, <3>3
  <2>5. ASSUME NEW s \in ToSet(functors'[l]) \cup ToSet(left'[l]) PROVE FunctorKept(s, l)'
    <3>1. CASE s \in ToSet(functors[l]) \cup ToSet(left[l])
      <4>1. s.conn \in Conns /\ conn[s.conn].made
        BY <3>1, WaitingIs
      <4> QED
        BY <1>3, <2>2, <3>1, <4>1
    <3>2. CASE FunctorKept(s, l) /\ s.conn \in Conns /\ conn[s.conn].made
      BY <1>3, <3>2
    <3>3. CASE s.op = "connectEstablished"
      BY <3>3 DEF FunctorKept
    <3> QED
      BY <2>3, <2>5, <3>1, <3>2, <3>3
  <2>6. ASSUME NEW r \in active'[l] PROVE (lpc[l] = "dispatch")' /\ Kept(r[1])'
    <3>1. r \in active[l] /\ lpc[l] = "dispatch" /\ Kept(r[1])
      BY <2>2
    <3>2. Founded(r, l) /\ r[1] \in Conns
      BY <3>1 DEF Lawful, LoopSound, TypeOK, ConnTypeOK
    <3>3. conn[r[1]].made /\ conn[r[1]].loop = l
      BY <3>2 DEF Founded
    <3>4. Kept(r[1])'
      BY <3>1, <3>2, <3>3
    <3> QED
      BY <2>3, <3>1, <3>4
  <2>7. /\ (lpc[l] # "functors" => left[l] = <<>>)'
        /\ (ToSet(left[l]) \subseteq ToSet(batch[l]))'
    BY <2>2, <2>3
  <2>8. \A s \in ToSet(todo'[l]) : StepKept(s, l)'
    BY <2>4
  <2>9. \A s \in ToSet(functors'[l]) \cup ToSet(left'[l]) : FunctorKept(s, l)'
    BY <2>5
  <2>10. \A r \in active'[l] : (lpc[l] = "dispatch")' /\ Kept(r[1])'
    BY <2>6
  <2>11. LoopKeeps(l)' <=>
           /\ (lpc[l] # "functors" => left[l] = <<>>)'
           /\ (ToSet(left[l]) \subseteq ToSet(batch[l]))'
           /\ \A s \in ToSet(todo'[l]) : StepKept(s, l)'
           /\ \A s \in ToSet(functors'[l]) \cup ToSet(left'[l]) : FunctorKept(s, l)'
           /\ \A r \in active'[l] : (lpc[l] = "dispatch")' /\ Kept(r[1])'
    BY DEF LoopKeeps, StepKept, FunctorKept
  <2> QED
    BY <2>7, <2>8, <2>9, <2>10, <2>11
<1> QED
  BY <1>1, <1>4 DEF Ownership

\* A step of a call on loop l, with what it leaves to do and what it queues: its
\* connection stays kept, or is left alone, or is out of epoll, or is being
\* destroyed.
LEMMA OwnershipHandler ==
  ASSUME Lawful, Ownership, NEW l \in Loops, todo[l] # <<>>,
         NEW k2, Grown(conn[Current(l)], k2), conn' = [conn EXCEPT ![Current(l)] = k2],
         NEW steps \in Seq(Step), \A s \in ToSet(steps) : s.op # "handleRead",
         Continue(l, steps),
         NEW m \in Loops, NEW q \in Seq(Step), Queue(m, q),
         UNCHANGED <<lpc, active, batch, left>>,
         \A d \in connections_ : \/ d \in connections_'
                                 \/ /\ m = conn[d].loop
                                    /\ Do("connectDestroyed", d) \in ToSet(q),
         \A s \in ToSet(steps) : s.conn = Current(l) /\ StepKept(s, l),
         \A s \in ToSet(q) : s.conn = Current(l) /\ FunctorKept(s, m),
         \/ /\ Kept(Current(l)) /\ Head(todo[l]).op # "connectDestroyed"
         \/ /\ k2 = conn[Current(l)]
            /\ Head(todo[l]).op \notin {"connectDestroyed", "removeChannel"}
         \/ /\ k2.state = "kDisconnected" /\ k2.channel.events = {} /\ ~k2.channel.registered
            /\ Head(todo[l]).op # "connectDestroyed"
         \/ /\ k2.state = "kDisconnected" /\ k2.channel.events = {}
            /\ lpc[l] = "functors" /\ conn[Current(l)].loop = l
            /\ Do("removeChannel", Current(l)) \in ToSet(steps)
  PROVE  Ownership'
<1> DEFINE c == Current(l)
           h == Head(todo[l])
           k == conn[c]
<1>1. /\ TypeOK /\ c \in Conns /\ k \in ConnType /\ k.made
      /\ h.conn = c /\ h = Do(h.op, c) /\ ToSet(todo[l]) = {h} \cup ToSet(Tail(todo[l]))
  <2>1. TypeOK
    BY DEF Lawful
  <2> QED
    BY <2>1, AtStep, HeadIs
<1>2. conn'[c] = k2 /\ \A d \in Conns : d # c => conn'[d] = conn[d]
  BY <1>1 DEF TypeOK, ConnTypeOK
<1>3. /\ ToSet(todo'[l]) = ToSet(steps) \cup ToSet(Tail(todo[l]))
      /\ \A x \in Loops : x # l => todo'[x] = todo[x]
  BY Continued
<1>4. /\ ToSet(functors'[m]) = ToSet(functors[m]) \cup ToSet(q)
      /\ \A x \in Loops : x # m => functors'[x] = functors[x]
  BY <1>1, Queued
<1>5. \A d \in Conns : Grown(conn[d], conn[d]')
  <2>1. ASSUME NEW d \in Conns PROVE Grown(conn[d], conn'[d])
    BY <1>1, <1>2 DEF Grown
  <2> QED
    BY <2>1
<1>6. \A x \in Loops : x = conn[c].loop => x = conn'[c].loop
  BY <1>1, <1>2 DEF Grown
<1>7. \A x \in Loops : \A s \in ToSet(todo[x]) :
        (x = l /\ s = h) \/ s \in ToSet(todo'[x])
  BY <1>1, <1>3
<1>8. \A x \in Loops : /\ ToSet(functors[x]) \subseteq ToSet(functors'[x])
                       /\ left'[x] = left[x]
  BY <1>4
<1>9. \A d \in Conns : conn[d].made => conn'[d].loop = conn[d].loop /\ conn[d].loop \in Loops
  <2>1. \A d \in Conns : conn[d].loop \in Loops
    BY <1>1 DEF TypeOK, ConnTypeOK, ConnType
  <2> QED
    BY <1>5, <2>1 DEF Grown
<1> HIDE DEF h, c
<1>10. ASSUME NEW d \in Conns, conn[d].made, Kept(d)
       PROVE  Kept(d)' \/ (lpc[conn[d].loop] # "dispatch" /\ Down(d)')
  <2> DEFINE x == conn[d].loop
             D == Do("connectDestroyed", d)
  <2>1. x \in Loops /\ conn'[d].loop = x
    BY <1>9, <1>10
  <2> HIDE DEF x
  <2>2. D.op = "connectDestroyed" /\ D.conn = d
    BY DEF Do
  <2> HIDE DEF D
  <2>3. CASE d \in connections_ /\ d \in connections_'
    BY <2>3 DEF Kept
  <2>4. CASE D \in ToSet(q) /\ m = conn[d].loop
    <3>1. D \in ToSet(functors'[conn'[d].loop])
      BY <1>4, <2>1, <2>4 DEF x
    <3>2. DestroyPending(d)'
      BY <3>1 DEF DestroyPending, D
    <3> QED
      BY <3>2 DEF Kept
  <2>5. CASE D \in ToSet(todo[x]) \cup ToSet(functors[x]) \cup ToSet(left[x]) /\ ~(x = l /\ D = h)
    <3>1. D \in ToSet(todo'[x]) \cup ToSet(functors'[x]) \cup ToSet(left'[x])
      BY <1>7, <1>8, <2>1, <2>5
    <3>2. DestroyPending(d)'
      BY <2>1, <3>1 DEF DestroyPending, D
    <3> QED
      BY <3>2 DEF Kept
  <2>6. CASE x = l /\ D = h
    <3>1. h.op = "connectDestroyed" /\ d = c
      BY <1>1, <2>2, <2>6
    <3>2. /\ k2.state = "kDisconnected" /\ k2.channel.events = {}
          /\ lpc[l] = "functors" /\ Do("removeChannel", c) \in ToSet(steps)
      BY <3>1 DEF h, c
    <3>3. Do("removeChannel", d) \in ToSet(todo'[conn'[d].loop])
      BY <1>3, <2>1, <2>6, <3>1, <3>2
    <3>4. Down(d)'
      BY <1>2, <3>1, <3>2, <3>3 DEF Down
    <3> QED
      BY <2>6, <3>2, <3>4 DEF x
  <2>7. D \in ToSet(todo[x]) \cup ToSet(functors[x]) \cup ToSet(left[x]) \/ d \in connections_
    BY <1>10 DEF Kept, DestroyPending, x, D
  <2>8. d \in connections_ => \/ d \in connections_'
                              \/ m = conn[d].loop /\ D \in ToSet(q)
    BY DEF D
  <2> QED
    BY <2>3, <2>4, <2>5, <2>6, <2>7, <2>8
<1>11. ASSUME NEW d \in Conns, conn[d].made, Down(d), ~Kept(d)
       PROVE  Down(d)'
  <2> DEFINE x == conn[d].loop
             R == Do("removeChannel", d)
  <2>1. x \in Loops /\ conn'[d].loop = x
    BY <1>9, <1>11
  <2>2. R.op = "removeChannel" /\ R.conn = d
    BY DEF Do
  <2>3. /\ conn[d].state = "kDisconnected" /\ conn[d].channel.events = {}
        /\ conn[d].channel.registered => R \in ToSet(todo[x])
    BY <1>11 DEF Down
  <2> HIDE DEF x, R
  <2>4. ASSUME conn'[d] = conn[d], ~(x = l /\ R = h) PROVE Down(d)'
    <3>1. conn[d].channel.registered => R \in ToSet(todo'[x])
      BY <1>7, <2>1, <2>3, <2>4
    <3> QED
      BY <2>1, <2>3, <2>4, <3>1 DEF Down, R
  <2>5. CASE d # c
    BY <1>1, <1>2, <2>2, <2>4, <2>5
  <2>6. CASE d = c
    <3>1. CASE k2 = conn[c] /\ h.op # "removeChannel"
      BY <1>2, <2>2, <2>4, <2>6, <3>1
    <3>2. CASE k2.state = "kDisconnected" /\ k2.channel.events = {} /\ ~k2.channel.registered
      BY <1>2, <2>6, <3>2 DEF Down
    <3>3. CASE /\ k2.state = "kDisconnected" /\ k2.channel.events = {}
               /\ conn[c].loop = l /\ Do("removeChannel", c) \in ToSet(steps)
      <4>1. R \in ToSet(todo'[conn'[d].loop])
        BY <1>3, <2>1, <2>6, <3>3 DEF x, R
      <4> QED
        BY <1>2, <2>6, <3>3, <4>1 DEF Down, R
    <3>4. ~Kept(c)
      BY <1>11, <2>6
    <3> QED
      BY <3>1, <3>2, <3>3, <3>4 DEF h, c
  <2> QED
    BY <2>5, <2>6
<1>12. \A d \in Conns : ~conn[d].made => ~conn'[d].made
  BY <1>1, <1>2
<1>13. ASSUME NEW x \in Loops, NEW s \in ToSet(todo'[x])
       PROVE  \/ s \in ToSet(todo[x])
              \/ StepKept(s, x) /\ s.conn \in Conns /\ conn[s.conn].made
              \/ s.op = "connectEstablished"
  <2>1. CASE x # l
    BY <1>3, <1>13, <2>1
  <2>2. CASE x = l
    BY <1>1, <1>3, <1>13, <2>2 DEF c
  <2> QED
    BY <2>1, <2>2
<1>14. ASSUME NEW x \in Loops, NEW s \in ToSet(functors'[x])
       PROVE  \/ s \in ToSet(functors[x])
              \/ FunctorKept(s, x) /\ s.conn \in Conns /\ conn[s.conn].made
              \/ s.op = "connectEstablished"
  BY <1>1, <1>4, <1>14 DEF c
<1>15. \A x \in Loops : active'[x] \subseteq active[x]
  OBVIOUS
<1> QED
  BY <1>5, <1>10, <1>11, <1>12, <1>13, <1>14, <1>15, OwnershipStays

\* A step that leaves all of it alone.
LEMMA SameOwned ==
  ASSUME Ownership, UNCHANGED <<conn, loopVars, connections_>>
  PROVE  Ownership'
<1>1. /\ conn' = conn /\ lpc' = lpc /\ active' = active /\ todo' = todo
      /\ functors' = functors /\ batch' = batch /\ left' = left /\ connections_' = connections_
  BY DEF loopVars
<1>2. \A c : Kept(c) <=> Kept(c)'
  BY <1>1 DEF Kept, DestroyPending
<1>3. \A c : Down(c) <=> Down(c)'
  BY <1>1 DEF Down
<1>4. \A l \in Loops : LoopKeeps(l)'
  <2> SUFFICES ASSUME NEW l \in Loops PROVE LoopKeeps(l)'
    OBVIOUS
  <2>1. LoopKeeps(l)
    BY DEF Ownership
  <2> QED
    BY <1>1, <1>2, <2>1 DEF LoopKeeps
<1> QED
  BY <1>1, <1>2, <1>3, <1>4 DEF Ownership

\* What is known of the step a loop is at, and of its connection.
LEMMA OwnedStep ==
  ASSUME Lawful, Ownership, NEW l \in Loops, todo[l] # <<>>
  PROVE  /\ StepKept(Head(todo[l]), l) /\ Head(todo[l]).conn = Current(l)
         /\ Kept(Current(l)) \/ Down(Current(l))
<1>1. /\ Head(todo[l]) \in ToSet(todo[l]) /\ Head(todo[l]).conn = Current(l)
      /\ Current(l) \in Conns /\ conn[Current(l)].made
  BY HeadIs, AtStep DEF Lawful
<1>2. LoopKeeps(l)
  BY DEF Ownership
<1>3. StepKept(Head(todo[l]), l)
  BY <1>1, <1>2, LoopKeepsIs
<1> QED
  BY <1>1, <1>3 DEF Ownership

\* A step that queues nothing.
LEMMA RunsOwned ==
  ASSUME Lawful, Ownership, NEW l \in Loops, todo[l] # <<>>,
         NEW k2, Grown(conn[Current(l)], k2), conn' = [conn EXCEPT ![Current(l)] = k2],
         NEW steps \in Seq(Step), \A s \in ToSet(steps) : s.op # "handleRead",
         Continue(l, steps), UNCHANGED functors, UNCHANGED Rest,
         \A s \in ToSet(steps) : s.conn = Current(l) /\ StepKept(s, l),
         \/ /\ Kept(Current(l)) /\ Head(todo[l]).op # "connectDestroyed"
         \/ /\ k2 = conn[Current(l)]
            /\ Head(todo[l]).op \notin {"connectDestroyed", "removeChannel"}
         \/ /\ k2.state = "kDisconnected" /\ k2.channel.events = {} /\ ~k2.channel.registered
            /\ Head(todo[l]).op # "connectDestroyed"
         \/ /\ k2.state = "kDisconnected" /\ k2.channel.events = {}
            /\ lpc[l] = "functors" /\ conn[Current(l)].loop = l
            /\ Do("removeChannel", Current(l)) \in ToSet(steps)
  PROVE  Ownership'
<1> DEFINE q == <<>>
<1>1. TypeOK
  BY DEF Lawful
<1>2. Queue(l, q) /\ q \in Seq(Step) /\ ToSet(q) = {}
  BY <1>1, NothingQueued
<1> HIDE DEF q
<1>3. /\ UNCHANGED <<lpc, active, batch, left>>
      /\ \A d \in connections_ : d \in connections_'
  BY DEF Rest
<1>4. \A s \in ToSet(q) : s.conn = Current(l) /\ FunctorKept(s, l)
  BY <1>2
<1> QED
  BY <1>2, <1>3, <1>4, OwnershipHandler

\* A step that fails an assertion.
LEMMA FailsOwned ==
  ASSUME Ownership, UNCHANGED <<conn, todo>>, UNCHANGED functors, UNCHANGED Rest
  PROVE  Ownership'
<1>1. UNCHANGED <<conn, loopVars, connections_>>
  BY DEF Rest, loopVars
<1> QED
  BY <1>1, SameOwned

LEMMA ConnectEstablishedOwned ==
  ASSUME Lawful, Ownership, NEW l \in Loops, ConnectEstablished(l), UNCHANGED serverVars
  PROVE  Ownership'
<1> DEFINE c == Current(l)
           k == conn[c]
           k2 == Established(k)
           q == <<Do("callback", c)>>
<1>1. todo[l] # <<>> /\ UNCHANGED Rest /\ UNCHANGED functors
      /\ Head(todo[l]).op = "connectEstablished"
  BY DEF ConnectEstablished, IsAt, serverVars, Rest
<1>2. c \in Conns /\ k \in ConnType /\ Sound(k) /\ k.made /\ (Kept(c) \/ Down(c))
  BY <1>1, AtStep, OwnedStep
<1>3. CASE k.state = "kConnecting"
  <2>1. conn' = [conn EXCEPT ![c] = k2] /\ Continue(l, q)
    BY <1>3 DEF ConnectEstablished, Established
  <2>2. Grown(k, k2)
    BY <1>2, <1>3, EstablishedIs DEF Evolved
  <2>3. Kept(c)
    BY <1>2, <1>3 DEF Down
  <2> HIDE DEF k2
  <2>4. /\ q \in Seq(Step)
        /\ \A s \in ToSet(q) : s.op = "callback" /\ s.conn = c
    BY <1>2, Dos, Single DEF DoIs
  <2> HIDE DEF q
  <2>5. \A s \in ToSet(q) : s.op # "handleRead" /\ s.conn = c /\ StepKept(s, l)
    BY <2>4 DEF StepKept
  <2> QED
    BY <1>1, <2>1, <2>2, <2>3, <2>4, <2>5, RunsOwned
<1>4. CASE k.state # "kConnecting"
  <2>1. UNCHANGED <<conn, todo>>
    BY <1>4 DEF ConnectEstablished
  <2> QED
    BY <1>1, <2>1, FailsOwned
<1> QED
  BY <1>3, <1>4

LEMMA ConnectDestroyedOwned ==
  ASSUME Lawful, Ownership, NEW l \in Loops, ConnectDestroyed(l), UNCHANGED serverVars
  PROVE  Ownership'
<1> DEFINE c == Current(l)
           k == conn[c]
           k2 == Ended(k)
           x == Do("callback", c)
           y == Do("removeChannel", c)
           q == <<x, y>>
<1>1. todo[l] # <<>> /\ UNCHANGED Rest /\ UNCHANGED functors /\ Head(todo[l]).op = "connectDestroyed"
  BY DEF ConnectDestroyed, IsAt, serverVars, Rest
<1>2. c \in Conns /\ k \in ConnType /\ Sound(k) /\ k.peer # "open"
  BY <1>1, AtStep DEF JustifiedBy
<1>3. CASE k.state = "kConnected"
  <2>1. conn' = [conn EXCEPT ![c] = k2] /\ Continue(l, q)
    BY <1>3 DEF ConnectDestroyed, Ended
  <2>2. Grown(k, k2) /\ k2.state = "kDisconnected" /\ k2.channel.events = {}
    BY <1>2, <1>3, ClosedIs DEF Evolved
  <2> HIDE DEF k2
  <2>3. DoIs("callback", c) /\ DoIs("removeChannel", c)
    BY <1>2, Dos
  <2>4. /\ x \in Step /\ x.op = "callback" /\ x.conn = c
        /\ y \in Step /\ y.op = "removeChannel" /\ y.conn = c
    BY <2>3 DEF DoIs
  <2>5. /\ lpc[l] = "functors" /\ Do("connectDestroyed", c) \in ToSet(batch[l])
        /\ conn[c].loop = l
    BY <1>1, OwnedStep DEF StepKept
  <2>6. q \in Seq(Step) /\ ToSet(q) = {x, y}
    <3> HIDE DEF x, y
    <3> QED
      BY <2>4, Pair
  <2>7. Do("removeChannel", c) \in ToSet(q)
    BY <2>6
  <2> HIDE DEF x, y, q
  <2>8. StepKept(x, l) /\ StepKept(y, l)
    BY <2>4, <2>5 DEF StepKept
  <2>9. \A s \in ToSet(q) : s.op # "handleRead" /\ s.conn = c /\ StepKept(s, l)
    BY <2>4, <2>6, <2>8
  <2> QED
    BY <1>1, <2>1, <2>2, <2>5, <2>6, <2>7, <2>9, RunsOwned
<1>4. CASE k.state # "kConnected"
  <2>1. UNCHANGED <<conn, todo>>
    BY <1>4 DEF ConnectDestroyed
  <2> QED
    BY <1>1, <2>1, FailsOwned
<1> QED
  BY <1>3, <1>4

\* A step that changes its connection and is over.
LEMMA EndsOwned ==
  ASSUME Lawful, Ownership, NEW l \in Loops, todo[l] # <<>>,
         NEW k2, Grown(conn[Current(l)], k2), conn' = [conn EXCEPT ![Current(l)] = k2],
         Continue(l, <<>>), UNCHANGED functors, UNCHANGED Rest,
         \/ /\ Kept(Current(l)) /\ Head(todo[l]).op # "connectDestroyed"
         \/ /\ k2 = conn[Current(l)]
            /\ Head(todo[l]).op \notin {"connectDestroyed", "removeChannel"}
         \/ /\ k2.state = "kDisconnected" /\ k2.channel.events = {} /\ ~k2.channel.registered
            /\ Head(todo[l]).op # "connectDestroyed"
  PROVE  Ownership'
<1> DEFINE q == <<>>
<1>1. q \in Seq(Step) /\ ToSet(q) = {} /\ Continue(l, q)
  BY None
<1> HIDE DEF q
<1>2. \A s \in ToSet(q) : s.op # "handleRead" /\ s.conn = Current(l) /\ StepKept(s, l)
  BY <1>1
<1> QED
  BY <1>1, <1>2, RunsOwned

LEMMA RemoveChannelOwned ==
  ASSUME Lawful, Ownership, NEW l \in Loops, RemoveChannel(l), UNCHANGED serverVars
  PROVE  Ownership'
<1> DEFINE c == Current(l)
           k == conn[c]
           k2 == Removed(k)
<1>1. todo[l] # <<>> /\ UNCHANGED Rest /\ UNCHANGED functors /\ Head(todo[l]).op = "removeChannel"
  BY DEF RemoveChannel, IsAt, serverVars, Rest
<1>2. c \in Conns /\ k \in ConnType /\ Sound(k) /\ (Kept(c) \/ Down(c))
  BY <1>1, AtStep, OwnedStep
<1>3. CASE removeChannelAsserts(k.channel)
  <2>1. conn' = [conn EXCEPT ![c] = k2] /\ Continue(l, <<>>)
    BY <1>3 DEF RemoveChannel, Removed
  <2>2. /\ Grown(k, k2) /\ k2.channel.events = {} /\ ~k2.channel.registered
        /\ k2.state = k.state
    BY <1>2, <1>3, RemovedIs DEF Evolved
  <2>3. Kept(c) \/ k2.state = "kDisconnected"
    BY <1>2, <2>2 DEF Down
  <2> HIDE DEF k2
  <2> QED
    BY <1>1, <2>1, <2>2, <2>3, EndsOwned
<1>4. CASE ~removeChannelAsserts(k.channel)
  <2>1. UNCHANGED <<conn, todo>>
    BY <1>4 DEF RemoveChannel
  <2> QED
    BY <1>1, <2>1, FailsOwned
<1> QED
  BY <1>3, <1>4

LEMMA HandleCloseOwned ==
  ASSUME Lawful, Ownership, NEW l \in Loops, HandleClose(l), UNCHANGED serverVars
  PROVE  Ownership'
<1> DEFINE c == Current(l)
           k == conn[c]
           k2 == Closed(k)
           q == <<Do("closeCallback", c)>>
<1>1. todo[l] # <<>> /\ UNCHANGED Rest /\ UNCHANGED functors /\ Head(todo[l]).op = "handleClose"
  BY DEF HandleClose, IsAt, serverVars, Rest
<1>2. c \in Conns /\ k \in ConnType /\ Sound(k) /\ k.peer # "open"
  BY <1>1, AtStep DEF JustifiedBy
<1>3. CASE k.state = "kConnected"
  <2>1. conn' = [conn EXCEPT ![c] = k2] /\ Continue(l, q)
    BY <1>3 DEF HandleClose, Closed
  <2>2. Grown(k, k2)
    BY <1>2, <1>3, ClosedIs DEF Evolved
  <2> HIDE DEF k2
  <2>3. /\ q \in Seq(Step)
        /\ \A s \in ToSet(q) : s.op = "closeCallback" /\ s.conn = c
    BY <1>2, Dos, Single DEF DoIs
  <2> HIDE DEF q
  <2>4. Kept(c)
    BY <1>1, OwnedStep DEF StepKept
  <2>5. \A s \in ToSet(q) : s.op # "handleRead" /\ s.conn = c /\ StepKept(s, l)
    BY <2>3 DEF StepKept
  <2> QED
    BY <1>1, <2>1, <2>2, <2>3, <2>4, <2>5, RunsOwned
<1>4. CASE k.state # "kConnected"
  <2>1. UNCHANGED <<conn, todo>>
    BY <1>4 DEF HandleClose
  <2> QED
    BY <1>1, <2>1, FailsOwned
<1> QED
  BY <1>3, <1>4

LEMMA HandleWriteOwned ==
  ASSUME Lawful, Ownership, NEW l \in Loops, HandleWrite(l), UNCHANGED serverVars
  PROVE  Ownership'
<1> DEFINE c == Current(l)
           k == conn[c]
<1>1. todo[l] # <<>> /\ UNCHANGED Rest /\ UNCHANGED functors
      /\ conn' = [conn EXCEPT ![c] = handleWrite(k)] /\ Continue(l, <<>>)
      /\ Head(todo[l]).op = "handleWrite"
  BY DEF HandleWrite, IsAt, serverVars, Rest
<1>2. k \in ConnType /\ Sound(k)
  BY <1>1, AtStep
<1>3. Grown(k, handleWrite(k))
  BY <1>2, HandleWriteIs DEF Evolved
<1>4. Kept(c)
  BY <1>1, OwnedStep DEF StepKept
<1> QED
  BY <1>1, <1>3, <1>4, EndsOwned

LEMMA HandleErrorOwned ==
  ASSUME Lawful, Ownership, NEW l \in Loops, HandleError(l), UNCHANGED serverVars
  PROVE  Ownership'
<1> DEFINE c == Current(l)
           k == conn[c]
<1>1. todo[l] # <<>> /\ UNCHANGED Rest /\ UNCHANGED functors
      /\ conn' = [conn EXCEPT ![c] = ErrorRead(k)] /\ Continue(l, <<>>)
      /\ Head(todo[l]).op = "handleError"
  BY DEF HandleError, IsAt, serverVars, Rest, ErrorRead
<1>2. k \in ConnType /\ Sound(k)
  BY <1>1, AtStep
<1>3. Grown(k, ErrorRead(k))
  BY <1>2, ErrorReadIs DEF Evolved
<1>4. Kept(c)
  BY <1>1, OwnedStep DEF StepKept
<1> QED
  BY <1>1, <1>3, <1>4, EndsOwned

LEMMA CallbackReturnsOwned ==
  ASSUME Lawful, Ownership, NEW l \in Loops, CallbackReturns(l), UNCHANGED serverVars
  PROVE  Ownership'
<1> DEFINE c == Current(l)
<1>1. todo[l] # <<>> /\ UNCHANGED Rest /\ UNCHANGED functors
      /\ UNCHANGED conn /\ Continue(l, <<>>) /\ Head(todo[l]).op = "callback"
  BY DEF CallbackReturns, IsAt, serverVars, Rest
<1>2. c \in Conns /\ TypeOK
  BY <1>1, AtStep DEF Lawful
<1>3. conn' = [conn EXCEPT ![c] = conn[c]] /\ Grown(conn[c], conn[c])
  BY <1>1, <1>2, NotReplaced DEF Evolved
<1> QED
  BY <1>1, <1>3, EndsOwned

LEMMA HandleReadOwned ==
  ASSUME Lawful, Ownership, NEW l \in Loops, HandleRead(l), UNCHANGED serverVars
  PROVE  Ownership'
<1> DEFINE c == Current(l)
           k == conn[c]
<1>1. todo[l] # <<>> /\ UNCHANGED Rest /\ UNCHANGED functors
      /\ Head(todo[l]).op = "handleRead"
  BY DEF HandleRead, IsAt, serverVars, Rest
<1>2. c \in Conns /\ k \in ConnType /\ Sound(k) /\ k.made /\ TypeOK
  BY <1>1, AtStep DEF Lawful
<1>3. Kept(c) /\ lpc[l] = "dispatch" /\ conn[c].loop = l
  BY <1>1, OwnedStep DEF StepKept
<1>4. PICK op \in {"callback", "handleError", "handleClose"} :
        /\ Continue(l, <<Do(op, c)>>)
        /\ \/ conn' = [conn EXCEPT ![c] = ReadOnce(k)] /\ k.unread > 0
           \/ conn' = [conn EXCEPT ![c] = ErrorRead(k)]
           \/ UNCHANGED conn
  BY DEF HandleRead, ReadOnce, ErrorRead
<1>5. PICK k2 : Grown(k, k2) /\ conn' = [conn EXCEPT ![c] = k2]
  <2>1. CASE conn' = [conn EXCEPT ![c] = ReadOnce(k)] /\ k.unread > 0
    <3>1. Grown(k, ReadOnce(k))
      BY <1>2, <2>1, ReadOnceIs DEF SameChannel, Grown
    <3> QED
      BY <2>1, <3>1
  <2>2. CASE conn' = [conn EXCEPT ![c] = ErrorRead(k)]
    <3>1. Grown(k, ErrorRead(k))
      BY <1>2, ErrorReadIs DEF Evolved
    <3> QED
      BY <2>2, <3>1
  <2>3. CASE UNCHANGED conn
    <3>1. conn' = [conn EXCEPT ![c] = k] /\ Grown(k, k)
      BY <1>2, <2>3, NotReplaced DEF Evolved
    <3> QED
      BY <3>1
  <2> QED
    BY <1>4, <2>1, <2>2, <2>3
<1> DEFINE x == Do(op, c)
           q == <<x>>
<1>6. x \in Step /\ x.op = op /\ x.conn = c
  <2>1. op \in SharedOps \cup RawOps
    BY <1>4 DEF SharedOps, RawOps
  <2> QED
    BY <1>2, <2>1, AreSteps
<1>7. Continue(l, q)
  BY <1>4
<1> HIDE DEF x
<1>8. q \in Seq(Step) /\ ToSet(q) = {x}
  BY <1>6, Single
<1> HIDE DEF q
<1>9. \A s \in ToSet(q) : s.op # "handleRead" /\ s.conn = c /\ StepKept(s, l)
  BY <1>3, <1>4, <1>6, <1>8 DEF StepKept
<1> QED
  BY <1>1, <1>3, <1>5, <1>7, <1>8, <1>9, RunsOwned

\* sendInLoop and shutdownInLoop are queued by other threads only.
LEMMA NoRawFunctor ==
  ASSUME Lawful, Ownership, NEW l \in Loops
  PROVE  ~SendInLoop(l) /\ ~ShutdownInLoop(l)
<1> SUFFICES ASSUME SendInLoop(l) \/ ShutdownInLoop(l) PROVE FALSE
  OBVIOUS
<1>1. todo[l] # <<>> /\ Head(todo[l]).op \in {"sendInLoop", "shutdownInLoop"}
  BY DEF SendInLoop, ShutdownInLoop, IsAt
<1> QED
  BY <1>1, OwnedStep DEF StepKept

LEMMA AppSendOwned ==
  ASSUME Lawful, Ownership, NEW l \in Loops, AppSend(l), UNCHANGED serverVars
  PROVE  Ownership'
<1> DEFINE c == Current(l)
           k == conn[c]
           k2 == sendInLoop(k)
           q == <<Head(todo[l])>>
           n == sendCompletes(c)
<1>1. /\ todo[l] # <<>> /\ UNCHANGED <<lpc, active, batch, left>> /\ UNCHANGED todo
      /\ conn' = [conn EXCEPT ![c] = k2] /\ Queue(l, n) /\ connections_' = connections_
      /\ Head(todo[l]).op = "callback" /\ c = Head(todo[l]).conn
      /\ k.state = "kConnected" /\ TypeOK
  BY DEF AppSend, IsAt, serverVars, Current, Lawful
<1>2. Continue(l, q) /\ q \in Seq(Step) /\ ToSet(q) = {Head(todo[l])}
  BY <1>1, StillThere
<1> HIDE DEF q
<1>3. c \in Conns /\ k \in ConnType /\ Sound(k) /\ (Kept(c) \/ Down(c))
  BY <1>1, AtStep, OwnedStep
<1>4. Kept(c) /\ Grown(k, k2)
  BY <1>1, <1>3, SendInLoopIs DEF Down, Evolved
<1> HIDE DEF k2
<1>5. n \in Seq(Step) /\ \A s \in ToSet(n) : s.op = "callback" /\ s.conn = c
  BY <1>3, CompletesIs
<1> HIDE DEF n
<1>6. \A s \in ToSet(n) : s.conn = c /\ FunctorKept(s, l)
  BY <1>5 DEF FunctorKept
<1>7. \A s \in ToSet(q) : s.op # "handleRead" /\ s.conn = c /\ StepKept(s, l)
  BY <1>1, <1>2 DEF StepKept
<1>8. \A d \in connections_ : d \in connections_'
  BY <1>1
<1> QED
  BY <1>1, <1>2, <1>4, <1>5, <1>6, <1>7, <1>8, OwnershipHandler

LEMMA AppShutdownOwned ==
  ASSUME Lawful, Ownership, NEW l \in Loops, AppShutdown(l), UNCHANGED serverVars
  PROVE  Ownership'
<1> DEFINE c == Current(l)
           k == conn[c]
           k2 == shutdownInLoop(Shut(k))
           q == <<Head(todo[l])>>
<1>1. /\ todo[l] # <<>> /\ UNCHANGED Rest /\ UNCHANGED functors
      /\ UNCHANGED todo /\ conn' = [conn EXCEPT ![c] = k2]
      /\ Head(todo[l]).op = "callback" /\ c = Head(todo[l]).conn
      /\ k.state = "kConnected" /\ TypeOK
  BY DEF AppShutdown, IsAt, serverVars, Rest, Current, Lawful, loopVars, Shut
<1>2. Continue(l, q) /\ q \in Seq(Step) /\ ToSet(q) = {Head(todo[l])}
  BY <1>1, StillThere
<1> HIDE DEF q
<1>3. k \in ConnType /\ Sound(k) /\ (Kept(c) \/ Down(c))
  BY <1>1, AtStep, OwnedStep
<1>4. Kept(c) /\ Grown(k, k2)
  BY <1>1, <1>3, AppShutdownIs DEF Down, Evolved
<1> HIDE DEF k2
<1>5. \A s \in ToSet(q) : s.op # "handleRead" /\ s.conn = c /\ StepKept(s, l)
  BY <1>1, <1>2 DEF StepKept
<1> QED
  BY <1>1, <1>2, <1>4, <1>5, RunsOwned

\* removeConnection leaves the connection in connections_.
LEMMA RemoveConnectionOwned ==
  ASSUME Lawful, Ownership, NEW l \in Loops, RemoveConnection(l)
  PROVE  Ownership'
<1> DEFINE c == Current(l)
           k == conn[c]
           x == Do("removeConnectionInLoop", c)
           remove == <<x>>
           none == <<>>
<1>1. /\ todo[l] # <<>> /\ Head(todo[l]).op = "closeCallback" /\ UNCHANGED conn
      /\ UNCHANGED <<lpc, active, batch, left>>
      /\ connections_' = connections_
      /\ \/ Continue(l, remove) /\ UNCHANGED functors
         \/ Queue(BaseLoop, remove) /\ Continue(l, none)
  BY DEF RemoveConnection, IsAt, serverVars
<1>2. c \in Conns /\ TypeOK /\ BaseLoop \in Loops
  BY <1>1, AtStep, TcpServerAssumption DEF Lawful
<1>3. conn' = [conn EXCEPT ![c] = k] /\ Grown(k, k)
  BY <1>1, <1>2, NotReplaced DEF Evolved
<1>4. /\ remove \in Seq(Step) /\ none \in Seq(Step) /\ ToSet(none) = {}
      /\ \A s \in ToSet(remove) : s.op = "removeConnectionInLoop" /\ s.conn = c
  BY <1>2, Dos, Single, None DEF DoIs
<1> HIDE DEF remove, x
<1>5. \E m \in Loops : \E steps, q \in {remove, none} :
         Continue(l, steps) /\ Queue(m, q)
  <2>1. CASE Continue(l, remove) /\ UNCHANGED functors
    <3>1. Queue(BaseLoop, none)
      BY <1>2, <2>1, NothingQueued
    <3> QED
      BY <1>2, <2>1, <3>1
  <2>2. CASE Queue(BaseLoop, remove) /\ Continue(l, none)
    BY <1>2, <2>2
  <2> QED
    BY <1>1, <2>1, <2>2
<1> HIDE DEF none
<1>6. PICK m \in Loops, steps \in {remove, none}, q \in {remove, none} :
        Continue(l, steps) /\ Queue(m, q)
  BY <1>5
<1>7. /\ steps \in Seq(Step) /\ q \in Seq(Step)
      /\ \A s \in ToSet(steps) : s.op # "handleRead" /\ s.conn = c /\ StepKept(s, l)
      /\ \A s \in ToSet(q) : s.conn = c /\ FunctorKept(s, m)
  BY <1>4, <1>6 DEF StepKept, FunctorKept
<1>8. \A d \in connections_ : d \in connections_'
  BY <1>1
<1> QED
  BY <1>1, <1>3, <1>6, <1>7, <1>8, OwnershipHandler

\* removeConnectionInLoop hands it over to the connectDestroyed functor.
LEMMA RemoveConnectionInLoopOwned ==
  ASSUME Lawful, Ownership, NEW l \in Loops, RemoveConnectionInLoop(l)
  PROVE  Ownership'
<1> DEFINE c == Current(l)
           k == conn[c]
           m == k.loop
           x == Do("connectDestroyed", c)
           q == <<x>>
           none == <<>>
<1>1. /\ todo[l] # <<>> /\ Head(todo[l]).op = "removeConnectionInLoop" /\ UNCHANGED conn
      /\ UNCHANGED <<lpc, active, batch, left>>
      /\ \/ Queue(m, q) /\ Continue(l, none) /\ connections_' = connections_ \ {c}
         \/ UNCHANGED <<connections_, functors, todo>>
  BY DEF RemoveConnectionInLoop, IsAt, Abort
<1>2. c \in Conns /\ k \in ConnType /\ TypeOK
  BY <1>1, AtStep DEF Lawful
<1>3. CASE Queue(m, q) /\ Continue(l, none) /\ connections_' = connections_ \ {c}
  <2>1. conn' = [conn EXCEPT ![c] = k] /\ Grown(k, k) /\ m \in Loops
    BY <1>1, <1>2, NotReplaced DEF ConnType, Evolved
  <2>2. /\ q \in Seq(Step) /\ none \in Seq(Step) /\ ToSet(none) = {} /\ ToSet(q) = {x}
        /\ x.op = "connectDestroyed" /\ x.conn = c
    BY <1>2, Dos, Single, None DEF DoIs
  <2>3. Queue(m, q) /\ Continue(l, none) /\ Do("connectDestroyed", c) \in ToSet(q)
    BY <1>3, <2>2
  <2>4. FunctorKept(x, m)
    BY <2>2 DEF FunctorKept
  <2>5. \A s \in ToSet(q) : s.conn = c /\ FunctorKept(s, m)
    <3> HIDE DEF x, q, m
    <3> QED
      BY <2>2, <2>4
  <2>6. \A d \in connections_ : \/ d \in connections_'
                                \/ m = conn[d].loop /\ Do("connectDestroyed", d) \in ToSet(q)
    <3>1. \A d \in connections_ : d # c => d \in connections_'
      BY <1>3
    <3> HIDE DEF q, x
    <3> QED
      BY <2>3, <3>1
  <2> HIDE DEF q, x, m, none
  <2>7. \A s \in ToSet(none) : s.op # "handleRead" /\ s.conn = c /\ StepKept(s, l)
    BY <2>2
  <2> QED
    BY <1>1, <2>1, <2>2, <2>3, <2>5, <2>6, <2>7, OwnershipHandler
<1>4. CASE UNCHANGED <<connections_, functors, todo>>
  <2>1. UNCHANGED <<conn, loopVars, connections_>>
    BY <1>1, <1>4 DEF loopVars
  <2> QED
    BY <2>1, SameOwned
<1> QED
  BY <1>1, <1>3, <1>4

\* What the peer does leaves the channel and the state alone.
LEMMA PeerOwned ==
  ASSUME Lawful, Ownership, NEW c \in Conns, Peer(c), UNCHANGED serverVars
  PROVE  Ownership'
<1> DEFINE k == conn[c]
<1>1. TypeOK /\ k \in ConnType /\ Sound(k)
  BY DEF Lawful, TypeOK, ConnTypeOK
<1>2. PICK k2 : /\ conn' = [conn EXCEPT ![c] = k2]
                /\ \/ k2 = DataCame(k) \/ k2 = RoomMade(k)
                   \/ k2 = PeerClosed(k) /\ k.peer = "open"
                   \/ k2 = PeerReset(k)
  <2>1. CASE PeerSends(c)
    BY <2>1 DEF PeerSends, DataCame
  <2>2. CASE PeerReads(c)
    BY <2>2 DEF PeerReads, RoomMade
  <2>3. CASE PeerCloses(c)
    BY <2>3 DEF PeerCloses, PeerClosed
  <2>4. CASE PeerResets(c)
    BY <2>4 DEF PeerResets, PeerReset
  <2> QED
    BY <2>1, <2>2, <2>3, <2>4 DEF Peer
<1>3. SameChannel(k, k2) /\ Grown(k, k2) /\ k2.state = k.state
  BY <1>1, <1>2, PeerIs DEF Evolved
<1>4. UNCHANGED <<lpc, active, todo, functors, batch, left, connections_>>
  BY DEF Peer, PeerSends, PeerReads, PeerCloses, PeerResets, loopVars, serverVars
<1>5. conn'[c] = k2 /\ \A d \in Conns : d # c => conn'[d] = conn[d]
  BY <1>1, <1>2 DEF TypeOK, ConnTypeOK
<1>6. ASSUME NEW d \in Conns
      PROVE  /\ Grown(conn[d], conn'[d]) /\ conn'[d].channel = conn[d].channel
             /\ conn'[d].state = conn[d].state /\ conn'[d].loop = conn[d].loop
             /\ conn'[d].made = conn[d].made
  <2>1. CASE d = c
    BY <1>3, <1>5, <2>1 DEF SameChannel
  <2>2. CASE d # c
    BY <1>5, <2>2 DEF Grown
  <2> QED
    BY <2>1, <2>2
<1>7. ASSUME NEW d \in Conns, Kept(d) PROVE Kept(d)'
  BY <1>4, <1>6, <1>7 DEF Kept, DestroyPending
<1>8. ASSUME NEW d \in Conns, Down(d) PROVE Down(d)'
  BY <1>4, <1>6, <1>8 DEF Down
<1>9. /\ \A d \in Conns : Grown(conn[d], conn[d]')
      /\ \A d \in Conns : ~conn[d].made => ~conn[d]'.made
  BY <1>6
<1>10. /\ \A m \in Loops : active'[m] \subseteq active[m]
       /\ \A m \in Loops : \A s \in ToSet(todo'[m]) : s \in ToSet(todo[m])
       /\ \A m \in Loops : \A s \in ToSet(functors'[m]) : s \in ToSet(functors[m])
       /\ UNCHANGED <<lpc, batch, left>>
  BY <1>4
<1> QED
  BY <1>7, <1>8, <1>9, <1>10, OwnershipStays

\* newConnection puts it into connections_.
LEMMA NewConnectionOwned ==
  ASSUME Lawful, Ownership, NEW c \in Conns, NewConnection(c)
  PROVE  Ownership'
<1> DEFINE l == getNextLoop
           k == conn[c]
           k2 == [k EXCEPT !.made = TRUE, !.loop = l]
           x == Do("connectEstablished", c)
           q == <<x>>
<1>1. /\ TypeOK /\ todo[BaseLoop] = <<>> /\ ~k.made
      /\ conn' = [conn EXCEPT ![c] = k2]
      /\ connections_' = connections_ \cup {c}
      /\ \/ l = BaseLoop /\ todo' = [todo EXCEPT ![l] = q] /\ UNCHANGED functors
         \/ Queue(l, q) /\ UNCHANGED todo
      /\ UNCHANGED <<lpc, active, batch, left>>
  BY DEF NewConnection, Idle, Lawful
<1>2. l \in Loops /\ todo \in [Loops -> Seq(Step)]
  BY <1>1, LoopChosen DEF TypeOK, ConnTypeOK
<1>3. k \in ConnType /\ Sound(k)
  BY <1>1 DEF Lawful, TypeOK, ConnTypeOK
<1> HIDE DEF l
<1>4. /\ k2.state = k.state /\ k2.peer = k.peer
  BY <1>2, <1>3 DEF ConnType
<1>5. q \in Seq(Step) /\ ToSet(q) = {x} /\ x.op = "connectEstablished"
  BY Dos, Single DEF DoIs
<1> HIDE DEF k2, q, x
<1>6. conn'[c] = k2 /\ \A d \in Conns : d # c => conn'[d] = conn[d]
  BY <1>1 DEF TypeOK, ConnTypeOK
<1>7. \A d \in Conns : Grown(conn[d], conn[d]')
  <2>1. ASSUME NEW d \in Conns PROVE Grown(conn[d], conn'[d])
    <3>1. CASE d = c
      BY <1>1, <1>4, <1>6, <3>1 DEF Grown
    <3>2. CASE d # c
      BY <1>6, <3>2 DEF Grown
    <3> QED
      BY <3>1, <3>2
  <2> QED
    BY <2>1
<1>8. /\ \A m \in Loops : ToSet(todo[m]) \subseteq ToSet(todo'[m])
      /\ \A m \in Loops : \A s \in ToSet(todo'[m]) : s \in ToSet(todo[m]) \/ s = x
  <2>1. CASE UNCHANGED todo
    BY <2>1
  <2>2. CASE l = BaseLoop /\ todo' = [todo EXCEPT ![l] = q]
    <3>1. todo'[l] = q /\ \A m \in Loops : m # l => todo'[m] = todo[m]
      BY <1>2, <2>2
    <3>2. ToSet(todo[l]) = {}
      BY <1>1, <2>2, None
    <3> QED
      BY <1>5, <3>1, <3>2
  <2> QED
    BY <1>1, <2>1, <2>2
<1>9. /\ \A m \in Loops : ToSet(functors[m]) \subseteq ToSet(functors'[m])
      /\ \A m \in Loops : \A s \in ToSet(functors'[m]) : s \in ToSet(functors[m]) \/ s = x
  <2>1. CASE UNCHANGED functors
    BY <2>1
  <2>2. CASE Queue(l, q)
    BY <1>1, <1>2, <1>5, <2>2, Queued
  <2> QED
    BY <1>1, <2>1, <2>2
<1>10. ASSUME NEW d \in Conns, conn[d].made, Kept(d) PROVE Kept(d)'
  <2>1. CASE d \in connections_
    BY <1>1, <2>1 DEF Kept
  <2>2. CASE DestroyPending(d)
    <3> DEFINE m == conn[d].loop
    <3>1. m \in Loops /\ conn'[d].loop = m
      BY <1>1, <1>6, <1>10 DEF TypeOK, ConnTypeOK, ConnType
    <3>2. left' = left
      BY <1>1
    <3>3. Do("connectDestroyed", d) \in ToSet(todo[m]) \cup ToSet(functors[m]) \cup ToSet(left[m])
      BY <2>2 DEF DestroyPending
    <3> HIDE DEF m
    <3>4. Do("connectDestroyed", d) \in ToSet(todo'[m]) \cup ToSet(functors'[m]) \cup ToSet(left'[m])
      BY <1>8, <1>9, <3>1, <3>2, <3>3
    <3> QED
      BY <3>1, <3>4 DEF Kept, DestroyPending
  <2> QED
    BY <1>10, <2>1, <2>2 DEF Kept
<1>11. ASSUME NEW d \in Conns, conn[d].made, Down(d) PROVE Down(d)'
  <2>1. conn'[d] = conn[d] /\ conn[d].loop \in Loops
    BY <1>1, <1>6, <1>11 DEF TypeOK, ConnTypeOK, ConnType
  <2> QED
    BY <1>8, <1>11, <2>1 DEF Down
<1>12. ASSUME NEW d \in Conns, ~conn[d].made, conn'[d].made PROVE Kept(d)'
  <2>1. d = c
    BY <1>6, <1>12
  <2> QED
    BY <1>1, <2>1 DEF Kept
<1>13. /\ \A m \in Loops : active'[m] \subseteq active[m]
       /\ UNCHANGED <<lpc, batch, left>>
  BY <1>1
<1>14. /\ \A m \in Loops : \A s \in ToSet(todo'[m]) :
            s \in ToSet(todo[m]) \/ s.op = "connectEstablished"
       /\ \A m \in Loops : \A s \in ToSet(functors'[m]) :
            s \in ToSet(functors[m]) \/ s.op = "connectEstablished"
  BY <1>5, <1>8, <1>9
<1> QED
  BY <1>7, <1>10, <1>11, <1>12, <1>13, <1>14, OwnershipStays

\* A step of loop l between two calls: functors are passed on, and the handlers
\* and reports are those of connections that are kept.
LEMMA PassesOwned ==
  ASSUME Lawful, Ownership, NEW l \in Loops, todo[l] = <<>>, UNCHANGED <<conn, connections_>>,
         \A m \in Loops : m # l => /\ lpc'[m] = lpc[m] /\ active'[m] = active[m]
                                   /\ todo'[m] = todo[m] /\ functors'[m] = functors[m]
                                   /\ batch'[m] = batch[m] /\ left'[m] = left[m],
         \A s \in ToSet(functors[l]) \cup ToSet(left[l]) :
           s \in ToSet(todo'[l]) \cup ToSet(functors'[l]) \cup ToSet(left'[l]),
         \A s \in ToSet(functors'[l]) \cup ToSet(left'[l]) :
           s \in ToSet(functors[l]) \cup ToSet(left[l]),
         lpc'[l] # "functors" => left'[l] = <<>>,
         ToSet(left'[l]) \subseteq ToSet(batch'[l]),
         \A s \in ToSet(todo'[l]) :
           \/ s \in ToSet(left[l]) /\ s \in ToSet(batch'[l]) /\ lpc'[l] = "functors"
           \/ /\ s.op \in HandlerNames /\ s.conn \in Conns /\ conn[s.conn].loop = l
              /\ lpc'[l] = "dispatch" /\ Kept(s.conn),
         \A r \in active'[l] : r[1] \in Conns /\ lpc'[l] = "dispatch" /\ Kept(r[1])
  PROVE  Ownership'
<1>1. /\ conn' = conn /\ connections_' = connections_ /\ ToSet(todo[l]) = {} /\ TypeOK
  BY None DEF Lawful
<1>2. \A c \in Conns : conn[c].loop \in Loops
  BY <1>1 DEF TypeOK, ConnTypeOK, ConnType
<1>3. ASSUME NEW c \in Conns, Kept(c) PROVE Kept(c)'
  <2> DEFINE x == conn[c].loop
             D == Do("connectDestroyed", c)
  <2>1. CASE c \in connections_
    BY <1>1, <2>1 DEF Kept
  <2>2. CASE D \in ToSet(todo[x]) \cup ToSet(functors[x]) \cup ToSet(left[x])
    <3>1. x \in Loops
      BY <1>2
    <3> HIDE DEF x, D
    <3>2. D \in ToSet(todo'[x]) \cup ToSet(functors'[x]) \cup ToSet(left'[x])
      BY <1>1, <2>2, <3>1
    <3>3. DestroyPending(c)'
      BY <1>1, <3>2 DEF DestroyPending, D, x
    <3> QED
      BY <3>3 DEF Kept
  <2> QED
    BY <1>3, <2>1, <2>2 DEF Kept, DestroyPending
<1>4. ASSUME NEW c \in Conns, Down(c) PROVE Down(c)'
  <2> DEFINE x == conn[c].loop
             R == Do("removeChannel", c)
  <2>1. x \in Loops /\ (conn[c].channel.registered => R \in ToSet(todo[x]))
    BY <1>2, <1>4 DEF Down
  <2> HIDE DEF x, R
  <2>2. conn[c].channel.registered => R \in ToSet(todo'[x])
    BY <1>1, <2>1
  <2> QED
    BY <1>1, <1>4, <2>2 DEF Down, x, R
<1>5. \A c \in Conns : conn'[c].made => (Kept(c) \/ Down(c))'
  BY <1>1, <1>3, <1>4 DEF Ownership
<1>6. ASSUME NEW m \in Loops, m # l PROVE LoopKeeps(m)'
  <2>1. LoopKeeps(m)
    BY DEF Ownership
  <2>2. /\ lpc'[m] = lpc[m] /\ active'[m] = active[m]
        /\ todo'[m] = todo[m] /\ functors'[m] = functors[m]
        /\ batch'[m] = batch[m] /\ left'[m] = left[m]
    BY <1>6
  <2>3. \A s \in ToSet(todo[m]) : s.conn \in Conns
    BY WaitingIs
  <2>4. \A r \in active[m] : r[1] \in Conns
    BY <1>1 DEF TypeOK, ConnTypeOK
  <2>5. /\ (lpc[m] # "functors" => left[m] = <<>>)'
        /\ (ToSet(left[m]) \subseteq ToSet(batch[m]))'
    BY <2>1, <2>2 DEF LoopKeeps
  <2>6. ASSUME NEW s \in ToSet(todo'[m]) PROVE StepKept(s, m)'
    <3>1. s \in ToSet(todo[m]) /\ StepKept(s, m) /\ s.conn \in Conns
      BY <2>1, <2>2, <2>3, LoopKeepsIs
    <3>2. Kept(s.conn) => Kept(s.conn)'
      BY <1>3, <3>1
    <3> QED
      BY <1>1, <2>2, <3>1, <3>2 DEF StepKept
  <2>7. ASSUME NEW s \in ToSet(functors'[m]) \cup ToSet(left'[m]) PROVE FunctorKept(s, m)'
    <3>1. FunctorKept(s, m)
      BY <2>1, <2>2, LoopKeepsIs
    <3> QED
      BY <1>1, <3>1 DEF FunctorKept
  <2>8. ASSUME NEW r \in active'[m] PROVE (lpc[m] = "dispatch")' /\ Kept(r[1])'
    <3>1. r[1] \in Conns /\ lpc[m] = "dispatch" /\ Kept(r[1])
      BY <2>1, <2>2, <2>4 DEF LoopKeeps
    <3> QED
      BY <1>3, <2>2, <3>1
  <2> QED
    BY <2>5, <2>6, <2>7, <2>8 DEF LoopKeeps, StepKept, FunctorKept
<1>7. LoopKeeps(l)'
  <2>1. LoopKeeps(l)
    BY DEF Ownership
  <2>2. /\ (lpc[l] # "functors" => left[l] = <<>>)'
        /\ (ToSet(left[l]) \subseteq ToSet(batch[l]))'
    OBVIOUS
  <2>3. ASSUME NEW s \in ToSet(todo'[l]) PROVE StepKept(s, l)'
    <3>1. CASE s \in ToSet(left[l]) /\ s \in ToSet(batch'[l]) /\ lpc'[l] = "functors"
      <4>1. FunctorKept(s, l) /\ s \in Step /\ s.op \in FunctorOps
        <5>1. LoopSound(l)
          BY DEF Lawful
        <5> QED
          BY <2>1, <3>1, <5>1, WaitingIs, LoopKeepsIs DEF LoopSound
      <4>2. s.op = "connectDestroyed" => s = Do("connectDestroyed", s.conn)
        BY <4>1 DEF Step, Do
      <4>3. s.op \notin {"removeChannel", "handleClose", "handleError", "handleRead", "handleWrite"}
        BY <4>1 DEF FunctorOps
      <4> QED
        BY <1>1, <3>1, <4>1, <4>2, <4>3 DEF StepKept, FunctorKept
    <3>2. CASE /\ s.op \in HandlerNames /\ s.conn \in Conns /\ conn[s.conn].loop = l
               /\ lpc'[l] = "dispatch" /\ Kept(s.conn)
      <4>1. Kept(s.conn)'
        BY <1>3, <3>2
      <4>2. s.op \notin {"connectDestroyed", "removeChannel", "sendInLoop", "shutdownInLoop"}
        BY <3>2 DEF HandlerNames
      <4> QED
        BY <1>1, <3>2, <4>1, <4>2 DEF StepKept
    <3> QED
      BY <2>3, <3>1, <3>2
  <2>4. ASSUME NEW s \in ToSet(functors'[l]) \cup ToSet(left'[l]) PROVE FunctorKept(s, l)'
    <3>1. FunctorKept(s, l)
      BY <2>1, <2>4, LoopKeepsIs
    <3> QED
      BY <1>1, <3>1 DEF FunctorKept
  <2>5. ASSUME NEW r \in active'[l] PROVE (lpc[l] = "dispatch")' /\ Kept(r[1])'
    BY <1>3, <2>5
  <2> QED
    BY <2>2, <2>3, <2>4, <2>5 DEF LoopKeeps, StepKept, FunctorKept
<1> QED
  BY <1>5, <1>6, <1>7 DEF Ownership

LEMMA PollOwned ==
  ASSUME Lawful, Ownership, NEW l \in Loops, Poll(l), UNCHANGED serverVars
  PROVE  Ownership'
<1>1. /\ TypeOK /\ todo[l] = <<>> /\ lpc[l] = "poll" /\ UNCHANGED <<conn, connections_>>
      /\ UNCHANGED <<todo, functors, batch, left>>
      /\ active' = [active EXCEPT ![l] = Reports(l)] /\ lpc' = [lpc EXCEPT ![l] = "dispatch"]
  BY DEF Poll, Idle, Lawful, serverVars
<1> DEFINE R == Reports(l)
<1>2. /\ active'[l] = R /\ lpc'[l] = "dispatch"
      /\ \A m \in Loops : m # l => active'[m] = active[m] /\ lpc'[m] = lpc[m]
  BY <1>1 DEF TypeOK, ConnTypeOK
<1>3. ASSUME NEW r \in R PROVE r[1] \in Conns /\ Kept(r[1])
  <2>1. r[1] \in Conns /\ Founded(r, l) /\ conn[r[1]].channel.registered
    <3>1. R \subseteq Conns \X SUBSET Revents
      BY ReportsAre
    <3> QED
      BY <3>1, ReportsAre
  <2>2. conn[r[1]].made /\ conn[r[1]].loop = l
    BY <2>1 DEF Founded
  <2>3. ToSet(todo[l]) = {}
    BY <1>1, None
  <2>4. ~Down(r[1])
    BY <2>1, <2>2, <2>3 DEF Down
  <2> QED
    BY <2>1, <2>2, <2>4 DEF Ownership
<1> HIDE DEF R
<1>4. /\ LoopKeeps(l) /\ ToSet(todo[l]) = {} /\ todo' = todo /\ functors' = functors
      /\ batch' = batch /\ left' = left
  BY <1>1, None DEF Ownership
<1>5. /\ lpc'[l] # "functors" => left'[l] = <<>>
      /\ ToSet(left'[l]) \subseteq ToSet(batch'[l])
  BY <1>1, <1>4 DEF LoopKeeps
<1>6. \A m \in Loops : m # l => /\ lpc'[m] = lpc[m] /\ active'[m] = active[m]
                                /\ todo'[m] = todo[m] /\ functors'[m] = functors[m]
                                /\ batch'[m] = batch[m] /\ left'[m] = left[m]
  BY <1>2, <1>4
<1>7. /\ \A s \in ToSet(functors[l]) \cup ToSet(left[l]) :
           s \in ToSet(todo'[l]) \cup ToSet(functors'[l]) \cup ToSet(left'[l])
      /\ \A s \in ToSet(functors'[l]) \cup ToSet(left'[l]) :
           s \in ToSet(functors[l]) \cup ToSet(left[l])
      /\ ToSet(todo'[l]) = {}
  BY <1>4
<1>8. \A r \in active'[l] : r[1] \in Conns /\ lpc'[l] = "dispatch" /\ Kept(r[1])
  BY <1>2, <1>3
<1> QED
  BY <1>1, <1>5, <1>6, <1>7, <1>8, PassesOwned

LEMMA DispatchOwned ==
  ASSUME Lawful, Ownership, NEW l \in Loops, Dispatch(l), UNCHANGED serverVars
  PROVE  Ownership'
<1>1. PICK r \in active[l] : /\ active' = [active EXCEPT ![l] = @ \ {r}]
                             /\ todo' = [todo EXCEPT ![l] = Handlers(r[2], r[1])]
  BY DEF Dispatch, Handlers
<1>2. /\ TypeOK /\ todo[l] = <<>> /\ lpc[l] = "dispatch" /\ UNCHANGED <<conn, connections_>>
      /\ lpc' = lpc /\ functors' = functors /\ batch' = batch /\ left' = left
  BY DEF Dispatch, Idle, Lawful, serverVars
<1>3. r[1] \in Conns /\ r[2] \in SUBSET Revents
  BY <1>2 DEF TypeOK, ConnTypeOK
<1> DEFINE h == Handlers(r[2], r[1])
<1>4. \A s \in ToSet(h) : s.conn = r[1] /\ s.op \in HandlerNames
  BY <1>3, HandlersAre
<1>5. todo' = [todo EXCEPT ![l] = h]
  BY <1>1
<1> HIDE DEF h
<1>6. /\ todo'[l] = h /\ active'[l] = active[l] \ {r}
      /\ \A m \in Loops : m # l => todo'[m] = todo[m] /\ active'[m] = active[m]
  BY <1>1, <1>2, <1>5 DEF TypeOK, ConnTypeOK
<1>7. LoopKeeps(l) /\ LoopSound(l)
  BY DEF Ownership, Lawful
<1>8. Kept(r[1]) /\ conn[r[1]].loop = l
  BY <1>7 DEF LoopKeeps, LoopSound, Founded
<1>9. \A s \in ToSet(todo'[l]) :
        /\ s.op \in HandlerNames /\ s.conn \in Conns /\ conn[s.conn].loop = l
        /\ lpc'[l] = "dispatch" /\ Kept(s.conn)
  BY <1>2, <1>3, <1>4, <1>6, <1>8
<1>10. \A x \in active'[l] : x[1] \in Conns /\ lpc'[l] = "dispatch" /\ Kept(x[1])
  <2>1. \A x \in active[l] : x[1] \in Conns
    BY <1>2 DEF TypeOK, ConnTypeOK
  <2> QED
    BY <1>2, <1>6, <1>7, <2>1 DEF LoopKeeps
<1>11. /\ lpc'[l] # "functors" => left'[l] = <<>>
       /\ ToSet(left'[l]) \subseteq ToSet(batch'[l])
  BY <1>2, <1>7 DEF LoopKeeps
<1>12. \A m \in Loops : m # l => /\ lpc'[m] = lpc[m] /\ active'[m] = active[m]
                                 /\ todo'[m] = todo[m] /\ functors'[m] = functors[m]
                                 /\ batch'[m] = batch[m] /\ left'[m] = left[m]
  BY <1>2, <1>6
<1>13. /\ \A s \in ToSet(functors[l]) \cup ToSet(left[l]) :
            s \in ToSet(todo'[l]) \cup ToSet(functors'[l]) \cup ToSet(left'[l])
       /\ \A s \in ToSet(functors'[l]) \cup ToSet(left'[l]) :
            s \in ToSet(functors[l]) \cup ToSet(left[l])
  BY <1>2
<1> QED
  BY <1>2, <1>9, <1>10, <1>11, <1>12, <1>13, PassesOwned

LEMMA SwapPendingOwned ==
  ASSUME Lawful, Ownership, NEW l \in Loops, SwapPending(l), UNCHANGED serverVars
  PROVE  Ownership'
<1>1. /\ TypeOK /\ todo[l] = <<>> /\ lpc[l] = "dispatch" /\ active[l] = {}
      /\ UNCHANGED <<conn, connections_>>
      /\ active' = active /\ todo' = todo
      /\ lpc' = [lpc EXCEPT ![l] = "functors"] /\ batch' = [batch EXCEPT ![l] = functors[l]]
      /\ left' = [left EXCEPT ![l] = functors[l]] /\ functors' = [functors EXCEPT ![l] = <<>>]
  BY DEF SwapPending, Idle, Lawful, serverVars
<1>2. /\ lpc'[l] = "functors" /\ batch'[l] = functors[l] /\ left'[l] = functors[l]
      /\ functors'[l] = <<>>
      /\ \A m \in Loops : m # l => /\ lpc'[m] = lpc[m] /\ batch'[m] = batch[m]
                                   /\ left'[m] = left[m] /\ functors'[m] = functors[m]
  BY <1>1 DEF TypeOK, ConnTypeOK
<1>3. left[l] = <<>> /\ ToSet(<<>>) = {}
  BY <1>1, None DEF Ownership, LoopKeeps
<1>4. /\ \A s \in ToSet(functors[l]) \cup ToSet(left[l]) :
           s \in ToSet(todo'[l]) \cup ToSet(functors'[l]) \cup ToSet(left'[l])
      /\ \A s \in ToSet(functors'[l]) \cup ToSet(left'[l]) :
           s \in ToSet(functors[l]) \cup ToSet(left[l])
      /\ ToSet(left'[l]) \subseteq ToSet(batch'[l]) /\ ToSet(todo'[l]) = {} /\ active'[l] = {}
  BY <1>1, <1>2, <1>3
<1> QED
  BY <1>1, <1>2, <1>4, PassesOwned

LEMMA RunFunctorOwned ==
  ASSUME Lawful, Ownership, NEW l \in Loops, RunFunctor(l), UNCHANGED serverVars
  PROVE  Ownership'
<1> DEFINE h == Head(left[l])
           q == <<h>>
<1>1. /\ TypeOK /\ left[l] # <<>> /\ todo[l] = <<>> /\ lpc[l] = "functors"
      /\ UNCHANGED <<conn, connections_>>
      /\ lpc' = lpc /\ active' = active /\ functors' = functors /\ batch' = batch
      /\ todo' = [todo EXCEPT ![l] = q] /\ left' = [left EXCEPT ![l] = Tail(@)]
  BY DEF RunFunctor, Idle, Lawful, serverVars
<1>2. left[l] \in Seq(Step)
  BY <1>1 DEF TypeOK, ConnTypeOK
<1>3. h \in Step /\ ToSet(left[l]) = {h} \cup ToSet(Tail(left[l]))
  BY <1>1, <1>2, Taken
<1>4. ToSet(q) = {h}
  BY <1>3, Single
<1> HIDE DEF q, h
<1>5. /\ left'[l] = Tail(left[l]) /\ todo'[l] = q
      /\ \A m \in Loops : m # l => todo'[m] = todo[m] /\ left'[m] = left[m]
  BY <1>1 DEF TypeOK, ConnTypeOK
<1>6. LoopKeeps(l) /\ LoopSound(l) /\ ToSet(left[l]) \subseteq ToSet(batch[l])
  BY DEF Ownership, Lawful, LoopKeeps
<1>7. \A s \in ToSet(todo'[l]) :
        s \in ToSet(left[l]) /\ s \in ToSet(batch'[l]) /\ lpc'[l] = "functors"
  BY <1>1, <1>3, <1>4, <1>5, <1>6
<1>8. active'[l] = {}
  <2>1. \A r \in active[l] : FALSE
    BY <1>1, <1>6 DEF LoopKeeps
  <2> QED
    BY <1>1, <2>1
<1>9. /\ \A s \in ToSet(functors[l]) \cup ToSet(left[l]) :
           s \in ToSet(todo'[l]) \cup ToSet(functors'[l]) \cup ToSet(left'[l])
      /\ \A s \in ToSet(functors'[l]) \cup ToSet(left'[l]) :
           s \in ToSet(functors[l]) \cup ToSet(left[l])
      /\ ToSet(left'[l]) \subseteq ToSet(batch'[l])
  BY <1>1, <1>3, <1>4, <1>5, <1>6
<1>10. \A m \in Loops : m # l => /\ lpc'[m] = lpc[m] /\ active'[m] = active[m]
                                 /\ todo'[m] = todo[m] /\ functors'[m] = functors[m]
                                 /\ batch'[m] = batch[m] /\ left'[m] = left[m]
  BY <1>1, <1>5
<1> QED
  BY <1>1, <1>7, <1>8, <1>9, <1>10, PassesOwned

LEMMA FunctorsDoneOwned ==
  ASSUME Lawful, Ownership, NEW l \in Loops, FunctorsDone(l), UNCHANGED serverVars
  PROVE  Ownership'
<1>1. /\ TypeOK /\ todo[l] = <<>> /\ left[l] = <<>> /\ lpc[l] = "functors"
      /\ UNCHANGED <<conn, connections_>>
      /\ active' = active /\ functors' = functors /\ todo' = todo /\ left' = left
      /\ lpc' = [lpc EXCEPT ![l] = "poll"] /\ batch' = [batch EXCEPT ![l] = <<>>]
  BY DEF FunctorsDone, Idle, Lawful, serverVars
<1>2. /\ lpc'[l] = "poll" /\ batch'[l] = <<>>
      /\ \A m \in Loops : m # l => lpc'[m] = lpc[m] /\ batch'[m] = batch[m]
  BY <1>1 DEF TypeOK, ConnTypeOK
<1>3. active'[l] = {}
  <2>1. \A r \in active[l] : FALSE
    BY <1>1 DEF Ownership, LoopKeeps
  <2> QED
    BY <1>1, <2>1
<1>4. ToSet(todo'[l]) = {} /\ ToSet(left'[l]) = {}
  BY <1>1, None
<1>5. /\ \A s \in ToSet(functors[l]) \cup ToSet(left[l]) :
           s \in ToSet(todo'[l]) \cup ToSet(functors'[l]) \cup ToSet(left'[l])
      /\ \A s \in ToSet(functors'[l]) \cup ToSet(left'[l]) :
           s \in ToSet(functors[l]) \cup ToSet(left[l])
      /\ ToSet(left'[l]) \subseteq ToSet(batch'[l])
      /\ lpc'[l] # "functors" => left'[l] = <<>>
  BY <1>1, <1>4
<1>6. \A m \in Loops : m # l => /\ lpc'[m] = lpc[m] /\ active'[m] = active[m]
                                /\ todo'[m] = todo[m] /\ functors'[m] = functors[m]
                                /\ batch'[m] = batch[m] /\ left'[m] = left[m]
  BY <1>1, <1>2
<1> QED
  BY <1>1, <1>3, <1>4, <1>5, <1>6, PassesOwned

LEMMA StepOwned ==
  ASSUME Users = {}, Lawful, Ownership, [Next]_vars
  PROVE  Ownership'
<1>1. CASE UNCHANGED vars
  <2>1. UNCHANGED <<conn, loopVars, connections_>>
    BY <1>1 DEF vars
  <2> QED
    BY <2>1, SameOwned
<1>2. ASSUME NEW l \in Loops, LoopMachinery(l), UNCHANGED serverVars PROVE Ownership'
  BY <1>2, PollOwned, DispatchOwned, SwapPendingOwned, RunFunctorOwned, FunctorsDoneOwned
     DEF LoopMachinery
<1>3. ASSUME NEW l \in Loops, ConnStep(l), UNCHANGED serverVars PROVE Ownership'
  BY <1>3, ConnectEstablishedOwned, ConnectDestroyedOwned, RemoveChannelOwned,
     HandleReadOwned, HandleWriteOwned, HandleCloseOwned, HandleErrorOwned,
     NoRawFunctor, CallbackReturnsOwned
     DEF ConnStep
<1>4. ASSUME NEW l \in Loops, UseDestroyed(l), UNCHANGED serverVars PROVE Ownership'
  <2>1. UNCHANGED <<conn, loopVars, connections_>>
    BY <1>4 DEF UseDestroyed, serverVars
  <2> QED
    BY <2>1, SameOwned
<1>5. ASSUME NEW l \in Loops, LoopStep(l) PROVE Ownership'
  BY <1>2, <1>3, <1>4, <1>5, RemoveConnectionOwned, RemoveConnectionInLoopOwned
     DEF LoopStep, ConnHandler
<1>6. ASSUME Application, UNCHANGED serverVars PROVE Ownership'
  BY <1>6, AppSendOwned, AppShutdownOwned DEF Application
<1> QED
  BY <1>1, <1>5, <1>6, NewConnectionOwned, PeerOwned DEF Next

LEMMA InitOwned ==
  ASSUME Init
  PROVE  Ownership
<1>1. \A c \in Conns : ~conn[c].made
  <2>1. \A k \in {Unmade(l) : l \in Loops} : ~k.made
    BY DEF Unmade
  <2>2. conn \in [Conns -> {Unmade(l) : l \in Loops}]
    BY DEF Init, ConnInit
  <2> QED
    BY <2>1, <2>2
<1>2. \A l \in Loops : LoopKeeps(l)
  <2> SUFFICES ASSUME NEW l \in Loops PROVE LoopKeeps(l)
    OBVIOUS
  <2>1. /\ active[l] = {} /\ todo[l] = <<>> /\ functors[l] = <<>> /\ left[l] = <<>>
        /\ ToSet(<<>>) = {}
    BY None DEF Init, ConnInit
  <2> QED
    BY <2>1 DEF LoopKeeps
<1> QED
  BY <1>1, <1>2 DEF Ownership

\* When only callbacks use the connections, every connection is kept until
\* removeChannel has run.
THEOREM OwnershipHolds == Spec => [](Lawful /\ (Users = {} => Ownership))
<1> DEFINE J == Lawful /\ (Users = {} => Ownership)
<1>1. Init => J
  BY InitLawful, InitOwned
<1>2. J /\ [Next]_vars => J'
  BY StepLawful, StepOwned
<1> QED
  BY <1>1, <1>2, PTL DEF Spec

-----------------------------------------------------------------------------
(* Nothing is used after its destruction.                                  *)

\* A step or functor that holds a TcpConnectionPtr keeps its connection.
LEMMA HolderKeeps ==
  ASSUME NEW l \in Loops, NEW s, s.op \in SharedOps,
         s \in ToSet(todo[l]) \/ s \in ToSet(functors[l]) \/ s \in ToSet(batch[l])
  PROVE  s.conn \in Alive
<1> DEFINE Here == Held(todo[l]) \cup Held(functors[l]) \cup Held(batch[l])
           A == UNION {Held(todo[m]) \cup Held(functors[m]) \cup Held(batch[m]) : m \in Loops}
           B == UNION {uref[u] : u \in Users}
<1>1. \A t : s \in ToSet(t) => s.conn \in Held(t)
  BY DEF Held
<1>2. s.conn \in Here
  BY <1>1
<1>3. Here \in {Held(todo[m]) \cup Held(functors[m]) \cup Held(batch[m]) : m \in Loops}
  OBVIOUS
<1>4. Alive = (connections_ \cup A) \cup B
  BY Zenon DEF Alive
<1>5. s.conn \in A
  <2> HIDE DEF Here
  <2> QED
    BY <1>2, <1>3
<1> HIDE DEF A, B, Here
<1> QED
  BY <1>4, <1>5

\* connections_ keeps its connections, connectDestroyed the one it is for.
LEMMA KeptIsAlive ==
  ASSUME Lawful, Ownership, NEW c \in Conns, Kept(c)
  PROVE  c \in Alive
<1>1. CASE c \in connections_
  <2> DEFINE A == UNION {Held(todo[m]) \cup Held(functors[m]) \cup Held(batch[m]) : m \in Loops}
             B == UNION {uref[u] : u \in Users}
  <2>1. Alive = (connections_ \cup A) \cup B
    BY Zenon DEF Alive
  <2> HIDE DEF A, B
  <2> QED
    BY <1>1, <2>1
<1>2. CASE DestroyPending(c)
  <2> DEFINE l == conn[c].loop
             d == Do("connectDestroyed", c)
  <2>1. l \in Loops
    BY DEF Lawful, TypeOK, ConnTypeOK, ConnType
  <2>2. d \in ToSet(todo[l]) \/ d \in ToSet(functors[l]) \/ d \in ToSet(left[l])
    BY <1>2 DEF DestroyPending
  <2>3. d.op \in SharedOps /\ d.conn = c
    BY DEF Do, SharedOps
  <2> HIDE DEF l, d
  <2>4. ToSet(left[l]) \subseteq ToSet(batch[l])
    BY <2>1 DEF Ownership, LoopKeeps
  <2>5. d \in ToSet(todo[l]) \/ d \in ToSet(functors[l]) \/ d \in ToSet(batch[l])
    BY <2>2, <2>4
  <2> QED
    BY <2>1, <2>3, <2>5, HolderKeeps
<1> QED
  BY <1>1, <1>2 DEF Kept

\* So does the connectDestroyed whose removeChannel has not run.
LEMMA StepIsAlive ==
  ASSUME Lawful, Ownership, NEW l \in Loops, NEW s \in ToSet(todo[l])
  PROVE  s.conn \in Alive
<1>1. s \in Step /\ s.conn \in Conns /\ StepKept(s, l)
  BY WaitingIs, LoopKeepsIs DEF Ownership
<1>2. CASE s.op \in SharedOps
  BY <1>2, HolderKeeps
<1>3. CASE s.op = "removeChannel"
  <2> DEFINE d == Do("connectDestroyed", s.conn)
  <2>1. d \in ToSet(batch[l])
    BY <1>1, <1>3 DEF StepKept
  <2>2. d.op \in SharedOps /\ d.conn = s.conn
    BY DEF Do, SharedOps
  <2> HIDE DEF d
  <2> QED
    BY <2>1, <2>2, HolderKeeps
<1>4. CASE s.op \in {"handleClose", "handleError", "handleRead", "handleWrite"}
  BY <1>1, <1>4, KeptIsAlive DEF StepKept
<1>5. s.op \notin {"sendInLoop", "shutdownInLoop"} /\ s.op \in SharedOps \cup RawOps
  BY <1>1 DEF StepKept, Step
<1> QED
  BY <1>2, <1>3, <1>4, <1>5 DEF RawOps

\* A functor keeps its connection: none is bound to a raw this.
LEMMA FunctorIsAlive ==
  ASSUME Lawful, Ownership, NEW l \in Loops,
         NEW s, s \in ToSet(functors[l]) \/ s \in ToSet(left[l])
  PROVE  s.conn \in Alive
<1>1. FunctorKept(s, l)
  BY LoopKeepsIs DEF Ownership
<1>2. s.op \in FunctorOps
  BY DEF Lawful, LoopSound
<1>3. s.op \in SharedOps
  BY <1>1, <1>2 DEF FunctorKept, FunctorOps, SharedOps
<1>4. s \in ToSet(functors[l]) \/ s \in ToSet(batch[l])
  BY LoopKeepsIs DEF Ownership
<1> QED
  BY <1>3, <1>4, HolderKeeps

\* A registered channel, a report not yet handled and a waiting step or functor
\* all belong to a connection that is not destroyed, when only callbacks use the
\* connections: two loops, a peer and a stale list of reports do not break it.
THEOREM NothingDanglesInCallbacks == Spec => [](Users = {} => NothingDangles)
<1>1. ASSUME Lawful, Ownership PROVE NothingDangles
  <2>1. ASSUME NEW c \in Conns, conn[c].channel.registered PROVE c \in Alive
    <3>1. conn[c].made
      <4>1. Sound(conn[c])
        BY <1>1 DEF Lawful
      <4>2. conn[c].state # "kConnecting"
        BY <2>1, <4>1 DEF Sound, NewChannel
      <4> QED
        BY <4>1, <4>2 DEF Sound
    <3>2. CASE Kept(c)
      BY <1>1, <3>2, KeptIsAlive
    <3>3. CASE Down(c)
      <4> DEFINE l == conn[c].loop
                 s == Do("removeChannel", c)
      <4>1. l \in Loops
        BY <1>1 DEF Lawful, TypeOK, ConnTypeOK, ConnType
      <4>2. s \in ToSet(todo[l])
        BY <2>1, <3>3 DEF Down
      <4>3. s.conn = c
        BY DEF Do
      <4> HIDE DEF l, s
      <4> QED
        BY <1>1, <4>1, <4>2, <4>3, StepIsAlive
    <3> QED
      BY <1>1, <3>1, <3>2, <3>3 DEF Ownership
  <2>2. ASSUME NEW l \in Loops, NEW r \in active[l] PROVE r[1] \in Alive
    <3>1. r[1] \in Conns
      BY <1>1, <2>2 DEF Lawful, TypeOK, ConnTypeOK
    <3>2. Kept(r[1])
      BY <1>1, <2>2 DEF Ownership, LoopKeeps
    <3> QED
      BY <1>1, <3>1, <3>2, KeptIsAlive
  <2>3. ASSUME NEW l \in Loops, NEW s \in ToSet(todo[l] \o functors[l] \o left[l])
        PROVE  s.conn \in Alive
    <3>1. /\ todo[l] \in Seq(Step) /\ functors[l] \in Seq(Step) /\ left[l] \in Seq(Step)
      BY <1>1 DEF Lawful, TypeOK, ConnTypeOK
    <3> DEFINE q == todo[l] \o functors[l]
    <3>2. q \in Seq(Step) /\ ToSet(q) = ToSet(todo[l]) \cup ToSet(functors[l])
      BY <3>1, Joined
    <3>3. s \in ToSet(q \o left[l])
      BY <2>3
    <3> HIDE DEF q
    <3>4. ToSet(q \o left[l]) = ToSet(q) \cup ToSet(left[l])
      BY <3>1, <3>2, Joined
    <3>5. s \in ToSet(todo[l]) \/ s \in ToSet(functors[l]) \/ s \in ToSet(left[l])
      BY <3>2, <3>3, <3>4
    <3> QED
      BY <1>1, <3>5, StepIsAlive, FunctorIsAlive
  <2> QED
    BY <2>1, <2>2, <2>3 DEF NothingDangles
<1>2. Lawful /\ (Users = {} => Ownership) => (Users = {} => NothingDangles)
  BY <1>1
<1> QED
  BY <1>2, OwnershipHolds, PTL

-----------------------------------------------------------------------------
(* The order of a connection's life, whoever uses it.                      *)

\* What is in S at most once in two sequences is so in their concatenation if only
\* one of them meets S.
LEMMA OnceInJoined ==
  ASSUME NEW T, NEW S, NEW s \in Seq(T), NEW t \in Seq(T)
  PROVE  OnceIn(s \o t, S) <=> /\ OnceIn(s, S) /\ OnceIn(t, S)
                               /\ ~(Meets(s, S) /\ Meets(t, S))
<1> DEFINE u == s \o t
<1>1. /\ Len(s) \in Nat /\ Len(t) \in Nat
      /\ DOMAIN s = 1..Len(s) /\ DOMAIN t = 1..Len(t)
      /\ DOMAIN u = 1..Len(s) + Len(t)
      /\ \A i \in 1..Len(s) : u[i] = s[i]
      /\ \A i \in 1..Len(t) : u[Len(s) + i] = t[i]
  OBVIOUS
<1> HIDE DEF u
<1>2. \A i \in DOMAIN s : i \in DOMAIN u /\ u[i] = s[i] /\ i <= Len(s) /\ i \in Int
  BY <1>1
<1>3. \A i \in DOMAIN t : /\ Len(s) + i \in DOMAIN u /\ u[Len(s) + i] = t[i]
                          /\ Len(s) + i > Len(s) /\ i \in Int
  BY <1>1
<1>4. \A v : Meets(v, S) <=> \E i \in DOMAIN v : v[i] \in S
  BY DEF Meets, ToSet
<1>5. ASSUME OnceIn(u, S)
      PROVE  OnceIn(s, S) /\ OnceIn(t, S) /\ ~(Meets(s, S) /\ Meets(t, S))
  <2>1. OnceIn(s, S)
    BY <1>2, <1>5 DEF OnceIn
  <2>2. ASSUME NEW i \in DOMAIN t, NEW j \in DOMAIN t, t[i] \in S, t[j] \in S PROVE i = j
    <3>1. Len(s) + i = Len(s) + j
      BY <1>3, <1>5, <2>2 DEF OnceIn
    <3> QED
      BY <1>1, <1>3, <3>1
  <2>3. ASSUME NEW i \in DOMAIN s, NEW j \in DOMAIN t, s[i] \in S, t[j] \in S PROVE FALSE
    <3>1. i = Len(s) + j
      BY <1>2, <1>3, <1>5, <2>3 DEF OnceIn
    <3> QED
      BY <1>1, <1>2, <1>3, <3>1
  <2> QED
    BY <1>4, <2>1, <2>2, <2>3 DEF OnceIn
<1>6. ASSUME OnceIn(s, S), OnceIn(t, S), ~(Meets(s, S) /\ Meets(t, S)) PROVE OnceIn(u, S)
  <2>1. ASSUME NEW i \in DOMAIN u
        PROVE  \/ i \in DOMAIN s /\ u[i] = s[i]
               \/ i - Len(s) \in DOMAIN t /\ u[i] = t[i - Len(s)] /\ i \in Int
    <3>1. CASE i <= Len(s)
      BY <1>1, <3>1
    <3>2. CASE i > Len(s)
      <4>1. i - Len(s) \in 1..Len(t) /\ Len(s) + (i - Len(s)) = i
        BY <1>1, <3>2
      <4> QED
        BY <1>1, <4>1
    <3> QED
      BY <1>1, <3>1, <3>2
  <2>2. ASSUME NEW i \in DOMAIN u, NEW j \in DOMAIN u, u[i] \in S, u[j] \in S PROVE i = j
    <3>1. CASE i \in DOMAIN s /\ u[i] = s[i] /\ j \in DOMAIN s /\ u[j] = s[j]
      BY <1>6, <2>2, <3>1 DEF OnceIn
    <3>2. CASE /\ i - Len(s) \in DOMAIN t /\ u[i] = t[i - Len(s)] /\ i \in Int
               /\ j - Len(s) \in DOMAIN t /\ u[j] = t[j - Len(s)] /\ j \in Int
      <4>1. i - Len(s) = j - Len(s)
        BY <1>6, <2>2, <3>2 DEF OnceIn
      <4> QED
        BY <1>1, <3>2, <4>1
    <3>3. ~(i \in DOMAIN s /\ u[i] = s[i] /\ j - Len(s) \in DOMAIN t /\ u[j] = t[j - Len(s)])
      BY <1>4, <1>6, <2>2
    <3>4. ~(j \in DOMAIN s /\ u[j] = s[j] /\ i - Len(s) \in DOMAIN t /\ u[i] = t[i - Len(s)])
      BY <1>4, <1>6, <2>2
    <3> QED
      BY <2>1, <3>1, <3>2, <3>3, <3>4
  <2> QED
    BY <2>2 DEF OnceIn
<1> QED
  BY <1>5, <1>6 DEF u

\* The agenda of a loop.
LEMMA ThreeJoined ==
  ASSUME NEW a \in Seq(Step), NEW b \in Seq(Step), NEW f \in Seq(Step)
  PROVE  /\ a \o b \o f \in Seq(Step)
         /\ ToSet(a \o b \o f) = ToSet(a) \cup ToSet(b) \cup ToSet(f)
<1> DEFINE u == a \o b
<1>1. u \in Seq(Step) /\ ToSet(u) = ToSet(a) \cup ToSet(b)
  BY Joined
<1> HIDE DEF u
<1>2. u \o f \in Seq(Step) /\ ToSet(u \o f) = ToSet(u) \cup ToSet(f)
  BY <1>1, Joined
<1> QED
  BY <1>1, <1>2 DEF u

\* What a loop is still to do: its current steps, the functors it took, those queued.
LEMMA AgendaIs ==
  ASSUME TypeOK, NEW l \in Loops
  PROVE  /\ todo[l] \in Seq(Step) /\ left[l] \in Seq(Step) /\ functors[l] \in Seq(Step)
         /\ ToSet(Agenda(l)) = ToSet(todo[l]) \cup ToSet(left[l]) \cup ToSet(functors[l])
<1>1. todo[l] \in Seq(Step) /\ left[l] \in Seq(Step) /\ functors[l] \in Seq(Step)
  BY DEF TypeOK, ConnTypeOK
<1> QED
  BY <1>1, ThreeJoined DEF Agenda

\* Once in all agendas: once in one part of one of them and nowhere else.
OnceHere(a, b, f, S) ==
  /\ OnceIn(a, S) /\ OnceIn(b, S) /\ OnceIn(f, S)
  /\ ~(Meets(a, S) /\ Meets(b, S))
  /\ ~(Meets(a, S) /\ Meets(f, S))
  /\ ~(Meets(b, S) /\ Meets(f, S))
MeetsHere(a, b, f, S) == Meets(a, S) \/ Meets(b, S) \/ Meets(f, S)
OnceSpread(a, b, f, S) ==
  /\ \A l \in Loops : OnceHere(a[l], b[l], f[l], S)
  /\ \A l, m \in Loops :
       MeetsHere(a[l], b[l], f[l], S) /\ MeetsHere(a[m], b[m], f[m], S) => l = m

\* Once in an agenda, by its three parts.
LEMMA OnceHereIs ==
  ASSUME NEW S, NEW a \in Seq(Step), NEW b \in Seq(Step), NEW f \in Seq(Step)
  PROVE  /\ OnceIn(a \o b \o f, S) <=> OnceHere(a, b, f, S)
         /\ Meets(a \o b \o f, S) <=> MeetsHere(a, b, f, S)
<1> DEFINE u == a \o b
<1>1. u \in Seq(Step) /\ ToSet(u) = ToSet(a) \cup ToSet(b)
  BY Joined
<1>2. OnceIn(u, S) <=> OnceIn(a, S) /\ OnceIn(b, S) /\ ~(Meets(a, S) /\ Meets(b, S))
  BY OnceInJoined
<1> HIDE DEF u
<1>3. OnceIn(u \o f, S) <=> OnceIn(u, S) /\ OnceIn(f, S) /\ ~(Meets(u, S) /\ Meets(f, S))
  BY <1>1, OnceInJoined
<1>4. ToSet(u \o f) = ToSet(u) \cup ToSet(f)
  BY <1>1, Joined
<1>5. Meets(u, S) <=> Meets(a, S) \/ Meets(b, S)
  BY <1>1 DEF Meets
<1>6. Meets(u \o f, S) <=> Meets(u, S) \/ Meets(f, S)
  BY <1>4 DEF Meets
<1> QED
  BY <1>2, <1>3, <1>5, <1>6 DEF OnceHere, MeetsHere, u

\* The same of all agendas.
LEMMA OnceAnywhereIs ==
  ASSUME NEW S, NEW a \in [Loops -> Seq(Step)], NEW b \in [Loops -> Seq(Step)],
         NEW f \in [Loops -> Seq(Step)]
  PROVE  (/\ \A l \in Loops : OnceIn(a[l] \o b[l] \o f[l], S)
          /\ \A l, m \in Loops : Meets(a[l] \o b[l] \o f[l], S) /\ Meets(a[m] \o b[m] \o f[m], S)
                                   => l = m)
         <=> OnceSpread(a, b, f, S)
<1>1. ASSUME NEW l \in Loops
      PROVE  /\ OnceIn(a[l] \o b[l] \o f[l], S) <=> OnceHere(a[l], b[l], f[l], S)
             /\ Meets(a[l] \o b[l] \o f[l], S) <=> MeetsHere(a[l], b[l], f[l], S)
  BY OnceHereIs
<1> QED
  BY <1>1 DEF OnceSpread

\* How a step changes the agendas: loop l goes on with steps instead of its current
\* step, or before it, and q is queued on loop m.
Leaves(l, rest) == rest = todo[l] \/ (todo[l] # <<>> /\ rest = Tail(todo[l]))
Moves(l, rest, steps, m, q) ==
  /\ Leaves(l, rest)
  /\ todo' = [todo EXCEPT ![l] = steps \o rest]
  /\ functors' = [functors EXCEPT ![m] = @ \o q]
  /\ left' = left

\* What of loop x's agenda was there before.
Remains(l, rest, x) ==
  (IF x = l THEN ToSet(rest) ELSE ToSet(todo[x])) \cup ToSet(left[x]) \cup ToSet(functors[x])

\* What stays of the current steps; the one that is over was the only one of its
\* kind.
LEMMA LeavesIs ==
  ASSUME TypeOK, NEW l \in Loops, NEW rest, Leaves(l, rest)
  PROVE  /\ rest \in Seq(Step) /\ ToSet(rest) \subseteq ToSet(todo[l])
         /\ \A S : OnceIn(todo[l], S) => OnceIn(rest, S)
         /\ \/ ToSet(todo[l]) = ToSet(rest)
            \/ /\ todo[l] # <<>> /\ ToSet(todo[l]) = {Head(todo[l])} \cup ToSet(rest)
               /\ \A S : OnceIn(todo[l], S) /\ Head(todo[l]) \in S => ~Meets(rest, S)
<1> DEFINE t == todo[l]
<1>1. t \in Seq(Step)
  BY AgendaIs
<1> HIDE DEF t
<1>2. CASE rest = t
  BY <1>1, <1>2 DEF t
<1>3. CASE t # <<>> /\ rest = Tail(t)
  <2>1. /\ rest \in Seq(Step) /\ ToSet(t) = {Head(t)} \cup ToSet(rest)
    BY <1>1, <1>3, Taken
  <2>2. ASSUME NEW S, OnceIn(t, S)
        PROVE  OnceIn(rest, S) /\ (Head(t) \in S => ~Meets(rest, S))
    BY <1>1, <1>3, <2>2, OnceTaken DEF Meets
  <2> QED
    BY <1>3, <2>1, <2>2 DEF t
<1> QED
  BY <1>2, <1>3 DEF Leaves, t

Moved(l, rest, steps, m, q) ==
  /\ todo' \in [Loops -> Seq(Step)] /\ functors' \in [Loops -> Seq(Step)]
  /\ left' = left /\ rest \in Seq(Step)
  /\ todo'[l] = steps \o rest /\ functors'[m] = functors[m] \o q
  /\ ToSet(todo'[l]) = ToSet(steps) \cup ToSet(rest)
  /\ ToSet(functors'[m]) = ToSet(functors[m]) \cup ToSet(q)
  /\ \A x \in Loops : x # l => todo'[x] = todo[x]
  /\ \A x \in Loops : x # m => functors'[x] = functors[x]

\* The queues after such a step, ...
LEMMA MovesIs ==
  ASSUME TypeOK, NEW l \in Loops, NEW rest, NEW steps \in Seq(Step),
         NEW m \in Loops, NEW q \in Seq(Step), Moves(l, rest, steps, m, q)
  PROVE  Moved(l, rest, steps, m, q)
<1>1. rest \in Seq(Step)
  BY LeavesIs DEF Moves
<1> DEFINE t == steps \o rest
           f == functors[m]
           u == f \o q
<1>2. todo \in [Loops -> Seq(Step)] /\ functors \in [Loops -> Seq(Step)] /\ f \in Seq(Step)
  BY DEF TypeOK, ConnTypeOK
<1>3. todo' = [todo EXCEPT ![l] = t] /\ functors' = [functors EXCEPT ![m] = u] /\ left' = left
  BY DEF Moves
<1>4. t \in Seq(Step) /\ ToSet(t) = ToSet(steps) \cup ToSet(rest)
  BY <1>1, Joined
<1> HIDE DEF t, f
<1>5. u \in Seq(Step) /\ ToSet(u) = ToSet(f) \cup ToSet(q)
  BY <1>2, Joined
<1> HIDE DEF u
<1>6. /\ todo'[l] = t /\ functors'[m] = u
      /\ todo' \in [Loops -> Seq(Step)] /\ functors' \in [Loops -> Seq(Step)]
      /\ \A x \in Loops : x # l => todo'[x] = todo[x]
      /\ \A x \in Loops : x # m => functors'[x] = functors[x]
  BY <1>2, <1>3, <1>4, <1>5
<1> QED
  BY <1>1, <1>3, <1>4, <1>5, <1>6 DEF t, u, f, Moved

\* The agendas after it.
AgendaMoved(l, rest, steps, m, q, x) ==
  /\ Remains(l, rest, x) \subseteq ToSet(Agenda(x))
  /\ Remains(l, rest, x) \subseteq ToSet(Agenda(x)')
  /\ \A s \in ToSet(Agenda(x)') :
       \/ s \in Remains(l, rest, x)
       \/ x = l /\ s \in ToSet(steps)
       \/ x = m /\ s \in ToSet(q)
  /\ x = l => ToSet(steps) \subseteq ToSet(Agenda(x)')
  /\ x = m => ToSet(q) \subseteq ToSet(Agenda(x)')

\* ... loop by loop.
LEMMA AgendaMoves ==
  ASSUME TypeOK, NEW l \in Loops, NEW rest, NEW steps \in Seq(Step),
         NEW m \in Loops, NEW q \in Seq(Step), Moves(l, rest, steps, m, q),
         NEW x \in Loops
  PROVE  AgendaMoved(l, rest, steps, m, q, x)
<1>1. /\ todo' \in [Loops -> Seq(Step)] /\ functors' \in [Loops -> Seq(Step)]
      /\ left' = left
      /\ ToSet(todo'[l]) = ToSet(steps) \cup ToSet(rest)
      /\ ToSet(functors'[m]) = ToSet(functors[m]) \cup ToSet(q)
      /\ \A y \in Loops : y # l => todo'[y] = todo[y]
      /\ \A y \in Loops : y # m => functors'[y] = functors[y]
  <2>1. Moved(l, rest, steps, m, q)
    BY MovesIs
  <2> QED
    BY <2>1 DEF Moved
<1>2. /\ left[x] \in Seq(Step)
      /\ ToSet(Agenda(x)) = ToSet(todo[x]) \cup ToSet(left[x]) \cup ToSet(functors[x])
  BY AgendaIs
<1>3. ToSet(Agenda(x)') = ToSet(todo'[x]) \cup ToSet(left[x]) \cup ToSet(functors'[x])
  BY <1>1, <1>2, ThreeJoined DEF Agenda
<1>4. ToSet(rest) \subseteq ToSet(todo[l])
  BY LeavesIs DEF Moves
<1>5. ToSet(todo'[x]) = IF x = l THEN ToSet(steps) \cup ToSet(rest) ELSE ToSet(todo[x])
  BY <1>1
<1>6. ToSet(functors'[x]) = IF x = m THEN ToSet(functors[x]) \cup ToSet(q) ELSE ToSet(functors[x])
  BY <1>1
<1> QED
  BY <1>2, <1>3, <1>4, <1>5, <1>6 DEF Remains, AgendaMoved

\* Nothing new in S leaves what is in S once so.
LEMMA OnceStays ==
  ASSUME TypeOK, NEW l \in Loops, NEW rest, NEW steps \in Seq(Step),
         NEW m \in Loops, NEW q \in Seq(Step), Moves(l, rest, steps, m, q),
         NEW S, OnceAnywhere(S), \A s \in ToSet(steps) \cup ToSet(q) : s \notin S
  PROVE  OnceAnywhere(S)'
<1>1. /\ todo' \in [Loops -> Seq(Step)] /\ functors' \in [Loops -> Seq(Step)]
      /\ left' = left /\ rest \in Seq(Step)
      /\ todo'[l] = steps \o rest /\ functors'[m] = functors[m] \o q
      /\ ToSet(todo'[l]) = ToSet(steps) \cup ToSet(rest)
      /\ ToSet(functors'[m]) = ToSet(functors[m]) \cup ToSet(q)
      /\ \A x \in Loops : x # l => todo'[x] = todo[x]
      /\ \A x \in Loops : x # m => functors'[x] = functors[x]
  <2>1. Moved(l, rest, steps, m, q)
    BY MovesIs
  <2> QED
    BY <2>1 DEF Moved
<1>2. /\ todo \in [Loops -> Seq(Step)] /\ left \in [Loops -> Seq(Step)]
      /\ functors \in [Loops -> Seq(Step)]
  BY DEF TypeOK, ConnTypeOK
<1>3. OnceSpread(todo, left, functors, S)
  BY <1>2, OnceAnywhereIs DEF OnceAnywhere, Agenda
<1>4. ToSet(rest) \subseteq ToSet(todo[l]) /\ (OnceIn(todo[l], S) => OnceIn(rest, S))
  BY LeavesIs DEF Moves
<1>5. (\A s \in ToSet(steps) : s \notin S) /\ (\A s \in ToSet(q) : s \notin S)
  OBVIOUS
<1>6. ASSUME NEW x \in Loops
      PROVE  /\ Meets(todo'[x], S) => Meets(todo[x], S)
             /\ Meets(functors'[x], S) => Meets(functors[x], S)
  <2>1. /\ \A s \in ToSet(todo'[x]) : s \in S => s \in ToSet(todo[x])
        /\ \A s \in ToSet(functors'[x]) : s \in S => s \in ToSet(functors[x])
    BY <1>1, <1>4
  <2> QED
    BY <2>1 DEF Meets
<1>7. ASSUME NEW x \in Loops PROVE OnceIn(todo'[x], S) /\ OnceIn(functors'[x], S)
  <2>1. OnceIn(todo[x], S) /\ OnceIn(functors[x], S)
    BY <1>3 DEF OnceSpread, OnceHere
  <2>2. OnceIn(todo'[x], S)
    <3>1. CASE x = l
      <4> DEFINE u == steps \o rest
      <4>1. todo'[x] = u /\ rest \in Seq(Step) /\ OnceIn(rest, S)
        BY <1>1, <1>4, <2>1, <3>1
      <4>2. OnceIn(u, S)
        BY <1>5, <4>1, OnceJoined
      <4> HIDE DEF u
      <4> QED
        BY <4>1, <4>2
    <3> QED
      BY <1>1, <2>1, <3>1
  <2>3. OnceIn(functors'[x], S)
    <3>1. CASE x = m
      <4> DEFINE f == functors[m]
                 u == f \o q
      <4>1. functors'[x] = u /\ f \in Seq(Step) /\ OnceIn(f, S)
        BY <1>1, <1>2, <2>1, <3>1
      <4> HIDE DEF f
      <4>2. OnceIn(u, S)
        BY <1>5, <4>1, OnceJoined
      <4> HIDE DEF u
      <4> QED
        BY <4>1, <4>2
    <3> QED
      BY <1>1, <2>1, <3>1
  <2> QED
    BY <2>2, <2>3
<1>8. OnceSpread(todo', left', functors', S)
  <2>1. ASSUME NEW x \in Loops
        PROVE  /\ OnceHere(todo'[x], left'[x], functors'[x], S)
               /\ MeetsHere(todo'[x], left'[x], functors'[x], S)
                    => MeetsHere(todo[x], left[x], functors[x], S)
    <3>1. left'[x] = left[x]
      BY <1>1
    <3>2. OnceHere(todo[x], left[x], functors[x], S)
      BY <1>3 DEF OnceSpread
    <3> QED
      BY <1>6, <1>7, <3>1, <3>2 DEF OnceHere, MeetsHere
  <2> QED
    BY <1>3, <2>1 DEF OnceSpread
<1> QED
  BY <1>1, <1>2, <1>8, OnceAnywhereIs DEF OnceAnywhere, Agenda
\* One step in S goes, or none was there, and one comes.
LEMMA OnceFresh ==
  ASSUME TypeOK, NEW l \in Loops, NEW rest, NEW steps \in Seq(Step),
         NEW m \in Loops, NEW q \in Seq(Step), Moves(l, rest, steps, m, q),
         NEW S, \A x \in Loops : \A s \in Remains(l, rest, x) : s \notin S,
         OnceIn(steps, S), OnceIn(q, S), ~(Meets(steps, S) /\ Meets(q, S))
  PROVE  OnceAnywhere(S)'
<1>1. Moved(l, rest, steps, m, q)
  BY MovesIs
<1>2. /\ todo' \in [Loops -> Seq(Step)] /\ functors' \in [Loops -> Seq(Step)]
      /\ left' = left /\ rest \in Seq(Step)
      /\ todo'[l] = steps \o rest /\ functors'[m] = functors[m] \o q
      /\ ToSet(todo'[l]) = ToSet(steps) \cup ToSet(rest)
      /\ ToSet(functors'[m]) = ToSet(functors[m]) \cup ToSet(q)
      /\ \A x \in Loops : x # l => todo'[x] = todo[x]
      /\ \A x \in Loops : x # m => functors'[x] = functors[x]
  BY <1>1 DEF Moved
<1>3. left \in [Loops -> Seq(Step)] /\ functors \in [Loops -> Seq(Step)]
  BY DEF TypeOK, ConnTypeOK
<1>4. \A v : ~Meets(v, S) => OnceIn(v, S)
  BY DEF Meets, OnceIn, ToSet
<1>5. /\ \A s \in ToSet(rest) : s \notin S
      /\ \A x \in Loops : \A s \in ToSet(left[x]) \cup ToSet(functors[x]) : s \notin S
      /\ \A x \in Loops : x # l => \A s \in ToSet(todo[x]) : s \notin S
  BY DEF Remains
<1>6. ASSUME NEW x \in Loops
      PROVE  /\ ~Meets(left[x], S)
             /\ Meets(todo'[x], S) => x = l /\ Meets(steps, S)
             /\ Meets(functors'[x], S) => x = m /\ Meets(q, S)
  <2>1. /\ ToSet(todo'[x]) = IF x = l THEN ToSet(steps) \cup ToSet(rest) ELSE ToSet(todo[x])
        /\ ToSet(functors'[x]) = IF x = m THEN ToSet(functors[x]) \cup ToSet(q)
                                 ELSE ToSet(functors[x])
    BY <1>2
  <2>2. ~Meets(left[x], S)
    BY <1>5 DEF Meets
  <2>3. Meets(todo'[x], S) => x = l /\ Meets(steps, S)
    BY <1>5, <2>1 DEF Meets
  <2>4. Meets(functors'[x], S) => x = m /\ Meets(q, S)
    BY <1>5, <2>1 DEF Meets
  <2> QED
    BY <2>2, <2>3, <2>4
<1>7. ASSUME NEW x \in Loops PROVE OnceIn(todo'[x], S) /\ OnceIn(functors'[x], S)
  <2>1. OnceIn(todo'[x], S)
    <3>1. CASE x = l
      <4> DEFINE u == steps \o rest
      <4>1. todo'[x] = u /\ rest \in Seq(Step) /\ \A s \in ToSet(rest) : s \notin S
        BY <1>2, <1>5, <3>1
      <4>2. OnceIn(u, S)
        BY <4>1, OnceJoined
      <4> HIDE DEF u
      <4> QED
        BY <4>1, <4>2
    <3> QED
      BY <1>4, <1>6, <3>1
  <2>2. OnceIn(functors'[x], S)
    <3>1. CASE x = m
      <4> DEFINE f == functors[m]
                 u == f \o q
      <4>1. functors'[x] = u /\ f \in Seq(Step) /\ \A s \in ToSet(f) : s \notin S
        BY <1>2, <1>3, <1>5, <3>1
      <4> HIDE DEF f
      <4>2. OnceIn(u, S)
        BY <4>1, OnceJoined
      <4> HIDE DEF u
      <4> QED
        BY <4>1, <4>2
    <3> QED
      BY <1>4, <1>6, <3>1
  <2> QED
    BY <2>1, <2>2
<1>8. OnceSpread(todo', left', functors', S)
  <2>1. ASSUME NEW x \in Loops
        PROVE  /\ OnceHere(todo'[x], left'[x], functors'[x], S)
               /\ MeetsHere(todo'[x], left'[x], functors'[x], S)
                    => (x = l /\ Meets(steps, S)) \/ (x = m /\ Meets(q, S))
    <3>1. left'[x] = left[x] /\ OnceIn(left[x], S)
      BY <1>2, <1>4, <1>6
    <3> QED
      BY <1>6, <1>7, <3>1 DEF OnceHere, MeetsHere
  <2> QED
    BY <2>1 DEF OnceSpread
<1> QED
  BY <1>2, <1>3, <1>8, OnceAnywhereIs DEF OnceAnywhere, Agenda

\* A step that occurs once and is over waits nowhere.
LEMMA OnceLeft ==
  ASSUME TypeOK, NEW l \in Loops, todo[l] # <<>>, NEW S, OnceAnywhere(S),
         Head(todo[l]) \in S, NEW x \in Loops, NEW s \in Remains(l, Tail(todo[l]), x)
  PROVE  s \notin S
<1> DEFINE t == todo[l]
<1>1. /\ todo \in [Loops -> Seq(Step)] /\ left \in [Loops -> Seq(Step)]
      /\ functors \in [Loops -> Seq(Step)]
  BY DEF TypeOK, ConnTypeOK
<1>2. OnceSpread(todo, left, functors, S)
  BY <1>1, OnceAnywhereIs DEF OnceAnywhere, Agenda
<1>3. /\ t \in Seq(Step) /\ ToSet(t) = {Head(t)} \cup ToSet(Tail(t)) /\ OnceIn(t, S)
  BY <1>1, <1>2, HeadIs DEF OnceSpread, OnceHere
<1> HIDE DEF t
<1>4. \A r \in ToSet(Tail(t)) : r \notin S
  BY <1>3, OnceTaken DEF t
<1>5. Meets(t, S)
  BY <1>3 DEF Meets, t
<1>6. MeetsHere(todo[l], left[l], functors[l], S) /\ ~Meets(left[l], S) /\ ~Meets(functors[l], S)
  BY <1>2, <1>5 DEF OnceSpread, OnceHere, MeetsHere, t
<1>7. x # l => ~MeetsHere(todo[x], left[x], functors[x], S)
  BY <1>2, <1>6 DEF OnceSpread
<1>8. CASE x = l
  <2>1. s \in ToSet(Tail(t)) \cup ToSet(left[l]) \cup ToSet(functors[l])
    BY <1>8 DEF Remains, t
  <2> QED
    BY <1>4, <1>6, <2>1 DEF Meets
<1>9. CASE x # l
  <2>1. s \in ToSet(todo[x]) \cup ToSet(left[x]) \cup ToSet(functors[x])
    BY <1>9 DEF Remains
  <2> QED
    BY <1>7, <1>9, <2>1 DEF Meets, MeetsHere
<1> QED
  BY <1>8, <1>9
\* What the life of a connection does not see of a change of its record.
Steady(k, k2) ==
  /\ k2.loop = k.loop /\ (k.made => k2.made) /\ k2.downs = k.downs
  /\ k2.state = "kConnecting" <=> k.state = "kConnecting"
  /\ k.state = "kDisconnected" => k2.state = "kDisconnected"
  /\ "read" \in k2.channel.events <=> "read" \in k.channel.events
  /\ k.peer = "reset" => k2.peer = "reset"
  /\ Stuck(k) => Stuck(k2)
StaysLate(k, k2) == Late(k) => Late(k2)

\* A step, and a report, that come at their time still do.
LEMMA StaysTimely ==
  ASSUME NEW l \in Loops, NEW s \in Step, Timely(s, l),
         Steady(conn[s.conn], conn'[s.conn]), s.conn \in connections_' <=> s.conn \in connections_,
         Kept(s.conn) => Kept(s.conn)',
         s.op \in HandlerNames => StaysLate(conn[s.conn], conn'[s.conn]),
         s.op = "removeChannel" =>
           /\ conn'[s.conn].channel = conn[s.conn].channel
           /\ conn'[s.conn].outputBuffer = conn[s.conn].outputBuffer
  PROVE  Timely(s, l)'
<1> DEFINE k == conn[s.conn]
           k2 == conn'[s.conn]
<1>1. /\ IF s.op = "removeConnectionInLoop" THEN l = BaseLoop ELSE k2.loop = l
      /\ s.op = "connectEstablished" <=> k2.state = "kConnecting"
      /\ s.op = "connectEstablished" => s.conn \in connections_
      /\ s.op = "shutdownInLoop" => k2.state = "kDisconnected"
      /\ s.op = "handleRead" => "read" \in k2.channel.events
      /\ s.op = "connectDestroyed" =>
           s.conn \notin connections_ /\ k2.downs = 0 /\ "read" \notin k2.channel.events
      /\ s.op \in {"closeCallback", "removeConnectionInLoop"} =>
           "read" \notin k2.channel.events /\ (s.conn \in connections_ \/ Stuck(k2))
  BY DEF Timely, Steady
<1>2. s.op = "removeChannel" =>
        /\ k2.state = "kDisconnected" /\ k2.channel.events = {}
        /\ k2.channel.index = "kAdded" \/ k2.outputBuffer # <<>>
  BY DEF Timely, Steady
<1>3. s.op = "handleClose" => MayClose(k2)
  BY DEF Timely, Steady, StaysLate, MayClose, HandlerNames
<1>4. s.op \in HandlerNames => Kept(s.conn)' \/ Late(k2)
  BY DEF Timely, StaysLate
<1> QED
  BY <1>1, <1>2, <1>3, <1>4 DEF Timely

\* A report stays timely as a step does.
LEMMA ReportStaysTimely ==
  ASSUME NEW r, TimelyReport(r), Steady(conn[r[1]], conn'[r[1]]),
         StaysLate(conn[r[1]], conn'[r[1]]), Kept(r[1]) => Kept(r[1])'
  PROVE  TimelyReport(r)'
<1> DEFINE k == conn[r[1]]
           k2 == conn'[r[1]]
<1>1. /\ k2.state # "kConnecting"
      /\ "IN" \in r[2] => "read" \in k2.channel.events
  BY DEF TimelyReport, Steady
<1>2. "HUP" \in r[2] => MayClose(k2)
  BY DEF TimelyReport, Steady, StaysLate, MayClose
<1>3. Kept(r[1])' \/ Late(k2)
  BY DEF TimelyReport, StaysLate
<1> QED
  BY <1>1, <1>2, <1>3 DEF TimelyReport

\* Only the connectDestroyed itself ends what keeps a connection.
LEMMA KeptStays ==
  ASSUME TypeOK, NEW l \in Loops, NEW rest, NEW steps \in Seq(Step),
         NEW m \in Loops, NEW q \in Seq(Step), Moves(l, rest, steps, m, q),
         NEW d \in Conns, conn'[d].loop = conn[d].loop,
         d \in connections_ => d \in connections_',
         rest = todo[l] \/ Head(todo[l]) # Do("connectDestroyed", d),
         Kept(d)
  PROVE  Kept(d)'
<1>1. Moved(l, rest, steps, m, q)
  BY MovesIs
<1> DEFINE x == conn[d].loop
           s == Do("connectDestroyed", d)
<1>2. x \in Loops
  BY DEF TypeOK, ConnTypeOK, ConnType
<1>3. CASE DestroyPending(d)
  <2>1. s \in ToSet(todo[x]) \cup ToSet(functors[x]) \cup ToSet(left[x])
    BY <1>3 DEF DestroyPending
  <2>2. s \in ToSet(todo[l]) => s \in ToSet(rest)
    BY LeavesIs, HeadIs DEF Moves, Leaves
  <2> HIDE DEF x, s
  <2>3. s \in ToSet(todo'[x]) \cup ToSet(functors'[x]) \cup ToSet(left'[x])
    BY <1>1, <1>2, <2>1, <2>2 DEF Moved
  <2> QED
    BY <2>3 DEF Kept, DestroyPending, x, s
<1> QED
  BY <1>3 DEF Kept

\* No new step of a connection's life.
LEMMA OneLifeStays ==
  ASSUME TypeOK, NEW l \in Loops, NEW rest, NEW steps \in Seq(Step),
         NEW m \in Loops, NEW q \in Seq(Step), Moves(l, rest, steps, m, q),
         NEW d \in Conns, OneLife(d), Stuck(conn[d]) => Stuck(conn'[d]),
         \A s \in ToSet(steps) \cup ToSet(q) : s \notin Life(d)
  PROVE  OneLife(d)'
<1>1. \A s \in ToSet(steps) \cup ToSet(q) : s \notin {Do("connectDestroyed", d)}
  BY DEF Life
<1>2. OnceAnywhere({Do("connectDestroyed", d)})'
  <2>1. OnceAnywhere({Do("connectDestroyed", d)})
    BY DEF OneLife
  <2> QED
    BY <1>1, <2>1, OnceStays
<1>3. Stuck(conn[d])' \/ OnceAnywhere(Life(d))'
  <2>1. CASE Stuck(conn[d])
    BY <2>1
  <2>2. CASE OnceAnywhere(Life(d))
    BY <2>2, OnceStays
  <2> QED
    BY <2>1, <2>2 DEF OneLife
<1> QED
  BY <1>2, <1>3 DEF OneLife
\* A step of connection c leaves the others in order, and c if its own part is.
LEMMA OneCallOrderly ==
  ASSUME Lawful, Orderly, NEW c \in Conns, NEW k2 \in ConnType,
         conn' = [conn EXCEPT ![c] = k2],
         NEW l \in Loops, NEW rest, NEW steps \in Seq(Step),
         NEW m \in Loops, NEW q \in Seq(Step), Moves(l, rest, steps, m, q),
         UNCHANGED <<lpc, batch>>,
         \A x \in Loops : active'[x] \subseteq active[x],
         \A x \in Loops : x # l => active'[x] = active[x],
         rest = todo[l] \/ Head(todo[l]).conn = c,
         \A s \in ToSet(steps) \cup ToSet(q) : s.conn = c,
         \A d \in Conns : d # c => (d \in connections_' <=> d \in connections_),
         Coherent(k2), Anchored(c)', OneLife(c)', Tidy(l)',
         \A x \in Loops : \A s \in Remains(l, rest, x) : s.conn = c => Timely(s, x)',
         \A s \in ToSet(steps) : Timely(s, l)',
         \A s \in ToSet(q) : Timely(s, m)',
         \A x \in Loops : \A r \in active'[x] : r[1] = c => TimelyReport(r)'
  PROVE  Orderly'
<1>1. /\ TypeOK /\ conn \in [Conns -> ConnType] /\ conn'[c] = k2
      /\ \A d \in Conns : d # c => conn'[d] = conn[d]
  BY DEF Lawful, TypeOK, ConnTypeOK
<1>2. Moved(l, rest, steps, m, q)
  BY <1>1, MovesIs
<1>3. ASSUME NEW d \in Conns, d # c PROVE Kept(d) => Kept(d)'
  <2>1. conn'[d].loop = conn[d].loop /\ (d \in connections_ => d \in connections_')
    BY <1>1, <1>3
  <2>2. Do("connectDestroyed", d).conn = d
    BY DEF Do
  <2>3. rest = todo[l] \/ Head(todo[l]) # Do("connectDestroyed", d)
    BY <1>3, <2>2
  <2> QED
    BY <1>1, <2>1, <2>3, KeptStays
<1>4. ASSUME NEW d \in Conns, d # c PROVE Coherent(conn'[d]) /\ Anchored(d)' /\ OneLife(d)'
  <2>1. Coherent(conn[d]) /\ Anchored(d) /\ OneLife(d) /\ conn'[d] = conn[d]
    BY <1>1, <1>4 DEF Orderly
  <2>2. OneLife(d)'
    <3>1. \A s \in Life(d) : s.conn = d
      BY DEF Life, Do
    <3>2. \A s \in ToSet(steps) \cup ToSet(q) : s \notin Life(d)
      BY <1>4, <3>1
    <3>3. Stuck(conn[d]) => Stuck(conn'[d])
      BY <2>1
    <3> QED
      BY <1>1, <2>1, <3>2, <3>3, OneLifeStays
  <2>3. Anchored(d)'
    <3> DEFINE x == conn[d].loop
               s == Do("removeChannel", d)
    <3>1. x \in Loops
      BY <1>1 DEF ConnType
    <3>2. s.conn = d
      BY DEF Do
    <3> HIDE DEF x, s
    <3>3. s \in ToSet(todo[l]) => s \in ToSet(rest)
      BY <1>1, <1>4, <3>2, HeadIs DEF Moves, Leaves
    <3>4. s \in ToSet(todo[x]) => s \in ToSet(todo'[x])
      BY <1>2, <3>1, <3>3 DEF Moved
    <3> QED
      BY <1>4, <2>1, <3>4 DEF Anchored, x, s
  <2> QED
    BY <2>1, <2>2, <2>3
<1>5. ASSUME NEW x \in Loops, NEW s \in ToSet(Agenda(x)') PROVE Timely(s, x)'
  <2>1. AgendaMoved(l, rest, steps, m, q, x)
    BY <1>1, AgendaMoves
  <2>2. s \in Remains(l, rest, x) \/ (x = l /\ s \in ToSet(steps)) \/ (x = m /\ s \in ToSet(q))
    BY <1>5, <2>1 DEF AgendaMoved
  <2>3. CASE s \in Remains(l, rest, x) /\ s.conn # c
    <3>1. s \in ToSet(Agenda(x)) /\ s \in Step
      <4>1. s \in ToSet(Agenda(x))
        BY <2>1, <2>3 DEF AgendaMoved
      <4> QED
        BY <1>1, <4>1, AgendaIs, WaitingIs
    <3>2. Timely(s, x) /\ s.conn \in Conns
      BY <3>1 DEF Orderly, Step
    <3>3. conn'[s.conn] = conn[s.conn] /\ (Kept(s.conn) => Kept(s.conn)')
      BY <1>1, <1>3, <2>3, <3>2
    <3>4. Steady(conn[s.conn], conn'[s.conn]) /\ StaysLate(conn[s.conn], conn'[s.conn])
      BY <3>3 DEF Steady, StaysLate
    <3>5. s.conn \in connections_' <=> s.conn \in connections_
      BY <2>3, <3>2
    <3> QED
      BY <3>1, <3>2, <3>3, <3>4, <3>5, StaysTimely
  <2> QED
    BY <2>2, <2>3
<1>6. ASSUME NEW x \in Loops, NEW r \in active'[x] PROVE TimelyReport(r)'
  <2>1. r \in active[x] /\ r[1] \in Conns
    BY <1>1, <1>6 DEF TypeOK, ConnTypeOK
  <2>2. CASE r[1] # c
    <3>1. conn'[r[1]] = conn[r[1]] /\ (Kept(r[1]) => Kept(r[1])') /\ TimelyReport(r)
      BY <1>1, <1>3, <2>1, <2>2 DEF Orderly
    <3>2. Steady(conn[r[1]], conn'[r[1]]) /\ StaysLate(conn[r[1]], conn'[r[1]])
      BY <3>1 DEF Steady, StaysLate
    <3> QED
      BY <3>1, <3>2, ReportStaysTimely
  <2> QED
    BY <2>1, <2>2
<1>7. ASSUME NEW x \in Loops PROVE Tidy(x)'
  <2>1. CASE x # l
    <3>1. todo'[x] = todo[x] /\ left' = left
      BY <1>2, <2>1 DEF Moved
    <3>2. Tidy(x)
      BY DEF Orderly
    <3> QED
      BY <3>1, <3>2 DEF Tidy
  <2> QED
    BY <2>1
<1>8. (\A d \in Conns : Coherent(conn[d]) /\ Anchored(d) /\ OneLife(d))'
  <2>1. ASSUME NEW d \in Conns PROVE Coherent(conn'[d]) /\ Anchored(d)' /\ OneLife(d)'
    BY <1>1, <1>4
  <2> QED
    BY <2>1
<1> QED
  BY <1>5, <1>6, <1>7, <1>8 DEF Orderly

LEMMA OneOrderly ==
  ASSUME Lawful, Orderly, NEW c \in Conns, NEW k2 \in ConnType,
         conn' = [conn EXCEPT ![c] = k2],
         NEW l \in Loops, NEW rest, NEW steps \in Seq(Step),
         NEW m \in Loops, NEW q \in Seq(Step), Moves(l, rest, steps, m, q),
         UNCHANGED <<lpc, active, batch>>,
         rest = todo[l] \/ Head(todo[l]).conn = c,
         \A s \in ToSet(steps) \cup ToSet(q) : s.conn = c,
         \A d \in Conns : d # c => (d \in connections_' <=> d \in connections_),
         Coherent(k2), Anchored(c)', OneLife(c)', Tidy(l)',
         \A x \in Loops : \A s \in Remains(l, rest, x) : s.conn = c => Timely(s, x)',
         \A s \in ToSet(steps) : Timely(s, l)',
         \A s \in ToSet(q) : Timely(s, m)',
         \A x \in Loops : \A r \in active[x] : r[1] = c => TimelyReport(r)'
  PROVE  Orderly'
<1>1. \A x \in Loops : active'[x] = active[x]
  OBVIOUS
<1>2. \A x \in Loops : active'[x] \subseteq active[x]
  BY <1>1
<1>3. \A x \in Loops : \A r \in active'[x] : r[1] = c => TimelyReport(r)'
  BY <1>1
<1> QED
  BY <1>1, <1>2, <1>3, OneCallOrderly

\* A step that changes little of its connection.
LEMMA SteadyOrderly ==
  ASSUME Lawful, Orderly, NEW c \in Conns, NEW k2 \in ConnType,
         conn' = [conn EXCEPT ![c] = k2], Steady(conn[c], k2), Coherent(k2),
         NEW l \in Loops, NEW rest, NEW steps \in Seq(Step),
         NEW m \in Loops, NEW q \in Seq(Step), Moves(l, rest, steps, m, q),
         UNCHANGED <<lpc, active, batch, connections_>>,
         rest = todo[l] \/ (Head(todo[l]).conn = c /\ Head(todo[l]).op # "connectDestroyed"),
         \A s \in ToSet(steps) \cup ToSet(q) : s.conn = c,
         OneLife(c)', Tidy(l)',
         k2.channel.registered =>
           \/ "read" \in k2.channel.events \/ Late(k2)
           \/ Do("removeChannel", c) \in ToSet(todo'[k2.loop]),
         \A s \in ToSet(steps) : Timely(s, l)',
         \A s \in ToSet(q) : Timely(s, m)',
         \/ StaysLate(conn[c], k2)
         \/ /\ \A x \in Loops : \A s \in Remains(l, rest, x) : s.conn = c => s.op \notin HandlerNames
            /\ \A x \in Loops : \A r \in active[x] : r[1] # c,
         \/ \A x \in Loops : Do("removeChannel", c) \notin Remains(l, rest, x)
         \/ k2.channel = conn[c].channel /\ k2.outputBuffer = conn[c].outputBuffer
  PROVE  Orderly'
<1>1. /\ TypeOK /\ conn \in [Conns -> ConnType] /\ conn'[c] = k2
      /\ Coherent(conn[c]) /\ Anchored(c)
  BY DEF Lawful, TypeOK, ConnTypeOK, Orderly
<1>2. Kept(c) => Kept(c)'
  <2>1. conn'[c].loop = conn[c].loop
    BY <1>1 DEF Steady
  <2>2. rest = todo[l] \/ Head(todo[l]) # Do("connectDestroyed", c)
    BY DEF Do
  <2> QED
    BY <1>1, <2>1, <2>2, KeptStays
<1>3. Anchored(c)'
  BY <1>1 DEF Anchored, Steady
<1>4. ASSUME NEW x \in Loops, NEW s \in Remains(l, rest, x), s.conn = c PROVE Timely(s, x)'
  <2>1. AgendaMoved(l, rest, steps, m, q, x)
    BY <1>1, AgendaMoves
  <2>2. s \in ToSet(Agenda(x))
    BY <1>4, <2>1 DEF AgendaMoved
  <2>3. s \in Step /\ Timely(s, x)
    <3>1. s \in Step
      BY <1>1, <2>2, AgendaIs, WaitingIs
    <3> QED
      BY <2>2, <3>1 DEF Orderly
  <2>4. s.op \in HandlerNames => StaysLate(conn[s.conn], conn'[s.conn])
    BY <1>1, <1>4
  <2>5. s.op = "removeChannel" => s = Do("removeChannel", c)
    BY <1>4, <2>3 DEF Step, Do
  <2>6. s.op = "removeChannel" =>
          /\ conn'[s.conn].channel = conn[s.conn].channel
          /\ conn'[s.conn].outputBuffer = conn[s.conn].outputBuffer
    BY <1>1, <1>4, <2>5
  <2>7. Steady(conn[s.conn], conn'[s.conn]) /\ (Kept(s.conn) => Kept(s.conn)')
        /\ (s.conn \in connections_' <=> s.conn \in connections_)
    BY <1>1, <1>2, <1>4
  <2> QED
    BY <2>3, <2>4, <2>6, <2>7, StaysTimely
<1>5. ASSUME NEW x \in Loops, NEW r \in active[x], r[1] = c PROVE TimelyReport(r)'
  <2>1. StaysLate(conn[r[1]], conn'[r[1]]) /\ Steady(conn[r[1]], conn'[r[1]])
        /\ (Kept(r[1]) => Kept(r[1])') /\ TimelyReport(r)
    BY <1>1, <1>2, <1>5 DEF Orderly
  <2> QED
    BY <2>1, ReportStaysTimely
<1> QED
  BY <1>3, <1>4, <1>5, OneOrderly

\* The place of the steps that end a call.
LastSteps == {"handleWrite", "connectDestroyed", "removeChannel"}
EndsWell(s) == \A i \in DOMAIN s : s[i].op \in LastSteps => i = Len(s)

\* Steps put before the rest: a last step stays last, and was alone when it was the
\* current one.
LEMMA EndsWellStays ==
  ASSUME NEW t \in Seq(Step), t # <<>>, EndsWell(t), NEW steps \in Seq(Step)
  PROVE  /\ (\A s \in ToSet(steps) : s.op \notin LastSteps) => EndsWell(steps \o Tail(t))
         /\ Head(t).op \in LastSteps => Tail(t) = <<>> /\ t = <<Head(t)>>
<1> DEFINE r == Tail(t)
           u == steps \o r
<1>1. /\ Len(t) \in Nat /\ Len(t) > 0 /\ Head(t) = t[1] /\ DOMAIN t = 1..Len(t)
      /\ r \in Seq(Step) /\ DOMAIN r = 1..Len(t) - 1 /\ Len(r) = Len(t) - 1
      /\ \A i \in DOMAIN r : r[i] = t[i + 1]
  BY Taken
<1>2. ASSUME Head(t).op \in LastSteps PROVE r = <<>> /\ t = <<Head(t)>>
  <2>1. Len(t) = 1
    BY <1>1, <1>2 DEF EndsWell
  <2> QED
    BY <1>1, <2>1
<1> HIDE DEF r
<1>3. /\ Len(u) = Len(steps) + Len(r) /\ DOMAIN u = 1..Len(steps) + Len(r)
      /\ \A i \in 1..Len(steps) : u[i] = steps[i]
      /\ \A i \in 1..Len(r) : u[Len(steps) + i] = r[i]
      /\ Len(steps) \in Nat /\ DOMAIN steps = 1..Len(steps)
  BY <1>1
<1> HIDE DEF u
<1>4. ASSUME \A s \in ToSet(steps) : s.op \notin LastSteps, NEW i \in DOMAIN u, u[i].op \in LastSteps
      PROVE  i = Len(u)
  <2>1. i \notin 1..Len(steps)
    BY <1>3, <1>4 DEF ToSet
  <2>2. i - Len(steps) \in 1..Len(r) /\ Len(steps) + (i - Len(steps)) = i
    BY <1>1, <1>3, <2>1
  <2> DEFINE j == i - Len(steps)
  <2>3. j \in DOMAIN r /\ u[i] = r[j] /\ j + 1 \in DOMAIN t /\ r[j] = t[j + 1]
    BY <1>1, <1>3, <2>2
  <2>4. j + 1 = Len(t)
    BY <1>4, <2>3 DEF EndsWell
  <2> QED
    BY <1>1, <1>3, <2>2, <2>4
<1> QED
  BY <1>2, <1>4 DEF EndsWell, r, u

\* A loop's call goes on tidily: what a step leads to.
Closings == {Do(op, c) : op \in {"handleRead", "handleClose"}, c \in Conns}
Follows(h, op) ==
  \/ op = "callback"
  \/ op \in {"closeCallback", "removeConnectionInLoop"} /\ h \notin {"callback", "removeChannel"}
  \/ op \in {"handleError", "handleClose"} /\ h = "handleRead"

\* Tidy in these terms.
LEMMA TidyIs ==
  ASSUME NEW l \in Loops
  PROVE  Tidy(l) <=>
           /\ lpc[l] # "functors" => left[l] = <<>>
           /\ lpc[l] # "dispatch" => active[l] = {}
           /\ ToSet(left[l]) \subseteq ToSet(batch[l])
           /\ \A s \in ToSet(todo[l]) :
                /\ s.op \in {"connectDestroyed", "removeChannel"} =>
                     lpc[l] = "functors" /\ Do("connectDestroyed", s.conn) \in ToSet(batch[l])
                /\ s.op \in HandlerNames => lpc[l] = "dispatch"
                /\ s.op = "removeChannel" =>
                     \A t \in ToSet(todo[l]) : t.op \in {"callback", "removeChannel"}
                /\ \A r \in active[l] : r[1] # s.conn
           /\ EndsWell(todo[l])
           /\ OnceIn(todo[l], Closings)
BY DEF Tidy, EndsWell, LastSteps, Closings

\* A handler that goes on with steps that may follow it leaves its loop tidy, ...
LEMMA TidyContinues ==
  ASSUME Lawful, Orderly, NEW l \in Loops, todo[l] # <<>>, NEW steps \in Seq(Step),
         todo'[l] = steps \o Tail(todo[l]), UNCHANGED <<lpc, active, batch, left>>,
         \A s \in ToSet(steps) : s.conn = Current(l) /\ Follows(Head(todo[l]).op, s.op),
         OnceIn(steps, Closings)
  PROVE  Tidy(l)'
<1> DEFINE t == todo[l]
           h == Head(t)
           r == Tail(t)
           u == steps \o r
<1>1. /\ t \in Seq(Step) /\ t # <<>> /\ h \in Step /\ h \in ToSet(t) /\ Current(l) = h.conn
      /\ ToSet(t) = {h} \cup ToSet(r) /\ r \in Seq(Step)
  BY HeadIs DEF Lawful
<1>2. Tidy(l)
  BY DEF Orderly
<1>3. /\ lpc[l] # "functors" => left[l] = <<>>
      /\ lpc[l] # "dispatch" => active[l] = {}
      /\ ToSet(left[l]) \subseteq ToSet(batch[l])
      /\ \A s \in ToSet(t) :
           /\ s.op \in {"connectDestroyed", "removeChannel"} =>
                lpc[l] = "functors" /\ Do("connectDestroyed", s.conn) \in ToSet(batch[l])
           /\ s.op \in HandlerNames => lpc[l] = "dispatch"
           /\ s.op = "removeChannel" =>
                \A y \in ToSet(t) : y.op \in {"callback", "removeChannel"}
           /\ \A y \in active[l] : y[1] # s.conn
      /\ EndsWell(t)
      /\ OnceIn(t, Closings)
  BY <1>2, TidyIs
<1>4. /\ todo'[l] = u /\ lpc'[l] = lpc[l] /\ active'[l] = active[l] /\ batch'[l] = batch[l]
      /\ left'[l] = left[l]
      /\ \A s \in ToSet(steps) : s.conn = h.conn /\ Follows(h.op, s.op)
  BY <1>1
<1> HIDE DEF t, h, r
<1>5. ToSet(u) = ToSet(steps) \cup ToSet(r)
  BY <1>1, Joined
<1>6. EndsWell(u)
  <2>1. \A s \in ToSet(steps) : s.op \notin LastSteps
    BY <1>4 DEF Follows, LastSteps
  <2> QED
    BY <1>1, <1>3, <2>1, EndsWellStays DEF r
<1>7. OnceIn(u, Closings)
  <2>1. OnceIn(r, Closings) /\ (h \in Closings => ~Meets(r, Closings))
    BY <1>1, <1>3, OnceTaken DEF h, r, Meets
  <2>2. ASSUME Meets(steps, Closings) PROVE h \in Closings
    <3>1. PICK s \in ToSet(steps) : s \in Closings
      BY <2>2 DEF Meets
    <3>2. s.op \in {"handleRead", "handleClose"}
      BY <3>1 DEF Closings, Do
    <3>3. h.op = "handleRead"
      BY <1>4, <3>1, <3>2 DEF Follows
    <3> QED
      BY <1>1, <3>3 DEF Closings, Do, Step
  <2> QED
    BY <1>1, <2>1, <2>2, OnceInJoined
<1> HIDE DEF u
<1>8. ASSUME NEW s \in ToSet(u)
      PROVE  /\ s.op \in {"connectDestroyed", "removeChannel"} =>
                  lpc[l] = "functors" /\ Do("connectDestroyed", s.conn) \in ToSet(batch[l])
             /\ s.op \in HandlerNames => lpc[l] = "dispatch"
             /\ s.op = "removeChannel" =>
                  \A y \in ToSet(u) : y.op \in {"callback", "removeChannel"}
             /\ \A y \in active[l] : y[1] # s.conn
  <2>1. CASE s \in ToSet(steps)
    <3>1. s.op \notin {"connectDestroyed", "removeChannel"} /\ s.conn = h.conn
      BY <1>4, <2>1 DEF Follows
    <3>2. s.op \in HandlerNames => lpc[l] = "dispatch"
      BY <1>1, <1>3, <1>4, <2>1 DEF Follows, HandlerNames
    <3> QED
      BY <1>1, <1>3, <3>1, <3>2
  <2>2. CASE s \in ToSet(r)
    <3>1. s \in ToSet(t)
      BY <1>1, <2>2
    <3>2. ASSUME s.op = "removeChannel", NEW y \in ToSet(u) PROVE y.op \in {"callback", "removeChannel"}
      <4>1. h.op \in {"callback", "removeChannel"}
        BY <1>1, <1>3, <3>1, <3>2
      <4>2. y \in ToSet(steps) => y.op = "callback"
        BY <1>4, <4>1 DEF Follows
      <4>3. y \in ToSet(r) => y.op \in {"callback", "removeChannel"}
        BY <1>1, <1>3, <3>1, <3>2
      <4> QED
        BY <1>5, <4>2, <4>3
    <3> QED
      BY <1>3, <3>1, <3>2
  <2> QED
    BY <1>5, <2>1, <2>2
<1>9. /\ lpc'[l] # "functors" => left'[l] = <<>>
      /\ lpc'[l] # "dispatch" => active'[l] = {}
      /\ ToSet(left'[l]) \subseteq ToSet(batch'[l])
  BY <1>3, <1>4
<1>10. \A s \in ToSet(todo'[l]) :
         /\ s.op \in {"connectDestroyed", "removeChannel"} =>
              lpc'[l] = "functors" /\ Do("connectDestroyed", s.conn) \in ToSet(batch'[l])
         /\ s.op \in HandlerNames => lpc'[l] = "dispatch"
         /\ s.op = "removeChannel" =>
              \A y \in ToSet(todo'[l]) : y.op \in {"callback", "removeChannel"}
         /\ \A y \in active'[l] : y[1] # s.conn
  BY <1>4, <1>8
<1>11. EndsWell(todo'[l]) /\ OnceIn(todo'[l], Closings)
  BY <1>4, <1>6, <1>7
<1> QED
  BY <1>9, <1>10, <1>11 DEF Tidy, EndsWell, LastSteps, Closings

\* ... and so does a step of another loop.
LEMMA TidySame ==
  ASSUME NEW l \in Loops, Tidy(l), todo'[l] = todo[l], UNCHANGED <<lpc, active, batch, left>>
  PROVE  Tidy(l)'
BY DEF Tidy

\* Of at most one step there is at most one in a set.
LEMMA OnceInFew ==
  ASSUME NEW S, NEW x \in Step
  PROVE  OnceIn(<<>>, S) /\ OnceIn(<<x>>, S)
<1> DEFINE s == <<x>>
<1>1. DOMAIN s = {1} /\ DOMAIN <<>> = {}
  OBVIOUS
<1> HIDE DEF s
<1>2. OnceIn(s, S)
  BY <1>1 DEF OnceIn
<1>3. OnceIn(<<>>, S)
  BY <1>1 DEF OnceIn
<1> QED
  BY <1>2, <1>3 DEF s

-----------------------------------------------------------------------------
(* What the steps of a connection do to its record's part in the order.    *)

\* updateChannel registers a channel that asks for events, or was not registered.
LEMMA RegistersIs ==
  ASSUME NEW ch \in ChannelType, EpollAgrees(ch)
  PROVE  /\ enableReading(ch).registered /\ enableWriting(ch).registered
         /\ disableWriting(ch).registered <=> (ch.events \ {"write"} # {} \/ ~ch.registered)
         /\ disableAll(ch).registered <=> ~ch.registered
<1>1. ASSUME NEW e \in SUBSET Interests
      PROVE  updateChannel([ch EXCEPT !.events = e]).registered <=> (e # {} \/ ~ch.registered)
  <2> DEFINE d == [ch EXCEPT !.events = e]
  <2>1. d \in ChannelType /\ (d.registered <=> d.index = "kAdded") /\ d.events = e
        /\ (d.registered <=> ch.registered)
    BY DEF ChannelType, EpollAgrees
  <2> HIDE DEF d
  <2>2. CASE d.index = "kNew"
    <3>1. updateChannel(d) = [d EXCEPT !.index = "kAdded", !.registered = TRUE,
                                       !.interest = d.events]
      BY <2>1, <2>2 DEF updateChannel, update, ChannelType
    <3>2. updateChannel(d).registered = TRUE
      BY <2>1, <3>1 DEF ChannelType
    <3>3. ~ch.registered
      BY <2>1, <2>2
    <3> QED
      BY <3>2, <3>3 DEF d
  <2>3. CASE d.index # "kNew"
    <3>1. d.registered
      BY <2>1, <2>3 DEF ChannelType
    <3>2. CASE e = {}
      <4>1. updateChannel(d) = [d EXCEPT !.registered = FALSE, !.interest = {}, !.index = "kNew"]
        BY <2>1, <2>3, <3>2 DEF updateChannel, update, ChannelType
      <4>2. updateChannel(d).registered = FALSE
        BY <2>1, <4>1 DEF ChannelType
      <4>3. ch.registered
        BY <2>1, <3>1
      <4> QED
        BY <3>2, <4>2, <4>3 DEF d
    <3>3. CASE e # {}
      <4>1. updateChannel(d) = [d EXCEPT !.interest = d.events]
        BY <2>1, <2>3, <3>1, <3>3 DEF updateChannel, update, ChannelType
      <4>2. updateChannel(d).registered
        BY <2>1, <3>1, <4>1 DEF ChannelType
      <4> QED
        BY <3>3, <4>2 DEF d
    <3> QED
      BY <3>2, <3>3
  <2> QED
    BY <2>2, <2>3 DEF d
<1>2. /\ ch.events \cup {"read"} \in SUBSET Interests
      /\ ch.events \cup {"write"} \in SUBSET Interests
      /\ ch.events \ {"write"} \in SUBSET Interests
      /\ {} \in SUBSET Interests
  BY DEF ChannelType, Interests
<1>3. enableReading(ch).registered
  BY <1>1, <1>2 DEF enableReading
<1>4. enableWriting(ch).registered
  BY <1>1, <1>2 DEF enableWriting
<1>5. disableWriting(ch).registered <=> (ch.events \ {"write"} # {} \/ ~ch.registered)
  BY <1>1, <1>2 DEF disableWriting
<1>6. disableAll(ch).registered <=> ~ch.registered
  BY <1>1, <1>2 DEF disableAll
<1> QED
  BY <1>3, <1>4, <1>5, <1>6

\* A change of the record that leaves the channel and the buffer alone.
Quiet(k, k2) ==
  /\ k2.channel = k.channel /\ k2.outputBuffer = k.outputBuffer
  /\ k2.loop = k.loop /\ k2.made = k.made /\ k2.downs = k.downs
  /\ k2.state = k.state \/ (k.state # "kConnecting" /\ k2.state = "kDisconnected")
  /\ k.peer = "reset" => k2.peer = "reset"
  /\ k2.shutWr => k.shutWr \/ k2.state = "kDisconnected"

\* A registered channel is so for the reasons it had, or reads, or waits with late
\* data.
KeepsAnchor(k, k2) ==
  k2.channel.registered => k.channel.registered \/ "read" \in k2.channel.events \/ Late(k2)

\* A quiet change of a record keeps its part of the order.
LEMMA QuietIs ==
  ASSUME NEW k, NEW k2, Quiet(k, k2), Coherent(k)
  PROVE  /\ Steady(k, k2) /\ StaysLate(k, k2) /\ Coherent(k2) /\ KeepsAnchor(k, k2)
         /\ k2.channel = k.channel /\ k2.outputBuffer = k.outputBuffer
<1>1. Late(k2) <=> Late(k)
  BY DEF Quiet, Late
<1>2. Steady(k, k2)
  BY <1>1 DEF Quiet, Steady, Stuck
<1>3. Coherent(k2)
  BY DEF Quiet, Coherent
<1> QED
  BY <1>1, <1>2, <1>3 DEF Quiet, StaysLate, KeepsAnchor

\* What the peer and the small steps of a handler change is quiet; ...
LEMMA QuietSteps ==
  ASSUME NEW k \in ConnType
  PROVE  /\ Quiet(k, k) /\ Quiet(k, ReadOnce(k)) /\ Quiet(k, ErrorRead(k))
         /\ k.state # "kConnecting" => Quiet(k, Shut(k))
         /\ Quiet(k, DataCame(k)) /\ Quiet(k, RoomMade(k))
         /\ k.peer = "open" => Quiet(k, PeerClosed(k))
         /\ Quiet(k, PeerReset(k))
<1>1. Quiet(k, k)
  BY DEF Quiet
<1>2. Quiet(k, ReadOnce(k))
  BY DEF Quiet, ReadOnce, ConnType
<1>3. Quiet(k, ErrorRead(k))
  BY DEF Quiet, ErrorRead, ConnType
<1>4. k.state # "kConnecting" => Quiet(k, Shut(k))
  BY DEF Quiet, Shut, ConnType
<1>5. Quiet(k, DataCame(k)) /\ Quiet(k, RoomMade(k))
  BY DEF Quiet, DataCame, RoomMade, ConnType
<1>6. k.peer = "open" => Quiet(k, PeerClosed(k))
  BY DEF Quiet, PeerClosed, ConnType
<1>7. Quiet(k, PeerReset(k))
  BY DEF Quiet, PeerReset, ConnType
<1> QED
  BY <1>1, <1>2, <1>3, <1>4, <1>5, <1>6, <1>7

\* ... so is shutdownInLoop, of a connection shutdown() has disconnected; ...
LEMMA ShutdownInLoopQuiet ==
  ASSUME NEW k \in ConnType, Sound(k), k.state = "kDisconnected"
  PROVE  Quiet(k, shutdownInLoop(k))
<1> DEFINE k2 == shutdownInLoop(k)
<1>1. k2.channel = k.channel /\ k2.outputBuffer = k.outputBuffer /\ SameLife(k, k2)
  BY ShutdownInLoopIs
<1> HIDE DEF k2
<1> QED
  BY <1>1 DEF SameLife, Quiet, k2

\* ... sendInLoop may also fill the buffer, late or not.
LEMMA SendInLoopSteady ==
  ASSUME NEW k \in ConnType, Sound(k), k.state # "kConnecting", Coherent(k)
  PROVE  /\ Steady(k, sendInLoop(k)) /\ StaysLate(k, sendInLoop(k))
         /\ Coherent(sendInLoop(k)) /\ KeepsAnchor(k, sendInLoop(k))
<1> DEFINE k2 == sendInLoop(k)
<1>1. /\ SameLife(k, k2) /\ k2.shutWr = k.shutWr
      /\ k.outputBuffer # <<>> => k2.outputBuffer # <<>>
      /\ \/ k2.channel = k.channel
         \/ k2.channel = enableWriting(k.channel) /\ k2.outputBuffer # <<>>
  BY SendInLoopIs
<1> HIDE DEF k2
<1>2. k.channel \in ChannelType /\ EpollAgrees(k.channel)
  BY DEF ConnType, Sound
<1>3. /\ enableWriting(k.channel).events = k.channel.events \cup {"write"}
      /\ enableWriting(k.channel).registered
  BY <1>2, ChannelIs, RegistersIs
<1>4. "read" \in k2.channel.events <=> "read" \in k.channel.events
  BY <1>1, <1>3
<1>5. StaysLate(k, k2)
  BY <1>1, <1>4 DEF StaysLate, Late
<1>6. Steady(k, k2)
  BY <1>1, <1>4, <1>5 DEF Steady, SameLife, Stuck, StaysLate
<1>7. Coherent(k2)
  <2>1. CASE k2.channel = k.channel
    BY <1>1, <2>1 DEF Coherent, SameLife
  <2>2. CASE k2.channel = enableWriting(k.channel) /\ k2.outputBuffer # <<>>
    BY <1>1, <1>3, <2>2 DEF Coherent, SameLife
  <2> QED
    BY <1>1, <2>1, <2>2
<1>8. KeepsAnchor(k, k2)
  BY <1>1 DEF KeepsAnchor, Late
<1> QED
  BY <1>5, <1>6, <1>7, <1>8 DEF k2

\* A write may end the lateness of data, not of data that is stuck.
LEMMA HandleWriteSteady ==
  ASSUME NEW k \in ConnType, Sound(k), Coherent(k)
  PROVE  /\ Steady(k, handleWrite(k)) /\ Coherent(handleWrite(k))
         /\ handleWrite(k).channel.registered =>
              \/ "read" \in handleWrite(k).channel.events \/ Late(handleWrite(k))
              \/ handleWrite(k) = k
<1> DEFINE k2 == handleWrite(k)
<1>1. k2 = k \/ WritesSome(k, k2)
  BY HandleWriteIs
<1> HIDE DEF k2
<1>2. CASE k2 = k
  BY <1>2 DEF Steady, k2
<1>3. CASE WritesSome(k, k2)
  <2>1. k.channel \in ChannelType /\ EpollAgrees(k.channel) /\ k.channel.registered
    BY <1>3 DEF ConnType, Sound, WritesSome, Coherent, isWriting
  <2>2. /\ disableWriting(k.channel).events = k.channel.events \ {"write"}
        /\ disableWriting(k.channel).registered <=> k.channel.events \ {"write"} # {}
    BY <2>1, ChannelIs, RegistersIs
  <2>3. "read" \in k2.channel.events <=> "read" \in k.channel.events
    BY <1>3, <2>2 DEF WritesSome
  <2>4. Steady(k, k2)
    BY <1>3, <2>3 DEF Steady, WritesSome, SameLife, Stuck
  <2>5. Coherent(k2)
    <3>1. k2.shutWr => k2.state = "kDisconnected"
      BY <1>3 DEF WritesSome, Coherent, SameLife
    <3>2. k2.state # "kDisconnected" => k2.downs = 0
      BY <1>3 DEF WritesSome, Coherent, SameLife
    <3>3. /\ "write" \in k2.channel.events => k2.outputBuffer # <<>>
          /\ k2.channel.events # {} => k2.channel.registered
      BY <1>3, <2>1, <2>2 DEF WritesSome, Coherent
    <3> QED
      BY <3>1, <3>2, <3>3 DEF Coherent
  <2>6. k2.channel.registered => "read" \in k2.channel.events \/ Late(k2)
    <3>1. CASE k2.outputBuffer # <<>>
      BY <3>1 DEF Late
    <3>2. CASE k2.channel = disableWriting(k.channel)
      <4>1. k.channel.events \subseteq {"read", "write"}
        BY <2>1 DEF ChannelType, Interests
      <4> QED
        BY <2>2, <3>2, <4>1
    <3> QED
      BY <1>3, <3>1, <3>2 DEF WritesSome
  <2> QED
    BY <2>4, <2>5, <2>6 DEF k2
<1> QED
  BY <1>1, <1>2, <1>3

\* The step a loop is at comes at its time.
LEMMA AtTimely ==
  ASSUME Lawful, Orderly, NEW l \in Loops, todo[l] # <<>>
  PROVE  /\ Timely(Head(todo[l]), l)
         /\ Head(todo[l]).op # "removeConnectionInLoop" => conn[Current(l)].loop = l
         /\ Head(todo[l]).op # "connectEstablished" => conn[Current(l)].state # "kConnecting"
         /\ Coherent(conn[Current(l)]) /\ Anchored(Current(l)) /\ OneLife(Current(l))
<1>1. /\ TypeOK /\ Head(todo[l]) \in ToSet(todo[l]) /\ Current(l) = Head(todo[l]).conn
      /\ Current(l) \in Conns
  BY HeadIs DEF Lawful
<1>2. Head(todo[l]) \in ToSet(Agenda(l))
  BY <1>1, AgendaIs
<1>3. Timely(Head(todo[l]), l)
  BY <1>2 DEF Orderly
<1> QED
  BY <1>1, <1>3 DEF Timely, Orderly

\* removeChannel waits behind callbacks of its own call only.
LEMMA NoRemoval ==
  ASSUME Lawful, Orderly, NEW l \in Loops, todo[l] # <<>>,
         Head(todo[l]).op \notin {"callback", "removeChannel", "removeConnectionInLoop"},
         NEW x \in Loops
  PROVE  Do("removeChannel", Current(l)) \notin
           ToSet(todo[x]) \cup ToSet(left[x]) \cup ToSet(functors[x])
<1> DEFINE c == Current(l)
           s == Do("removeChannel", c)
<1>1. s.op = "removeChannel" /\ s.conn = c
  BY DEF Do
<1>2. s \notin ToSet(left[x]) \cup ToSet(functors[x])
  BY <1>1 DEF Lawful, LoopSound, FunctorOps
<1>3. ASSUME s \in ToSet(todo[x]) PROVE FALSE
  <2>1. s \in ToSet(Agenda(x))
    BY <1>3, AgendaIs DEF Lawful
  <2>2. conn[c].loop = x
    BY <1>1, <2>1 DEF Orderly, Timely
  <2>3. x = l
    BY <2>2, AtTimely
  <2>4. Head(todo[l]) \in ToSet(todo[l])
    BY HeadIs DEF Lawful
  <2>5. Tidy(l)
    BY DEF Orderly
  <2>6. s \in ToSet(todo[l]) => \A t \in ToSet(todo[l]) : t.op \in {"callback", "removeChannel"}
    BY <1>1, <2>5 DEF Tidy
  <2> QED
    BY <1>3, <2>3, <2>4, <2>6
<1> QED
  BY <1>2, <1>3

\* What keeps a channel registered goes on doing so.
LEMMA AnchorStays ==
  ASSUME Lawful, Orderly, NEW c \in Conns, NEW k2 \in ConnType,
         Steady(conn[c], k2), StaysLate(conn[c], k2), KeepsAnchor(conn[c], k2),
         NEW l \in Loops, NEW rest, NEW steps \in Seq(Step),
         NEW m \in Loops, NEW q \in Seq(Step), Moves(l, rest, steps, m, q),
         rest = todo[l] \/ Head(todo[l]) # Do("removeChannel", c)
  PROVE  k2.channel.registered =>
           \/ "read" \in k2.channel.events \/ Late(k2)
           \/ Do("removeChannel", c) \in ToSet(todo'[k2.loop])
<1> DEFINE x == k2.loop
           s == Do("removeChannel", c)
<1>1. TypeOK /\ conn[c] \in ConnType /\ Anchored(c)
  BY DEF Lawful, TypeOK, ConnTypeOK, Orderly
<1>2. Moved(l, rest, steps, m, q)
  BY <1>1, MovesIs
<1>3. x \in Loops /\ x = conn[c].loop
  BY DEF ConnType, Steady
<1>4. conn[c].channel.registered =>
        "read" \in conn[c].channel.events \/ Late(conn[c]) \/ s \in ToSet(todo[x])
  BY <1>1, <1>3 DEF Anchored
<1> HIDE DEF x, s
<1>5. s \in ToSet(todo[l]) => s \in ToSet(rest)
  BY <1>1, HeadIs DEF Moves, Leaves, s
<1>6. s \in ToSet(todo[x]) => s \in ToSet(todo'[x])
  BY <1>2, <1>3, <1>5 DEF Moved
<1> QED
  BY <1>4, <1>6 DEF Steady, StaysLate, KeepsAnchor, x, s

\* A call that goes on, and one that does not, move the agendas.
LEMMA ContinueMoves ==
  ASSUME TypeOK, NEW l \in Loops, todo[l] # <<>>, NEW steps \in Seq(Step), Continue(l, steps),
         NEW m \in Loops, NEW q \in Seq(Step), Queue(m, q), UNCHANGED left
  PROVE  /\ Moves(l, Tail(todo[l]), steps, m, q)
         /\ todo'[l] = steps \o Tail(todo[l])
<1>1. Moves(l, Tail(todo[l]), steps, m, q)
  BY DEF Moves, Leaves, Continue, Queue
<1>2. todo \in [Loops -> Seq(Step)]
  BY DEF TypeOK, ConnTypeOK
<1> QED
  BY <1>1, <1>2 DEF Moves

\* A step of a thread that is not a loop only queues.
LEMMA StayMoves ==
  ASSUME TypeOK, NEW l \in Loops, UNCHANGED <<todo, left>>,
         NEW m \in Loops, NEW q \in Seq(Step), Queue(m, q)
  PROVE  Moves(l, todo[l], <<>>, m, q)
<1> DEFINE t == todo[l]
<1>1. todo \in [Loops -> Seq(Step)] /\ t \in Seq(Step)
  BY DEF TypeOK, ConnTypeOK
<1> HIDE DEF t
<1>2. <<>> \o t = t
  BY <1>1
<1> QED
  BY <1>1, <1>2 DEF Moves, Leaves, Queue, t

\* A step of a call that changes little of its connection.
LEMMA CallOrderly ==
  ASSUME Lawful, Orderly, NEW l \in Loops, todo[l] # <<>>,
         NEW c \in Conns, c = Current(l),
         NEW k2 \in ConnType, conn' = [conn EXCEPT ![c] = k2],
         Steady(conn[c], k2), Coherent(k2),
         StaysLate(conn[c], k2), KeepsAnchor(conn[c], k2),
         NEW steps \in Seq(Step), Continue(l, steps),
         NEW m \in Loops, NEW q \in Seq(Step), Queue(m, q),
         UNCHANGED <<lpc, active, batch, left, connections_>>,
         Head(todo[l]).op \notin {"connectDestroyed", "removeChannel"},
         \A s \in ToSet(steps) :
           s.conn = c /\ Follows(Head(todo[l]).op, s.op) /\ Timely(s, l)',
         OnceIn(steps, Closings),
         \A s \in ToSet(q) : s.conn = c /\ Timely(s, m)',
         OneLife(c)',
         \/ Head(todo[l]).op \notin {"callback", "removeConnectionInLoop"}
         \/ /\ k2.channel = conn[c].channel
            /\ k2.outputBuffer = conn[c].outputBuffer
  PROVE  Orderly'
<1> DEFINE rest == Tail(todo[l])
<1>1. TypeOK /\ c \in Conns /\ Head(todo[l]).conn = c
  BY HeadIs DEF Lawful
<1>2. Moves(l, rest, steps, m, q) /\ todo'[l] = steps \o rest
  BY <1>1, ContinueMoves
<1>3. Tidy(l)'
  <2>1. \A s \in ToSet(steps) : s.conn = Current(l) /\ Follows(Head(todo[l]).op, s.op)
    OBVIOUS
  <2> QED
    BY <1>2, <2>1, TidyContinues
<1>4. \/ \A x \in Loops : Do("removeChannel", c) \notin Remains(l, rest, x)
      \/ k2.channel = conn[c].channel /\ k2.outputBuffer = conn[c].outputBuffer
  <2>1. ASSUME Head(todo[l]).op \notin {"callback", "removeConnectionInLoop"}, NEW x \in Loops
        PROVE  Do("removeChannel", c) \notin Remains(l, rest, x)
    <3>1. /\ Do("removeChannel", c) \notin ToSet(todo[x])
          /\ Do("removeChannel", c) \notin ToSet(left[x]) \cup ToSet(functors[x])
      BY <2>1, NoRemoval
    <3>2. ToSet(rest) \subseteq ToSet(todo[l])
      BY <1>1, HeadIs
    <3>3. Do("removeChannel", c) \notin ToSet(todo[l])
      BY <2>1, NoRemoval
    <3> QED
      BY <3>1, <3>2, <3>3 DEF Remains
  <2> QED
    BY <2>1
<1>5. /\ Head(todo[l]) # Do("removeChannel", c)
      /\ \A s \in ToSet(steps) : s.conn = Current(l) /\ Follows(Head(todo[l]).op, s.op)
  BY DEF Do
<1> HIDE DEF rest
<1>6. k2.channel.registered =>
        \/ "read" \in k2.channel.events \/ Late(k2)
        \/ Do("removeChannel", c) \in ToSet(todo'[k2.loop])
  BY <1>1, <1>2, <1>5, AnchorStays
<1>7. /\ conn' = [conn EXCEPT ![c] = k2] /\ Steady(conn[c], k2) /\ StaysLate(conn[c], k2)
      /\ OneLife(c)'
      /\ rest = todo[l] \/ (Head(todo[l]).conn = c /\ Head(todo[l]).op # "connectDestroyed")
      /\ \A s \in ToSet(steps) \cup ToSet(q) : s.conn = c
      /\ \A s \in ToSet(steps) : Timely(s, l)'
      /\ \A s \in ToSet(q) : Timely(s, m)'
  BY <1>1, <1>5
<1> QED
  BY <1>1, <1>2, <1>3, <1>4, <1>6, <1>7, SteadyOrderly

\* A step outside the loops' calls, or in a callback that goes on.
LEMMA AsideOrderly ==
  ASSUME Lawful, Orderly, NEW c \in Conns,
         NEW k2 \in ConnType, conn' = [conn EXCEPT ![c] = k2],
         Steady(conn[c], k2), Coherent(k2), StaysLate(conn[c], k2), KeepsAnchor(conn[c], k2),
         NEW m \in Loops, NEW q \in Seq(Step), Queue(m, q),
         UNCHANGED <<lpc, active, todo, batch, left, connections_>>,
         \A s \in ToSet(q) : s.conn = c /\ s \notin Life(c) /\ Timely(s, m)',
         \/ \A x \in Loops : Do("removeChannel", c) \notin
              ToSet(todo[x]) \cup ToSet(left[x]) \cup ToSet(functors[x])
         \/ k2.channel = conn[c].channel /\ k2.outputBuffer = conn[c].outputBuffer
  PROVE  Orderly'
<1> DEFINE steps == <<>>
           rest == todo[m]
<1>1. TypeOK /\ steps \in Seq(Step) /\ ToSet(steps) = {} /\ conn \in [Conns -> ConnType]
      /\ OneLife(c)
  BY None DEF Lawful, TypeOK, ConnTypeOK, Orderly
<1>2. Moves(m, rest, steps, m, q)
  BY <1>1, StayMoves
<1>3. Tidy(m)'
  BY TidySame DEF Orderly
<1>4. \/ \A x \in Loops : Do("removeChannel", c) \notin Remains(m, rest, x)
      \/ k2.channel = conn[c].channel /\ k2.outputBuffer = conn[c].outputBuffer
  BY DEF Remains
<1> HIDE DEF steps
<1>5. \A s \in ToSet(steps) \cup ToSet(q) : s.conn = c /\ s \notin Life(c)
  BY <1>1
<1>6. OneLife(c)'
  <2>1. Stuck(conn[c]) => Stuck(conn'[c])
    BY <1>1 DEF Steady
  <2> QED
    BY <1>1, <1>2, <1>5, <2>1, OneLifeStays
<1>7. rest = todo[m]
  OBVIOUS
<1> HIDE DEF rest
<1>8. k2.channel.registered =>
        \/ "read" \in k2.channel.events \/ Late(k2)
        \/ Do("removeChannel", c) \in ToSet(todo'[k2.loop])
  BY <1>1, <1>2, <1>7, AnchorStays
<1>9. \A s \in ToSet(steps) : Timely(s, m)'
  BY <1>1
<1> QED
  BY <1>1, <1>2, <1>3, <1>4, <1>5, <1>6, <1>7, <1>8, <1>9, SteadyOrderly

\* A step that ends its part of a call.
LEMMA EndsOrderly ==
  ASSUME Lawful, Orderly, NEW l \in Loops, todo[l] # <<>>,
         NEW c \in Conns, c = Current(l),
         NEW k2 \in ConnType, conn' = [conn EXCEPT ![c] = k2],
         Steady(conn[c], k2), Coherent(k2), StaysLate(conn[c], k2), KeepsAnchor(conn[c], k2),
         Continue(l, <<>>), NEW q \in Seq(Step), Queue(l, q),
         UNCHANGED Rest,
         Head(todo[l]).op \notin {"connectDestroyed", "removeChannel"},
         \A s \in ToSet(q) : s.conn = c /\ s.op \in {"callback", "sendInLoop", "shutdownInLoop"}
                             /\ Timely(s, l)',
         \/ Head(todo[l]).op \notin {"callback", "removeConnectionInLoop"}
         \/ k2.channel = conn[c].channel /\ k2.outputBuffer = conn[c].outputBuffer
  PROVE  Orderly'
<1> DEFINE steps == <<>>
<1>1. TypeOK /\ conn \in [Conns -> ConnType] /\ OneLife(c)
  BY DEF Lawful, TypeOK, ConnTypeOK, Orderly
<1>2. steps \in Seq(Step) /\ ToSet(steps) = {} /\ Continue(l, steps)
  BY None
<1>3. OnceIn(steps, Closings)
  BY HeadIs, OnceInFew DEF Lawful
<1> HIDE DEF steps
<1>4. UNCHANGED <<lpc, active, batch, left, connections_>> /\ UNCHANGED left
  BY DEF Rest
<1>5. Moves(l, Tail(todo[l]), steps, l, q)
  BY <1>1, <1>2, <1>4, ContinueMoves
<1>6. OneLife(c)'
  <2>1. \A s \in ToSet(steps) \cup ToSet(q) : s \notin Life(c)
    BY <1>2 DEF Life, Do
  <2>2. Stuck(conn[c]) => Stuck(conn'[c])
    BY <1>1 DEF Steady
  <2> QED
    BY <1>1, <1>2, <1>5, <2>1, <2>2, OneLifeStays
<1>7. \A s \in ToSet(steps) :
        s.conn = c /\ Follows(Head(todo[l]).op, s.op) /\ Timely(s, l)'
  BY <1>2
<1>8. \A s \in ToSet(q) : s.conn = c /\ Timely(s, l)'
  OBVIOUS
<1> QED
  BY <1>2, <1>3, <1>4, <1>6, <1>7, <1>8, CallOrderly

\* ... and changes nothing the order depends on.
LEMMA QuietlyEnds ==
  ASSUME Lawful, Orderly, NEW l \in Loops, todo[l] # <<>>,
         NEW c \in Conns, c = Current(l),
         NEW k2 \in ConnType, conn' = [conn EXCEPT ![c] = k2], Quiet(conn[c], k2),
         Continue(l, <<>>), UNCHANGED functors, UNCHANGED Rest,
         Head(todo[l]).op \notin {"connectDestroyed", "removeChannel"}
  PROVE  Orderly'
<1> DEFINE q == <<>>
<1>1. TypeOK /\ Coherent(conn[c])
  BY DEF Lawful, Orderly
<1>2. Queue(l, q) /\ q \in Seq(Step) /\ ToSet(q) = {}
  BY <1>1, NothingQueued
<1> HIDE DEF q
<1>3. /\ Steady(conn[c], k2) /\ StaysLate(conn[c], k2) /\ Coherent(k2) /\ KeepsAnchor(conn[c], k2)
      /\ k2.channel = conn[c].channel /\ k2.outputBuffer = conn[c].outputBuffer
  BY <1>1, QuietIs
<1>4. \A s \in ToSet(q) : s.conn = c /\ s.op \in {"callback", "sendInLoop", "shutdownInLoop"}
                          /\ Timely(s, l)'
  BY <1>2
<1> QED
  BY <1>2, <1>3, <1>4, EndsOrderly

\* handleError only reads SO_ERROR.
LEMMA HandleErrorOrderly ==
  ASSUME Lawful, Orderly, NEW l \in Loops, HandleError(l), UNCHANGED serverVars
  PROVE  Orderly'
<1> PICK c : c = Current(l)
  OBVIOUS
<1> DEFINE k == conn[c]
<1>1. todo[l] # <<>> /\ UNCHANGED Rest /\ UNCHANGED functors /\ Head(todo[l]).op = "handleError"
      /\ conn' = [conn EXCEPT ![c] = ErrorRead(k)] /\ Continue(l, <<>>)
  BY DEF HandleError, IsAt, serverVars, Rest, ErrorRead
<1>2. c \in Conns /\ k \in ConnType /\ Sound(k)
  BY <1>1, AtStep
<1>3. ErrorRead(k) \in ConnType /\ Quiet(k, ErrorRead(k))
  BY <1>2, ErrorReadIs, QuietSteps
<1> QED
  BY <1>1, <1>2, <1>3, QuietlyEnds

\* shutdownInLoop may shut the writing side, of a disconnected connection.
LEMMA ShutdownInLoopOrderly ==
  ASSUME Lawful, Orderly, NEW l \in Loops, ShutdownInLoop(l), UNCHANGED serverVars
  PROVE  Orderly'
<1> PICK c : c = Current(l)
  OBVIOUS
<1> DEFINE k == conn[c]
<1>1. todo[l] # <<>> /\ UNCHANGED Rest /\ UNCHANGED functors
      /\ Head(todo[l]).op = "shutdownInLoop"
      /\ conn' = [conn EXCEPT ![c] = shutdownInLoop(k)] /\ Continue(l, <<>>)
  BY DEF ShutdownInLoop, IsAt, serverVars, Rest
<1>2. c \in Conns /\ k \in ConnType /\ Sound(k)
  BY <1>1, AtStep
<1>3. k.state = "kDisconnected"
  <2>1. Timely(Head(todo[l]), l) /\ Current(l) = Head(todo[l]).conn
    BY <1>1, AtTimely DEF Current
  <2> QED
    BY <1>1, <2>1 DEF Timely
<1>4. shutdownInLoop(k) \in ConnType /\ Quiet(k, shutdownInLoop(k))
  BY <1>2, <1>3, ShutdownInLoopIs, ShutdownInLoopQuiet
<1> QED
  BY <1>1, <1>2, <1>4, QuietlyEnds

\* A user callback that returns changes no connection.
LEMMA CallbackReturnsOrderly ==
  ASSUME Lawful, Orderly, NEW l \in Loops, CallbackReturns(l), UNCHANGED serverVars
  PROVE  Orderly'
<1> PICK c : c = Current(l)
  OBVIOUS
<1>1. todo[l] # <<>> /\ UNCHANGED Rest /\ UNCHANGED functors
      /\ Head(todo[l]).op = "callback" /\ UNCHANGED conn /\ Continue(l, <<>>)
  BY DEF CallbackReturns, IsAt, serverVars, Rest
<1>2. c \in Conns /\ TypeOK
  BY <1>1, AtStep DEF Lawful
<1>3. conn' = [conn EXCEPT ![c] = conn[c]] /\ conn[c] \in ConnType
  BY <1>1, <1>2, NotReplaced
<1>4. Quiet(conn[c], conn[c])
  BY <1>3, QuietSteps
<1> QED
  BY <1>1, <1>2, <1>3, <1>4, QuietlyEnds

\* sendInLoop: what it buffers when the channel no longer reads is late data.
LEMMA SendInLoopOrderly ==
  ASSUME Lawful, Orderly, NEW l \in Loops, SendInLoop(l), UNCHANGED serverVars
  PROVE  Orderly'
<1> PICK c : c = Current(l)
  OBVIOUS
<1> DEFINE k == conn[c]
           k2 == sendInLoop(k)
           q == sendCompletes(c)
<1>1. todo[l] # <<>> /\ UNCHANGED Rest /\ Head(todo[l]).op = "sendInLoop"
      /\ conn' = [conn EXCEPT ![c] = k2] /\ Queue(l, q) /\ Continue(l, <<>>)
  BY DEF SendInLoop, IsAt, serverVars, Rest
<1>2. c \in Conns /\ k \in ConnType /\ Sound(k) /\ k.state # "kConnecting"
  BY <1>1, AtStep DEF JustifiedBy
<1>3. k.loop = l /\ Coherent(k) /\ TypeOK
  BY <1>1, AtTimely DEF Lawful
<1>4. /\ k2 \in ConnType /\ k2.loop = l /\ k2.state # "kConnecting"
      /\ Steady(k, k2) /\ StaysLate(k, k2) /\ Coherent(k2) /\ KeepsAnchor(k, k2)
  BY <1>2, <1>3, SendInLoopIs, SendInLoopSteady DEF SameLife
<1>5. q \in Seq(Step) /\ \A s \in ToSet(q) : s.op = "callback" /\ s.conn = c
  BY <1>2, CompletesIs
<1> HIDE DEF k2, q
<1>6. ASSUME NEW s \in ToSet(q) PROVE Timely(s, l)'
  <2>1. conn'[c].loop = l /\ conn'[c].state # "kConnecting"
    BY <1>1, <1>2, <1>3, <1>4 DEF TypeOK, ConnTypeOK
  <2> QED
    BY <1>5, <1>6, <2>1 DEF Timely, HandlerNames
<1>7. \A s \in ToSet(q) : s.conn = c /\ s.op \in {"callback", "sendInLoop", "shutdownInLoop"}
                          /\ Timely(s, l)'
  BY <1>5, <1>6
<1> QED
  BY <1>1, <1>2, <1>4, <1>5, <1>7, EndsOrderly

\* send(): sendInLoop now, or queued for the loop of the connection.
LEMMA AppSendOrderly ==
  ASSUME Lawful, Orderly, NEW l \in Loops, AppSend(l), UNCHANGED serverVars
  PROVE  Orderly'
<1> PICK c : c = Current(l)
  OBVIOUS
<1> DEFINE k == conn[c]
           k2 == sendInLoop(k)
           q == sendCompletes(c)
<1>1. todo[l] # <<>> /\ UNCHANGED Rest /\ Head(todo[l]).op = "callback" /\ UNCHANGED todo
      /\ conn' = [conn EXCEPT ![c] = k2] /\ Queue(l, q) /\ k.state = "kConnected"
  BY DEF AppSend, IsAt, serverVars, Rest
<1>2. c \in Conns /\ k \in ConnType /\ Sound(k) /\ k.state # "kConnecting"
  BY <1>1, AtStep
<1>3. k.loop = l /\ Coherent(k) /\ TypeOK
  BY <1>1, AtTimely DEF Lawful
<1>4. /\ k2 \in ConnType /\ k2.loop = l /\ k2.state # "kConnecting"
      /\ Steady(k, k2) /\ StaysLate(k, k2) /\ Coherent(k2) /\ KeepsAnchor(k, k2)
  BY <1>2, <1>3, SendInLoopIs, SendInLoopSteady DEF SameLife
<1>5. q \in Seq(Step) /\ \A s \in ToSet(q) : s.op = "callback" /\ s.conn = c
  BY <1>2, CompletesIs
<1> HIDE DEF k2, q
<1>6. ASSUME NEW s \in ToSet(q) PROVE Timely(s, l)'
  <2>1. conn'[c].loop = l /\ conn'[c].state # "kConnecting"
    BY <1>1, <1>2, <1>3, <1>4 DEF TypeOK, ConnTypeOK
  <2> QED
    BY <1>5, <1>6, <2>1 DEF Timely, HandlerNames
<1>7. \A s \in ToSet(q) : s.conn = c /\ s \notin Life(c) /\ Timely(s, l)'
  BY <1>5, <1>6 DEF Life, Do
<1>8. ASSUME NEW x \in Loops
      PROVE  Do("removeChannel", c) \notin ToSet(todo[x]) \cup ToSet(left[x]) \cup ToSet(functors[x])
  <2> DEFINE s == Do("removeChannel", c)
  <2>1. s.op = "removeChannel" /\ s.conn = c
    BY DEF Do
  <2> HIDE DEF s
  <2>2. s \in ToSet(Agenda(x)) => k.state = "kDisconnected"
    BY <2>1 DEF Orderly, Timely
  <2> QED
    BY <1>1, <1>3, <2>2, AgendaIs DEF s
<1>9. UNCHANGED <<lpc, active, todo, batch, left, connections_>>
  BY <1>1 DEF Rest
<1> QED
  BY <1>1, <1>2, <1>4, <1>5, <1>7, <1>8, <1>9, AsideOrderly

\* A step beside the calls that changes nothing the order depends on.
LEMMA QuietlyAside ==
  ASSUME Lawful, Orderly, NEW c \in Conns,
         NEW k2 \in ConnType, conn' = [conn EXCEPT ![c] = k2], Quiet(conn[c], k2),
         UNCHANGED <<lpc, active, todo, functors, batch, left, connections_>>
  PROVE  Orderly'
<1> DEFINE q == <<>>
           m == conn[c].loop
<1>1. TypeOK /\ Coherent(conn[c]) /\ m \in Loops
  BY DEF Lawful, TypeOK, ConnTypeOK, ConnType, Orderly
<1>2. Queue(m, q) /\ q \in Seq(Step) /\ ToSet(q) = {}
  BY <1>1, NothingQueued
<1> HIDE DEF q, m
<1>3. /\ Steady(conn[c], k2) /\ StaysLate(conn[c], k2) /\ Coherent(k2) /\ KeepsAnchor(conn[c], k2)
      /\ k2.channel = conn[c].channel /\ k2.outputBuffer = conn[c].outputBuffer
  BY <1>1, QuietIs
<1>4. PICK x \in Loops : x = m
  BY <1>1
<1>5. Queue(x, q) /\ \A s \in ToSet(q) : s.conn = c /\ s \notin Life(c) /\ Timely(s, x)'
  BY <1>2, <1>4
<1>6. UNCHANGED <<lpc, active, todo, batch, left, connections_>>
  OBVIOUS
<1> QED
  BY <1>2, <1>3, <1>4, <1>5, <1>6, AsideOrderly

\* shutdown(): the state, then shutdownInLoop now or queued.
LEMMA AppShutdownOrderly ==
  ASSUME Lawful, Orderly, NEW l \in Loops, AppShutdown(l), UNCHANGED serverVars
  PROVE  Orderly'
<1> PICK c : c = Current(l)
  OBVIOUS
<1> DEFINE k == conn[c]
           s == Shut(k)
           k2 == shutdownInLoop(s)
<1>1. /\ todo[l] # <<>> /\ conn' = [conn EXCEPT ![c] = k2] /\ k.state = "kConnected"
      /\ UNCHANGED <<lpc, active, todo, functors, batch, left, connections_>>
  BY DEF AppShutdown, IsAt, serverVars, loopVars, Shut
<1>2. c \in Conns /\ k \in ConnType /\ Sound(k)
  BY <1>1, AtStep
<1>3. s \in ConnType /\ Sound(s) /\ Quiet(k, s) /\ s.state = "kDisconnected"
  BY <1>1, <1>2, ShutIs, QuietSteps
<1> HIDE DEF s
<1>4. k2 \in ConnType /\ Quiet(s, k2) /\ k2.state = "kDisconnected"
  BY <1>3, ShutdownInLoopIs, ShutdownInLoopQuiet
<1> HIDE DEF k2
<1>5. Quiet(k, k2)
  BY <1>1, <1>3, <1>4 DEF Quiet
<1> QED
  BY <1>1, <1>2, <1>4, <1>5, QuietlyAside

\* The peer only changes what a record says of it, and a reset makes late data stuck.
LEMMA PeerOrderly ==
  ASSUME Lawful, Orderly, NEW c \in Conns, Peer(c), UNCHANGED serverVars
  PROVE  Orderly'
<1> DEFINE k == conn[c]
<1>1. k \in ConnType /\ Sound(k)
  BY DEF Lawful, TypeOK, ConnTypeOK
<1>2. PICK k2 : /\ conn' = [conn EXCEPT ![c] = k2]
                /\ \/ k2 = DataCame(k) \/ k2 = RoomMade(k)
                   \/ k2 = PeerClosed(k) /\ k.peer = "open"
                   \/ k2 = PeerReset(k)
  <2>1. CASE PeerSends(c)
    BY <2>1 DEF PeerSends, DataCame
  <2>2. CASE PeerReads(c)
    BY <2>2 DEF PeerReads, RoomMade
  <2>3. CASE PeerCloses(c)
    BY <2>3 DEF PeerCloses, PeerClosed
  <2>4. CASE PeerResets(c)
    BY <2>4 DEF PeerResets, PeerReset
  <2> QED
    BY <2>1, <2>2, <2>3, <2>4 DEF Peer
<1>3. k2 \in ConnType
  BY <1>1, <1>2, PeerIs
<1>4. Quiet(k, k2)
  BY <1>1, <1>2, QuietSteps
<1>5. UNCHANGED <<lpc, active, todo, functors, batch, left, connections_>>
  BY DEF Peer, PeerSends, PeerReads, PeerCloses, PeerResets, loopVars, serverVars
<1> QED
  BY <1>2, <1>3, <1>4, <1>5, QuietlyAside

\* What a user thread queues after its test of the state.
LEMMA UserQueuesOrderly ==
  ASSUME Lawful, Orderly, NEW u \in Users, UserQueues(u), UNCHANGED serverVars
  PROVE  Orderly'
<1> PICK s : s = ucall[u]
  OBVIOUS
<1> PICK c : c = s.conn
  OBVIOUS
<1> DEFINE k == conn[c]
           q == <<s>>
<1>1. /\ s # NoCall
      /\ conn' = IF s.op = "shutdownInLoop" THEN [conn EXCEPT ![c] = Shut(k)] ELSE conn
      /\ Queue(k.loop, q)
      /\ UNCHANGED <<lpc, active, todo, batch, left, connections_>>
  BY DEF UserQueues, Shut, serverVars
<1>2. /\ TypeOK /\ s \in [op : {"sendInLoop", "shutdownInLoop"}, conn : Conns] /\ Justified(s)
  BY <1>1 DEF Lawful, TypeOK, ConnTypeOK
<1>3. /\ s \in Step /\ c \in Conns /\ s.op \in {"sendInLoop", "shutdownInLoop"}
  BY <1>2 DEF Step, RawOps
<1>4. k \in ConnType /\ Sound(k) /\ k.state # "kConnecting" /\ k.loop \in Loops /\ Coherent(k)
  BY <1>2, <1>3 DEF Lawful, TypeOK, ConnTypeOK, Justified, ConnType, Orderly
<1>5. q \in Seq(Step) /\ ToSet(q) = {s}
  BY <1>3, Single
<1> HIDE DEF q
<1>6. PICK k2 \in ConnType :
        /\ conn' = [conn EXCEPT ![c] = k2] /\ Quiet(k, k2)
        /\ s.op = "shutdownInLoop" => k2.state = "kDisconnected"
        /\ k2.state # "kConnecting"
  <2>1. CASE s.op = "shutdownInLoop"
    <3>1. Shut(k) \in ConnType /\ Quiet(k, Shut(k)) /\ Shut(k).state = "kDisconnected"
      BY <1>4, ShutIs, QuietSteps
    <3> QED
      BY <1>1, <2>1, <3>1
  <2>2. CASE s.op # "shutdownInLoop"
    <3>1. UNCHANGED conn
      BY <1>1, <2>2
    <3>2. conn' = [conn EXCEPT ![c] = k] /\ Quiet(k, k)
      BY <1>2, <1>3, <1>4, <3>1, NotReplaced, QuietSteps
    <3> QED
      BY <1>4, <2>2, <3>2
  <2> QED
    BY <2>1, <2>2
<1>7. PICK m \in Loops : m = k.loop
  BY <1>4
<1>8. Timely(s, m)'
  <2>1. conn'[c] = k2 /\ k2.loop = m
    BY <1>2, <1>3, <1>6, <1>7 DEF TypeOK, ConnTypeOK, Quiet
  <2> QED
    BY <1>3, <1>6, <2>1 DEF Timely, HandlerNames
<1>9. \A x \in ToSet(q) : x.conn = c /\ x \notin Life(c) /\ Timely(x, m)'
  BY <1>3, <1>5, <1>8 DEF Life, Do
<1>10. /\ Steady(k, k2) /\ StaysLate(k, k2) /\ Coherent(k2) /\ KeepsAnchor(k, k2)
       /\ k2.channel = k.channel /\ k2.outputBuffer = k.outputBuffer
  BY <1>4, <1>6, QuietIs
<1> QED
  BY <1>1, <1>3, <1>5, <1>6, <1>7, <1>9, <1>10, AsideOrderly

\* A step that leaves all the order depends on alone.
LEMMA SameOrderly ==
  ASSUME Orderly, UNCHANGED <<conn, lpc, active, todo, functors, batch, left, connections_>>
  PROVE  Orderly'
<1>1. \A c : Kept(c) <=> Kept(c)'
  BY DEF Kept, DestroyPending
<1>2. \A l : Agenda(l)' = Agenda(l)
  BY DEF Agenda
<1>3. \A s, l : Timely(s, l) => Timely(s, l)'
  BY <1>1 DEF Timely
<1>4. \A r : TimelyReport(r) => TimelyReport(r)'
  BY <1>1 DEF TimelyReport
<1>5. \A l : Tidy(l) => Tidy(l)'
  BY DEF Tidy
<1>6. \A S : OnceAnywhere(S) => OnceAnywhere(S)'
  BY <1>2 DEF OnceAnywhere
<1>7. \A c : OneLife(c) => OneLife(c)'
  BY <1>6 DEF OneLife
<1>8. \A c : Anchored(c) => Anchored(c)'
  BY DEF Anchored
<1>9. (\A c \in Conns : Coherent(conn[c]) /\ Anchored(c) /\ OneLife(c))'
  BY <1>7, <1>8 DEF Orderly
<1>10. (\A l \in Loops : \A s \in ToSet(Agenda(l)) : Timely(s, l))'
  BY <1>2, <1>3 DEF Orderly
<1>11. (\A l \in Loops : \A r \in active[l] : TimelyReport(r))'
  BY <1>4 DEF Orderly
<1>12. (\A l \in Loops : Tidy(l))'
  BY <1>5 DEF Orderly
<1> QED
  BY <1>9, <1>10, <1>11, <1>12 DEF Orderly

\* What keeps a connection goes on doing so in any step of a call but connectDestroyed.
LEMMA KeptGoesOn ==
  ASSUME TypeOK, NEW l \in Loops, todo[l] # <<>>,
         NEW steps \in Seq(Step), Continue(l, steps),
         NEW m \in Loops, NEW q \in Seq(Step), Queue(m, q), UNCHANGED <<left, connections_>>,
         NEW c \in Conns, conn'[c].loop = conn[c].loop,
         Head(todo[l]).op # "connectDestroyed", Kept(c)
  PROVE  Kept(c)'
<1> DEFINE rest == Tail(todo[l])
<1>1. Moves(l, rest, steps, m, q)
  BY ContinueMoves
<1>2. Head(todo[l]) # Do("connectDestroyed", c)
  BY DEF Do
<1> HIDE DEF rest
<1> QED
  BY <1>1, <1>2, KeptStays

\* The reports of other calls.
LEMMA NoReports ==
  ASSUME Lawful, Orderly, NEW l \in Loops, todo[l] # <<>>,
         Head(todo[l]).op # "removeConnectionInLoop", NEW x \in Loops, NEW r \in active[x]
  PROVE  r[1] # Current(l)
<1>1. Head(todo[l]) \in ToSet(todo[l]) /\ Current(l) = Head(todo[l]).conn
  BY HeadIs DEF Lawful
<1>2. CASE x = l
  <2>1. Tidy(l)
    BY DEF Orderly
  <2> QED
    BY <1>1, <1>2, <2>1 DEF Tidy
<1>3. CASE x # l
  <2>1. conn[r[1]].loop = x
    BY DEF Lawful, LoopSound, Founded
  <2>2. conn[Current(l)].loop = l
    BY AtTimely
  <2> QED
    BY <1>3, <2>1, <2>2
<1> QED
  BY <1>2, <1>3

\* A loop at a step that ends its call has no other.
LEMMA LastOfAll ==
  ASSUME Lawful, Orderly, NEW l \in Loops, todo[l] # <<>>, Head(todo[l]).op \in LastSteps
  PROVE  Tail(todo[l]) = <<>>
<1> DEFINE t == todo[l]
<1>1. t \in Seq(Step) /\ t # <<>> /\ <<>> \in Seq(Step)
  BY HeadIs, None DEF Lawful
<1>2. EndsWell(t)
  <2>1. Tidy(l)
    BY DEF Orderly
  <2> QED
    BY <2>1, TidyIs
<1> HIDE DEF t
<1>3. Head(t).op \in LastSteps => Tail(t) = <<>>
  BY <1>1, <1>2, EndsWellStays
<1> QED
  BY <1>3 DEF t

\* What else waits, of a connection a loop runs a handler or removeChannel of.
LEMMA OnlyHere ==
  ASSUME Lawful, Orderly, NEW l \in Loops, todo[l] # <<>>,
         Head(todo[l]).op # "removeConnectionInLoop",
         NEW x \in Loops, NEW s \in Remains(l, Tail(todo[l]), x), s.conn = Current(l),
         s.op \in HandlerNames \cup {"removeChannel"}
  PROVE  s \in ToSet(Tail(todo[l]))
<1>1. TypeOK
  BY DEF Lawful
<1>2. s \notin ToSet(left[x]) \cup ToSet(functors[x])
  BY DEF Lawful, LoopSound, FunctorOps, HandlerNames
<1>3. CASE x = l
  BY <1>2, <1>3 DEF Remains
<1>4. CASE x # l
  <2>1. s \in ToSet(Agenda(x))
    BY <1>1, <1>2, <1>4, AgendaIs DEF Remains
  <2>2. conn[Current(l)].loop = x
    BY <2>1 DEF Orderly, Timely, HandlerNames
  <2>3. conn[Current(l)].loop = l
    BY AtTimely
  <2> QED
    BY <1>4, <2>2, <2>3
<1> QED
  BY <1>3, <1>4

\* handleRead, and what it leads to.
LEMMA ReadsOrderly ==
  ASSUME Lawful, Orderly, NEW l \in Loops, todo[l] # <<>>, Head(todo[l]).op = "handleRead",
         NEW c \in Conns, c = Current(l),
         NEW k2 \in ConnType, conn' = [conn EXCEPT ![c] = k2], Quiet(conn[c], k2),
         NEW op \in {"callback", "handleError", "handleClose"},
         Continue(l, <<Do(op, c)>>), UNCHANGED functors, UNCHANGED Rest
  PROVE  Orderly'
<1> PICK x : x = Do(op, c)
  OBVIOUS
<1> DEFINE steps == <<x>>
           q == <<>>
<1>1. /\ TypeOK /\ Coherent(conn[c]) /\ OneLife(c) /\ conn \in [Conns -> ConnType]
      /\ Timely(Head(todo[l]), l) /\ Head(todo[l]).conn = c
  BY HeadIs, AtTimely DEF Lawful, Orderly, TypeOK, ConnTypeOK
<1>2. Queue(l, q) /\ q \in Seq(Step) /\ ToSet(q) = {}
  BY <1>1, NothingQueued
<1>3. x \in Step /\ x.op = op /\ x.conn = c
  BY Dos DEF DoIs
<1>4. steps \in Seq(Step) /\ ToSet(steps) = {x} /\ OnceIn(steps, Closings)
  BY <1>3, Single, OnceInFew
<1>5. Continue(l, steps) /\ UNCHANGED <<left, connections_>>
      /\ UNCHANGED <<lpc, active, batch, left, connections_>>
  BY DEF Rest
<1> HIDE DEF q, steps
<1>6. /\ Steady(conn[c], k2) /\ StaysLate(conn[c], k2) /\ Coherent(k2) /\ KeepsAnchor(conn[c], k2)
      /\ k2.channel = conn[c].channel /\ k2.outputBuffer = conn[c].outputBuffer
  BY <1>1, QuietIs
<1>7. conn'[c] = k2 /\ conn'[c].loop = conn[c].loop
  BY <1>1, <1>6 DEF Steady
<1>8. Kept(c) => Kept(c)'
  BY <1>1, <1>2, <1>4, <1>5, <1>7, KeptGoesOn
<1>9. Timely(x, l)'
  <2>1. /\ conn[c].loop = l /\ conn[c].state # "kConnecting"
        /\ Kept(c) \/ Late(conn[c])
        /\ "read" \in conn[c].channel.events
    BY <1>1 DEF Timely, HandlerNames
  <2>2. /\ conn'[c].loop = l /\ conn'[c].state # "kConnecting"
        /\ Kept(c)' \/ Late(conn'[c])
        /\ "read" \in conn'[c].channel.events
    BY <1>6, <1>7, <1>8, <2>1 DEF Steady, StaysLate
  <2> QED
    BY <1>3, <2>2 DEF Timely, MayClose
<1>10. OneLife(c)'
  <2>1. \A s \in ToSet(steps) \cup ToSet(q) : s \notin Life(c)
    BY <1>2, <1>3, <1>4 DEF Life, Do
  <2>2. Stuck(conn[c]) => Stuck(conn'[c])
    BY <1>6, <1>7 DEF Steady
  <2>3. Moves(l, Tail(todo[l]), steps, l, q)
    BY <1>1, <1>2, <1>4, <1>5, ContinueMoves
  <2> QED
    BY <1>1, <1>2, <1>4, <2>1, <2>2, <2>3, OneLifeStays
<1>11. \A s \in ToSet(steps) :
         s.conn = c /\ Follows(Head(todo[l]).op, s.op) /\ Timely(s, l)'
  BY <1>3, <1>4, <1>9 DEF Follows
<1>12. \A s \in ToSet(q) : s.conn = c /\ Timely(s, l)'
  BY <1>2
<1> QED
  BY <1>2, <1>4, <1>5, <1>6, <1>10, <1>11, <1>12, CallOrderly

\* handleRead: a callback, or handleClose of a connection that still reads.
LEMMA HandleReadOrderly ==
  ASSUME Lawful, Orderly, NEW l \in Loops, HandleRead(l), UNCHANGED serverVars
  PROVE  Orderly'
<1> PICK c : c = Current(l)
  OBVIOUS
<1> DEFINE k == conn[c]
<1>1. todo[l] # <<>> /\ UNCHANGED Rest /\ UNCHANGED functors /\ Head(todo[l]).op = "handleRead"
  BY DEF HandleRead, IsAt, serverVars, Rest
<1>2. c \in Conns /\ k \in ConnType /\ Sound(k) /\ TypeOK
  BY <1>1, AtStep DEF Lawful
<1>3. \/ k.unread > 0 /\ conn' = [conn EXCEPT ![c] = ReadOnce(k)]
           /\ Continue(l, <<Do("callback", c)>>)
      \/ conn' = [conn EXCEPT ![c] = ErrorRead(k)] /\ Continue(l, <<Do("handleError", c)>>)
      \/ UNCHANGED conn /\ Continue(l, <<Do("handleClose", c)>>)
  BY DEF HandleRead, ReadOnce, ErrorRead
<1>4. CASE k.unread > 0 /\ conn' = [conn EXCEPT ![c] = ReadOnce(k)]
             /\ Continue(l, <<Do("callback", c)>>)
  <2>1. ReadOnce(k) \in ConnType /\ Quiet(k, ReadOnce(k))
    BY <1>2, <1>4, ReadOnceIs, QuietSteps
  <2> QED
    BY <1>1, <1>2, <1>4, <2>1, ReadsOrderly
<1>5. CASE conn' = [conn EXCEPT ![c] = ErrorRead(k)] /\ Continue(l, <<Do("handleError", c)>>)
  <2>1. ErrorRead(k) \in ConnType /\ Quiet(k, ErrorRead(k))
    BY <1>2, ErrorReadIs, QuietSteps
  <2> QED
    BY <1>1, <1>2, <1>5, <2>1, ReadsOrderly
<1>6. CASE UNCHANGED conn /\ Continue(l, <<Do("handleClose", c)>>)
  <2>1. conn' = [conn EXCEPT ![c] = k] /\ Quiet(k, k)
    BY <1>2, <1>6, NotReplaced, QuietSteps
  <2> QED
    BY <1>1, <1>2, <1>6, <2>1, ReadsOrderly
<1> QED
  BY <1>3, <1>4, <1>5, <1>6

\* handleWrite is the last of its call, so that nothing waits which needs late data.
LEMMA HandleWriteOrderly ==
  ASSUME Lawful, Orderly, NEW l \in Loops, HandleWrite(l), UNCHANGED serverVars
  PROVE  Orderly'
<1> PICK c : c = Current(l)
  OBVIOUS
<1> DEFINE k == conn[c]
           k2 == handleWrite(k)
           steps == <<>>
           q == <<>>
           rest == Tail(todo[l])
<1>1. todo[l] # <<>> /\ UNCHANGED Rest /\ UNCHANGED functors /\ Head(todo[l]).op = "handleWrite"
      /\ conn' = [conn EXCEPT ![c] = k2] /\ Continue(l, steps)
  BY DEF HandleWrite, IsAt, serverVars, Rest
<1>2. /\ c \in Conns /\ k \in ConnType /\ Sound(k) /\ TypeOK /\ Coherent(k) /\ OneLife(c)
      /\ conn \in [Conns -> ConnType]
  BY <1>1, AtStep DEF Lawful, Orderly, TypeOK, ConnTypeOK
<1>3. /\ k2 \in ConnType /\ Steady(k, k2) /\ Coherent(k2)
      /\ k2.channel.registered => "read" \in k2.channel.events \/ Late(k2) \/ k2 = k
  BY <1>2, HandleWriteIs, HandleWriteSteady
<1> HIDE DEF k2
<1>4. CASE k2 = k
  <2>1. Quiet(k, k2)
    BY <1>2, <1>4, QuietSteps
  <2> QED
    BY <1>1, <1>2, <1>3, <2>1, QuietlyEnds
<1>5. CASE k2 # k
  <2>1. /\ Queue(l, q) /\ q \in Seq(Step) /\ ToSet(q) = {}
        /\ steps \in Seq(Step) /\ ToSet(steps) = {}
    BY <1>1, <1>2, NothingQueued, None
  <2>2. OnceIn(steps, Closings)
    BY <1>1, <1>2, HeadIs, OnceInFew
  <2> HIDE DEF q, steps
  <2>3. UNCHANGED <<lpc, active, batch, left, connections_>> /\ UNCHANGED left
        /\ UNCHANGED <<lpc, active, batch, left>>
    BY <1>1 DEF Rest
  <2>4. Moves(l, rest, steps, l, q) /\ todo'[l] = steps \o rest
    BY <1>1, <1>2, <2>1, <2>3, ContinueMoves
  <2>5. Tidy(l)'
    <3>1. \A s \in ToSet(steps) : s.conn = Current(l) /\ Follows(Head(todo[l]).op, s.op)
      BY <2>1
    <3> QED
      BY <1>1, <2>1, <2>2, <2>3, <2>4, <3>1, TidyContinues
  <2>6. OneLife(c)'
    <3>1. \A s \in ToSet(steps) \cup ToSet(q) : s \notin Life(c)
      BY <2>1
    <3>2. Stuck(conn[c]) => Stuck(conn'[c])
      BY <1>1, <1>2, <1>3 DEF Steady
    <3> QED
      BY <1>2, <2>1, <2>4, <3>1, <3>2, OneLifeStays
  <2>7. ASSUME NEW x \in Loops, NEW s \in Remains(l, rest, x), s.conn = c
        PROVE  s.op \notin HandlerNames /\ s # Do("removeChannel", c)
    <3>1. rest = <<>>
      BY <1>1, LastOfAll DEF LastSteps
    <3>2. s \notin ToSet(rest)
      BY <3>1, None
    <3>3. s.op \notin HandlerNames \cup {"removeChannel"}
      BY <1>1, <2>7, <3>2, OnlyHere
    <3> QED
      BY <3>3 DEF Do
  <2>8. \A x \in Loops : \A r \in active[x] : r[1] # c
    BY <1>1, NoReports
  <2>9. \A x \in Loops : Do("removeChannel", c) \notin Remains(l, rest, x)
    <3>1. Do("removeChannel", c).conn = c
      BY DEF Do
    <3> QED
      BY <2>7, <3>1
  <2>10. Head(todo[l]).conn = c /\ Head(todo[l]).op # "connectDestroyed"
    BY <1>1 DEF Current
  <2> HIDE DEF rest
  <2>11. /\ \A s \in ToSet(steps) \cup ToSet(q) : s.conn = c
         /\ \A s \in ToSet(steps) : Timely(s, l)'
         /\ \A s \in ToSet(q) : Timely(s, l)'
    BY <2>1
  <2>12. \A x \in Loops : \A s \in Remains(l, rest, x) : s.conn = c => s.op \notin HandlerNames
    BY <2>7
  <2>13. k2.channel.registered =>
           \/ "read" \in k2.channel.events \/ Late(k2)
           \/ Do("removeChannel", c) \in ToSet(todo'[k2.loop])
    BY <1>3, <1>5
  <2> QED
    BY <1>1, <1>2, <1>3, <2>1, <2>3, <2>4, <2>5, <2>6, <2>8, <2>9, <2>10, <2>11, <2>12, <2>13,
       SteadyOrderly
<1> QED
  BY <1>4, <1>5

\* removeChannel is the last step of a life: the channel leaves the epoll set.
LEMMA RemoveChannelOrderly ==
  ASSUME Lawful, Orderly, NEW l \in Loops, RemoveChannel(l), UNCHANGED serverVars
  PROVE  Orderly'
<1> PICK c : c = Current(l)
  OBVIOUS
<1> DEFINE k == conn[c]
           k2 == Removed(k)
           steps == <<>>
           q == <<>>
           rest == Tail(todo[l])
<1>1. todo[l] # <<>> /\ UNCHANGED Rest /\ UNCHANGED functors /\ Head(todo[l]).op = "removeChannel"
  BY DEF RemoveChannel, IsAt, serverVars, Rest
<1>2. /\ c \in Conns /\ k \in ConnType /\ Sound(k) /\ TypeOK /\ Coherent(k) /\ OneLife(c)
      /\ conn \in [Conns -> ConnType]
  BY <1>1, AtStep DEF Lawful, Orderly, TypeOK, ConnTypeOK
<1>3. \/ removeChannelAsserts(k.channel) /\ conn' = [conn EXCEPT ![c] = k2] /\ Continue(l, steps)
      \/ UNCHANGED <<conn, todo>>
  BY DEF RemoveChannel, Removed
<1>4. CASE UNCHANGED <<conn, todo>>
  <2>1. UNCHANGED <<conn, lpc, active, todo, functors, batch, left, connections_>>
    BY <1>1, <1>4 DEF Rest
  <2> QED
    BY <2>1, SameOrderly
<1>5. CASE removeChannelAsserts(k.channel) /\ conn' = [conn EXCEPT ![c] = k2] /\ Continue(l, steps)
  <2>1. /\ Queue(l, q) /\ q \in Seq(Step) /\ ToSet(q) = {}
        /\ steps \in Seq(Step) /\ ToSet(steps) = {}
    BY <1>1, <1>2, NothingQueued, None
  <2>2. OnceIn(steps, Closings)
    BY <1>1, <1>2, HeadIs, OnceInFew
  <2>3. /\ k2 \in ConnType /\ k2.channel.events = {} /\ ~k2.channel.registered
        /\ k2.state = k.state /\ k2.loop = k.loop /\ k2.made = k.made /\ k2.shutWr = k.shutWr
    BY <1>2, <1>5, RemovedIs
  <2>4. k2.downs = k.downs /\ k2.peer = k.peer /\ k2.outputBuffer = k.outputBuffer
    BY <1>2 DEF Removed, ConnType
  <2>5. conn' = [conn EXCEPT ![c] = k2] /\ Continue(l, steps) /\ k.channel.events = {}
    BY <1>5 DEF removeChannelAsserts
  <2> HIDE DEF q, steps, k2
  <2>6. StaysLate(k, k2) /\ Steady(k, k2) /\ Coherent(k2)
    <3>1. Late(k) <=> Late(k2)
      BY <2>3, <2>4, <2>5 DEF Late
    <3>2. Steady(k, k2)
      BY <2>3, <2>4, <2>5, <3>1 DEF Steady, Stuck
    <3>3. Coherent(k2)
      BY <1>2, <2>3, <2>4 DEF Coherent
    <3> QED
      BY <3>1, <3>2, <3>3 DEF StaysLate
  <2>7. UNCHANGED <<lpc, active, batch, left, connections_>> /\ UNCHANGED left
        /\ UNCHANGED <<lpc, active, batch, left>>
    BY <1>1 DEF Rest
  <2>8. Moves(l, rest, steps, l, q) /\ todo'[l] = steps \o rest
    BY <1>1, <1>2, <2>1, <2>5, <2>7, ContinueMoves
  <2>9. Tidy(l)'
    <3>1. \A s \in ToSet(steps) : s.conn = Current(l) /\ Follows(Head(todo[l]).op, s.op)
      BY <2>1
    <3> QED
      BY <1>1, <2>1, <2>2, <2>7, <2>8, <3>1, TidyContinues
  <2>10. OneLife(c)'
    <3>1. \A s \in ToSet(steps) \cup ToSet(q) : s \notin Life(c)
      BY <2>1
    <3>2. Stuck(conn[c]) => Stuck(conn'[c])
      BY <1>2, <2>5, <2>6 DEF Steady
    <3> QED
      BY <1>2, <2>1, <2>8, <3>1, <3>2, OneLifeStays
  <2>11. ASSUME NEW x \in Loops PROVE Do("removeChannel", c) \notin Remains(l, rest, x)
    <3> PICK s : s = Do("removeChannel", c)
      OBVIOUS
    <3>1. s.op = "removeChannel" /\ s.conn = c
      BY DEF Do
    <3>2. rest = <<>>
      BY <1>1, LastOfAll DEF LastSteps
    <3>3. s \notin ToSet(rest)
      BY <3>2, None
    <3>4. s \notin Remains(l, rest, x)
      BY <1>1, <3>1, <3>3, OnlyHere
    <3> QED
      BY <3>4
  <2>12. Head(todo[l]).conn = c /\ Head(todo[l]).op # "connectDestroyed"
    BY <1>1 DEF Current
  <2> HIDE DEF rest
  <2>13. /\ \A s \in ToSet(steps) \cup ToSet(q) : s.conn = c
         /\ \A s \in ToSet(steps) : Timely(s, l)'
         /\ \A s \in ToSet(q) : Timely(s, l)'
    BY <2>1
  <2> QED
    BY <1>2, <2>1, <2>3, <2>5, <2>6, <2>7, <2>8, <2>9, <2>10, <2>11, <2>12, <2>13,
       SteadyOrderly
<1> QED
  BY <1>3, <1>4, <1>5

\* A step of a connection's life that is over lets one follow it.
LEMMA LifePasses ==
  ASSUME TypeOK, NEW l \in Loops, todo[l] # <<>>,
         NEW steps \in Seq(Step), NEW m \in Loops, NEW q \in Seq(Step),
         Moves(l, Tail(todo[l]), steps, m, q),
         NEW c \in Conns, OneLife(c), Head(todo[l]) \in Life(c),
         Stuck(conn[c]) => Stuck(conn'[c]),
         OnceIn(steps, Life(c)), OnceIn(q, Life(c)),
         ~(Meets(steps, Life(c)) /\ Meets(q, Life(c)))
  PROVE  Stuck(conn'[c]) \/ OnceAnywhere(Life(c))'
<1> DEFINE S == Life(c)
           rest == Tail(todo[l])
<1>1. CASE Stuck(conn[c])
  BY <1>1
<1>2. CASE OnceAnywhere(Life(c))
  <2>1. \A x \in Loops : \A s \in Remains(l, rest, x) : s \notin S
    BY <1>2, OnceLeft
  <2>2. OnceIn(steps, S) /\ OnceIn(q, S) /\ ~(Meets(steps, S) /\ Meets(q, S))
        /\ Moves(l, rest, steps, m, q) /\ Life(c)' = S
    BY DEF Life, Do
  <2> HIDE DEF rest, S
  <2>3. OnceAnywhere(S)'
    BY <2>1, <2>2, OnceFresh
  <2> QED
    BY <2>2, <2>3 DEF S
<1> QED
  BY <1>1, <1>2 DEF OneLife

\* Of one step there is one.
LEMMA OnceInEither ==
  ASSUME NEW S, NEW x \in Step, NEW s \in {<<>>, <<x>>}
  PROVE  OnceIn(s, S) /\ s \in Seq(Step) /\ (\A y \in ToSet(s) : y = x)
<1>1. OnceIn(<<>>, S) /\ OnceIn(<<x>>, S)
  BY OnceInFew
<1>2. /\ <<>> \in Seq(Step) /\ ToSet(<<>>) = {}
      /\ <<x>> \in Seq(Step) /\ ToSet(<<x>>) = {x}
  BY None, Single
<1>3. CASE s = <<>>
  BY <1>1, <1>2, <1>3
<1>4. CASE s = <<x>>
  BY <1>1, <1>2, <1>4
<1> QED
  BY <1>3, <1>4

\* The close callback hands the connection to the base loop.
LEMMA RemoveConnectionOrderly ==
  ASSUME Lawful, Orderly, NEW l \in Loops, RemoveConnection(l)
  PROVE  Orderly'
<1> PICK c : c = Current(l)
  OBVIOUS
<1> PICK x : x = Do("removeConnectionInLoop", c)
  OBVIOUS
<1> DEFINE k == conn[c]
           remove == <<x>>
           none == <<>>
<1>1. /\ todo[l] # <<>> /\ Head(todo[l]).op = "closeCallback" /\ UNCHANGED conn
      /\ UNCHANGED <<lpc, active, batch, left, connections_>>
      /\ \/ l = BaseLoop /\ Continue(l, remove) /\ UNCHANGED functors
         \/ Queue(BaseLoop, remove) /\ Continue(l, none)
  BY DEF RemoveConnection, IsAt, serverVars
<1>2. /\ c \in Conns /\ k \in ConnType /\ TypeOK /\ BaseLoop \in Loops /\ Head(todo[l]).conn = c
      /\ Coherent(k) /\ OneLife(c) /\ Timely(Head(todo[l]), l)
  BY <1>1, AtStep, AtTimely, TcpServerAssumption DEF Lawful, Current
<1>3. conn' = [conn EXCEPT ![c] = k] /\ conn'[c] = k /\ Quiet(k, k)
  BY <1>1, <1>2, NotReplaced, QuietSteps
<1>4. x \in Step /\ x.op = "removeConnectionInLoop" /\ x.conn = c
  BY <1>2, Dos DEF DoIs
<1>5. /\ ToSet(none) = {} /\ none \in Seq(Step)
  BY None
<1>6. \E m \in Loops : \E steps, q \in {none, remove} :
        /\ Continue(l, steps) /\ Queue(m, q) /\ (steps = none \/ q = none)
        /\ steps = remove => l = BaseLoop
        /\ q = remove => m = BaseLoop
  <2>1. CASE l = BaseLoop /\ Continue(l, remove) /\ UNCHANGED functors
    <3>1. Queue(BaseLoop, none)
      BY <1>2, <2>1, NothingQueued
    <3> QED
      BY <1>2, <2>1, <3>1
  <2>2. CASE Queue(BaseLoop, remove) /\ Continue(l, none)
    <3>1. none # remove
      OBVIOUS
    <3> QED
      BY <1>2, <2>2, <3>1
  <2> QED
    BY <1>1, <2>1, <2>2
<1>7. PICK m \in Loops, steps \in {none, remove}, q \in {none, remove} :
        /\ Continue(l, steps) /\ Queue(m, q) /\ (steps = none \/ q = none)
        /\ steps = remove => l = BaseLoop
        /\ q = remove => m = BaseLoop
  BY <1>6
<1>8. /\ \A S : OnceIn(steps, S) /\ OnceIn(q, S)
      /\ steps \in Seq(Step) /\ q \in Seq(Step)
      /\ \A s \in ToSet(steps) : s = x
      /\ \A s \in ToSet(q) : s = x
  BY <1>4, OnceInEither
<1>9. ASSUME NEW n \in Loops, n = BaseLoop PROVE Timely(x, n)'
  <2>1. /\ k.state # "kConnecting" /\ "read" \notin k.channel.events
        /\ c \in connections_ \/ Stuck(k)
    BY <1>1, <1>2 DEF Timely
  <2> QED
    BY <1>1, <1>3, <1>4, <1>9, <2>1 DEF Timely, HandlerNames
<1>10. /\ \A s \in ToSet(steps) : s = x /\ l = BaseLoop
       /\ \A s \in ToSet(q) : s = x /\ m = BaseLoop
       /\ ~(Meets(steps, Life(c)) /\ Meets(q, Life(c)))
  BY <1>5, <1>7, <1>8 DEF Meets
<1> HIDE DEF remove, none
<1>11. Moves(l, Tail(todo[l]), steps, m, q)
  BY <1>1, <1>2, <1>7, <1>8, ContinueMoves
<1>12. OneLife(c)'
  <2>1. OnceAnywhere({Do("connectDestroyed", c)})'
    <3> PICK S : S = {Do("connectDestroyed", c)}
      OBVIOUS
    <3>1. x \notin S
      BY <1>4 DEF Do
    <3>2. OnceAnywhere(S) /\ \A s \in ToSet(steps) \cup ToSet(q) : s \notin S
      BY <1>2, <1>8, <3>1 DEF OneLife
    <3> DEFINE rest == Tail(todo[l])
    <3>3. Moves(l, rest, steps, m, q)
      BY <1>11
    <3> HIDE DEF rest
    <3>4. OnceAnywhere(S)'
      BY <1>2, <1>8, <3>2, <3>3, OnceStays
    <3> QED
      BY <3>4
  <2>2. Head(todo[l]) \in Life(c)
    BY <1>1, <1>2, HeadIs DEF Life
  <2>3. Stuck(conn'[c]) \/ OnceAnywhere(Life(c))'
    BY <1>1, <1>2, <1>3, <1>8, <1>10, <1>11, <2>2, LifePasses
  <2> QED
    BY <2>1, <2>3 DEF OneLife
<1>13. /\ Steady(k, k) /\ StaysLate(k, k) /\ KeepsAnchor(k, k)
  BY <1>2, <1>3, QuietIs
<1>14. \A s \in ToSet(steps) :
         s.conn = c /\ Follows(Head(todo[l]).op, s.op) /\ Timely(s, l)'
  BY <1>1, <1>4, <1>9, <1>10 DEF Follows
<1>15. \A s \in ToSet(q) : s.conn = c /\ Timely(s, m)'
  BY <1>4, <1>9, <1>10
<1> QED
  BY <1>1, <1>2, <1>3, <1>7, <1>8, <1>12, <1>13, <1>14, <1>15, CallOrderly

\* removeConnectionInLoop erases the connection and queues its connectDestroyed.
LEMMA RemoveConnectionInLoopOrderly ==
  ASSUME Lawful, Orderly, NEW l \in Loops, RemoveConnectionInLoop(l)
  PROVE  Orderly'
<1> PICK c : c = Current(l)
  OBVIOUS
<1> PICK x : x = Do("connectDestroyed", c)
  OBVIOUS
<1> DEFINE k == conn[c]
           q == <<x>>
           none == <<>>
           rest == Tail(todo[l])
<1>1. /\ todo[l] # <<>> /\ Head(todo[l]).op = "removeConnectionInLoop" /\ UNCHANGED conn
      /\ UNCHANGED <<lpc, active, batch, left>>
      /\ \/ /\ Queue(k.loop, q) /\ Continue(l, none)
            /\ c \in connections_ /\ connections_' = connections_ \ {c}
         \/ UNCHANGED <<connections_, functors, todo>>
  BY DEF RemoveConnectionInLoop, IsAt, Abort
<1>2. /\ c \in Conns /\ k \in ConnType /\ TypeOK /\ Head(todo[l]).conn = c
      /\ Coherent(k) /\ OneLife(c) /\ Anchored(c) /\ Timely(Head(todo[l]), l)
  BY <1>1, AtStep, AtTimely DEF Lawful, Current
<1>3. CASE UNCHANGED <<connections_, functors, todo>>
  BY <1>1, <1>3, SameOrderly
<1>4. CASE /\ Queue(k.loop, q) /\ Continue(l, none)
           /\ c \in connections_ /\ connections_' = connections_ \ {c}
  <2>1. conn' = [conn EXCEPT ![c] = k] /\ conn'[c] = k /\ Quiet(k, k)
    BY <1>1, <1>2, NotReplaced, QuietSteps
  <2>2. /\ x \in Step /\ x.op = "connectDestroyed" /\ x.conn = c
    BY <1>2, Dos DEF DoIs
  <2>3. PICK m \in Loops : m = k.loop
    BY <1>2 DEF ConnType
  <2>4. /\ none \in Seq(Step) /\ ToSet(none) = {} /\ q \in Seq(Step) /\ ToSet(q) = {x}
        /\ \A S : OnceIn(none, S) /\ OnceIn(q, S)
    BY <2>2, None, Single, OnceInFew
  <2>5. Queue(m, q) /\ Continue(l, none) /\ UNCHANGED left
    BY <1>1, <1>4, <2>3
  <2> HIDE DEF none, q
  <2>6. Moves(l, rest, none, m, q) /\ todo'[l] = none \o rest
    BY <1>1, <1>2, <2>4, <2>5, ContinueMoves
  <2>7. \A S : ~Meets(none, S)
    BY <2>4 DEF Meets
  <2>8. /\ k.state # "kConnecting" /\ "read" \notin k.channel.events /\ k.downs = 0
    BY <1>1, <1>2, <1>4 DEF Timely, Anchored
  <2>9. ASSUME NEW y \in Loops, NEW s \in Remains(l, rest, y)
        PROVE  s \in ToSet(Agenda(y)) /\ s \in Step /\ Timely(s, y)
    <3>1. AgendaMoved(l, rest, none, m, q, y)
      BY <1>2, <2>4, <2>6, AgendaMoves
    <3>2. s \in ToSet(Agenda(y))
      BY <2>9, <3>1 DEF AgendaMoved
    <3>3. s \in Step
      BY <1>2, <3>2, AgendaIs, WaitingIs
    <3> QED
      BY <3>2, <3>3 DEF Orderly
  <2>10. OneLife(c)'
    <3>1. OnceAnywhere({Do("connectDestroyed", c)})'
      <4> PICK S : S = {x}
        OBVIOUS
      <4>1. \A y \in Loops : \A s \in Remains(l, rest, y) : s \notin S
        BY <1>4, <2>2, <2>9 DEF Timely
      <4> HIDE DEF rest
      <4>2. OnceAnywhere(S)'
        BY <1>2, <2>4, <2>6, <2>7, <4>1, OnceFresh
      <4> QED
        BY <4>2
    <3>2. Head(todo[l]) \in Life(c)
      BY <1>1, <1>2, HeadIs DEF Life
    <3>3. Stuck(conn'[c]) \/ OnceAnywhere(Life(c))'
      BY <1>1, <1>2, <2>1, <2>4, <2>6, <2>7, <3>2, LifePasses
    <3> QED
      BY <3>1, <3>3 DEF OneLife
  <2>11. Kept(c)'
    <3>1. Moved(l, rest, none, m, q)
      BY <1>2, <2>4, <2>6, MovesIs
    <3>2. x \in ToSet(functors'[m])
      BY <2>4, <3>1 DEF Moved
    <3> QED
      BY <2>1, <2>3, <3>2 DEF Kept, DestroyPending
  <2>12. Tidy(l)'
    <3>1. \A s \in ToSet(none) : s.conn = Current(l) /\ Follows(Head(todo[l]).op, s.op)
      BY <2>4
    <3>2. UNCHANGED <<lpc, active, batch, left>> /\ OnceIn(none, Closings)
      BY <1>1, <2>4
    <3> QED
      BY <1>1, <2>4, <2>6, <3>1, <3>2, TidyContinues
  <2>13. Anchored(c)'
    <3>1. Steady(k, k) /\ StaysLate(k, k) /\ KeepsAnchor(k, k)
      BY <1>2, <2>1, QuietIs
    <3>2. rest = todo[l] \/ Head(todo[l]) # Do("removeChannel", c)
      BY <1>1 DEF Do
    <3> HIDE DEF rest
    <3>3. k.channel.registered =>
            "read" \in k.channel.events \/ Late(k) \/ Do("removeChannel", c) \in ToSet(todo'[k.loop])
      BY <1>2, <2>4, <2>6, <3>1, <3>2, AnchorStays
    <3> QED
      BY <1>4, <2>1, <2>8, <3>3 DEF Anchored
  <2>14. ASSUME NEW y \in Loops, NEW s \in Remains(l, rest, y), s.conn = c
         PROVE  Timely(s, y)'
    <3>1. s \in Step /\ Timely(s, y)
      BY <2>9, <2>14
    <3>2. s.op # "connectEstablished"
      BY <2>8, <2>14, <3>1 DEF Timely
    <3>3. s.op \in {"closeCallback", "removeConnectionInLoop"} => Stuck(k)
      <4>1. ASSUME s.op \in {"closeCallback", "removeConnectionInLoop"}, OnceAnywhere(Life(c))
            PROVE  FALSE
        <5>1. s = Do(s.op, c)
          BY <2>14, <3>1 DEF Do, Step
        <5>2. s \in Life(c)
          BY <4>1, <5>1 DEF Life
        <5>3. Head(todo[l]) \in Life(c)
          BY <1>1, <1>2, HeadIs DEF Life
        <5> QED
          BY <1>1, <1>2, <2>14, <4>1, <5>2, <5>3, OnceLeft
      <4> QED
        BY <1>2, <4>1 DEF OneLife
    <3>4. /\ IF s.op = "removeConnectionInLoop" THEN y = BaseLoop ELSE k.loop = y
          /\ s.op \in {"closeCallback", "removeConnectionInLoop"} =>
               "read" \notin k.channel.events /\ Stuck(k)
          /\ s.op = "connectDestroyed" => k.downs = 0 /\ "read" \notin k.channel.events
          /\ s.op = "shutdownInLoop" => k.state = "kDisconnected"
          /\ s.op = "removeChannel" =>
               /\ k.state = "kDisconnected" /\ k.channel.events = {}
               /\ k.channel.index = "kAdded" \/ k.outputBuffer # <<>>
          /\ s.op = "handleRead" => "read" \in k.channel.events
          /\ s.op = "handleClose" => MayClose(k)
      BY <2>14, <3>1, <3>3 DEF Timely
    <3> QED
      BY <1>4, <2>1, <2>8, <2>11, <2>14, <3>2, <3>4 DEF Timely
  <2>15. \A s \in ToSet(q) : Timely(s, m)'
    BY <1>4, <2>1, <2>2, <2>3, <2>4, <2>8 DEF Timely, HandlerNames
  <2>16. ASSUME NEW y \in Loops, NEW r \in active[y], r[1] = c PROVE TimelyReport(r)'
    <3>1. TimelyReport(r)
      BY DEF Orderly
    <3> QED
      BY <2>1, <2>11, <2>16, <3>1 DEF TimelyReport
  <2>17. /\ \A s \in ToSet(none) \cup ToSet(q) : s.conn = c
         /\ \A s \in ToSet(none) : Timely(s, l)'
         /\ \A d \in Conns : d # c => (d \in connections_' <=> d \in connections_)
         /\ UNCHANGED <<lpc, active, batch>>
    BY <1>1, <1>4, <2>2, <2>4
  <2> HIDE DEF rest
  <2> QED
    BY <1>2, <2>1, <2>4, <2>6, <2>10, <2>12, <2>13, <2>14, <2>15, <2>16, <2>17, OneOrderly
<1> QED
  BY <1>1, <1>3, <1>4

\* What waits after a step is over came at its time.
LEMMA RemainsTimely ==
  ASSUME Lawful, Orderly, NEW l \in Loops, todo[l] # <<>>,
         NEW x \in Loops, NEW s \in Remains(l, Tail(todo[l]), x)
  PROVE  s \in ToSet(Agenda(x)) /\ s \in Step /\ Timely(s, x)
<1>1. TypeOK
  BY DEF Lawful
<1>2. ToSet(Tail(todo[l])) \subseteq ToSet(todo[l])
  BY <1>1, HeadIs
<1>3. s \in ToSet(Agenda(x))
  BY <1>1, <1>2, AgendaIs DEF Remains
<1>4. s \in Step
  BY <1>1, <1>3, AgendaIs, WaitingIs
<1> QED
  BY <1>3, <1>4 DEF Orderly

\* connectEstablished is the only step of a connection in kConnecting.
LEMMA ConnectEstablishedOrderly ==
  ASSUME Lawful, Orderly, NEW l \in Loops, ConnectEstablished(l), UNCHANGED serverVars
  PROVE  Orderly'
<1> PICK c : c = Current(l)
  OBVIOUS
<1> PICK x : x = Do("callback", c)
  OBVIOUS
<1> DEFINE k == conn[c]
           k2 == Established(k)
           steps == <<x>>
           q == <<>>
           rest == Tail(todo[l])
<1>1. /\ todo[l] # <<>> /\ UNCHANGED Rest /\ UNCHANGED functors
      /\ Head(todo[l]).op = "connectEstablished"
      /\ \/ conn' = [conn EXCEPT ![c] = k2] /\ Continue(l, steps)
         \/ UNCHANGED <<conn, todo>>
  BY DEF ConnectEstablished, IsAt, serverVars, Rest, Established
<1>2. /\ c \in Conns /\ k \in ConnType /\ Sound(k) /\ k.made /\ TypeOK
      /\ Head(todo[l]).conn = c /\ conn \in [Conns -> ConnType]
      /\ Coherent(k) /\ OneLife(c) /\ Anchored(c) /\ Timely(Head(todo[l]), l)
  BY <1>1, AtStep, AtTimely DEF Lawful, Current, TypeOK, ConnTypeOK
<1>3. CASE UNCHANGED <<conn, todo>>
  <2>1. UNCHANGED <<conn, lpc, active, todo, functors, batch, left, connections_>>
    BY <1>1, <1>3 DEF Rest
  <2> QED
    BY <2>1, SameOrderly
<1>4. CASE conn' = [conn EXCEPT ![c] = k2] /\ Continue(l, steps)
  <2>1. k.state = "kConnecting" /\ k.loop = l /\ c \in connections_
    BY <1>1, <1>2 DEF Timely
  <2>2. x \in Step /\ x.op = "callback" /\ x.conn = c
    BY <1>2, Dos DEF DoIs
  <2>3. /\ Queue(l, q) /\ q \in Seq(Step) /\ ToSet(q) = {}
        /\ steps \in Seq(Step) /\ ToSet(steps) = {x} /\ OnceIn(steps, Closings)
    BY <1>1, <1>2, <2>2, NothingQueued, Single, OnceInFew
  <2>4. k2 \in ConnType /\ Evolved(k, k2) /\ Sound(k2)
    BY <1>2, <2>1, EstablishedIs
  <2>5. k2.state = "kConnected" /\ k2.downs = k.downs /\ k2.shutWr = k.shutWr
        /\ k2.loop = k.loop /\ k2.channel = enableReading(k.channel)
    <3>1. k2 = [k EXCEPT !.state = "kConnected", !.channel = enableReading(k.channel)]
      BY DEF Established
    <3> QED
      BY <1>2, <3>1 DEF ConnType
  <2>6. k2.channel.events = {"read"} /\ k2.channel.registered
    <3>1. k.channel \in ChannelType /\ EpollAgrees(k.channel) /\ k.channel.events = {}
      BY <1>2, <2>1 DEF ConnType, Sound, NewChannel
    <3>2. enableReading(k.channel).events = {"read"} /\ enableReading(k.channel).registered
      BY <3>1, ChannelIs, RegistersIs
    <3> QED
      BY <2>5, <3>2
  <2>7. conn' = [conn EXCEPT ![c] = k2] /\ Continue(l, steps) /\ conn'[c] = k2
    BY <1>2, <1>4
  <2> HIDE DEF k2, steps, q
  <2>8. UNCHANGED left /\ UNCHANGED <<lpc, active, batch, left>> /\ UNCHANGED <<lpc, active, batch>>
        /\ connections_' = connections_
    BY <1>1 DEF Rest
  <2>9. Moves(l, rest, steps, l, q) /\ todo'[l] = steps \o rest
    BY <1>1, <1>2, <2>3, <2>7, <2>8, ContinueMoves
  <2>10. ~Stuck(k) /\ OnceAnywhere(Life(c))
    <3>1. k.outputBuffer = <<>>
      BY <1>2, <2>1 DEF Sound
    <3>2. ~Stuck(k)
      BY <3>1 DEF Stuck, Late
    <3> QED
      BY <1>2, <3>2 DEF OneLife
  <2>11. Coherent(k2)
    BY <1>2, <2>1, <2>5, <2>6 DEF Coherent
  <2>12. Anchored(c)'
    BY <1>2, <2>1, <2>4, <2>5, <2>6, <2>7, <2>8 DEF Anchored, Evolved, Grown
  <2>13. OneLife(c)'
    <3>1. \A s \in ToSet(steps) \cup ToSet(q) : s \notin Life(c)
      BY <2>2, <2>3 DEF Life, Do
    <3>2. Stuck(conn[c]) => Stuck(conn'[c])
      BY <2>10
    <3> HIDE DEF rest
    <3> QED
      BY <1>2, <2>3, <2>9, <3>1, <3>2, OneLifeStays
  <2>14. Tidy(l)'
    <3>1. \A s \in ToSet(steps) : s.conn = Current(l) /\ Follows(Head(todo[l]).op, s.op)
      BY <2>2, <2>3 DEF Follows
    <3> QED
      BY <1>1, <2>3, <2>8, <2>9, <3>1, TidyContinues
  <2>15. ASSUME NEW y \in Loops, NEW s \in Remains(l, rest, y), s.conn = c PROVE FALSE
    <3>1. s \in Step /\ Timely(s, y)
      BY <1>1, <2>15, RemainsTimely
    <3>2. s.op = "connectEstablished"
      BY <2>1, <2>15, <3>1 DEF Timely
    <3>3. s = Do("connectEstablished", c) /\ Head(todo[l]) = Do("connectEstablished", c)
      BY <1>1, <1>2, <2>15, <3>1, <3>2, HeadIs DEF Do, Step
    <3>4. s \in Life(c) /\ Head(todo[l]) \in Life(c)
      BY <3>3 DEF Life
    <3> QED
      BY <1>1, <1>2, <2>10, <2>15, <3>4, OnceLeft
  <2>16. \A s \in ToSet(steps) : Timely(s, l)'
    BY <2>1, <2>2, <2>3, <2>5, <2>7 DEF Timely, HandlerNames
  <2>17. ASSUME NEW y \in Loops, NEW r \in active[y], r[1] = c PROVE TimelyReport(r)'
    <3>1. TimelyReport(r)
      BY DEF Orderly
    <3> QED
      BY <2>1, <2>17, <3>1 DEF TimelyReport
  <2>18. /\ \A s \in ToSet(steps) \cup ToSet(q) : s.conn = c
         /\ \A s \in ToSet(q) : Timely(s, l)'
         /\ \A d \in Conns : d # c => (d \in connections_' <=> d \in connections_)
         /\ \A y \in Loops : \A s \in Remains(l, rest, y) : s.conn = c => Timely(s, y)'
    BY <2>2, <2>3, <2>8, <2>15
  <2> HIDE DEF rest
  <2> QED
    BY <1>2, <2>3, <2>4, <2>7, <2>8, <2>9, <2>11, <2>12, <2>13, <2>14, <2>16, <2>17, <2>18,
       OneOrderly
<1> QED
  BY <1>1, <1>3, <1>4

\* connectDestroyed: disconnected, disabled, and removeChannel is next.
LEMMA ConnectDestroyedOrderly ==
  ASSUME Lawful, Orderly, NEW l \in Loops, ConnectDestroyed(l), UNCHANGED serverVars
  PROVE  Orderly'
<1> PICK c : c = Current(l)
  OBVIOUS
<1> PICK x, y : x = Do("callback", c) /\ y = Do("removeChannel", c)
  OBVIOUS
<1> DEFINE k == conn[c]
           k2 == Ended(k)
           steps == <<x, y>>
           q == <<>>
           rest == Tail(todo[l])
<1>1. /\ todo[l] # <<>> /\ UNCHANGED Rest /\ UNCHANGED functors
      /\ Head(todo[l]).op = "connectDestroyed"
      /\ \/ conn' = [conn EXCEPT ![c] = k2] /\ Continue(l, steps) /\ k.state = "kConnected"
         \/ UNCHANGED <<conn, todo>>
  BY DEF ConnectDestroyed, IsAt, serverVars, Rest, Ended
<1>2. /\ c \in Conns /\ k \in ConnType /\ Sound(k) /\ k.made /\ TypeOK /\ k.peer # "open"
      /\ Head(todo[l]).conn = c /\ conn \in [Conns -> ConnType]
      /\ Coherent(k) /\ OneLife(c) /\ Anchored(c) /\ Timely(Head(todo[l]), l)
  BY <1>1, AtStep, AtTimely DEF Lawful, Current, TypeOK, ConnTypeOK, JustifiedBy
<1>3. CASE UNCHANGED <<conn, todo>>
  <2>1. UNCHANGED <<conn, lpc, active, todo, functors, batch, left, connections_>>
    BY <1>1, <1>3 DEF Rest
  <2> QED
    BY <2>1, SameOrderly
<1>4. CASE conn' = [conn EXCEPT ![c] = k2] /\ Continue(l, steps) /\ k.state = "kConnected"
  <2>1. k.loop = l /\ c \notin connections_ /\ k.downs = 0 /\ "read" \notin k.channel.events
    BY <1>1, <1>2 DEF Timely
  <2>2. /\ x \in Step /\ x.op = "callback" /\ x.conn = c
        /\ y \in Step /\ y.op = "removeChannel" /\ y.conn = c
    BY <1>2, Dos DEF DoIs
  <2>3. /\ Queue(l, q) /\ q \in Seq(Step) /\ ToSet(q) = {}
        /\ steps \in Seq(Step) /\ ToSet(steps) = {x, y}
    BY <1>1, <1>2, <2>2, NothingQueued, Pair
  <2>4. Len(steps) = 2 /\ DOMAIN steps = {1, 2} /\ steps[1] = x /\ steps[2] = y
    OBVIOUS
  <2>5. /\ k2 \in ConnType /\ Sound(k2) /\ k2.state = "kDisconnected" /\ k2.channel.events = {}
        /\ k2.loop = k.loop /\ k2.made /\ k2.shutWr = k.shutWr
    BY <1>2, <1>4, ClosedIs
  <2>6. /\ k2.outputBuffer = k.outputBuffer /\ k2.peer = k.peer
        /\ k2.channel = disableAll(k.channel)
    <3> DEFINE n == k.downs + 1
    <3>1. k2 = [k EXCEPT !.state = "kDisconnected", !.channel = disableAll(k.channel), !.downs = n]
      BY DEF Ended
    <3> HIDE DEF n, k2
    <3> QED
      BY <1>2, <3>1 DEF ConnType
  <2>7. conn' = [conn EXCEPT ![c] = k2] /\ Continue(l, steps) /\ conn'[c] = k2
    BY <1>2, <1>4
  <2>8. rest = <<>>
    BY <1>1, LastOfAll DEF LastSteps
  <2> HIDE DEF k2, steps, q
  <2>9. UNCHANGED left /\ UNCHANGED <<lpc, active, batch, left>> /\ UNCHANGED <<lpc, active, batch>>
        /\ connections_' = connections_
    BY <1>1 DEF Rest
  <2>10. Moves(l, rest, steps, l, q) /\ todo'[l] = steps \o rest
    BY <1>1, <1>2, <2>3, <2>7, <2>9, ContinueMoves
  <2>11. todo'[l] = steps
    <3>1. todo'[l] = steps \o <<>>
      BY <2>8, <2>10
    <3>2. steps \o <<>> = steps
      BY <2>3
    <3> QED
      BY <3>1, <3>2
  <2>12. Coherent(k2)
    BY <2>5 DEF Coherent
  <2>13. Anchored(c)'
    BY <2>1, <2>2, <2>3, <2>5, <2>7, <2>9, <2>11 DEF Anchored
  <2>14. Stuck(k) => Stuck(k2)
    BY <2>5, <2>6 DEF Stuck, Late
  <2>15. OneLife(c)'
    <3>1. \A s \in ToSet(steps) \cup ToSet(q) : s \notin Life(c)
      BY <2>2, <2>3 DEF Life, Do
    <3>2. Stuck(conn[c]) => Stuck(conn'[c])
      BY <2>7, <2>14
    <3> HIDE DEF rest
    <3> QED
      BY <1>2, <2>3, <2>10, <3>1, <3>2, OneLifeStays
  <2>16. Tidy(l)'
    <3>1. Tidy(l) /\ Head(todo[l]) \in ToSet(todo[l])
      BY <1>1, <1>2, HeadIs DEF Orderly
    <3>2. /\ lpc[l] = "functors" /\ Do("connectDestroyed", c) \in ToSet(batch[l])
          /\ active[l] = {} /\ ToSet(left[l]) \subseteq ToSet(batch[l])
      <4>1. lpc[l] = "functors" /\ Do("connectDestroyed", c) \in ToSet(batch[l])
        BY <1>1, <1>2, <3>1 DEF Tidy
      <4>2. (lpc[l] # "dispatch" => active[l] = {}) /\ ToSet(left[l]) \subseteq ToSet(batch[l])
        BY <3>1 DEF Tidy
      <4> QED
        BY <4>1, <4>2
    <3>3. OnceIn(steps, Closings)
      BY <2>2, <2>4 DEF OnceIn, Closings, Do
    <3>4. \A i \in DOMAIN steps : steps[i].op \in LastSteps => i = Len(steps)
      BY <2>2, <2>4 DEF LastSteps
    <3>5. /\ lpc'[l] = lpc[l] /\ active'[l] = active[l] /\ batch'[l] = batch[l] /\ left'[l] = left[l]
      BY <2>9
    <3>6. ASSUME NEW s \in ToSet(todo'[l])
          PROVE  /\ s.op \in {"connectDestroyed", "removeChannel"} =>
                      lpc'[l] = "functors" /\ Do("connectDestroyed", s.conn) \in ToSet(batch'[l])
                 /\ s.op \in HandlerNames => lpc'[l] = "dispatch"
                 /\ s.op = "removeChannel" =>
                      \A t \in ToSet(todo'[l]) : t.op \in {"callback", "removeChannel"}
                 /\ \A r \in active'[l] : r[1] # s.conn
      BY <2>2, <2>3, <2>11, <3>2, <3>5, <3>6 DEF HandlerNames
    <3> QED
      BY <2>11, <3>2, <3>3, <3>4, <3>5, <3>6 DEF Tidy, LastSteps, Closings
  <2>17. ASSUME NEW z \in Loops, NEW s \in Remains(l, rest, z), s.conn = c PROVE Timely(s, z)'
    <3>1. s \in Step /\ Timely(s, z)
      BY <1>1, <2>17, RemainsTimely
    <3>2. s.op \notin HandlerNames \cup {"removeChannel"}
      <4>1. s \notin ToSet(rest)
        BY <2>8, None
      <4> QED
        BY <1>1, <2>17, <4>1, OnlyHere
    <3>3. s.op # "connectDestroyed"
      <4>1. ASSUME s.op = "connectDestroyed" PROVE FALSE
        <5> PICK S : S = {Do("connectDestroyed", c)}
          OBVIOUS
        <5>1. OnceAnywhere(S) /\ s \in S /\ Head(todo[l]) \in S
          BY <1>1, <1>2, <2>17, <3>1, <4>1, HeadIs DEF OneLife, Do, Step
        <5> QED
          BY <1>1, <1>2, <2>17, <5>1, OnceLeft
      <4> QED
        BY <4>1
    <3>4. /\ s.op # "connectEstablished" /\ k2.state # "kConnecting"
          /\ IF s.op = "removeConnectionInLoop" THEN z = BaseLoop ELSE k2.loop = z
          /\ s.op \in {"closeCallback", "removeConnectionInLoop"} =>
               "read" \notin k2.channel.events /\ (c \in connections_ \/ Stuck(k2))
      BY <1>4, <2>1, <2>5, <2>14, <2>17, <3>1 DEF Timely
    <3> QED
      BY <2>5, <2>7, <2>9, <2>17, <3>2, <3>3, <3>4 DEF Timely, HandlerNames
  <2>18. k2.channel.index = "kAdded" \/ k2.outputBuffer # <<>>
    <3>1. k.channel \in ChannelType /\ EpollAgrees(k.channel) /\ EpollAgrees(k2.channel)
      BY <1>2, <2>5 DEF ConnType, Sound
    <3>2. k2.channel.registered <=> ~k.channel.registered
      BY <2>6, <3>1, RegistersIs
    <3>3. CASE k2.channel.registered
      BY <3>1, <3>3 DEF EpollAgrees
    <3>4. CASE k.channel.registered
      <4>1. Late(k) \/ y \in ToSet(todo[l])
        BY <1>2, <2>1, <3>4 DEF Anchored
      <4>2. y \notin ToSet(todo[l])
        <5>1. y \in ToSet(Agenda(l)) => k.state = "kDisconnected"
          BY <2>2 DEF Orderly, Timely
        <5> QED
          BY <1>2, <1>4, <5>1, AgendaIs
      <4> QED
        BY <2>6, <4>1, <4>2 DEF Late
    <3> QED
      BY <3>2, <3>3, <3>4
  <2>19. \A s \in ToSet(steps) : Timely(s, l)'
    <3>1. Timely(x, l)'
      BY <2>1, <2>2, <2>5, <2>7 DEF Timely, HandlerNames
    <3>2. Timely(y, l)'
      BY <2>1, <2>2, <2>5, <2>7, <2>18 DEF Timely, HandlerNames
    <3> QED
      BY <2>3, <3>1, <3>2
  <2>20. \A z \in Loops : \A r \in active[z] : r[1] # c
    BY <1>1, NoReports
  <2>21. /\ \A s \in ToSet(steps) \cup ToSet(q) : s.conn = c
         /\ \A s \in ToSet(q) : Timely(s, l)'
         /\ \A d \in Conns : d # c => (d \in connections_' <=> d \in connections_)
         /\ \A z \in Loops : \A r \in active[z] : r[1] = c => TimelyReport(r)'
    BY <2>2, <2>3, <2>9, <2>20
  <2> HIDE DEF rest
  <2> QED
    BY <1>2, <2>3, <2>5, <2>7, <2>9, <2>10, <2>12, <2>13, <2>15, <2>16, <2>17, <2>19, <2>21,
       OneOrderly
<1> QED
  BY <1>1, <1>3, <1>4

\* disableAll by handleClose, of a connection that may be closed.
LEMMA ClosesIs ==
  ASSUME NEW k \in ConnType, Sound(k), Coherent(k), MayClose(k), k.state = "kConnected",
         k.peer # "open"
  PROVE  /\ Coherent(Closed(k)) /\ Closed(k).channel.events = {}
         /\ Closed(k).loop = k.loop /\ Closed(k).state = k.state /\ Closed(k).made = k.made
         /\ Closed(k).downs = k.downs
         /\ Late(k) => Late(Closed(k))
         /\ Stuck(k) => Stuck(Closed(k))
         /\ "read" \in k.channel.events \/ Stuck(k)
         /\ Closed(k).channel.registered => Stuck(k)
<1> DEFINE k2 == Closed(k)
<1>1. /\ k.channel \in ChannelType /\ EpollAgrees(k.channel)
  BY DEF ConnType, Sound
<1>2. /\ k2.channel = disableAll(k.channel) /\ k2.loop = k.loop /\ k2.state = k.state
      /\ k2.made = k.made /\ k2.downs = k.downs /\ k2.outputBuffer = k.outputBuffer
      /\ k2.peer = k.peer /\ k2.shutWr = k.shutWr
  <2>1. k2 = [k EXCEPT !.channel = disableAll(k.channel)]
    BY DEF Closed
  <2> HIDE DEF k2
  <2> QED
    BY <2>1 DEF ConnType
<1>3. disableAll(k.channel).events = {} /\ (disableAll(k.channel).registered <=> ~k.channel.registered)
  BY <1>1, ChannelIs, RegistersIs
<1>4. k2.channel.events = {} /\ (k2.channel.registered <=> ~k.channel.registered)
  BY <1>2, <1>3
<1> HIDE DEF k2
<1>5. Coherent(k2)
  BY <1>2, <1>4 DEF Coherent
<1>6. (Late(k) => Late(k2)) /\ (Stuck(k) => Stuck(k2))
  BY <1>2, <1>4 DEF Late, Stuck
<1>7. "read" \in k.channel.events \/ Stuck(k)
  BY DEF MayClose, Stuck
<1>8. k2.channel.registered => Stuck(k)
  BY <1>4, <1>7 DEF Coherent
<1> QED
  BY <1>2, <1>4, <1>5, <1>6, <1>7, <1>8 DEF k2

\* handleClose disables the channel; the close callback follows once.
LEMMA HandleCloseOrderly ==
  ASSUME Lawful, Orderly, NEW l \in Loops, HandleClose(l), UNCHANGED serverVars
  PROVE  Orderly'
<1> PICK c : c = Current(l)
  OBVIOUS
<1> PICK x : x = Do("closeCallback", c)
  OBVIOUS
<1> DEFINE k == conn[c]
           k2 == Closed(k)
           steps == <<x>>
           q == <<>>
           rest == Tail(todo[l])
<1>1. /\ todo[l] # <<>> /\ UNCHANGED Rest /\ UNCHANGED functors
      /\ Head(todo[l]).op = "handleClose"
      /\ \/ conn' = [conn EXCEPT ![c] = k2] /\ Continue(l, steps) /\ k.state = "kConnected"
         \/ UNCHANGED <<conn, todo>>
  BY DEF HandleClose, IsAt, serverVars, Rest, Closed
<1>2. /\ c \in Conns /\ k \in ConnType /\ Sound(k) /\ TypeOK /\ k.peer # "open"
      /\ Head(todo[l]).conn = c /\ conn \in [Conns -> ConnType]
      /\ Coherent(k) /\ OneLife(c) /\ Anchored(c) /\ Timely(Head(todo[l]), l)
  BY <1>1, AtStep, AtTimely DEF Lawful, Current, TypeOK, ConnTypeOK, JustifiedBy
<1>3. CASE UNCHANGED <<conn, todo>>
  <2>1. UNCHANGED <<conn, lpc, active, todo, functors, batch, left, connections_>>
    BY <1>1, <1>3 DEF Rest
  <2> QED
    BY <2>1, SameOrderly
<1>4. CASE conn' = [conn EXCEPT ![c] = k2] /\ Continue(l, steps) /\ k.state = "kConnected"
  <2>1. k.loop = l /\ MayClose(k)
    BY <1>1, <1>2 DEF Timely
  <2>2. x \in Step /\ x.op = "closeCallback" /\ x.conn = c
    BY <1>2, Dos DEF DoIs
  <2>3. /\ Queue(l, q) /\ q \in Seq(Step) /\ ToSet(q) = {}
        /\ steps \in Seq(Step) /\ ToSet(steps) = {x} /\ \A S : OnceIn(steps, S) /\ OnceIn(q, S)
    <3>1. \A S : OnceIn(steps, S) /\ OnceIn(q, S)
      BY <2>2, OnceInFew
    <3> QED
      BY <1>1, <1>2, <2>2, <3>1, NothingQueued, Single
  <2>4. k2 \in ConnType
    BY <1>2, <1>4, ClosedIs
  <2>5. /\ Coherent(k2) /\ k2.channel.events = {}
        /\ k2.loop = k.loop /\ k2.state = k.state /\ k2.made = k.made /\ k2.downs = k.downs
        /\ Late(k) => Late(k2)
        /\ Stuck(k) => Stuck(k2)
        /\ "read" \in k.channel.events \/ Stuck(k)
        /\ k2.channel.registered => Stuck(k)
    BY <1>2, <1>4, <2>1, ClosesIs
  <2>6. conn' = [conn EXCEPT ![c] = k2] /\ Continue(l, steps) /\ conn'[c] = k2
    BY <1>2, <1>4
  <2> HIDE DEF k2, steps, q
  <2>7. UNCHANGED <<left, connections_>> /\ UNCHANGED <<lpc, active, batch, left>>
        /\ UNCHANGED <<lpc, active, batch>> /\ connections_' = connections_ /\ UNCHANGED left
    BY <1>1 DEF Rest
  <2>8. Moves(l, rest, steps, l, q) /\ todo'[l] = steps \o rest
    BY <1>1, <1>2, <2>3, <2>6, <2>7, ContinueMoves
  <2>9. c \in connections_ \/ Stuck(k)
    BY <1>2, <2>5 DEF Anchored
  <2>10. Anchored(c)'
    <3>1. k2.channel.registered => Late(k2)
      BY <2>5 DEF Stuck
    <3> QED
      BY <1>2, <2>5, <2>6, <2>7, <3>1 DEF Anchored
  <2>11. ASSUME NEW y \in Loops, NEW s \in Remains(l, rest, y)
         PROVE  s \in ToSet(Agenda(y)) /\ s \in Step /\ Timely(s, y)
    BY <1>1, <2>11, RemainsTimely
  <2>12. OneLife(c)'
    <3>1. OnceAnywhere({Do("connectDestroyed", c)})'
      <4> PICK S : S = {Do("connectDestroyed", c)}
        OBVIOUS
      <4>1. OnceAnywhere(S) /\ \A s \in ToSet(steps) \cup ToSet(q) : s \notin S
        BY <1>2, <2>2, <2>3 DEF OneLife, Do
      <4> HIDE DEF rest
      <4>2. OnceAnywhere(S)'
        BY <1>2, <2>3, <2>8, <4>1, OnceStays
      <4> QED
        BY <4>2
    <3>2. Stuck(conn'[c]) \/ OnceAnywhere(Life(c))'
      <4>1. CASE Stuck(k)
        BY <2>5, <2>6, <4>1
      <4>2. CASE "read" \in k.channel.events
        <5> PICK S : S = Life(c)
          OBVIOUS
        <5>1. ASSUME NEW y \in Loops, NEW s \in Remains(l, rest, y) PROVE s \notin S
          <6>1. Timely(s, y)
            BY <2>11, <5>1
          <6> QED
            BY <1>4, <4>2, <6>1 DEF Timely, Life, Do
        <5>2. OnceIn(steps, S) /\ OnceIn(q, S) /\ ~(Meets(steps, S) /\ Meets(q, S))
          BY <2>3 DEF Meets
        <5> HIDE DEF rest
        <5>3. OnceAnywhere(S)'
          BY <1>2, <2>3, <2>8, <5>1, <5>2, OnceFresh
        <5>4. Life(c)' = S
          BY DEF Life
        <5> QED
          BY <5>3, <5>4
      <4> QED
        BY <2>5, <4>1, <4>2
    <3> QED
      BY <3>1, <3>2 DEF OneLife
  <2>13. Tidy(l)'
    <3>1. \A s \in ToSet(steps) : s.conn = Current(l) /\ Follows(Head(todo[l]).op, s.op)
      BY <1>1, <2>2, <2>3 DEF Follows
    <3>2. OnceIn(steps, Closings)
      BY <2>3
    <3> QED
      BY <1>1, <2>3, <2>7, <2>8, <3>1, <3>2, TidyContinues
  <2>14. ASSUME NEW y \in Loops, NEW s \in Remains(l, rest, y), s.conn = c
         PROVE  Timely(s, y)'
    <3>1. s \in Step /\ Timely(s, y)
      BY <2>11, <2>14
    <3>2. s.op \notin {"handleRead", "handleClose"}
      <4>1. ASSUME s.op \in {"handleRead", "handleClose"} PROVE FALSE
        <5>1. s \in ToSet(Tail(todo[l]))
          BY <1>1, <2>14, <4>1, OnlyHere DEF HandlerNames
        <5>2. s = Do(s.op, c) /\ Head(todo[l]) = Do("handleClose", c)
          BY <1>1, <1>2, <2>14, <3>1, HeadIs DEF Do, Step
        <5>3. s \in Closings /\ Head(todo[l]) \in Closings
          BY <1>2, <4>1, <5>2 DEF Closings
        <5>4. OnceIn(todo[l], Closings) /\ todo[l] \in Seq(Step)
          <6>1. Tidy(l) /\ todo[l] \in Seq(Step)
            BY <1>1, <1>2, HeadIs DEF Orderly
          <6> QED
            BY <6>1 DEF Tidy, Closings
        <5> QED
          BY <1>1, <5>1, <5>3, <5>4, OnceTaken
      <4> QED
        BY <4>1
    <3>3. s.op # "removeChannel"
      <4>1. Do("removeChannel", c) \notin ToSet(todo[y]) \cup ToSet(left[y]) \cup ToSet(functors[y])
        BY <1>1, NoRemoval
      <4>2. s.op = "removeChannel" => s = Do("removeChannel", c)
        BY <2>14, <3>1 DEF Do, Step
      <4>3. s \in ToSet(todo[y]) \cup ToSet(left[y]) \cup ToSet(functors[y])
        BY <1>2, <2>11, <2>14, AgendaIs
      <4> QED
        BY <4>1, <4>2, <4>3
    <3>4. Kept(c) => Kept(c)'
      <4>1. conn'[c].loop = conn[c].loop /\ Head(todo[l]).op # "connectDestroyed"
        BY <1>1, <2>5, <2>6
      <4> QED
        BY <1>1, <1>2, <2>3, <2>6, <2>7, <4>1, KeptGoesOn
    <3>5. /\ IF s.op = "removeConnectionInLoop" THEN y = BaseLoop ELSE k2.loop = y
          /\ s.op # "connectEstablished" /\ k2.state # "kConnecting"
          /\ s.op \in {"closeCallback", "removeConnectionInLoop"} =>
               (c \in connections_ \/ Stuck(k2))
          /\ s.op = "connectDestroyed" => c \notin connections_ /\ k2.downs = 0
          /\ s.op = "shutdownInLoop" => k2.state = "kDisconnected"
          /\ s.op \in HandlerNames => Kept(c) \/ Late(k)
          /\ "read" \notin k2.channel.events
      BY <1>4, <2>5, <2>14, <3>1 DEF Timely
    <3>6. s.op \in HandlerNames => Kept(c)' \/ Late(k2)
      BY <2>5, <3>4, <3>5
    <3> QED
      BY <2>6, <2>7, <2>14, <3>2, <3>3, <3>5, <3>6 DEF Timely
  <2>15. \A s \in ToSet(steps) : Timely(s, l)'
    BY <1>4, <2>1, <2>2, <2>3, <2>5, <2>6, <2>7, <2>9 DEF Timely, HandlerNames
  <2>16. \A y \in Loops : \A r \in active[y] : r[1] # c
    BY <1>1, NoReports
  <2>17. /\ \A s \in ToSet(steps) \cup ToSet(q) : s.conn = c
         /\ \A s \in ToSet(q) : Timely(s, l)'
         /\ \A d \in Conns : d # c => (d \in connections_' <=> d \in connections_)
         /\ \A y \in Loops : \A r \in active[y] : r[1] = c => TimelyReport(r)'
    BY <2>2, <2>3, <2>7, <2>16
  <2> HIDE DEF rest
  <2> QED
    BY <1>2, <2>3, <2>4, <2>5, <2>6, <2>7, <2>8, <2>10, <2>12, <2>13, <2>14, <2>15, <2>17,
       OneOrderly
<1> QED
  BY <1>1, <1>3, <1>4

\* A new connection: nothing of it waits before, and connectEstablished after.
LEMMA NewConnectionOrderly ==
  ASSUME Lawful, Orderly, NEW c \in Conns, NewConnection(c)
  PROVE  Orderly'
<1> PICK x : x = Do("connectEstablished", c)
  OBVIOUS
<1> PICK l \in Loops : l = getNextLoop
  BY LoopChosen DEF Lawful
<1> DEFINE k == conn[c]
           k2 == [k EXCEPT !.made = TRUE, !.loop = l]
           q == <<x>>
           none == <<>>
           rest == todo[l]
<1>1. /\ TypeOK /\ ~k.made /\ todo[BaseLoop] = <<>>
      /\ conn' = [conn EXCEPT ![c] = k2]
      /\ connections_' = connections_ \cup {c}
      /\ \/ l = BaseLoop /\ todo' = [todo EXCEPT ![l] = q] /\ UNCHANGED functors
         \/ Queue(l, q) /\ UNCHANGED todo
      /\ UNCHANGED <<lpc, active, batch, left>>
  BY DEF NewConnection, Idle, Lawful
<1>2. l \in Loops /\ todo \in [Loops -> Seq(Step)]
  BY <1>1 DEF TypeOK, ConnTypeOK
<1>3. k \in ConnType /\ Sound(k) /\ Coherent(k)
  BY <1>1 DEF Lawful, Orderly, TypeOK, ConnTypeOK
<1>4. /\ k2 \in ConnType /\ k2.made /\ k2.loop = l /\ k2.state = k.state
      /\ k2.channel = k.channel /\ k2.outputBuffer = k.outputBuffer
      /\ k2.shutWr = k.shutWr /\ k2.downs = k.downs
  BY <1>2, <1>3 DEF ConnType
<1>5. /\ k.state = "kConnecting" /\ k.downs = 0
      /\ k.channel.events = {} /\ ~k.channel.registered
  BY <1>1, <1>3 DEF Sound, Coherent, NewChannel
<1>6. x \in Step /\ x.op = "connectEstablished" /\ x.conn = c
  BY Dos DEF DoIs
<1>7. /\ q \in Seq(Step) /\ ToSet(q) = {x} /\ none \in Seq(Step) /\ ToSet(none) = {}
      /\ \A S : OnceIn(q, S) /\ OnceIn(none, S)
  <2>1. \A S : OnceIn(q, S) /\ OnceIn(none, S)
    BY <1>6, OnceInFew
  <2> QED
    BY <1>6, <2>1, Single, None
<1>8. conn'[c] = k2
  BY <1>1 DEF TypeOK, ConnTypeOK
<1>9. PICK steps, f : /\ Moves(l, rest, steps, l, f)
                      /\ \/ l = BaseLoop /\ todo'[l] = q /\ steps = q /\ f = none
                         \/ todo'[l] = todo[l] /\ steps = none /\ f = q
  <2>1. CASE l = BaseLoop /\ todo' = [todo EXCEPT ![l] = q] /\ UNCHANGED functors
    <3>1. rest = <<>>
      BY <1>1, <2>1
    <3>2. q \o rest = q
      BY <3>1
    <3>3. Queue(l, none)
      BY <1>1, <2>1, NothingQueued
    <3> HIDE DEF q, none
    <3>4. Moves(l, rest, q, l, none)
      BY <1>1, <2>1, <3>2, <3>3 DEF Moves, Leaves, Queue
    <3>5. todo'[l] = q
      BY <1>2, <2>1
    <3> QED
      BY <2>1, <3>4, <3>5
  <2>2. CASE Queue(l, q) /\ UNCHANGED todo
    <3> HIDE DEF q
    <3>1. Moves(l, rest, none, l, q)
      BY <1>1, <1>2, <1>7, <2>2, StayMoves
    <3> QED
      BY <2>2, <3>1
  <2> QED
    BY <1>1, <2>1, <2>2
<1> HIDE DEF k2, q, none
<1>10. /\ steps \in Seq(Step) /\ f \in Seq(Step)
       /\ \A s \in ToSet(steps) \cup ToSet(f) : s = x
       /\ \A S : OnceIn(steps, S) /\ OnceIn(f, S) /\ ~(Meets(steps, S) /\ Meets(f, S))
  BY <1>7, <1>9 DEF Meets
<1>11. ASSUME NEW y \in Loops, NEW s \in Remains(l, rest, y) PROVE s.conn # c
  <2>1. s \in ToSet(todo[y]) \cup ToSet(functors[y]) \cup ToSet(left[y])
    BY <1>11 DEF Remains
  <2> QED
    BY <1>1, <2>1, WaitingIs
<1>12. ASSUME NEW y \in Loops, NEW r \in active[y] PROVE r[1] # c
  BY <1>1, <1>12 DEF Lawful, LoopSound, Founded
<1>13. Coherent(k2)
  BY <1>3, <1>4 DEF Coherent
<1>14. Anchored(c)'
  BY <1>1, <1>4, <1>5, <1>8 DEF Anchored
<1>15. ASSUME NEW S, \A s \in S : s.conn = c PROVE OnceAnywhere(S)'
  <2>1. \A y \in Loops : \A s \in Remains(l, rest, y) : s \notin S
    BY <1>11, <1>15
  <2> HIDE DEF rest
  <2> QED
    BY <1>1, <1>2, <1>9, <1>10, <2>1, OnceFresh
<1>16. OneLife(c)'
  <2> PICK S, T : S = {Do("connectDestroyed", c)} /\ T = Life(c)
    OBVIOUS
  <2>1. (\A s \in S : s.conn = c) /\ (\A s \in T : s.conn = c)
    BY DEF Life, Do
  <2>2. OnceAnywhere(S)' /\ OnceAnywhere(T)'
    BY <1>15, <2>1
  <2>3. Life(c)' = T
    BY DEF Life
  <2> QED
    BY <2>2, <2>3 DEF OneLife
<1>17. Tidy(l)'
  <2>1. Tidy(l)
    BY <1>2 DEF Orderly
  <2>2. CASE todo'[l] = todo[l]
    BY <1>1, <1>2, <2>1, <2>2, TidySame
  <2>3. CASE todo'[l] = q
    <3>1. \A i \in DOMAIN q : i = 1 /\ q[i] = x /\ Len(q) = 1
      BY DEF q
    <3>2. OnceIn(q, Closings)
      BY <1>7
    <3>3. \A r \in active[l] : r[1] # c
      BY <1>2, <1>12
    <3> QED
      BY <1>1, <1>6, <1>7, <2>1, <2>3, <3>1, <3>2, <3>3 DEF Tidy, HandlerNames, Closings
  <2> QED
    BY <1>9, <2>2, <2>3
<1>18. Timely(x, l)'
  BY <1>1, <1>4, <1>5, <1>6, <1>8 DEF Timely, HandlerNames
<1>19. /\ \A s \in ToSet(steps) \cup ToSet(f) : s.conn = c
       /\ \A s \in ToSet(steps) : Timely(s, l)'
       /\ \A s \in ToSet(f) : Timely(s, l)'
  BY <1>6, <1>10, <1>18
<1>20. /\ UNCHANGED <<lpc, active, batch>>
       /\ \A d \in Conns : d # c => (d \in connections_' <=> d \in connections_)
       /\ \A y \in Loops : \A s \in Remains(l, rest, y) : s.conn = c => Timely(s, y)'
       /\ \A y \in Loops : \A r \in active[y] : r[1] = c => TimelyReport(r)'
       /\ rest = todo[l]
  BY <1>1, <1>11, <1>12
<1> HIDE DEF rest
<1> QED
  BY <1>1, <1>2, <1>4, <1>9, <1>10, <1>13, <1>14, <1>16, <1>17, <1>19, <1>20, OneOrderly

\* A step of a loop that changes no connection and passes the functors on in order.
LEMMA PassesOrderly ==
  ASSUME Lawful, Orderly, NEW l \in Loops, UNCHANGED <<conn, connections_>>,
         todo' \in [Loops -> Seq(Step)], functors' \in [Loops -> Seq(Step)],
         left' \in [Loops -> Seq(Step)],
         \A m \in Loops : Agenda(m)' = Agenda(m),
         \A m \in Loops : ToSet(todo[m]) \subseteq ToSet(todo'[m]),
         \A m \in Loops : m # l => /\ lpc'[m] = lpc[m] /\ active'[m] = active[m]
                                   /\ todo'[m] = todo[m] /\ batch'[m] = batch[m]
                                   /\ left'[m] = left[m],
         \A r \in active'[l] : r[1] \in Conns /\ TimelyReport(r),
         Tidy(l)'
  PROVE  Orderly'
<1>1. TypeOK /\ conn \in [Conns -> ConnType]
  BY DEF Lawful, TypeOK, ConnTypeOK
<1>2. ASSUME NEW m \in Loops
      PROVE  ToSet(todo'[m]) \cup ToSet(functors'[m]) \cup ToSet(left'[m])
               = ToSet(todo[m]) \cup ToSet(functors[m]) \cup ToSet(left[m])
  <2>1. /\ todo'[m] \in Seq(Step) /\ left'[m] \in Seq(Step) /\ functors'[m] \in Seq(Step)
    OBVIOUS
  <2>2. ToSet(todo'[m] \o left'[m] \o functors'[m])
          = ToSet(todo'[m]) \cup ToSet(left'[m]) \cup ToSet(functors'[m])
    BY <2>1, ThreeJoined
  <2>3. ToSet(Agenda(m)) = ToSet(todo[m]) \cup ToSet(left[m]) \cup ToSet(functors[m])
    BY <1>1, AgendaIs
  <2>4. todo'[m] \o left'[m] \o functors'[m] = Agenda(m)
    BY DEF Agenda
  <2> QED
    BY <2>2, <2>3, <2>4
<1>3. \A c \in Conns : Kept(c) <=> Kept(c)'
  <2>1. ASSUME NEW c \in Conns PROVE Kept(c) <=> Kept(c)'
    <3>1. conn[c].loop \in Loops
      BY <1>1 DEF ConnType
    <3> QED
      BY <1>2, <3>1 DEF Kept, DestroyPending
  <2> QED
    BY <2>1
<1>4. \A S : OnceAnywhere(S) => OnceAnywhere(S)'
  BY DEF OnceAnywhere
<1>5. ASSUME NEW c \in Conns PROVE Coherent(conn'[c]) /\ Anchored(c)' /\ OneLife(c)'
  <2>1. Coherent(conn[c]) /\ Anchored(c) /\ OneLife(c) /\ conn[c].loop \in Loops
    BY <1>1 DEF Orderly, ConnType
  <2>2. Life(c)' = Life(c)
    BY DEF Life
  <2>3. OneLife(c)'
    BY <1>4, <2>1, <2>2 DEF OneLife
  <2>4. Anchored(c)'
    BY <2>1 DEF Anchored
  <2> QED
    BY <2>1, <2>3, <2>4
<1>6. ASSUME NEW m \in Loops, NEW s \in ToSet(Agenda(m)') PROVE Timely(s, m)'
  <2>1. s \in ToSet(Agenda(m))
    BY <1>6
  <2>2. s.conn \in Conns
    BY <1>1, <2>1, AgendaIs, WaitingIs
  <2>3. Timely(s, m)
    BY <2>1 DEF Orderly
  <2> QED
    BY <1>3, <2>2, <2>3 DEF Timely
<1>7. ASSUME NEW m \in Loops, NEW r \in active'[m] PROVE TimelyReport(r)'
  <2>1. TimelyReport(r)
    <3>1. CASE m = l
      BY <1>7, <3>1
    <3>2. CASE m # l
      BY <1>7, <3>2 DEF Orderly
    <3> QED
      BY <3>1, <3>2
  <2>2. r[1] \in Conns
    <3>1. CASE m = l
      BY <1>7, <3>1
    <3>2. CASE m # l
      BY <1>1, <1>7, <3>2 DEF TypeOK, ConnTypeOK
    <3> QED
      BY <3>1, <3>2
  <2> QED
    BY <1>3, <2>1, <2>2 DEF TimelyReport
<1>8. ASSUME NEW m \in Loops PROVE Tidy(m)'
  <2>1. Tidy(m)
    BY DEF Orderly
  <2>2. CASE m # l
    <3>1. /\ lpc'[m] = lpc[m] /\ active'[m] = active[m] /\ todo'[m] = todo[m]
          /\ batch'[m] = batch[m] /\ left'[m] = left[m]
      BY <2>2
    <3> QED
      BY <2>1, <3>1 DEF Tidy
  <2> QED
    BY <2>2
<1>9. (\A c \in Conns : Coherent(conn[c]) /\ Anchored(c) /\ OneLife(c))'
  BY <1>5
<1> QED
  BY <1>6, <1>7, <1>8, <1>9 DEF Orderly

\* The loop passes its pending functors on to be run.
LEMMA SwapPendingOrderly ==
  ASSUME Lawful, Orderly, NEW l \in Loops, SwapPending(l), UNCHANGED serverVars
  PROVE  Orderly'
<1> DEFINE f == functors[l]
<1>1. /\ TypeOK /\ todo[l] = <<>> /\ lpc[l] = "dispatch" /\ active[l] = {}
      /\ UNCHANGED <<conn, connections_>> /\ UNCHANGED <<active, todo>>
      /\ lpc' = [lpc EXCEPT ![l] = "functors"] /\ batch' = [batch EXCEPT ![l] = f]
      /\ left' = [left EXCEPT ![l] = f] /\ functors' = [functors EXCEPT ![l] = <<>>]
  BY DEF SwapPending, Idle, Lawful, serverVars
<1>2. /\ f \in Seq(Step) /\ <<>> \in Seq(Step) /\ ToSet(<<>>) = {}
      /\ functors \in [Loops -> Seq(Step)] /\ left \in [Loops -> Seq(Step)]
      /\ batch \in [Loops -> Seq(Step)] /\ todo \in [Loops -> Seq(Step)]
      /\ lpc \in [Loops -> {"poll", "dispatch", "functors"}]
  BY <1>1, None DEF TypeOK, ConnTypeOK
<1> HIDE DEF f
<1>3. /\ functors' \in [Loops -> Seq(Step)] /\ left' \in [Loops -> Seq(Step)]
      /\ todo' \in [Loops -> Seq(Step)]
      /\ functors'[l] = <<>> /\ left'[l] = f /\ batch'[l] = f /\ lpc'[l] = "functors"
      /\ \A m \in Loops : m # l => /\ lpc'[m] = lpc[m] /\ functors'[m] = functors[m]
                                   /\ batch'[m] = batch[m] /\ left'[m] = left[m]
  BY <1>1, <1>2
<1>4. Tidy(l) /\ left[l] = <<>>
  <2>1. Tidy(l)
    BY DEF Orderly
  <2> QED
    BY <1>1, <2>1 DEF Tidy
<1>5. ASSUME NEW m \in Loops PROVE Agenda(m)' = Agenda(m)
  <2>1. CASE m = l
    <3>1. Agenda(l)' = <<>> \o f \o <<>> /\ Agenda(l) = <<>> \o <<>> \o f
      BY <1>1, <1>3, <1>4 DEF Agenda, f
    <3>2. <<>> \o f \o <<>> = <<>> \o <<>> \o f
      BY <1>2
    <3> QED
      BY <2>1, <3>1, <3>2
  <2>2. CASE m # l
    BY <1>1, <1>3, <2>2 DEF Agenda
  <2> QED
    BY <2>1, <2>2
<1>6. Tidy(l)'
  <2>1. OnceIn(todo[l], Closings)
    BY <1>4 DEF Tidy, Closings
  <2>2. todo'[l] = <<>> /\ active'[l] = {} /\ OnceIn(todo'[l], Closings)
    BY <1>1, <2>1
  <2> QED
    BY <1>2, <1>3, <2>2 DEF Tidy, Closings
<1>7. /\ \A m \in Loops : ToSet(todo[m]) \subseteq ToSet(todo'[m])
      /\ \A m \in Loops : m # l => /\ lpc'[m] = lpc[m] /\ active'[m] = active[m]
                                   /\ todo'[m] = todo[m] /\ batch'[m] = batch[m]
                                   /\ left'[m] = left[m]
      /\ \A r \in active'[l] : r[1] \in Conns /\ TimelyReport(r)
  BY <1>1, <1>3
<1> QED
  BY <1>1, <1>3, <1>5, <1>6, <1>7, PassesOrderly

\* The loop runs the next functor it took.
LEMMA RunFunctorOrderly ==
  ASSUME Lawful, Orderly, NEW l \in Loops, RunFunctor(l), UNCHANGED serverVars
  PROVE  Orderly'
<1> DEFINE e == left[l]
           h == Head(e)
           q == <<h>>
           u == Tail(e)
<1>1. /\ TypeOK /\ e # <<>> /\ todo[l] = <<>> /\ lpc[l] = "functors"
      /\ UNCHANGED <<conn, connections_>> /\ UNCHANGED <<lpc, active, functors, batch>>
      /\ todo' = [todo EXCEPT ![l] = q] /\ left' = [left EXCEPT ![l] = u]
  BY DEF RunFunctor, Idle, Lawful, serverVars
<1>2. /\ functors \in [Loops -> Seq(Step)] /\ left \in [Loops -> Seq(Step)]
      /\ todo \in [Loops -> Seq(Step)] /\ e \in Seq(Step)
  BY <1>1 DEF TypeOK, ConnTypeOK
<1>3. h \in Step /\ u \in Seq(Step) /\ ToSet(e) = {h} \cup ToSet(u)
  <2> HIDE DEF e
  <2> QED
    BY <1>1, <1>2, Taken
<1>4. q \in Seq(Step) /\ ToSet(q) = {h} /\ OnceIn(q, Closings) /\ (\A i \in DOMAIN q : i = Len(q))
  <2> HIDE DEF h
  <2>1. \A i \in DOMAIN q : i = Len(q)
    OBVIOUS
  <2> QED
    BY <1>3, <2>1, Single, OnceInFew
<1>5. q \o u = e
  <2> HIDE DEF e
  <2> QED
    BY <1>1, <1>2
<1>6. Tidy(l) /\ active[l] = {} /\ ToSet(e) \subseteq ToSet(batch[l])
  <2>1. Tidy(l)
    BY DEF Orderly
  <2> QED
    BY <1>1, <2>1 DEF Tidy
<1>7. h.op \in FunctorOps
  BY <1>3 DEF Lawful, LoopSound
<1>8. ASSUME NEW m \in Loops PROVE todo[m] = <<>> \/ m # l
  BY <1>1
<1> HIDE DEF q, h, u
<1>9. /\ todo' \in [Loops -> Seq(Step)] /\ left' \in [Loops -> Seq(Step)]
      /\ functors' \in [Loops -> Seq(Step)]
      /\ todo'[l] = q /\ left'[l] = u
      /\ \A m \in Loops : m # l => todo'[m] = todo[m] /\ left'[m] = left[m]
  BY <1>1, <1>2, <1>3, <1>4
<1>10. ASSUME NEW m \in Loops PROVE Agenda(m)' = Agenda(m)
  <2>1. CASE m = l
    <3>1. Agenda(l)' = q \o u \o functors[l] /\ Agenda(l) = <<>> \o e \o functors[l]
      BY <1>1, <1>9 DEF Agenda
    <3>2. <<>> \o e = e
      BY <1>2
    <3> QED
      BY <1>5, <2>1, <3>1, <3>2
  <2>2. CASE m # l
    BY <1>1, <1>9, <2>2 DEF Agenda
  <2> QED
    BY <2>1, <2>2
<1>11. \A m \in Loops : ToSet(todo[m]) \subseteq ToSet(todo'[m])
  <2>1. ToSet(todo[l]) = {}
    BY <1>1, None
  <2> QED
    BY <1>9, <2>1
<1>12. Tidy(l)'
  <2>1. /\ lpc'[l] = "functors" /\ active'[l] = {}
        /\ batch'[l] = batch[l] /\ todo'[l] = q /\ left'[l] = u
    BY <1>1, <1>6, <1>9
  <2>2. /\ h.op = "connectDestroyed" => Do("connectDestroyed", h.conn) \in ToSet(batch[l])
        /\ h.op \notin HandlerNames \cup {"removeChannel"}
    <3>1. h.op = "connectDestroyed" => h = Do("connectDestroyed", h.conn)
      BY <1>3 DEF Step, Do
    <3> QED
      BY <1>3, <1>6, <1>7, <3>1 DEF FunctorOps, HandlerNames
  <2>3. ToSet(u) \subseteq ToSet(batch[l])
    BY <1>3, <1>6
  <2> QED
    BY <1>4, <2>1, <2>2, <2>3 DEF Tidy, Closings
<1>13. /\ \A m \in Loops : m # l => /\ lpc'[m] = lpc[m] /\ active'[m] = active[m]
                                    /\ todo'[m] = todo[m] /\ batch'[m] = batch[m]
                                    /\ left'[m] = left[m]
       /\ \A r \in active'[l] : r[1] \in Conns /\ TimelyReport(r)
  BY <1>1, <1>6, <1>9
<1> QED
  BY <1>1, <1>9, <1>10, <1>11, <1>12, <1>13, PassesOrderly

\* The loop drops the vector of functors it has run.
LEMMA FunctorsDoneOrderly ==
  ASSUME Lawful, Orderly, NEW l \in Loops, FunctorsDone(l), UNCHANGED serverVars
  PROVE  Orderly'
<1>1. /\ TypeOK /\ todo[l] = <<>> /\ lpc[l] = "functors" /\ left[l] = <<>>
      /\ UNCHANGED <<conn, connections_>> /\ UNCHANGED <<active, todo, functors, left>>
      /\ lpc' = [lpc EXCEPT ![l] = "poll"] /\ batch' = [batch EXCEPT ![l] = <<>>]
  BY DEF FunctorsDone, Idle, Lawful, serverVars
<1>2. /\ functors' \in [Loops -> Seq(Step)] /\ left' \in [Loops -> Seq(Step)]
      /\ todo' \in [Loops -> Seq(Step)]
      /\ lpc'[l] = "poll" /\ batch'[l] = <<>>
      /\ \A m \in Loops : m # l => /\ lpc'[m] = lpc[m] /\ active'[m] = active[m]
                                   /\ todo'[m] = todo[m] /\ batch'[m] = batch[m]
                                   /\ left'[m] = left[m]
  BY <1>1 DEF TypeOK, ConnTypeOK
<1>3. Tidy(l) /\ active[l] = {}
  <2>1. Tidy(l)
    BY DEF Orderly
  <2> QED
    BY <1>1, <2>1 DEF Tidy
<1>4. \A m \in Loops : Agenda(m)' = Agenda(m)
  BY <1>1 DEF Agenda
<1>5. Tidy(l)'
  <2>1. ToSet(<<>>) = {}
    BY None
  <2>2. OnceIn(todo[l], Closings)
    BY <1>3 DEF Tidy, Closings
  <2>3. todo'[l] = <<>> /\ active'[l] = {} /\ left'[l] = <<>> /\ OnceIn(todo'[l], Closings)
    BY <1>1, <1>3, <2>2
  <2> QED
    BY <1>2, <2>1, <2>3 DEF Tidy, Closings
<1>6. /\ \A m \in Loops : ToSet(todo[m]) \subseteq ToSet(todo'[m])
      /\ \A r \in active'[l] : r[1] \in Conns /\ TimelyReport(r)
  BY <1>1, <1>3
<1> QED
  BY <1>1, <1>2, <1>4, <1>5, <1>6, PassesOrderly

\* What epoll_wait reports of a channel comes at its time: the channel is registered
\* because it reads or because of late data, for the loop is in no call.
LEMMA PollOrderly ==
  ASSUME Lawful, Orderly, NEW l \in Loops, Poll(l), UNCHANGED serverVars
  PROVE  Orderly'
<1> DEFINE R == Reports(l)
<1>1. /\ TypeOK /\ todo[l] = <<>> /\ lpc[l] = "poll"
      /\ active' = [active EXCEPT ![l] = R]
      /\ UNCHANGED <<conn, connections_>> /\ UNCHANGED <<todo, functors, batch, left>>
      /\ lpc' = [lpc EXCEPT ![l] = "dispatch"]
  BY DEF Poll, Idle, Lawful, serverVars
<1>2. R \subseteq Conns \X SUBSET Revents
  BY ReportsAre
<1>3. ASSUME NEW r \in R PROVE r[1] \in Conns /\ TimelyReport(r)
  <2>1. PICK c \in Conns : r = <<c, ReventsOf(conn[c])>> /\ conn[c].loop = l
                           /\ conn[c].channel.registered
    <3>1. Alive \subseteq Conns
      BY <1>1, AliveIs
    <3> QED
      BY <1>3, <3>1 DEF Reports
  <2> DEFINE k == conn[c]
  <2>2. /\ k \in ConnType /\ Sound(k) /\ Coherent(k) /\ Anchored(c)
    BY <1>1 DEF Lawful, Orderly, TypeOK, ConnTypeOK
  <2>3. "read" \in k.channel.events \/ Late(k)
    <3>1. Do("removeChannel", c) \notin ToSet(todo[l])
      BY <1>1, None
    <3> QED
      BY <2>1, <2>2, <3>1 DEF Anchored
  <2>4. k.state # "kConnecting"
    BY <2>1, <2>2 DEF Sound, NewChannel
  <2>5. Kept(c) \/ Late(k)
    BY <2>2, <2>3 DEF Anchored, Kept
  <2>6. "IN" \in ReventsOf(k) => "read" \in k.channel.events
    BY <2>1, <2>2 DEF ReventsOf, Sound, EpollAgrees
  <2>7. "HUP" \in ReventsOf(k) => MayClose(k)
    <3>1. "HUP" \in ReventsOf(k) => k.peer = "reset" \/ k.shutWr
      BY DEF ReventsOf
    <3> QED
      BY <2>2, <2>3, <3>1 DEF MayClose, Coherent
  <2>8. r[1] = c /\ r[2] = ReventsOf(k)
    BY <2>1
  <2> QED
    BY <2>4, <2>5, <2>6, <2>7, <2>8 DEF TimelyReport
<1> HIDE DEF R
<1>4. /\ functors' \in [Loops -> Seq(Step)] /\ left' \in [Loops -> Seq(Step)]
      /\ todo' \in [Loops -> Seq(Step)]
      /\ lpc'[l] = "dispatch" /\ active'[l] = R
      /\ \A m \in Loops : m # l => /\ lpc'[m] = lpc[m] /\ active'[m] = active[m]
                                   /\ todo'[m] = todo[m] /\ batch'[m] = batch[m]
                                   /\ left'[m] = left[m]
  BY <1>1 DEF TypeOK, ConnTypeOK
<1>5. Tidy(l) /\ left[l] = <<>>
  <2>1. Tidy(l)
    BY DEF Orderly
  <2> QED
    BY <1>1, <2>1 DEF Tidy
<1>6. \A m \in Loops : Agenda(m)' = Agenda(m)
  BY <1>1 DEF Agenda
<1>7. Tidy(l)'
  <2>1. ToSet(<<>>) = {}
    BY None
  <2>2. OnceIn(todo[l], Closings)
    BY <1>5 DEF Tidy, Closings
  <2>3. todo'[l] = <<>> /\ left'[l] = <<>> /\ OnceIn(todo'[l], Closings)
    BY <1>1, <1>5, <2>2
  <2> QED
    BY <1>4, <2>1, <2>3 DEF Tidy, Closings
<1>8. /\ \A m \in Loops : ToSet(todo[m]) \subseteq ToSet(todo'[m])
      /\ \A r \in active'[l] : r[1] \in Conns /\ TimelyReport(r)
  BY <1>1, <1>3, <1>4
<1> QED
  BY <1>1, <1>4, <1>6, <1>7, <1>8, PassesOrderly

\* The end of a sequence with at most one more element.
LEMMA EndsBy ==
  ASSUME NEW n \in Nat, NEW m \in 0..1, NEW i \in 1..(n + m), ~(i <= n)
  PROVE  i = n + m
OBVIOUS

\* The callbacks of a report: handleRead or handleClose, not both, and handleWrite
\* the last.
LEMMA CallbacksEnd ==
  ASSUME NEW revents \in SUBSET Revents
  PROVE  /\ OnceIn(Callbacks(revents), {"handleRead", "handleClose"})
         /\ \A i \in DOMAIN Callbacks(revents) :
              Callbacks(revents)[i] = "handleWrite" => i = Len(Callbacks(revents))
<1> DEFINE a == IF "HUP" \in revents /\ "IN" \notin revents THEN <<"handleClose">> ELSE <<>>
           b == IF "ERR" \in revents THEN <<"handleError">> ELSE <<>>
           c == IF "IN" \in revents THEN <<"handleRead">> ELSE <<>>
           d == IF "OUT" \in revents THEN <<"handleWrite">> ELSE <<>>
<1>1. Callbacks(revents) = ((a \o b) \o c) \o d
  BY DEF Callbacks, handleEvent
<1>2. a \in Seq(HandlerNames) /\ ToSet(a) = (IF "HUP" \in revents /\ "IN" \notin revents
                                               THEN {"handleClose"} ELSE {})
  BY Few DEF HandlerNames
<1>3. b \in Seq(HandlerNames) /\ ToSet(b) = (IF "ERR" \in revents THEN {"handleError"} ELSE {})
  BY Few DEF HandlerNames
<1>4. c \in Seq(HandlerNames) /\ ToSet(c) = (IF "IN" \in revents THEN {"handleRead"} ELSE {})
  BY Few DEF HandlerNames
<1>5. /\ d \in Seq(HandlerNames) /\ Len(d) \in 0..1
      /\ ToSet(d) = (IF "OUT" \in revents THEN {"handleWrite"} ELSE {})
  <2>1. Len(d) \in 0..1
    OBVIOUS
  <2>2. d \in Seq(HandlerNames) /\ ToSet(d) = (IF "OUT" \in revents THEN {"handleWrite"} ELSE {})
    BY Few DEF HandlerNames
  <2> QED
    BY <2>1, <2>2
<1> DEFINE R == {"handleRead", "handleClose"}
<1>6. OnceIn(a, R) /\ OnceIn(b, R) /\ OnceIn(c, R) /\ OnceIn(d, R)
  <2>1. DOMAIN a \in {{}, {1}} /\ DOMAIN b \in {{}, {1}} /\ DOMAIN c \in {{}, {1}}
        /\ DOMAIN d \in {{}, {1}}
    OBVIOUS
  <2> HIDE DEF a, b, c, d, R
  <2> QED
    BY <2>1 DEF OnceIn
<1> HIDE DEF a, b, c, d
<1>7. ~Meets(b, R) /\ ~Meets(d, R) /\ ~(Meets(a, R) /\ Meets(c, R))
  BY <1>2, <1>3, <1>4, <1>5 DEF Meets
<1>8. ToSet(a) \cup ToSet(b) \cup ToSet(c) \subseteq HandlerNames \ {"handleWrite"}
  BY <1>2, <1>3, <1>4 DEF HandlerNames
<1> HIDE DEF R
<1> DEFINE ab == a \o b
           abc == ab \o c
<1>9. ab \in Seq(HandlerNames) /\ ToSet(ab) = ToSet(a) \cup ToSet(b) /\ OnceIn(ab, R)
  BY <1>2, <1>3, <1>6, <1>7, Joined, OnceInJoined
<1>10. ~(Meets(ab, R) /\ Meets(c, R))
  BY <1>7, <1>9 DEF Meets
<1> HIDE DEF ab
<1>11. abc \in Seq(HandlerNames) /\ ToSet(abc) = ToSet(ab) \cup ToSet(c) /\ OnceIn(abc, R)
  BY <1>4, <1>6, <1>9, <1>10, Joined, OnceInJoined
<1>12. "handleWrite" \notin ToSet(abc)
  BY <1>8, <1>9, <1>11
<1> HIDE DEF abc
<1>13. OnceIn(abc \o d, R)
  BY <1>5, <1>6, <1>7, <1>11, OnceInJoined
<1>14. ASSUME NEW i \in DOMAIN (abc \o d), (abc \o d)[i] = "handleWrite"
       PROVE  i = Len(abc \o d)
  <2>1. /\ Len(abc \o d) = Len(abc) + Len(d) /\ Len(abc) \in Nat
        /\ i \in 1..Len(abc) + Len(d) /\ DOMAIN abc = 1..Len(abc)
        /\ i <= Len(abc) => (abc \o d)[i] = abc[i]
    BY <1>5, <1>11, <1>14
  <2>2. ASSUME i <= Len(abc) PROVE FALSE
    <3>1. i \in DOMAIN abc /\ abc[i] = "handleWrite"
      BY <1>14, <2>1, <2>2
    <3> QED
      BY <1>12, <3>1 DEF ToSet
  <2> PICK n, m, t : n = Len(abc) /\ m = Len(d) /\ t = Len(abc \o d)
    OBVIOUS
  <2>3. n \in Nat /\ m \in 0..1 /\ t = n + m /\ i \in 1..(n + m)
    BY <1>5, <2>1
  <2>4. ~(i <= n)
    BY <2>2
  <2>5. i = t
    BY <2>3, <2>4, EndsBy
  <2> QED
    BY <2>5
<1>15. Callbacks(revents) = abc \o d
  BY <1>1 DEF abc, ab
<1>16. OnceIn(Callbacks(revents), R)
  BY <1>13, <1>15
<1> QED
  BY <1>14, <1>15, <1>16 DEF R

\* The handlers of a report: handleWrite last, one of handleRead and handleClose.
LEMMA HandlersEnd ==
  ASSUME NEW revents \in SUBSET Revents, NEW c \in Conns
  PROVE  EndsWell(Handlers(revents, c)) /\ OnceIn(Handlers(revents, c), Closings)
<1> DEFINE n == Callbacks(revents)
           h == Handlers(revents, c)
           R == {"handleRead", "handleClose"}
<1>1. /\ n \in Seq(HandlerNames) /\ OnceIn(n, R)
      /\ \A i \in DOMAIN n : n[i] = "handleWrite" => i = Len(n)
  BY CallbacksAre, CallbacksEnd
<1>2. h = [i \in DOMAIN n |-> Do(n[i], c)]
  BY DEF Handlers
<1>3. h \in Seq(Step)
  BY HandlersAre
<1> HIDE DEF n, h, R
<1>4. DOMAIN h = DOMAIN n /\ Len(h) = Len(n)
  BY <1>1, <1>2, <1>3
<1>5. ASSUME NEW i \in DOMAIN h
      PROVE  h[i].op = n[i] /\ n[i] \in HandlerNames /\ (h[i] \in Closings => n[i] \in R)
  <2>1. h[i] = Do(n[i], c) /\ n[i] \in HandlerNames
    BY <1>1, <1>2, <1>5
  <2>2. \A s \in Closings : s.op \in R
    BY DEF Closings, Do, R
  <2>3. h[i].op = n[i]
    BY <2>1 DEF Do
  <2> QED
    BY <2>1, <2>2, <2>3
<1>6. EndsWell(h)
  BY <1>1, <1>4, <1>5 DEF EndsWell, LastSteps, HandlerNames
<1>7. OnceIn(h, Closings)
  BY <1>1, <1>4, <1>5 DEF OnceIn
<1> QED
  BY <1>6, <1>7 DEF h

HandledBy(h, revents, c) ==
  /\ h \in Seq(Step)
  /\ \A s \in ToSet(h) : /\ s \in Step /\ s.conn = c /\ s.op \in HandlerNames
                         /\ s.op = "handleRead" => "IN" \in revents
                         /\ s.op = "handleClose" => "HUP" \in revents

\* Each of them is called for the event that asks for it.
LEMMA HandledByThem ==
  ASSUME NEW revents \in SUBSET Revents, NEW c \in Conns
  PROVE  HandledBy(Handlers(revents, c), revents, c)
BY HandlersAre DEF HandledBy

\* The handlers of a report come at their time because the report did.
LEMMA DispatchOrderly ==
  ASSUME Lawful, Orderly, NEW l \in Loops, Dispatch(l), UNCHANGED serverVars
  PROVE  Orderly'
<1>1. PICK r \in active[l] : /\ active' = [active EXCEPT ![l] = @ \ {r}]
                             /\ todo' = [todo EXCEPT ![l] = Handlers(r[2], r[1])]
  BY DEF Dispatch, Handlers
<1>2. /\ TypeOK /\ LoopSound(l) /\ todo[l] = <<>> /\ lpc[l] = "dispatch"
      /\ UNCHANGED <<conn, connections_>> /\ UNCHANGED <<lpc, functors, batch, left>>
  BY DEF Dispatch, Idle, Lawful, serverVars
<1> PICK c, v : c = r[1] /\ v = r[2]
  OBVIOUS
<1> PICK h : h = Handlers(v, c)
  OBVIOUS
<1> DEFINE k == conn[c]
           none == <<>>
           rest == todo[l]
<1>3. c \in Conns /\ v \in SUBSET Revents
  BY <1>2 DEF TypeOK, ConnTypeOK
<1>4. /\ h \in Seq(Step)
      /\ \A s \in ToSet(h) : /\ s \in Step /\ s.conn = c /\ s.op \in HandlerNames
                             /\ s.op = "handleRead" => "IN" \in v
                             /\ s.op = "handleClose" => "HUP" \in v
  <2>1. HandledBy(h, v, c)
    BY <1>3, HandledByThem
  <2> QED
    BY <2>1 DEF HandledBy
<1>5. EndsWell(h) /\ OnceIn(h, Closings)
  BY <1>3, HandlersEnd
<1>6. todo' = [todo EXCEPT ![l] = h]
  BY <1>1
<1>7. /\ k \in ConnType /\ conn' = [conn EXCEPT ![c] = k] /\ conn'[c] = k
      /\ Coherent(k) /\ Anchored(c) /\ OneLife(c) /\ todo \in [Loops -> Seq(Step)]
  BY <1>2, <1>3, NotReplaced DEF Orderly, TypeOK, ConnTypeOK
<1>8. /\ Queue(l, none) /\ none \in Seq(Step) /\ ToSet(none) = {}
  BY <1>2, NothingQueued
<1>9. Moves(l, rest, h, l, none)
  <2>1. h \o <<>> = h
    BY <1>4
  <2>2. h \o rest = h
    BY <1>2, <2>1
  <2> HIDE DEF none
  <2> QED
    BY <1>2, <1>6, <1>8, <2>2 DEF Moves, Leaves, Queue
<1> HIDE DEF none
<1>10. todo'[l] = h /\ \A m \in Loops : m # l => todo'[m] = todo[m]
  BY <1>6, <1>7
<1>11. /\ active'[l] = active[l] \ {r}
       /\ \A m \in Loops : m # l => active'[m] = active[m]
       /\ \A m \in Loops : active'[m] \subseteq active[m]
  BY <1>1, <1>2 DEF TypeOK, ConnTypeOK
<1>12. TimelyReport(r) /\ k.loop = l /\ \A x \in active[l] : x[1] = c => x = r
  BY <1>2 DEF Orderly, LoopSound, Founded
<1>13. ASSUME NEW m \in Loops, NEW x \in active'[m] PROVE x[1] # c
  <2>1. x \in active[m] /\ conn[x[1]].loop = m
    BY <1>11, <1>13 DEF Lawful, LoopSound, Founded
  <2> QED
    BY <1>11, <1>12, <1>13, <2>1
<1>14. Kept(c) => Kept(c)'
  <2>1. conn'[c].loop = conn[c].loop /\ (c \in connections_ => c \in connections_')
        /\ (rest = todo[l] \/ Head(todo[l]) # Do("connectDestroyed", c))
    BY <1>2
  <2> HIDE DEF rest
  <2> QED
    BY <1>2, <1>3, <1>4, <1>8, <1>9, <2>1, KeptStays
<1>15. OneLife(c)'
  <2>1. \A s \in Life(c) : s.op \notin HandlerNames
    BY DEF Life, Do, HandlerNames
  <2>2. \A s \in ToSet(h) \cup ToSet(none) : s \notin Life(c)
    BY <1>4, <1>8, <2>1
  <2>3. Stuck(conn[c]) => Stuck(conn'[c])
    BY <1>2
  <2> HIDE DEF rest
  <2> QED
    BY <1>2, <1>3, <1>4, <1>7, <1>8, <1>9, <2>2, <2>3, OneLifeStays
<1>16. Anchored(c)'
  <2>1. Do("removeChannel", c) \in ToSet(todo[k.loop]) => FALSE
    BY <1>2, <1>12, None
  <2> QED
    BY <1>2, <1>7, <2>1 DEF Anchored
<1>17. Tidy(l)'
  <2>1. Tidy(l)
    BY DEF Orderly
  <2>2. left[l] = <<>> /\ ToSet(left[l]) \subseteq ToSet(batch[l])
    BY <1>2, <2>1 DEF Tidy
  <2>3. lpc'[l] = "dispatch" /\ left'[l] = <<>> /\ ToSet(left'[l]) \subseteq ToSet(batch'[l])
    BY <1>2, <2>2
  <2>4. ASSUME NEW s \in ToSet(todo'[l])
        PROVE  s.op \in HandlerNames /\ \A x \in active'[l] : x[1] # s.conn
    BY <1>4, <1>10, <1>13, <2>4
  <2>5. /\ \A i \in DOMAIN todo'[l] :
             todo'[l][i].op \in {"handleWrite", "connectDestroyed", "removeChannel"}
               => i = Len(todo'[l])
        /\ OnceIn(todo'[l], Closings)
    BY <1>5, <1>10 DEF EndsWell, LastSteps
  <2> QED
    BY <2>3, <2>4, <2>5 DEF Tidy, HandlerNames, Closings
<1>18. \A s \in ToSet(h) : Timely(s, l)'
  <2> SUFFICES ASSUME NEW s \in ToSet(h) PROVE Timely(s, l)'
    OBVIOUS
  <2>1. /\ k.state # "kConnecting"
        /\ Kept(c) \/ Late(k)
        /\ "IN" \in v => "read" \in k.channel.events
        /\ "HUP" \in v => MayClose(k)
    BY <1>12 DEF TimelyReport
  <2>2. Kept(c)' \/ Late(k)
    BY <1>14, <2>1
  <2>3. /\ s.conn = c /\ s.op \in HandlerNames
        /\ s.op = "handleRead" => "read" \in k.channel.events
        /\ s.op = "handleClose" => MayClose(k)
    BY <1>4, <2>1
  <2> QED
    BY <1>7, <1>12, <2>1, <2>2, <2>3 DEF Timely, HandlerNames
<1>19. ASSUME NEW y \in Loops, NEW s \in Remains(l, rest, y), s.conn = c
       PROVE  Timely(s, y)'
  <2>1. s \in ToSet(todo[y]) \cup ToSet(left[y]) \cup ToSet(functors[y])
    BY <1>19 DEF Remains
  <2>2. s \in Step /\ Timely(s, y)
    <3>1. s \in ToSet(Agenda(y))
      BY <1>2, <2>1, AgendaIs
    <3> QED
      BY <2>1, <3>1, WaitingIs DEF Orderly
  <2> QED
    BY <1>2, <1>14, <1>19, <2>2 DEF Timely
<1>20. \A y \in Loops : \A s \in Remains(l, rest, y) : s.conn = c => Timely(s, y)'
  BY <1>19
<1>21. /\ \A s \in ToSet(h) \cup ToSet(none) : s.conn = c
       /\ \A s \in ToSet(none) : Timely(s, l)'
       /\ \A d \in Conns : d # c => (d \in connections_' <=> d \in connections_)
       /\ \A y \in Loops : \A x \in active'[y] : x[1] = c => TimelyReport(x)'
       /\ UNCHANGED <<lpc, batch>>
       /\ rest = todo[l] \/ Head(todo[l]).conn = c
  BY <1>2, <1>4, <1>8, <1>13
<1> HIDE DEF rest
<1> QED
  BY <1>3, <1>4, <1>7, <1>8, <1>9, <1>11, <1>15, <1>16, <1>17, <1>18, <1>20, <1>21,
     OneCallOrderly

\* What a call of a user thread or a failed assertion changes, the order does not
\* depend on.
LEMMA OutsideOrderly ==
  ASSUME Lawful, Orderly, UNCHANGED serverVars,
         \/ \E l \in Loops : UseDestroyed(l) \/ \E u \in Users : AppShares(l, u)
         \/ \E u \in Users : \E c \in Conns :
              \/ UserTestsState(u, c, "sendInLoop") \/ UserTestsState(u, c, "shutdownInLoop")
              \/ UserReleases(u, c)
  PROVE  Orderly'
<1>1. UNCHANGED <<conn, loopVars, connections_>>
  BY DEF UseDestroyed, AppShares, UserTestsState, UserReleases, serverVars
<1>2. UNCHANGED <<conn, lpc, active, todo, functors, batch, left, connections_>>
  BY <1>1 DEF loopVars
<1> QED
  BY <1>2, SameOrderly

\* Every step of the system keeps the order.
LEMMA StepOrderly ==
  ASSUME Lawful, Orderly, [Next]_vars
  PROVE  Orderly'
<1>1. CASE UNCHANGED vars
  <2>1. UNCHANGED <<conn, lpc, active, todo, functors, batch, left, connections_>>
    BY <1>1 DEF vars, loopVars
  <2> QED
    BY <2>1, SameOrderly
<1>2. ASSUME NEW l \in Loops, LoopMachinery(l), UNCHANGED serverVars PROVE Orderly'
  BY <1>2, PollOrderly, DispatchOrderly, SwapPendingOrderly, RunFunctorOrderly,
     FunctorsDoneOrderly
     DEF LoopMachinery
<1>3. ASSUME NEW l \in Loops, ConnStep(l), UNCHANGED serverVars PROVE Orderly'
  BY <1>3, ConnectEstablishedOrderly, ConnectDestroyedOrderly, RemoveChannelOrderly,
     HandleReadOrderly, HandleWriteOrderly, HandleCloseOrderly, HandleErrorOrderly,
     SendInLoopOrderly, ShutdownInLoopOrderly, CallbackReturnsOrderly
     DEF ConnStep
<1>4. ASSUME NEW l \in Loops, LoopStep(l) PROVE Orderly'
  BY <1>2, <1>3, <1>4, OutsideOrderly, RemoveConnectionOrderly, RemoveConnectionInLoopOrderly
     DEF LoopStep, ConnHandler
<1>5. ASSUME Application, UNCHANGED serverVars PROVE Orderly'
  BY <1>5, AppSendOrderly, AppShutdownOrderly, UserQueuesOrderly, OutsideOrderly
     DEF Application
<1> QED
  BY <1>1, <1>4, <1>5, NewConnectionOrderly, PeerOrderly DEF Next

\* Before the first connection nothing waits.
LEMMA InitOrderly ==
  ASSUME Init
  PROVE  Orderly
<1>1. /\ \A l \in Loops : lpc[l] = "poll" /\ active[l] = {} /\ todo[l] = <<>>
                          /\ functors[l] = <<>> /\ left[l] = <<>> /\ batch[l] = <<>>
      /\ connections_ = {}
      /\ \A c \in Conns : \E l \in Loops : conn[c] = Unmade(l)
  BY DEF Init, ConnInit
<1>2. <<>> \o <<>> \o <<>> = <<>> /\ DOMAIN <<>> = {} /\ ToSet(<<>>) = {}
  BY None
<1>3. ASSUME NEW l \in Loops PROVE ToSet(Agenda(l)) = {} /\ DOMAIN Agenda(l) = {}
  BY <1>1, <1>2 DEF Agenda
<1>4. \A S : OnceAnywhere(S)
  BY <1>3 DEF OnceAnywhere, OnceIn, Meets
<1>5. ASSUME NEW c \in Conns PROVE Coherent(conn[c]) /\ Anchored(c) /\ OneLife(c)
  <2> PICK l \in Loops : conn[c] = Unmade(l)
    BY <1>1
  <2>0. conn[c].channel = NewChannel /\ conn[c].shutWr = FALSE /\ conn[c].downs = 0
    BY DEF Unmade
  <2>1. /\ conn[c].channel.events = {} /\ ~conn[c].channel.registered
        /\ ~conn[c].shutWr /\ conn[c].downs = 0
    BY <2>0 DEF NewChannel
  <2>2. Coherent(conn[c])
    BY <2>1 DEF Coherent
  <2>3. Anchored(c)
    BY <1>1, <2>1 DEF Anchored
  <2>4. OneLife(c)
    BY <1>4 DEF OneLife
  <2> QED
    BY <2>2, <2>3, <2>4
<1>6. ASSUME NEW l \in Loops PROVE Tidy(l)
  <2>1. OnceIn(todo[l], Closings)
    BY <1>1, <1>2 DEF OnceIn
  <2> QED
    BY <1>1, <1>2, <1>6, <2>1 DEF Tidy, Closings
<1>7. \A l \in Loops : \A r \in active[l] : TimelyReport(r)
  BY <1>1
<1> QED
  BY <1>3, <1>5, <1>6, <1>7 DEF Orderly

\* Whatever threads the application has: types, connections, steps, calls and
\* reports are right, and every step comes at its time; and when only callbacks use
\* the connections, every connection is kept until removeChannel has run.
THEOREM InvariantHolds == Spec => []IInv
<1>1. IInv <=> Lawful /\ Orderly /\ (Users = {} => Ownership)
  BY DEF IInv, Lawful
<1>2. Init => IInv
  BY <1>1, InitLawful, InitOrderly, InitOwned
<1>3. Lawful /\ Orderly /\ (Users = {} => Ownership) /\ [Next]_vars
        => Lawful' /\ Orderly' /\ (Users = {} => Ownership')
  BY StepLawful, StepOrderly, StepOwned
<1>4. (Lawful' /\ Orderly' /\ (Users = {} => Ownership')) => IInv'
  BY DEF IInv, Lawful
<1>5. IInv /\ [Next]_vars => IInv'
  BY <1>1, <1>3, <1>4
<1> QED
  BY <1>2, <1>5, PTL DEF Spec

-----------------------------------------------------------------------------
(* What can stop the program.                                              *)

\* The connection a step aborts at is what explains it.
ShutDown(k) == k.state = "kDisconnected" /\ k.downs = 0

\* connectEstablished finds kConnecting.
LEMMA ConnectEstablishedExplained ==
  ASSUME Lawful, Orderly, Running, NEW l \in Loops, ConnectEstablished(l)
  PROVE  aborted' = "none"
<1>1. todo[l] # <<>> /\ Head(todo[l]).op = "connectEstablished"
  BY DEF ConnectEstablished, IsAt
<1>2. Timely(Head(todo[l]), l) /\ Head(todo[l]).conn = Current(l)
  BY <1>1, AtTimely DEF Current
<1>3. conn[Current(l)].state = "kConnecting"
  BY <1>1, <1>2 DEF Timely
<1> QED
  BY <1>3 DEF ConnectEstablished, Running

\* connectDestroyed aborts at a connection that was shut down, and that nobody
\* destroyed before.
LEMMA ConnectDestroyedExplained ==
  ASSUME Lawful, Orderly, Running, NEW l \in Loops, ConnectDestroyed(l), aborted' # "none"
  PROVE  /\ aborted' = "connectDestroyed" /\ UNCHANGED conn
         /\ \E c \in Conns : ShutDown(conn[c])
<1>1. todo[l] # <<>> /\ Head(todo[l]).op = "connectDestroyed"
  BY DEF ConnectDestroyed, IsAt
<1>2. /\ aborted' = "connectDestroyed" /\ UNCHANGED conn
      /\ conn[Current(l)].state # "kConnected"
  BY DEF ConnectDestroyed, Running, Abort
<1>3. /\ Timely(Head(todo[l]), l) /\ Head(todo[l]).conn = Current(l) /\ Current(l) \in Conns
      /\ conn[Current(l)] \in ConnType
  BY <1>1, AtTimely, AtStep DEF Current
<1>4. conn[Current(l)].state # "kConnecting" /\ conn[Current(l)].downs = 0
  BY <1>1, <1>3 DEF Timely
<1>5. conn[Current(l)].state = "kDisconnected"
  BY <1>2, <1>3, <1>4 DEF ConnType
<1> QED
  BY <1>2, <1>3, <1>4, <1>5 DEF ShutDown

\* handleClose aborts at a connection that was shut down or has late data: its
\* channel would not have reported otherwise.
LEMMA HandleCloseExplained ==
  ASSUME Lawful, Orderly, Running, NEW l \in Loops, HandleClose(l), aborted' # "none"
  PROVE  /\ aborted' = "handleClose" /\ UNCHANGED conn
         /\ \E c \in Conns : ShutDown(conn[c]) \/ Late(conn[c])
<1> PICK c : c = Current(l)
  OBVIOUS
<1>1. todo[l] # <<>> /\ Head(todo[l]).op = "handleClose"
  BY DEF HandleClose, IsAt
<1>2. /\ aborted' = "handleClose" /\ UNCHANGED conn
      /\ conn[c].state # "kConnected"
  BY DEF HandleClose, Running, Abort
<1>3. /\ Timely(Head(todo[l]), l) /\ Head(todo[l]).conn = c /\ c \in Conns
      /\ conn[c] \in ConnType /\ Anchored(c) /\ TypeOK
  BY <1>1, AtTimely, AtStep DEF Current, Lawful
<1>4. conn[c].state # "kConnecting" /\ (Kept(c) \/ Late(conn[c]))
  BY <1>1, <1>3 DEF Timely, HandlerNames
<1>5. conn[c].state = "kDisconnected"
  BY <1>2, <1>3, <1>4 DEF ConnType
<1>6. Kept(c) => conn[c].downs = 0
  <2>1. CASE c \in connections_
    BY <1>3, <2>1 DEF Anchored
  <2>2. CASE DestroyPending(c)
    <3> PICK x, m : x = Do("connectDestroyed", c) /\ m = conn[c].loop
      OBVIOUS
    <3>1. x.op = "connectDestroyed" /\ x.conn = c /\ m \in Loops
      BY <1>3 DEF Do, ConnType
    <3>2. x \in ToSet(Agenda(m))
      BY <1>3, <2>2, <3>1, AgendaIs DEF DestroyPending
    <3>3. Timely(x, m)
      BY <3>1, <3>2 DEF Orderly
    <3> QED
      BY <3>1, <3>3 DEF Timely
  <2> QED
    BY <2>1, <2>2 DEF Kept
<1> QED
  BY <1>2, <1>3, <1>4, <1>5, <1>6 DEF ShutDown

\* removeChannel aborts at a channel that late data enabled or kept registered.
LEMMA RemoveChannelExplained ==
  ASSUME Lawful, Orderly, Running, NEW l \in Loops, RemoveChannel(l), aborted' # "none"
  PROVE  /\ aborted' = "removeChannel" /\ UNCHANGED conn
         /\ \E c \in Conns : Late(conn[c])
<1> PICK c : c = Current(l)
  OBVIOUS
<1>1. todo[l] # <<>> /\ Head(todo[l]).op = "removeChannel"
  BY DEF RemoveChannel, IsAt
<1>2. /\ aborted' = "removeChannel" /\ UNCHANGED conn
      /\ ~removeChannelAsserts(conn[c].channel)
  BY DEF RemoveChannel, Running, Abort
<1>3. Timely(Head(todo[l]), l) /\ Head(todo[l]).conn = c /\ c \in Conns
  BY <1>1, AtTimely, AtStep DEF Current
<1>4. /\ conn[c].channel.events = {}
      /\ conn[c].channel.index = "kAdded" \/ conn[c].outputBuffer # <<>>
  BY <1>1, <1>3 DEF Timely
<1>5. Late(conn[c])
  BY <1>2, <1>4 DEF removeChannelAsserts, Late
<1> QED
  BY <1>2, <1>3, <1>5

\* removeConnectionInLoop aborts at a connection that was closed before: only
\* late data lets it be closed twice.
LEMMA RemoveConnectionInLoopExplained ==
  ASSUME Lawful, Orderly, Running, NEW l \in Loops, RemoveConnectionInLoop(l), aborted' # "none"
  PROVE  /\ aborted' = "removeConnectionInLoop" /\ UNCHANGED conn
         /\ \E c \in Conns : Late(conn[c])
<1> PICK c : c = Current(l)
  OBVIOUS
<1>1. todo[l] # <<>> /\ Head(todo[l]).op = "removeConnectionInLoop"
  BY DEF RemoveConnectionInLoop, IsAt
<1>2. aborted' = "removeConnectionInLoop" /\ UNCHANGED conn /\ c \notin connections_
  BY DEF RemoveConnectionInLoop, Running, Abort
<1>3. Timely(Head(todo[l]), l) /\ Head(todo[l]).conn = c /\ c \in Conns
  BY <1>1, AtTimely, AtStep DEF Current
<1>4. Stuck(conn[c])
  BY <1>1, <1>2, <1>3 DEF Timely
<1> QED
  BY <1>2, <1>3, <1>4 DEF Stuck

\* Only a functor bound to this, or a handler of late data, is run for a connection
\* that nobody keeps: connections_, or the batch its connectDestroyed is in, keeps it
\* for the others.
LEMMA UseDestroyedExplained ==
  ASSUME Lawful, Orderly, NEW l \in Loops, UseDestroyed(l)
  PROVE  Head(todo[l]).op \in {"sendInLoop", "shutdownInLoop"} \/ Late(conn[Current(l)])
<1> PICK c, s : c = Current(l) /\ s = Head(todo[l])
  OBVIOUS
<1>1. todo[l] # <<>> /\ c \notin Alive
  BY DEF UseDestroyed
<1>2. /\ s \in Step /\ s \in ToSet(todo[l]) /\ s.conn = c /\ c \in Conns /\ Timely(s, l) /\ Tidy(l)
      /\ TypeOK /\ conn[c] \in ConnType
  BY <1>1, HeadIs, AtTimely DEF Lawful, Orderly
<1>3. s.op \notin SharedOps
  BY <1>1, <1>2, HolderKeeps
<1> PICK x : x = Do("connectDestroyed", c)
  OBVIOUS
<1>4. x.op \in SharedOps /\ x.conn = c
  BY DEF Do, SharedOps
<1>5. \A m \in Loops : x \notin ToSet(todo[m]) \cup ToSet(functors[m]) \cup ToSet(batch[m])
  BY <1>1, <1>4, HolderKeeps
<1>6. s.op # "removeChannel"
  BY <1>2, <1>5 DEF Tidy
<1>7. ~Kept(c)
  <2>1. c \notin connections_
    BY <1>1 DEF Alive
  <2> PICK m \in Loops : m = conn[c].loop
    BY <1>2 DEF ConnType
  <2>2. ToSet(left[m]) \subseteq ToSet(batch[m])
    <3>1. Tidy(m)
      BY DEF Orderly
    <3> QED
      BY <3>1 DEF Tidy
  <2> QED
    BY <1>5, <2>1, <2>2 DEF Kept, DestroyPending
<1>8. s.op \in HandlerNames => Late(conn[c])
  BY <1>2, <1>7 DEF Timely
<1> QED
  BY <1>2, <1>3, <1>6, <1>8 DEF Step, RawOps, HandlerNames

\* Where a failed assertion comes from.
LEMMA WhoAborts ==
  ASSUME Running, Next, aborted' # "none"
  PROVE  \E l \in Loops :
           \/ ConnectEstablished(l) \/ ConnectDestroyed(l) \/ RemoveChannel(l) \/ HandleClose(l)
           \/ RemoveConnectionInLoop(l) \/ (UseDestroyed(l) /\ UNCHANGED serverVars)
<1>1. ASSUME NEW l \in Loops, LoopMachinery(l) PROVE FALSE
  BY <1>1 DEF LoopMachinery, Poll, Dispatch, SwapPending, RunFunctor, FunctorsDone, Running
<1>2. ASSUME NEW l \in Loops, ConnStep(l)
      PROVE  ConnectEstablished(l) \/ ConnectDestroyed(l) \/ RemoveChannel(l) \/ HandleClose(l)
  <2>1. ~HandleRead(l) /\ ~HandleWrite(l) /\ ~HandleError(l)
    BY DEF HandleRead, HandleWrite, HandleError, Running
  <2>2. ~SendInLoop(l) /\ ~ShutdownInLoop(l) /\ ~CallbackReturns(l)
    BY DEF SendInLoop, ShutdownInLoop, CallbackReturns, Running
  <2> QED
    BY <1>2, <2>1, <2>2 DEF ConnStep
<1>3. ~Application
  BY DEF Application, AppSend, AppShutdown, AppShares, UserQueues, UserTestsState, UserReleases,
         Running
<1>4. \A c \in Conns : ~Peer(c) /\ ~NewConnection(c)
  BY DEF Peer, PeerSends, PeerReads, PeerCloses, PeerResets, NewConnection, Running
<1>5. \A l \in Loops : ~RemoveConnection(l)
  BY DEF RemoveConnection, Running
<1> QED
  BY <1>1, <1>2, <1>3, <1>4, <1>5 DEF Next, LoopStep, ConnHandler

\* The program stops at the first failed assertion.
LEMMA StopsThere ==
  ASSUME ~Running
  PROVE  ~Next
<1>1. \A l \in Loops : ~LoopMachinery(l)
  BY DEF LoopMachinery, Poll, Dispatch, SwapPending, RunFunctor, FunctorsDone, Idle
<1>2. \A l \in Loops : ~ConnStep(l)
  BY DEF ConnStep, ConnectEstablished, ConnectDestroyed, RemoveChannel, HandleRead, HandleWrite,
         HandleClose, HandleError, SendInLoop, ShutdownInLoop, CallbackReturns, IsAt
<1>3. ~Application
  BY DEF Application, AppSend, AppShutdown, AppShares, UserQueues, UserTestsState, UserReleases,
         IsAt
<1>4. \A c \in Conns : ~Peer(c) /\ ~NewConnection(c)
  BY DEF Peer, PeerSends, PeerReads, PeerCloses, PeerResets, NewConnection, Idle
<1>5. \A l \in Loops : ~RemoveConnection(l) /\ ~RemoveConnectionInLoop(l) /\ ~UseDestroyed(l)
  BY DEF RemoveConnection, RemoveConnectionInLoop, UseDestroyed, IsAt
<1> QED
  BY <1>1, <1>2, <1>3, <1>4, <1>5 DEF Next, LoopStep, ConnHandler

\* A step that stops the program stops it at such a connection.
LEMMA StepExplained ==
  ASSUME Lawful, Orderly, AbortsExplained, [Next]_vars
  PROVE  AbortsExplained'
<1>1. CASE UNCHANGED vars
  <2>1. UNCHANGED <<conn, todo, functors, batch, connections_, uref, aborted>>
    BY <1>1 DEF vars, loopVars, userVars
  <2>2. Alive' = Alive
    BY <2>1 DEF Alive, Held
  <2> QED
    BY <2>1, <2>2 DEF AbortsExplained, Current
<1>2. CASE Next /\ aborted' = "none"
  BY <1>2 DEF AbortsExplained
<1>3. CASE Next /\ aborted' # "none"
  <2>1. Running
    BY <1>3, StopsThere
  <2>2. PICK l \in Loops :
           \/ ConnectEstablished(l) \/ ConnectDestroyed(l) \/ RemoveChannel(l) \/ HandleClose(l)
           \/ RemoveConnectionInLoop(l) \/ (UseDestroyed(l) /\ UNCHANGED serverVars)
    BY <1>3, <2>1, WhoAborts
  <2>3. ~ConnectEstablished(l)
    BY <1>3, <2>1, ConnectEstablishedExplained
  <2>4. CASE ConnectDestroyed(l)
    <3>1. /\ aborted' = "connectDestroyed" /\ UNCHANGED conn
          /\ \E c \in Conns : ShutDown(conn[c])
      BY <1>3, <2>1, <2>4, ConnectDestroyedExplained
    <3> QED
      BY <3>1 DEF AbortsExplained, ShutDown
  <2>5. CASE HandleClose(l)
    <3>1. /\ aborted' = "handleClose" /\ UNCHANGED conn
          /\ \E c \in Conns : ShutDown(conn[c]) \/ Late(conn[c])
      BY <1>3, <2>1, <2>5, HandleCloseExplained
    <3> QED
      BY <3>1 DEF AbortsExplained, ShutDown
  <2>6. CASE RemoveChannel(l)
    <3>1. aborted' = "removeChannel" /\ UNCHANGED conn /\ \E c \in Conns : Late(conn[c])
      BY <1>3, <2>1, <2>6, RemoveChannelExplained
    <3> QED
      BY <3>1 DEF AbortsExplained
  <2>7. CASE RemoveConnectionInLoop(l)
    <3>1. /\ aborted' = "removeConnectionInLoop" /\ UNCHANGED conn
          /\ \E c \in Conns : Late(conn[c])
      BY <1>3, <2>1, <2>7, RemoveConnectionInLoopExplained
    <3> QED
      BY <3>1 DEF AbortsExplained
  <2>8. CASE UseDestroyed(l) /\ UNCHANGED serverVars
    <3>1. Head(todo[l]).op \in {"sendInLoop", "shutdownInLoop"} \/ Late(conn[Current(l)])
      BY <2>8, UseDestroyedExplained
    <3>2. /\ todo[l] # <<>> /\ Current(l) \notin Alive /\ aborted' = "destroyed"
          /\ UNCHANGED <<conn, todo, functors, batch, connections_, uref>>
      BY <2>8 DEF UseDestroyed, Abort, loopVars, userVars, serverVars
    <3>3. Alive' = Alive
      BY <3>2 DEF Alive, Held
    <3>4. /\ todo'[l] # <<>> /\ Head(todo'[l]).conn \notin Alive'
          /\ Head(todo'[l]).op \in {"sendInLoop", "shutdownInLoop"} \/ Late(conn'[Head(todo'[l]).conn])
      BY <3>1, <3>2, <3>3 DEF Current
    <3> QED
      BY <3>2, <3>4 DEF AbortsExplained, Current
  <2> QED
    BY <2>2, <2>3, <2>4, <2>5, <2>6, <2>7, <2>8
<1> QED
  BY <1>1, <1>2, <1>3

\* Only what AbortsExplained names stops the program: a connection that was shut
\* down is closed, or a send that came too late leaves data in the buffer of a
\* connection whose channel is disabled, or a functor holds no pointer.
THEOREM AbortsAreExplained == Spec => []AbortsExplained
<1> DEFINE J == Lawful /\ Orderly /\ AbortsExplained
<1>1. Init => J
  BY InitLawful, InitOrderly DEF AbortsExplained, Init, ConnInit
<1>2. J /\ [Next]_vars => J'
  BY StepLawful, StepOrderly, StepExplained
<1>3. J => AbortsExplained
  OBVIOUS
<1> QED
  BY <1>1, <1>2, <1>3, PTL DEF Spec
=============================================================================
