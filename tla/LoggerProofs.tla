---------------------------- MODULE LoggerProofs ----------------------------
(***************************************************************************)
(* The log lines of Logger and the fate of FATAL messages, for any number  *)
(* of threads, levels, pieces and statements and any width of an int.      *)
(*                                                                         *)
(* Between ~Logger's write of a FATAL line and its g_flush other threads   *)
(* run, and the main thread may be in AsyncLogging::start.  The argument   *)
(* is that only the main thread finds the AsyncLogging, that start() and a *)
(* statement of the main thread exclude each other, and that the outputs   *)
(* are never changed back (OutputFollows, FatalFollows in ControlInv).     *)
(*                                                                         *)
(* A line is a fold of Put over its pieces, a number the recursion of      *)
(* convert's loop.  That both are what their equations say is shown by     *)
(* induction on numbers, whose principle (NatInd) comes from the least     *)
(* element of a set (NatMin): a solution of the equations exists, and what *)
(* CHOOSE picks is one.  The room a number takes is then counted in powers *)
(* of ten, as the code's static_assert does, the room a line takes piece   *)
(* by piece (PutIs), and LinesInv says what every line holds by then.      *)
(***************************************************************************)
EXTENDS Logger, SequenceTheorems, WellFoundedInduction, TLAPS

\* What the invariant says while the program runs.
RunningInv == Running /\ TypeOK /\ OutputFollows /\ FatalFollows

\* It is ControlInv then, whose FatalFlushed is about the end of the program.
LEMMA InvIs ==
  /\ ControlInv /\ Running => RunningInv
  /\ RunningInv => ControlInv
  /\ ControlInv => TypeOK /\ FatalFlushed
<1>1. Running => FatalFlushed
  BY DEF Running, FatalFlushed
<1> QED
  BY <1>1 DEF ControlInv, RunningInv, Running

\* The same of the next state.
LEMMA InvIsNext == RunningInv' => ControlInv'
BY InvIs, PTL

\* Nothing is logged, both outputs are stdout.
LEMMA InitInv == Init => ControlInv
<1> SUFFICES ASSUME Init PROVE ControlInv
  OBVIOUS
<1>1. Main \in Threads /\ 0 \in 0..MaxPieces /\ 0 \in 0..MaxStatements
  BY LoggerAssumption
<1>2. g_logLevel \in 0..FATAL
  BY DEF Init, FATAL, INFO
<1>3. TypeOK
  BY <1>1, <1>2 DEF Init, TypeOK
<1>4. OutputFollows /\ FatalFollows
  BY <1>1 DEF Init, OutputFollows, FatalFollows
<1> QED
  BY <1>3, <1>4, InvIs DEF Init, RunningInv, Running

\* A statement before its line is finished.
LEMMA StatementInv ==
  ASSUME RunningInv, NEW t \in Threads,
         \/ \E m \in DOMAIN Macros, errno \in ErrnoValues : Begin(t, m, errno)
         \/ \E p \in UserPieces : Stream(t, p)
  PROVE  RunningInv'
<1>1. /\ UNCHANGED <<globalVars, process, sink, stopped>>
      /\ \/ pc' = [pc EXCEPT ![t] = "stream"] /\ pc[t] = "idle"
         \/ pc' = pc
  BY DEF Begin, Stream, sinkVars
<1>2. TypeOK'
  <2>1. CASE \E m \in DOMAIN Macros, errno \in ErrnoValues : Begin(t, m, errno)
    <3>1. PICK m \in DOMAIN Macros, errno \in ErrnoValues : Begin(t, m, errno)
      BY <2>1
    <3>2. statements' \in 0..MaxStatements /\ pieces' = pieces
      BY <3>1, LoggerAssumption DEF Begin, RunningInv, TypeOK
    <3>3. fatal' \in [Threads -> BOOLEAN]
      <4> DEFINE f == Macros[m].level = FATAL
      <4>1. f \in BOOLEAN
        OBVIOUS
      <4>2. fatal' = [fatal EXCEPT ![t] = f]
        BY <3>1 DEF Begin
      <4> HIDE DEF f
      <4> QED
        BY <4>1, <4>2 DEF RunningInv, TypeOK
    <3> QED
      BY <1>1, <3>2, <3>3 DEF RunningInv, TypeOK, globalVars
  <2>2. CASE \E p \in UserPieces : Stream(t, p)
    <3>1. /\ pieces' = [pieces EXCEPT ![t] = @ + 1] /\ pieces[t] < MaxPieces
          /\ UNCHANGED <<fatal, statements>>
      BY <2>2 DEF Stream
    <3>2. pieces' \in [Threads -> 0..MaxPieces]
      BY <3>1, LoggerAssumption DEF RunningInv, TypeOK
    <3> QED
      BY <1>1, <3>1, <3>2 DEF RunningInv, TypeOK, globalVars
  <2> QED
    BY <2>1, <2>2
<1>3. CASE pc' = pc
  BY <1>1, <1>2, <1>3 DEF RunningInv, Running, OutputFollows, FatalFollows, globalVars
<1>4. CASE pc' = [pc EXCEPT ![t] = "stream"] /\ pc[t] = "idle"
  <2>1. \A u \in Threads : pc'[u] = pc[u] \/ (u = t /\ pc'[u] = "stream")
    BY <1>4 DEF RunningInv, TypeOK
  <2>2. pc'[Main] = "starting" <=> pc[Main] = "starting"
    BY <1>4, <2>1, LoggerAssumption
  <2>3. OutputFollows'
    BY <1>1, <2>2 DEF RunningInv, OutputFollows, globalVars
  <2>4. FatalFollows'
    BY <1>1, <2>1, LoggerAssumption DEF RunningInv, FatalFollows, globalVars
  <2> QED
    BY <1>1, <1>2, <2>3, <2>4 DEF RunningInv, Running
<1> QED
  BY <1>1, <1>3, <1>4

\* ~Logger's write.  A crash is a thread's that has no pointer; the main thread
\* has one when the output is the AsyncLogging.
LEMMA FinishInv ==
  ASSUME RunningInv, NEW t \in Threads, Finish(t)
  PROVE  ControlInv'
<1>1. /\ pc[t] = "stream"
      /\ pc' = [pc EXCEPT ![t] = IF fatal[t] THEN "flush" ELSE "idle"]
      /\ pieces' = [pieces EXCEPT ![t] = 0] /\ sink' = [sink EXCEPT ![t] = g_output]
      /\ UNCHANGED <<g_logLevel, g_output, g_flush, g_asyncLog, fatal, statements, stopped>>
  BY DEF Finish, globalVars
<1>2. \/ process' = process /\ (g_output = "async" => HasLog(t))
      \/ process' = [state |-> "crashed", by |-> t] /\ g_output = "async" /\ ~HasLog(t)
  BY DEF Finish, Crash, RunningInv, TypeOK
<1>3. TypeOK'
  <2>1. process' \in [state : {"running", "aborted", "crashed"}, by : Threads]
    BY <1>2 DEF RunningInv, TypeOK
  <2>2. /\ pieces' \in [Threads -> 0..MaxPieces]
        /\ sink' \in [Threads -> {"none", "stdout", "async"}]
        /\ pc' \in [Threads -> {"idle", "stream", "flush", "starting"}]
    BY <1>1, LoggerAssumption DEF RunningInv, TypeOK
  <2> QED
    BY <1>1, <2>1, <2>2 DEF RunningInv, TypeOK
<1>4. CASE process' = process /\ (g_output = "async" => HasLog(t))
  <2>1. g_output = "async" => t = Main
    BY <1>4 DEF HasLog, RunningInv, TypeOK
  <2>2. OutputFollows'
    BY <1>1 DEF RunningInv, TypeOK, OutputFollows
  <2>3. \A u \in Threads :
          pc'[u] = "flush" => sink'[u] = "stdout" \/ (sink'[u] = "async" /\ u = Main)
    BY <1>1, <2>1 DEF RunningInv, TypeOK, FatalFollows
  <2>4. pc'[Main] = "flush" => sink'[Main] = g_flush'
    BY <1>1 DEF RunningInv, TypeOK, FatalFollows, OutputFollows
  <2>5. \A u \in Threads : pc'[u] = "starting" => u = Main
    BY <1>1 DEF RunningInv, TypeOK, FatalFollows
  <2>6. RunningInv'
    BY <1>3, <1>4, <2>2, <2>3, <2>4, <2>5 DEF RunningInv, Running, FatalFollows
  <2> QED
    BY <2>6, InvIsNext
<1>5. CASE process' = [state |-> "crashed", by |-> t] /\ g_output = "async" /\ ~HasLog(t)
  <2>1. t # Main
    BY <1>5 DEF HasLog, RunningInv, OutputFollows
  <2> QED
    BY <1>3, <1>5, <2>1 DEF ControlInv, FatalFlushed
<1> QED
  BY <1>2, <1>4, <1>5

\* ~Logger's g_flush and abort.
LEMMA FlushInv ==
  ASSUME RunningInv, NEW t \in Threads, FlushAndAbort(t)
  PROVE  ControlInv'
<1>1. /\ pc[t] = "flush" /\ UNCHANGED <<globalVars, threadVars, statements, stdout>>
      /\ sink[t] = "stdout" \/ (sink[t] = "async" /\ t = Main)
      /\ t = Main => sink[t] = g_flush /\ g_flush = g_output
  BY DEF FlushAndAbort, RunningInv, FatalFollows, OutputFollows
<1>2. CASE /\ g_flush = "stdout" /\ flushed' = Len(stdout)
           /\ process' = [state |-> "aborted", by |-> t] /\ stopped' = stopped
  <2>1. sink[t] = "stdout"
    BY <1>1, <1>2
  <2>2. FatalFlushed'
    BY <1>1, <1>2, <2>1 DEF FatalFlushed, threadVars
  <2>3. TypeOK'
    BY <1>1, <1>2 DEF RunningInv, TypeOK, globalVars, threadVars
  <2> QED
    BY <1>2, <2>2, <2>3 DEF ControlInv
<1>3. CASE /\ g_flush = "async" /\ HasLog(t) /\ stopped' = TRUE
           /\ process' = [state |-> "aborted", by |-> t]
  <2>1. t = Main
    BY <1>3 DEF HasLog, RunningInv, TypeOK
  <2>2. FatalFlushed'
    BY <1>1, <1>3, <2>1 DEF FatalFlushed, threadVars
  <2>3. TypeOK'
    BY <1>1, <1>3 DEF RunningInv, TypeOK, globalVars, threadVars
  <2> QED
    BY <1>3, <2>2, <2>3 DEF ControlInv
<1>4. CASE /\ g_flush = "async" /\ ~HasLog(t) /\ stopped' = stopped
           /\ process' = [state |-> "crashed", by |-> t]
  <2>1. t # Main
    BY <1>1, <1>4 DEF HasLog, RunningInv, OutputFollows
  <2>2. TypeOK'
    BY <1>1, <1>4 DEF RunningInv, TypeOK, globalVars, threadVars
  <2> QED
    BY <1>4, <2>1, <2>2 DEF ControlInv, FatalFlushed
<1> QED
  BY <1>2, <1>3, <1>4 DEF FlushAndAbort, Crash

\* The main thread between its statements.
LEMMA MainInv ==
  ASSUME RunningInv,
         Construct \/ SetOutput \/ SetFlush \/ \E l \in Levels : SetLogLevel(l)
  PROVE  RunningInv'
<1>1. Main \in Threads /\ UNCHANGED <<process, fatal, pieces, sink, statements, stopped>>
  BY LoggerAssumption DEF Construct, SetOutput, SetFlush, SetLogLevel, threadVars, sinkVars
<1>2. CASE Construct
  <2>1. g_asyncLog' = {Main} /\ UNCHANGED <<g_logLevel, g_output, g_flush, pc>>
    BY <1>2 DEF Construct, threadVars
  <2>2. TypeOK' /\ OutputFollows' /\ FatalFollows'
    BY <1>1, <2>1 DEF RunningInv, TypeOK, OutputFollows, FatalFollows
  <2> QED
    BY <1>1, <2>2 DEF RunningInv, Running
<1>3. CASE SetOutput
  <2>1. /\ pc[Main] = "idle" /\ g_asyncLog # {} /\ g_output = "stdout" /\ g_output' = "async"
        /\ pc' = [pc EXCEPT ![Main] = "starting"] /\ UNCHANGED <<g_logLevel, g_flush, g_asyncLog>>
    BY <1>3 DEF SetOutput, MainIdle
  <2>2. TypeOK'
    BY <1>1, <2>1 DEF RunningInv, TypeOK
  <2>3. OutputFollows' /\ FatalFollows'
    BY <1>1, <2>1 DEF RunningInv, TypeOK, OutputFollows, FatalFollows
  <2> QED
    BY <1>1, <2>2, <2>3 DEF RunningInv, Running
<1>4. CASE SetFlush
  <2>1. /\ pc[Main] = "starting" /\ g_flush' = "async" /\ pc' = [pc EXCEPT ![Main] = "idle"]
        /\ UNCHANGED <<g_logLevel, g_output, g_asyncLog>>
    BY <1>4 DEF SetFlush
  <2>2. TypeOK'
    BY <1>1, <2>1 DEF RunningInv, TypeOK
  <2>3. OutputFollows' /\ FatalFollows'
    BY <1>1, <2>1 DEF RunningInv, TypeOK, OutputFollows, FatalFollows
  <2> QED
    BY <1>1, <2>2, <2>3 DEF RunningInv, Running
<1>5. CASE \E l \in Levels : SetLogLevel(l)
  <2>1. /\ g_logLevel' \in Levels
        /\ UNCHANGED <<g_output, g_flush, g_asyncLog, pc>>
    BY <1>5 DEF SetLogLevel, threadVars
  <2>2. g_logLevel' \in 0..FATAL
    BY <2>1, LoggerAssumption DEF FATAL
  <2>3. TypeOK' /\ OutputFollows' /\ FatalFollows'
    BY <1>1, <2>1, <2>2 DEF RunningInv, TypeOK, OutputFollows, FatalFollows
  <2> QED
    BY <1>1, <2>3 DEF RunningInv, Running
<1> QED
  BY <1>2, <1>3, <1>4, <1>5

\* Every step keeps the control state.
LEMMA NextInv == ControlInv /\ [Next]_vars => ControlInv'
<1> SUFFICES ASSUME ControlInv, [Next]_vars PROVE ControlInv'
  OBVIOUS
<1>1. CASE Next
  <2>1. RunningInv
    <3>1. Running
      BY <1>1 DEF Next, Begin, Stream, Finish, FlushAndAbort, Construct, SetOutput, SetFlush,
                  SetLogLevel, MainIdle
    <3> QED
      BY <3>1, InvIs
  <2>2. CASE \E t \in Threads :
               \/ \E m \in DOMAIN Macros, errno \in ErrnoValues : Begin(t, m, errno)
               \/ \E p \in UserPieces : Stream(t, p)
    BY <2>1, <2>2, StatementInv, InvIsNext
  <2>3. CASE \E t \in Threads : Finish(t) \/ FlushAndAbort(t)
    BY <2>1, <2>3, FinishInv, FlushInv
  <2>4. CASE Construct \/ SetOutput \/ SetFlush \/ \E l \in Levels : SetLogLevel(l)
    BY <2>1, <2>4, MainInv, InvIsNext
  <2> QED
    BY <1>1, <2>2, <2>3, <2>4 DEF Next
<1>2. CASE UNCHANGED vars
  BY <1>2 DEF vars, globalVars, threadVars, sinkVars, ControlInv, TypeOK, FatalFlushed, OutputFollows,
              FatalFollows
<1> QED
  BY <1>1, <1>2

-----------------------------------------------------------------------------
(* Folds and powers.                                                       *)

\* A set of numbers has a least one.
LEMMA NatMin ==
  ASSUME NEW T, T \subseteq Nat, T # {}
  PROVE  \E x \in T : \A y \in T : x <= y
<1> DEFINE R == OpToRel(<, Nat)
<1>1. IsWellFoundedOn(R, Nat)
  BY NatLessThanWellFounded
<1>2. R = {ss \in Nat \X Nat : ss[1] < ss[2]}
  BY DEF OpToRel
<1> HIDE DEF R
<1>3. PICK x \in T : \A y \in T : <<y, x>> \notin R
  BY <1>1, WFMin
<1>4. ASSUME NEW y \in T, y < x PROVE FALSE
  <2>1. <<y, x>> \in Nat \X Nat /\ <<y, x>>[1] = y /\ <<y, x>>[2] = x
    OBVIOUS
  <2>2. <<y, x>> \in R
    BY <1>2, <1>4, <2>1
  <2> QED
    BY <1>3, <2>2
<1>5. \A y \in T : x <= y
  BY <1>4
<1> QED
  BY <1>5

\* Induction over the numbers, as a fact about a set of them.
LEMMA NatInd ==
  ASSUME NEW S, 0 \in S, \A n \in Nat : n \in S => n + 1 \in S
  PROVE  Nat \subseteq S
<1> DEFINE T == {n \in Nat : n \notin S}
<1>1. SUFFICES ASSUME T # {} PROVE FALSE
  OBVIOUS
<1>2. PICK x \in T : \A y \in T : x <= y
  <2>1. T \subseteq Nat
    OBVIOUS
  <2> HIDE DEF T
  <2> QED
    BY <1>1, <2>1, NatMin
<1>3. x \in Nat /\ x \notin S /\ x # 0
  BY <1>2
<1>4. x - 1 \in Nat /\ x - 1 \in S
  BY <1>2, <1>3
<1>5. (x - 1) + 1 \in S /\ (x - 1) + 1 = x
  BY <1>3, <1>4
<1> QED
  BY <1>3, <1>5

\* Max, a CHOOSE, is the greatest element.
LEMMA MaxIs ==
  ASSUME NEW n \in Nat, NEW s \in SUBSET (1..n), s # {}
  PROVE  Max(s) \in s /\ \A y \in s : y <= Max(s)
<1> DEFINE T == {m \in Nat : \A y \in s : y <= m}
<1>1. n \in T /\ T \subseteq Nat
  OBVIOUS
<1> HIDE DEF T
<1>2. PICK m \in T : \A y \in T : m <= y
  BY <1>1, NatMin
<1>3. m \in Nat /\ \A y \in s : y <= m
  BY <1>2 DEF T
<1>4. m \in s
  <2>1. SUFFICES ASSUME m \notin s PROVE FALSE
    OBVIOUS
  <2>2. PICK z \in s : TRUE
    OBVIOUS
  <2>3. \A y \in s : y \in Nat /\ y <= m /\ y # m
    BY <1>3, <2>1
  <2>4. m - 1 \in Nat /\ \A y \in s : y <= m - 1
    BY <1>3, <2>2, <2>3
  <2>5. m - 1 \in T
    BY <2>4 DEF T
  <2> QED
    BY <1>2, <1>3, <2>5
<1>5. \E x \in s : \A y \in s : x >= y
  BY <1>3, <1>4
<1>6. Max(s) \in s /\ \A y \in s : Max(s) >= y
  BY <1>5 DEF Max
<1> QED
  BY <1>6

\* f folds G over the sets of the first k indices, the largest index last.
FoldsTo(f, V, base, G, k) ==
  /\ f \in [SUBSET (1..k) -> V]
  /\ \A s \in SUBSET (1..k) :
       f[s] = IF s = {} THEN base ELSE G[<<Max(s), f[s \ {Max(s)}]>>]
HasFold(V, base, G, k) == \E f : FoldsTo(f, V, base, G, k)

\* A fold over k positions goes on to one more.
LEMMA FoldGrows ==
  ASSUME NEW V, NEW base \in V, NEW n \in Nat, NEW G \in [(1..n) \X V -> V],
         NEW k \in Nat, k + 1 <= n, NEW f, FoldsTo(f, V, base, G, k)
  PROVE  HasFold(V, base, G, k + 1)
<1> DEFINE g == [s \in SUBSET (1..(k + 1)) |->
                   IF k + 1 \in s THEN G[<<k + 1, f[s \ {k + 1}]>>] ELSE f[s]]
<1>1. f \in [SUBSET (1..k) -> V]
  BY DEF FoldsTo
<1>2. ASSUME NEW s \in SUBSET (1..(k + 1))
      PROVE  /\ g[s] \in V
             /\ g[s] = IF s = {} THEN base ELSE G[<<Max(s), g[s \ {Max(s)}]>>]
  <2>1. CASE k + 1 \in s
    <3> DEFINE t == s \ {k + 1}
    <3>1. t \in SUBSET (1..k) /\ t \in SUBSET (1..(k + 1)) /\ k + 1 \notin t
      OBVIOUS
    <3> HIDE DEF t
    <3>2. g[t] = f[t] /\ f[t] \in V
      BY <1>1, <3>1
    <3>3. g[s] = G[<<k + 1, f[t]>>]
      BY <2>1 DEF t
    <3>4. Max(s) = k + 1
      <4>1. k + 1 \in Nat /\ s # {}
        BY <2>1
      <4>2. Max(s) \in s /\ \A y \in s : y <= Max(s)
        BY <4>1, MaxIs
      <4> PICK m : m = Max(s)
        OBVIOUS
      <4>3. m \in 1..(k + 1) /\ k + 1 <= m
        BY <2>1, <4>2
      <4> QED
        BY <4>3
    <3>5. <<k + 1, f[t]>> \in (1..n) \X V
      BY <3>2
    <3>6. G[<<k + 1, f[t]>>] \in V
      BY <3>5
    <3>7. s # {} /\ g[s] = G[<<Max(s), g[s \ {Max(s)}]>>]
      <4> HIDE DEF g
      <4> QED
        BY <2>1, <3>2, <3>3, <3>4 DEF t
    <3> HIDE DEF g
    <3> QED
      BY <3>3, <3>6, <3>7
  <2>2. CASE k + 1 \notin s
    <3>1. s \in SUBSET (1..k)
      BY <2>2
    <3>2. g[s] = f[s] /\ f[s] \in V
      BY <1>1, <2>2, <3>1
    <3>3. f[s] = IF s = {} THEN base ELSE G[<<Max(s), f[s \ {Max(s)}]>>]
      BY <3>1 DEF FoldsTo
    <3> DEFINE t == s \ {Max(s)}
    <3>4. g[t] = f[t]
      <4>1. t \in SUBSET (1..k) /\ t \in SUBSET (1..(k + 1)) /\ k + 1 \notin t
        BY <2>2, <3>1
      <4> HIDE DEF t
      <4> QED
        BY <4>1
    <3> HIDE DEF g
    <3> QED
      BY <3>2, <3>3, <3>4
  <2> QED
    BY <2>1, <2>2
<1>3. DOMAIN g = SUBSET (1..(k + 1)) /\ g = [s \in DOMAIN g |-> g[s]]
  OBVIOUS
<1> HIDE DEF g
<1>4. g \in [SUBSET (1..(k + 1)) -> V]
  BY <1>2, <1>3
<1>5. FoldsTo(g, V, base, G, k + 1)
  BY <1>2, <1>4 DEF FoldsTo
<1> QED
  BY <1>5 DEF HasFold

\* A fold over a sequence exists: its recursive definition has a solution.
LEMMA FoldExists ==
  ASSUME NEW V, NEW base \in V, NEW n \in Nat, NEW G \in [(1..n) \X V -> V]
  PROVE  HasFold(V, base, G, n)
<1> DEFINE S == {k \in Nat : k <= n => HasFold(V, base, G, k)}
<1>1. 0 \in S
  <2>1. 1..0 = {} /\ SUBSET (1..0) = {{}}
    OBVIOUS
  <2> DEFINE f == [s \in SUBSET (1..0) |-> base]
  <2>2. f \in [SUBSET (1..0) -> V] /\ \A s \in SUBSET (1..0) : s = {} /\ f[s] = base
    BY <2>1
  <2> HIDE DEF f
  <2>3. FoldsTo(f, V, base, G, 0)
    BY <2>2 DEF FoldsTo
  <2>4. HasFold(V, base, G, 0)
    BY <2>3 DEF HasFold
  <2> QED
    BY <2>4
<1>2. ASSUME NEW k \in Nat, k \in S PROVE k + 1 \in S
  <2>1. ASSUME k + 1 <= n PROVE HasFold(V, base, G, k + 1)
    <3>1. PICK f : FoldsTo(f, V, base, G, k)
      BY <1>2, <2>1 DEF HasFold
    <3> QED
      BY <2>1, <3>1, FoldGrows
  <2> QED
    BY <2>1
<1>3. Nat \subseteq S
  <2> HIDE DEF S
  <2> QED
    BY <1>1, <1>2, NatInd
<1> QED
  BY <1>3


\* The powers of ten.
LEMMA TensAre ==
  /\ tens[0] = 1
  /\ \A n \in 1..kMaxNumericSize : tens[n] = 10 * tens[n - 1]
<1> DEFINE K == kMaxNumericSize
           Pow(f, k) == f = [n \in 0..k |-> IF n = 0 THEN 1 ELSE 10 * f[n - 1]]
           S == {k \in Nat : \E f : Pow(f, k)}
<1>1. 0 \in S
  <2> DEFINE f == [n \in 0..0 |-> 1]
  <2>1. Pow(f, 0)
    OBVIOUS
  <2> QED
    BY <2>1
<1>2. ASSUME NEW k \in Nat, k \in S PROVE k + 1 \in S
  <2>1. PICK f : Pow(f, k)
    BY <1>2
  <2> DEFINE g == [n \in 0..(k + 1) |-> IF n = k + 1 THEN 10 * f[k] ELSE f[n]]
  <2>2. ASSUME NEW n \in 0..(k + 1) PROVE g[n] = IF n = 0 THEN 1 ELSE 10 * g[n - 1]
    <3>1. CASE n = k + 1
      <4>1. n # 0 /\ g[n] = 10 * f[k] /\ g[n - 1] = f[k]
        BY <3>1
      <4> HIDE DEF g
      <4> QED
        BY <4>1
    <3>2. CASE n # k + 1
      <4>1. n \in 0..k /\ g[n] = f[n] /\ (n # 0 => g[n - 1] = f[n - 1])
        BY <3>2
      <4> HIDE DEF g
      <4>2. f[n] = IF n = 0 THEN 1 ELSE 10 * f[n - 1]
        BY <2>1, <4>1
      <4> QED
        BY <4>1, <4>2
    <3> QED
      BY <3>1, <3>2
  <2>3. DOMAIN g = 0..(k + 1) /\ g = [n \in DOMAIN g |-> g[n]]
    OBVIOUS
  <2> HIDE DEF g
  <2>4. Pow(g, k + 1)
    BY <2>2, <2>3
  <2> QED
    BY <2>4
<1>3. \E f : Pow(f, K)
  <2>1. Nat \subseteq S
    <3> HIDE DEF S
    <3> QED
      BY <1>1, <1>2, NatInd
  <2>2. K \in Nat
    BY LogStreamAssumption
  <2> QED
    BY <2>1, <2>2
<1>4. tens = CHOOSE f : Pow(f, K)
  BY DEF tens
<1> HIDE DEF Pow
<1>5. Pow(tens, K)
  BY <1>3, <1>4
<1>6. K \in Nat
  BY LogStreamAssumption
<1> QED
  BY <1>5, <1>6 DEF Pow

-----------------------------------------------------------------------------
(* The conversion of a number.                                             *)

Bases == {10, 16}
Int0 == IntMin..IntMax
Abs(i) == IF i < 0 THEN -i ELSE i

\* One turn of either loop, on a number that is not negative and on one that is.
LEMMA Turn ==
  ASSUME NEW b \in Bases, NEW i \in Int0
  PROVE  /\ Quot(i, b) \in Int0 /\ Rem(i, b) \in -(b - 1)..(b - 1)
         /\ Abs(i) \in Nat /\ Abs(Quot(i, b)) \in Nat
         /\ Abs(i) = b * Abs(Quot(i, b)) + Abs(Rem(i, b))
         /\ Abs(i) # 0 => Abs(Quot(i, b)) < Abs(i)
         /\ Quot(i, b) = 0 <=> Abs(Quot(i, b)) = 0
         /\ i >= 0 => Quot(i, b) >= 0 /\ Rem(i, b) >= 0
<1>1. i \in Int /\ IntMax \in Nat /\ IntMin = -IntMax - 1 /\ IntMin <= i /\ i <= IntMax
  BY LogStreamAssumption DEF IntMin, Int0
<1>2. ASSUME NEW n \in Nat
      PROVE  /\ n \div b \in Nat /\ n - b * (n \div b) \in 0..(b - 1)
             /\ n \div b <= n /\ (n # 0 => n \div b < n)
  <2>1. CASE b = 10
    <3>1. /\ n \div 10 \in Nat /\ n - 10 * (n \div 10) \in 0..9
          /\ n \div 10 <= n /\ (n # 0 => n \div 10 < n)
      OBVIOUS
    <3> QED
      BY <2>1, <3>1
  <2>2. CASE b = 16
    <3>1. /\ n \div 16 \in Nat /\ n - 16 * (n \div 16) \in 0..15
          /\ n \div 16 <= n /\ (n # 0 => n \div 16 < n)
      OBVIOUS
    <3> QED
      BY <2>2, <3>1
  <2> QED
    BY <2>1, <2>2 DEF Bases
<1>3. b \in Nat /\ b \in 10..16
  BY DEF Bases
<1>4. CASE i < 0
  <2> DEFINE n == -i
             q == n \div b
             p == b * q
  <2>1. n \in Nat /\ Quot(i, b) = -q /\ Abs(i) = n /\ n # 0
    BY <1>1, <1>4 DEF Quot, Abs
  <2>2. q \in Nat /\ n - p \in 0..(b - 1) /\ q < n /\ q <= n
    BY <1>2, <2>1
  <2>3. b * (-q) = -p /\ p \in Nat
    BY <1>3, <2>2
  <2>4. Rem(i, b) = i - b * Quot(i, b) /\ n = -i
    BY DEF Rem
  <2> HIDE DEF n, q, p
  <2>5. Rem(i, b) = -(n - p)
    BY <1>1, <2>1, <2>3, <2>4
  <2>6. Abs(Quot(i, b)) = q /\ (Quot(i, b) = 0 <=> q = 0)
    BY <2>1, <2>2 DEF Abs
  <2>7. Abs(Rem(i, b)) = n - p
    BY <1>3, <2>2, <2>3, <2>5 DEF Abs
  <2>8. Quot(i, b) \in Int0
    BY <1>1, <1>4, <2>1, <2>2, <2>4 DEF Int0
  <2>9. Rem(i, b) \in -(b - 1)..(b - 1)
    BY <1>3, <2>2, <2>5
  <2>10. n = p + (n - p)
    BY <2>1, <2>3
  <2>11. p = b * q
    BY DEF p
  <2> QED
    BY <1>1, <1>4, <2>1, <2>2, <2>6, <2>7, <2>8, <2>9, <2>10, <2>11
<1>5. CASE i >= 0
  <2> DEFINE q == i \div b
             p == b * q
  <2>1. i \in Nat /\ Quot(i, b) = q /\ Abs(i) = i
    BY <1>1, <1>5 DEF Quot, Abs
  <2>2. q \in Nat /\ i - p \in 0..(b - 1) /\ (i # 0 => q < i) /\ q <= i
    BY <1>2, <2>1
  <2>3. Rem(i, b) = i - p /\ p \in Nat
    BY <1>3, <2>1, <2>2 DEF Rem
  <2>11. p = b * q
    BY DEF p
  <2> HIDE DEF q, p
  <2>6. Abs(Quot(i, b)) = q
    BY <2>1, <2>2 DEF Abs
  <2>7. Abs(Rem(i, b)) = i - p
    BY <1>3, <2>2, <2>3 DEF Abs
  <2>8. Quot(i, b) \in Int0
    BY <1>1, <1>5, <2>1, <2>2 DEF Int0
  <2>9. Rem(i, b) \in -(b - 1)..(b - 1)
    BY <1>3, <2>2, <2>3
  <2>10. i = p + (i - p)
    BY <2>1, <2>3
  <2>12. Rem(i, b) >= 0 /\ Quot(i, b) >= 0
    BY <1>3, <2>1, <2>2, <2>3
  <2> QED
    BY <2>1, <2>2, <2>6, <2>7, <2>8, <2>9, <2>10, <2>11, <2>12
<1> QED
  BY <1>1, <1>4, <1>5

\* The digit a turn writes.
Digit(b, i) == IF b = 10 THEN zero(Rem(i, 10)) ELSE Rem(i, b)

\* The table of digits has those of negative remainders too.
LEMMA ZeroIs == \A d \in -9..9 : zero(d) = Abs(d)
<1>1. ASSUME NEW d \in -9..9 PROVE zero(d) = Abs(d)
  <2>1. \/ d = -9 \/ d = -8 \/ d = -7 \/ d = -6 \/ d = -5 \/ d = -4 \/ d = -3 \/ d = -2
        \/ d = -1 \/ d = 0 \/ d = 1 \/ d = 2 \/ d = 3 \/ d = 4 \/ d = 5 \/ d = 6 \/ d = 7
        \/ d = 8 \/ d = 9
    OBVIOUS
  <2> QED
    BY <2>1 DEF zero, digits, Abs
<1> QED
  BY <1>1

\* So a turn writes the absolute value of its remainder.
LEMMA DigitIs ==
  ASSUME NEW b \in Bases, NEW i \in Int0
  PROVE  /\ Digit(b, i) \in Int
         /\ b = 10 \/ i >= 0 => Digit(b, i) = Abs(Rem(i, b)) /\ Digit(b, i) \in 0..(b - 1)
<1>1. /\ Rem(i, b) \in -(b - 1)..(b - 1)
      /\ i >= 0 => Rem(i, b) >= 0
  BY Turn
<1>2. CASE b = 10
  <2>1. Rem(i, 10) \in -9..9
    BY <1>1, <1>2
  <2>2. Digit(b, i) = Abs(Rem(i, 10))
    BY <1>2, <2>1, ZeroIs DEF Digit
  <2>3. Abs(Rem(i, 10)) \in 0..9
    BY <2>1 DEF Abs
  <2> QED
    BY <1>2, <2>2, <2>3
<1>3. CASE b = 16
  <2>1. Digit(b, i) = Rem(i, b)
    BY <1>3 DEF Digit
  <2>2. Rem(i, b) \in -15..15
    BY <1>1, <1>3
  <2>3. i >= 0 => Rem(i, b) >= 0 /\ Abs(Rem(i, b)) = Rem(i, b)
    BY <1>1, <2>2 DEF Abs
  <2> QED
    BY <1>3, <2>1, <2>2, <2>3
<1> QED
  BY <1>2, <1>3 DEF Bases

\* f is the loop on the numbers whose absolute value is at most k.
Upto(k) == {i \in Int0 : Abs(i) <= k}
LoopsTo(f, b, k) ==
  /\ f \in [Upto(k) -> Seq(Int)]
  /\ \A i \in Upto(k) :
       f[i] = <<Digit(b, i)>> \o IF Quot(i, b) = 0 THEN <<>> ELSE f[Quot(i, b)]
HasLoop(b, k) == \E f : LoopsTo(f, b, k)

\* The quotient is nearer to zero, so its digits are there already.
LEMMA LoopGrows ==
  ASSUME NEW b \in Bases, NEW k \in Nat, NEW f, LoopsTo(f, b, k)
  PROVE  HasLoop(b, k + 1)
<1> DEFINE Rest(i) == IF Quot(i, b) = 0 THEN <<>> ELSE f[Quot(i, b)]
           g == [i \in Upto(k + 1) |-> IF i \in Upto(k) THEN f[i] ELSE <<Digit(b, i)>> \o Rest(i)]
<1>1. f \in [Upto(k) -> Seq(Int)]
  BY DEF LoopsTo
<1>2. ASSUME NEW i \in Upto(k + 1)
      PROVE  /\ g[i] \in Seq(Int)
             /\ g[i] = <<Digit(b, i)>> \o IF Quot(i, b) = 0 THEN <<>> ELSE g[Quot(i, b)]
  <2> DEFINE q == Quot(i, b)
  <2>1. i \in Int0 /\ q \in Int0 /\ Abs(i) \in Nat /\ Abs(q) \in Nat /\ Abs(i) <= k + 1
    BY Turn DEF Upto
  <2>2. q # 0 => Abs(q) <= k
    <3>1. Abs(i) # 0 => Abs(q) < Abs(i)
      BY <2>1, Turn
    <3>2. Abs(i) = b * Abs(q) + Abs(Rem(i, b)) /\ (q = 0 <=> Abs(q) = 0)
      BY <2>1, Turn
    <3>3. Abs(i) # 0 \/ q = 0
      <4>1. CASE Abs(i) = 0
        <5>1. i = 0
          BY <2>1, <4>1 DEF Abs, Int0
        <5>2. Quot(0, b) = 0
          BY DEF Quot, Bases
        <5> QED
          BY <5>1, <5>2
      <4> QED
        BY <4>1
    <3> HIDE DEF q
    <3> QED
      BY <2>1, <3>1, <3>3
  <2>3. q # 0 => q \in Upto(k) /\ q \in Upto(k + 1)
    BY <2>1, <2>2 DEF Upto
  <2> HIDE DEF q
  <2>4. q # 0 => g[q] = f[q]
    BY <2>3
  <2>5. f[q] \in Seq(Int) \/ q = 0
    BY <1>1, <2>3
  <2>6. Rest(i) = IF q = 0 THEN <<>> ELSE f[q]
    BY DEF q
  <2>7. Rest(i) = IF q = 0 THEN <<>> ELSE g[q]
    BY <2>4, <2>6
  <2>8. Rest(i) \in Seq(Int)
    <3> HIDE DEF Rest
    <3>1. <<>> \in Seq(Int)
      OBVIOUS
    <3> QED
      BY <2>5, <2>6, <3>1
  <2>9. <<Digit(b, i)>> \o Rest(i) \in Seq(Int)
    <3>1. Digit(b, i) \in Int
      BY <2>1, DigitIs
    <3> HIDE DEF Rest
    <3> QED
      BY <2>8, <3>1
  <2>10. i \in Upto(k) => f[i] = <<Digit(b, i)>> \o Rest(i)
    BY DEF LoopsTo
  <2>11. g[i] = <<Digit(b, i)>> \o Rest(i)
    BY <2>10
  <2> HIDE DEF g, Rest
  <2> QED
    BY <2>7, <2>9, <2>11 DEF q
<1>3. DOMAIN g = Upto(k + 1) /\ g = [i \in DOMAIN g |-> g[i]]
  OBVIOUS
<1> HIDE DEF g
<1>4. g \in [Upto(k + 1) -> Seq(Int)]
  BY <1>2, <1>3
<1>5. LoopsTo(g, b, k + 1)
  BY <1>2, <1>4 DEF LoopsTo
<1> QED
  BY <1>5 DEF HasLoop

\* By induction the loop ends on the numbers up to any.
LEMMA LoopExists ==
  ASSUME NEW b \in Bases
  PROVE  \A k \in Nat : HasLoop(b, k)
<1> DEFINE S == {k \in Nat : HasLoop(b, k)}
<1>1. 0 \in S
  <2> DEFINE f == [i \in Upto(0) |-> <<Digit(b, 0)>>]
  <2>1. Upto(0) = {0}
    <3>1. 0 \in Int0
      BY LogStreamAssumption DEF Int0, IntMin
    <3>2. \A i \in Int0 : i \in Int
      BY DEF Int0
    <3> QED
      BY <3>1, <3>2 DEF Upto, Abs
  <2>2. Digit(b, 0) \in Int
    BY <2>1, DigitIs DEF Upto
  <2>3. Quot(0, b) = 0
    BY DEF Quot, Bases
  <2>4. <<Digit(b, 0)>> \o <<>> = <<Digit(b, 0)>> /\ <<Digit(b, 0)>> \in Seq(Int)
    BY <2>2
  <2>5. f \in [Upto(0) -> Seq(Int)] /\ \A i \in Upto(0) : f[i] = <<Digit(b, 0)>>
    BY <2>4
  <2> HIDE DEF f
  <2>6. LoopsTo(f, b, 0)
    BY <2>1, <2>3, <2>4, <2>5 DEF LoopsTo
  <2> QED
    BY <2>6 DEF HasLoop
<1>2. ASSUME NEW k \in Nat, k \in S PROVE k + 1 \in S
  <2>1. PICK f : LoopsTo(f, b, k)
    BY <1>2 DEF HasLoop
  <2>2. HasLoop(b, k + 1)
    BY <2>1, LoopGrows
  <2> QED
    BY <2>2
<1>3. Nat \subseteq S
  <2> HIDE DEF S
  <2> QED
    BY <1>1, <1>2, NatInd
<1> QED
  BY <1>3

\* The digits of a number are its last one and those of the quotient.
LEMMA LoopIs ==
  ASSUME NEW b \in Bases, NEW i \in Int0
  PROVE  /\ Loop(b)[i] \in Seq(Int)
         /\ Loop(b)[i] = <<Digit(b, i)>>
                           \o IF Quot(i, b) = 0 THEN <<>> ELSE Loop(b)[Quot(i, b)]
<1> DEFINE Solves(f) == f = [j \in IntMin..IntMax |->
                               <<IF b = 10 THEN zero(Rem(j, 10)) ELSE Rem(j, b)>>
                                 \o IF Quot(j, b) = 0 THEN <<>> ELSE f[Quot(j, b)]]
           Same(f) == f = [j \in Int0 |->
                             <<Digit(b, j)>> \o IF Quot(j, b) = 0 THEN <<>> ELSE f[Quot(j, b)]]
<1>1. PICK m \in Nat : Upto(m) = Int0
  <2>1. IntMax + 1 \in Nat /\ \A j \in Int0 : Abs(j) <= IntMax + 1
    BY LogStreamAssumption DEF Int0, IntMin, Abs
  <2>2. Upto(IntMax + 1) = Int0
    BY <2>1 DEF Upto
  <2> QED
    BY <2>1, <2>2
<1>2. PICK h : LoopsTo(h, b, m)
  BY LoopExists DEF HasLoop
<1>3. Same(h)
  BY <1>1, <1>2 DEF LoopsTo
<1>4. Solves(h)
  BY <1>3 DEF Digit, Int0
<1> DEFINE loop == CHOOSE f : Solves(f)
<1>5. Solves(loop)
  BY <1>4
<1>6. Loop(b) = loop
  BY DEF Loop
<1> HIDE DEF loop
<1>7. Same(loop)
  BY <1>5 DEF Digit, Int0
<1>8. \A j \in Int0 :
        loop[j] = <<Digit(b, j)>> \o IF Quot(j, b) = 0 THEN <<>> ELSE loop[Quot(j, b)]
  BY <1>7
<1> HIDE DEF Solves, Same
<1>9. \A k \in Nat : \A j \in Upto(k) : loop[j] \in Seq(Int)
  <2> DEFINE S == {k \in Nat : \A j \in Upto(k) : loop[j] \in Seq(Int)}
  <2>1. ASSUME NEW j \in Int0, Quot(j, b) = 0 \/ loop[Quot(j, b)] \in Seq(Int)
        PROVE  loop[j] \in Seq(Int)
    <3> DEFINE r == IF Quot(j, b) = 0 THEN <<>> ELSE loop[Quot(j, b)]
    <3>1. r \in Seq(Int)
      BY <2>1
    <3>2. Digit(b, j) \in Int /\ loop[j] = <<Digit(b, j)>> \o r
      BY <1>8, DigitIs
    <3> HIDE DEF r
    <3> QED
      BY <3>1, <3>2
  <2>2. ASSUME NEW j \in Int0 PROVE Abs(j) = 0 => Quot(j, b) = 0
    <3>1. Abs(j) = 0 => j = 0
      BY DEF Abs, Int0
    <3>2. Quot(0, b) = 0
      BY DEF Quot, Bases
    <3> QED
      BY <3>1, <3>2
  <2>3. 0 \in S
    <3>1. ASSUME NEW j \in Upto(0) PROVE loop[j] \in Seq(Int)
      <4>1. j \in Int0 /\ Abs(j) = 0
        BY Turn DEF Upto, Bases
      <4> QED
        BY <2>1, <2>2, <4>1
    <3> QED
      BY <3>1
  <2>4. ASSUME NEW k \in Nat, k \in S PROVE k + 1 \in S
    <3>1. ASSUME NEW j \in Upto(k + 1) PROVE loop[j] \in Seq(Int)
      <4> DEFINE q == Quot(j, b)
      <4>1. /\ j \in Int0 /\ q \in Int0 /\ Abs(j) \in Nat /\ Abs(q) \in Nat /\ Abs(j) <= k + 1
            /\ Abs(j) # 0 => Abs(q) < Abs(j)
        BY Turn DEF Upto
      <4>2. Abs(j) = 0 => q = 0
        BY <2>2, <4>1
      <4> HIDE DEF q
      <4>3. q = 0 \/ Abs(q) <= k
        BY <4>1, <4>2
      <4>4. q = 0 \/ loop[q] \in Seq(Int)
        BY <2>4, <4>1, <4>3 DEF Upto
      <4> QED
        BY <2>1, <4>1, <4>4 DEF q
    <3> QED
      BY <3>1
  <2>5. Nat \subseteq S
    <3> HIDE DEF S
    <3> QED
      BY <2>3, <2>4, NatInd
  <2> QED
    BY <2>5
<1> QED
  BY <1>1, <1>6, <1>8, <1>9

\* A number below a power of ten takes no more characters than the power has zeros.
LEMMA LoopLength ==
  ASSUME NEW b \in Bases, NEW d \in 1..kMaxNumericSize, NEW i \in Int0, Abs(i) < tens[d]
  PROVE  Len(Loop(b)[i]) <= d
<1> DEFINE K == kMaxNumericSize
           l(j) == Len(Loop(b)[j])
           S == {e \in Nat : e + 1 <= K =>
                   /\ tens[e + 1] \in Nat
                   /\ \A j \in Int0 : Abs(j) < tens[e + 1] => l(j) <= e + 1}
<1>1. K \in Nat /\ K >= 1
  BY LogStreamAssumption
<1>2. ASSUME NEW j \in Int0
      PROVE  /\ Quot(j, b) \in Int0
             /\ Abs(Quot(j, b)) \in Nat /\ 10 * Abs(Quot(j, b)) <= Abs(j)
             /\ IF Quot(j, b) = 0 THEN l(j) = 1 ELSE l(j) = 1 + l(Quot(j, b))
             /\ l(j) \in Nat /\ (Quot(j, b) = 0 <=> Abs(Quot(j, b)) = 0)
  <2> DEFINE q == Quot(j, b)
             a == Abs(q)
             r == Abs(Rem(j, b))
  <2>1. /\ q \in Int0 /\ a \in Nat /\ Abs(j) = b * a + r /\ Rem(j, b) \in -(b - 1)..(b - 1)
        /\ q = 0 <=> a = 0
    BY Turn
  <2>2. r \in Nat
    BY <2>1 DEF Abs, Bases
  <2>3. 10 * a <= Abs(j)
    <3> HIDE DEF a, r
    <3>1. CASE b = 10
      BY <2>1, <2>2, <3>1
    <3>2. CASE b = 16
      BY <2>1, <2>2, <3>2
    <3> QED
      BY <3>1, <3>2 DEF Bases
  <2> HIDE DEF a, r
  <2>4. /\ Loop(b)[j] \in Seq(Int)
        /\ Loop(b)[j] = <<Digit(b, j)>> \o IF q = 0 THEN <<>> ELSE Loop(b)[q]
    BY LoopIs
  <2>5. Loop(b)[q] \in Seq(Int) /\ Digit(b, j) \in Int
    BY <2>1, LoopIs, DigitIs
  <2> HIDE DEF q
  <2>6. IF q = 0 THEN l(j) = 1 ELSE l(j) = 1 + l(q)
    <3> DEFINE u == Loop(b)[q]
               c == Digit(b, j)
    <3>1. CASE q = 0
      BY <2>4, <2>5, <3>1
    <3>2. CASE q # 0
      <4>1. Loop(b)[j] = <<c>> \o u /\ u \in Seq(Int) /\ c \in Int
        BY <2>4, <2>5, <3>2
      <4> HIDE DEF u, c
      <4>2. Len(<<c>> \o u) = 1 + Len(u)
        BY <4>1
      <4> QED
        BY <3>2, <4>1, <4>2 DEF u
    <3> QED
      BY <3>1, <3>2
  <2>7. l(j) \in Nat
    BY <2>4
  <2> QED
    BY <2>1, <2>3, <2>6, <2>7 DEF q, a
<1> HIDE DEF l
<1>3. 0 \in S
  <2>1. tens[1] = 10
    <3>1. 1 \in 1..K /\ 1 - 1 = 0
      BY <1>1
    <3>2. tens[1] = 10 * tens[1 - 1]
      BY <3>1, TensAre
    <3> QED
      BY <3>1, <3>2, TensAre
  <2>2. ASSUME NEW j \in Int0, Abs(j) < 10 PROVE l(j) <= 1
    <3>1. Abs(j) \in Nat
      BY Turn
    <3>2. Abs(Quot(j, b)) = 0
      BY <1>2, <2>2, <3>1
    <3> QED
      BY <1>2, <3>2
  <2> QED
    BY <2>1, <2>2
<1>4. ASSUME NEW e \in Nat, e \in S PROVE e + 1 \in S
  <2> DEFINE n == e + 1
  <2>1. ASSUME n + 1 <= K
        PROVE  /\ tens[n + 1] \in Nat
               /\ \A j \in Int0 : Abs(j) < tens[n + 1] => l(j) <= n + 1
    <3>1. /\ tens[n] \in Nat /\ n \in Nat
          /\ \A j \in Int0 : Abs(j) < tens[n] => l(j) <= n
      BY <1>1, <1>4, <2>1
    <3>2. tens[n + 1] = 10 * tens[n]
      <4>1. n + 1 \in 1..K /\ (n + 1) - 1 = n
        BY <1>1, <2>1
      <4>2. tens[n + 1] = 10 * tens[(n + 1) - 1]
        BY <4>1, TensAre
      <4> QED
        BY <4>1, <4>2
    <3>3. ASSUME NEW j \in Int0, Abs(j) < tens[n + 1] PROVE l(j) <= n + 1
      <4> DEFINE q == Quot(j, b)
                 t == tens[n]
      <4>1. /\ q \in Int0 /\ Abs(q) \in Nat /\ 10 * Abs(q) <= Abs(j) /\ Abs(j) \in Nat
            /\ IF q = 0 THEN l(j) = 1 ELSE l(j) = 1 + l(q)
            /\ l(q) \in Nat
        BY <1>2, Turn
      <4>2. t \in Nat /\ Abs(j) < 10 * t
        BY <3>1, <3>2, <3>3
      <4> HIDE DEF q, t, n
      <4>3. Abs(q) < t
        BY <4>1, <4>2
      <4>4. l(q) <= n
        BY <3>1, <4>1, <4>3 DEF t
      <4> QED
        BY <3>1, <4>1, <4>4
    <3> HIDE DEF n
    <3>4. tens[n + 1] \in Nat
      BY <3>1, <3>2
    <3> QED
      BY <3>3, <3>4
  <2> QED
    BY <2>1
<1>5. Nat \subseteq S
  <2> HIDE DEF S
  <2> QED
    BY <1>3, <1>4, NatInd
<1>6. d - 1 \in Nat /\ (d - 1) + 1 = d /\ d <= K
  BY <1>1
<1>7. l(i) <= d
  <2>1. d - 1 \in S
    BY <1>5, <1>6
  <2>2. \A j \in Int0 : Abs(j) < tens[(d - 1) + 1] => l(j) <= (d - 1) + 1
    BY <1>6, <2>1
  <2> QED
    BY <1>6, <2>2
<1> QED
  BY <1>7 DEF l

\* A number leaves a byte of the room it asks for: also the least int with its sign,
\* and a pointer with the 0x before it.
LEMMA NumbersFit ==
  /\ \A v \in Int0 : Len(convert[v]) \in 0..(kMaxNumericSize - 1)
  /\ \A v \in 0..IntMax : Len(convertHex[v]) \in 0..(kMaxNumericSize - 3)
<1> DEFINE K == kMaxNumericSize
           T == tens[K - 3]
<1>1. K \in Nat /\ K > 3 /\ IntMax \in Nat /\ IntMax < T
  BY LogStreamAssumption
<1>2. tens[K - 2] = 10 * T
  <2>1. K - 2 \in 1..K /\ (K - 2) - 1 = K - 3
    BY <1>1
  <2> QED
    BY <2>1, TensAre
<1>3. T \in Int
  <2> DEFINE S == {n \in Nat : n <= K => tens[n] \in Int}
  <2>1. 0 \in S
    BY TensAre
  <2>2. ASSUME NEW n \in Nat, n \in S PROVE n + 1 \in S
    <3>1. ASSUME n + 1 <= K PROVE tens[n + 1] \in Int
      <4>1. n + 1 \in 1..K /\ (n + 1) - 1 = n /\ tens[n] \in Int
        BY <1>1, <2>2, <3>1
      <4>2. tens[n + 1] = 10 * tens[n]
        BY <4>1, TensAre
      <4> QED
        BY <4>1, <4>2
    <3> QED
      BY <3>1
  <2>3. Nat \subseteq S
    <3> HIDE DEF S
    <3> QED
      BY <2>1, <2>2, NatInd
  <2>4. K - 3 \in Nat /\ K - 3 <= K
    BY <1>1
  <2> QED
    BY <2>3, <2>4
<1> HIDE DEF T
<1>4. ASSUME NEW v \in Int0 PROVE Len(convert[v]) \in 0..(K - 1)
  <2> DEFINE u == Loop(10)[v]
             w == IF v < 0 THEN <<Minus>> ELSE <<>>
  <2>1. Abs(v) <= IntMax + 1 /\ Abs(v) \in Nat
    BY <1>1 DEF Abs, Int0, IntMin
  <2>2. Abs(v) < tens[K - 2]
    BY <1>1, <1>2, <1>3, <2>1
  <2>3. K - 2 \in 1..K /\ 10 \in Bases
    BY <1>1 DEF Bases
  <2>4. Len(u) <= K - 2 /\ u \in Seq(Int)
    BY <2>2, <2>3, LoopLength, LoopIs
  <2>5. convert[v] = Reverse(u \o w)
    BY DEF convert, Int0
  <2>6. w \in Seq(Int) /\ Len(w) <= 1
    BY DEF Minus
  <2> HIDE DEF u, w
  <2>7. Len(u \o w) = Len(u) + Len(w) /\ Len(u) \in Nat /\ Len(w) \in Nat
    BY <2>4, <2>6
  <2>8. Len(Reverse(u \o w)) = Len(u \o w)
    BY <2>7 DEF Reverse
  <2> QED
    BY <1>1, <2>4, <2>5, <2>6, <2>7, <2>8
<1>5. ASSUME NEW v \in 0..IntMax PROVE Len(convertHex[v]) \in 0..(K - 3)
  <2> DEFINE u == Loop(16)[v]
  <2>1. v \in Int0 /\ Abs(v) = v /\ v < T
    BY <1>1, <1>3 DEF Int0, IntMin, Abs
  <2>2. K - 3 \in 1..K /\ 16 \in Bases
    BY <1>1 DEF Bases
  <2>3. Len(u) <= K - 3 /\ u \in Seq(Int)
    BY <2>1, <2>2, LoopLength, LoopIs DEF T
  <2>4. convertHex[v] = Reverse(u)
    BY DEF convertHex
  <2> HIDE DEF u
  <2>5. Len(Reverse(u)) = Len(u) /\ Len(u) \in Nat
    BY <2>3 DEF Reverse
  <2> QED
    BY <1>1, <2>3, <2>4, <2>5
<1> QED
  BY <1>4, <1>5

-----------------------------------------------------------------------------
(* What the characters mean.                                               *)

\* The number with the given digits, the first one first.
Meaning(base, ds) == FoldLeft(LAMBDA acc, d : acc * base + d, 0, ds)

\* It is computed digit by digit: the values on the way, the last one the meaning.
LEMMA MeaningIs ==
  ASSUME NEW b \in Bases, NEW n \in Nat, NEW ds \in Seq(Int), Len(ds) = n
  PROVE  \E f : /\ f[n] = Meaning(b, ds) /\ f[0] = 0
                /\ \A k \in 0..n : f[k] \in Int
                /\ \A k \in 1..n : f[k] = f[k - 1] * b + ds[k]
<1> DEFINE G == [p \in (1..n) \X Int |-> p[2] * b + ds[p[1]]]
<1>1. DOMAIN ds = 1..n /\ \A i \in 1..n : ds[i] \in Int
  OBVIOUS
<1>2. \A i \in 1..n, m \in Int : m * b + ds[i] \in Int
  BY <1>1 DEF Bases
<1>3. G \in [(1..n) \X Int -> Int]
  BY <1>2
<1>4. \A i \in 1..n, m \in Int : G[<<i, m>>] = m * b + ds[i]
  OBVIOUS
<1>5. 0 \in Int
  OBVIOUS
<1> HIDE DEF G
<1>6. PICK h : FoldsTo(h, Int, 0, G, n)
  BY <1>3, <1>5, FoldExists DEF HasFold
<1> DEFINE Solves(f) == f = [s \in SUBSET (DOMAIN ds) |->
                               IF s = {} THEN 0 ELSE f[s \ {Max(s)}] * b + ds[Max(s)]]
<1>7. Solves(h)
  <2>1. ASSUME NEW s \in SUBSET (1..n), s # {} PROVE h[s] = h[s \ {Max(s)}] * b + ds[Max(s)]
    <3> PICK m : m = Max(s)
      OBVIOUS
    <3>1. m \in s
      BY <2>1, MaxIs
    <3>2. h[s \ {m}] \in Int /\ h[s] = G[<<m, h[s \ {m}]>>]
      BY <1>6, <2>1 DEF FoldsTo
    <3> QED
      BY <1>4, <3>1, <3>2
  <2>2. h \in [SUBSET (1..n) -> Int] /\ h[{}] = 0
    BY <1>6 DEF FoldsTo
  <2> QED
    BY <1>1, <2>1, <2>2
<1> DEFINE iter == CHOOSE f : Solves(f)
<1>8. Solves(iter)
  BY <1>7
<1>9. Meaning(b, ds) = iter[DOMAIN ds]
  BY DEF Meaning, FoldLeft, MapThenFoldSet
<1>10. \A s \in SUBSET (1..n) :
         iter[s] = IF s = {} THEN 0 ELSE iter[s \ {Max(s)}] * b + ds[Max(s)]
  <2> HIDE DEF iter
  <2> QED
    BY <1>1, <1>8
<1> HIDE DEF iter, Solves
<1> DEFINE f == [k \in 0..n |-> iter[1..k]]
<1>11. f[n] = Meaning(b, ds) /\ f[0] = 0
  <2>1. 1..0 = {} /\ 1..0 \in SUBSET (1..n)
    OBVIOUS
  <2>2. iter[1..0] = 0
    BY <1>10, <2>1
  <2>3. f[n] = iter[1..n] /\ f[0] = iter[1..0]
    OBVIOUS
  <2> HIDE DEF f
  <2> QED
    BY <1>1, <1>9, <2>2, <2>3
<1>12. ASSUME NEW k \in 1..n PROVE f[k] = f[k - 1] * b + ds[k]
  <2>1. 1..k \in SUBSET (1..n) /\ 1..k # {} /\ (1..k) \ {k} = 1..(k - 1)
    <3> HIDE DEF f
    <3>1. 1..k \in SUBSET (1..n) /\ 1..k # {}
      <4>1. k \in 1..k /\ \A j \in 1..k : j \in 1..n
        OBVIOUS
      <4> QED
        BY <4>1
    <3>2. (1..k) \ {k} = 1..(k - 1)
      OBVIOUS
    <3> QED
      BY <3>1, <3>2
  <2>2. Max(1..k) = k
    <3> PICK m : m = Max(1..k)
      OBVIOUS
    <3>1. m \in 1..k /\ \A y \in 1..k : y <= m
      BY <2>1, MaxIs
    <3>2. m \in 1..k /\ k <= m
      BY <3>1
    <3> QED
      BY <3>2
  <2>3. iter[1..k] = iter[1..(k - 1)] * b + ds[k]
    BY <1>10, <2>1, <2>2
  <2>4. f[k] = iter[1..k] /\ f[k - 1] = iter[1..(k - 1)]
    OBVIOUS
  <2> HIDE DEF f
  <2> QED
    BY <2>3, <2>4
<1> HIDE DEF f
<1>13. \A k \in 0..n : f[k] \in Int
  <2> DEFINE S == {k \in Nat : k <= n => f[k] \in Int}
  <2>1. 0 \in S
    BY <1>5, <1>11
  <2>2. ASSUME NEW k \in Nat, k \in S PROVE k + 1 \in S
    <3>1. ASSUME k + 1 <= n PROVE f[k + 1] \in Int
      <4>1. k + 1 \in 1..n /\ (k + 1) - 1 = k /\ f[k] \in Int
        BY <2>2, <3>1
      <4>2. f[k + 1] = f[k] * b + ds[k + 1]
        BY <1>12, <4>1
      <4> QED
        BY <1>2, <4>1, <4>2
    <3> QED
      BY <3>1
  <2>3. Nat \subseteq S
    <3> HIDE DEF S
    <3> QED
      BY <2>1, <2>2, NatInd
  <2> QED
    BY <2>3
<1> QED
  BY <1>11, <1>12, <1>13

\* A digit more.
LEMMA MeaningAppend ==
  ASSUME NEW b \in Bases, NEW ds \in Seq(Int), NEW d \in Int
  PROVE  /\ Meaning(b, ds) \in Int
         /\ Meaning(b, Append(ds, d)) = Meaning(b, ds) * b + d
<1> DEFINE n == Len(ds)
           es == Append(ds, d)
<1>1. /\ n \in Nat /\ es \in Seq(Int) /\ Len(es) = n + 1
      /\ \A k \in 1..n : es[k] = ds[k]
      /\ es[n + 1] = d
  OBVIOUS
<1> HIDE DEF es, n
<1>2. PICK f : /\ f[n] = Meaning(b, ds) /\ f[0] = 0
               /\ \A k \in 0..n : f[k] \in Int
               /\ \A k \in 1..n : f[k] = f[k - 1] * b + ds[k]
  BY <1>1, MeaningIs DEF n
<1>3. PICK g : /\ g[n + 1] = Meaning(b, es) /\ g[0] = 0
               /\ \A k \in 0..(n + 1) : g[k] \in Int
               /\ \A k \in 1..(n + 1) : g[k] = g[k - 1] * b + es[k]
  BY <1>1, MeaningIs
<1> DEFINE S == {k \in Nat : k <= n => g[k] = f[k]}
<1>4. 0 \in S
  BY <1>2, <1>3
<1>5. ASSUME NEW k \in Nat, k \in S PROVE k + 1 \in S
  <2>1. ASSUME k + 1 <= n PROVE g[k + 1] = f[k + 1]
    <3>1. k + 1 \in 1..n /\ k + 1 \in 1..(n + 1) /\ (k + 1) - 1 = k /\ k <= n
      BY <1>1, <2>1
    <3>2. g[k] = f[k]
      BY <1>5, <3>1
    <3>3. g[k + 1] = g[k] * b + es[k + 1] /\ f[k + 1] = f[k] * b + ds[k + 1]
      <4> HIDE DEF S
      <4>1. /\ g[k + 1] = g[(k + 1) - 1] * b + es[k + 1]
            /\ f[k + 1] = f[(k + 1) - 1] * b + ds[k + 1]
        BY <1>2, <1>3, <3>1
      <4> QED
        BY <3>1, <4>1
    <3> QED
      BY <1>1, <3>1, <3>2, <3>3
  <2> QED
    BY <2>1
<1>6. Nat \subseteq S
  <2> HIDE DEF S
  <2> QED
    BY <1>4, <1>5, NatInd
<1>7. g[n] = f[n]
  BY <1>1, <1>6
<1>8. g[n + 1] = g[n] * b + d
  <2>1. n + 1 \in 1..(n + 1) /\ (n + 1) - 1 = n
    BY <1>1
  <2> QED
    BY <1>1, <1>3, <2>1
<1>9. f[n] \in Int
  BY <1>1, <1>2
<1> QED
  BY <1>2, <1>3, <1>7, <1>8, <1>9 DEF es

\* std::reverse brings the character written last to the front, the first to the end.
LEMMA Reversed ==
  ASSUME NEW s \in Seq(Int), NEW c \in Int
  PROVE  /\ Reverse(s) \in Seq(Int)
         /\ Reverse(<<c>> \o s) = Append(Reverse(s), c)
         /\ Reverse(s \o <<c>>)[1] = c
         /\ Tail(Reverse(s \o <<c>>)) = Reverse(s)
<1> DEFINE n == Len(s)
           r == Reverse(s)
           u == <<c>> \o s
           w == s \o <<c>>
<1>1. n \in Nat /\ \A k \in 1..n : s[k] \in Int
  OBVIOUS
<1>2. r = [k \in 1..n |-> s[(n - k) + 1]]
  BY DEF Reverse
<1>3. \A k \in 1..n : (n - k) + 1 \in 1..n
  BY <1>1
<1>4. r \in Seq(Int) /\ Len(r) = n /\ \A k \in 1..n : r[k] = s[(n - k) + 1]
  BY <1>1, <1>2, <1>3
<1>5. /\ u \in Seq(Int) /\ Len(u) = n + 1 /\ u[1] = c
      /\ \A k \in 1..n : u[k + 1] = s[k]
  OBVIOUS
<1>6. /\ w \in Seq(Int) /\ Len(w) = n + 1 /\ w[n + 1] = c
      /\ \A k \in 1..n : w[k] = s[k]
  OBVIOUS
<1> HIDE DEF n, r, u, w
<1>7. Reverse(u) = Append(r, c)
  <2> DEFINE x == Reverse(u)
             y == Append(r, c)
  <2>1. x = [k \in 1..(n + 1) |-> u[((n + 1) - k) + 1]]
    BY <1>5 DEF Reverse
  <2>2. y \in Seq(Int) /\ Len(y) = n + 1 /\ y[n + 1] = c /\ \A k \in 1..n : y[k] = r[k]
    BY <1>1, <1>4
  <2>3. \A k \in 1..(n + 1) : u[k] \in Int
    BY <1>5
  <2>4. x \in Seq(Int) /\ Len(x) = n + 1 /\ \A k \in 1..(n + 1) : x[k] = u[((n + 1) - k) + 1]
    <3>1. \A k \in 1..(n + 1) : ((n + 1) - k) + 1 \in 1..(n + 1)
      BY <1>1
    <3> DEFINE m == n + 1
    <3>2. m \in Nat
      BY <1>1
    <3> HIDE DEF x, m
    <3>3. /\ \A k \in 1..m : (m - k) + 1 \in 1..m /\ u[(m - k) + 1] \in Int
          /\ x = [k \in 1..m |-> u[(m - k) + 1]]
      BY <2>1, <2>3, <3>1 DEF m
    <3>4. x \in Seq(Int) /\ Len(x) = m /\ \A k \in 1..m : x[k] = u[(m - k) + 1]
      BY <3>2, <3>3
    <3> QED
      BY <3>4 DEF m
  <2> HIDE DEF x, y
  <2>5. ASSUME NEW k \in 1..(n + 1) PROVE x[k] = y[k]
    <3>1. CASE k = n + 1
      <4>1. ((n + 1) - k) + 1 = 1
        BY <1>1, <3>1
      <4> QED
        BY <1>5, <2>2, <2>4, <3>1, <4>1
    <3>2. CASE k # n + 1
      <4>1. k \in 1..n /\ (n - k) + 1 \in 1..n /\ ((n + 1) - k) + 1 = ((n - k) + 1) + 1
        BY <1>1, <3>2
      <4>2. x[k] = u[((n - k) + 1) + 1]
        BY <2>4, <4>1
      <4>3. u[((n - k) + 1) + 1] = s[(n - k) + 1]
        BY <1>5, <4>1
      <4>4. y[k] = s[(n - k) + 1]
        BY <1>4, <2>2, <4>1
      <4> QED
        BY <4>2, <4>3, <4>4
    <3> QED
      BY <3>1, <3>2
  <2>6. x = y
    BY <2>2, <2>4, <2>5
  <2> QED
    BY <2>6 DEF x, y
<1>8. Reverse(w)[1] = c /\ Tail(Reverse(w)) = r
  <2> DEFINE x == Reverse(w)
             y == Tail(x)
  <2>1. x = [k \in 1..(n + 1) |-> w[((n + 1) - k) + 1]]
    BY <1>6 DEF Reverse
  <2>2. \A k \in 1..(n + 1) : w[k] \in Int
    BY <1>6
  <2>3. x \in Seq(Int) /\ Len(x) = n + 1 /\ \A k \in 1..(n + 1) : x[k] = w[((n + 1) - k) + 1]
    <3>1. \A k \in 1..(n + 1) : ((n + 1) - k) + 1 \in 1..(n + 1)
      BY <1>1
    <3> DEFINE m == n + 1
    <3>2. m \in Nat
      BY <1>1
    <3> HIDE DEF x, m
    <3>3. /\ \A k \in 1..m : (m - k) + 1 \in 1..m /\ w[(m - k) + 1] \in Int
          /\ x = [k \in 1..m |-> w[(m - k) + 1]]
      BY <2>1, <2>2, <3>1 DEF m
    <3>4. x \in Seq(Int) /\ Len(x) = m /\ \A k \in 1..m : x[k] = w[(m - k) + 1]
      BY <3>2, <3>3
    <3> QED
      BY <3>4 DEF m
  <2>4. x[1] = c
    <3>1. 1 \in 1..(n + 1) /\ ((n + 1) - 1) + 1 = n + 1
      BY <1>1
    <3> HIDE DEF x
    <3> QED
      BY <1>6, <2>3, <3>1
  <2> HIDE DEF x
  <2>5. x # <<>>
    BY <1>1, <2>3
  <2>6. y \in Seq(Int) /\ Len(y) = n /\ \A k \in 1..n : y[k] = x[k + 1]
    BY <1>1, <2>3, <2>5
  <2>7. ASSUME NEW k \in 1..n PROVE y[k] = r[k]
    <3>1. /\ k + 1 \in 1..(n + 1) /\ (n - k) + 1 \in 1..n
          /\ ((n + 1) - (k + 1)) + 1 = (n - k) + 1
      BY <1>1
    <3>2. y[k] = w[(n - k) + 1]
      BY <2>3, <2>6, <3>1
    <3> QED
      BY <1>4, <1>6, <3>1, <3>2
  <2> HIDE DEF y
  <2>8. y = r
    BY <1>4, <2>6, <2>7
  <2> QED
    BY <2>4, <2>8 DEF x, y
<1> QED
  BY <1>4, <1>7, <1>8 DEF r, u, w

\* The digits of a number, read back, are its absolute value; and none is a sign.
LEMMA LoopMeans ==
  ASSUME NEW b \in Bases, NEW i \in Int0, b = 10 \/ i >= 0
  PROVE  /\ Meaning(b, Reverse(Loop(b)[i])) = Abs(i)
         /\ Reverse(Loop(b)[i])[1] # Minus
<1> DEFINE Right(j) == /\ Meaning(b, Reverse(Loop(b)[j])) = Abs(j)
                       /\ Reverse(Loop(b)[j])[1] # Minus
           S == {k \in Nat : \A j \in Int0 : (b = 10 \/ j >= 0) /\ Abs(j) <= k => Right(j)}
<1>1. ASSUME NEW j \in Int0, b = 10 \/ j >= 0, Quot(j, b) = 0 \/ Right(Quot(j, b))
      PROVE  Right(j)
  <2> DEFINE q == Quot(j, b)
             d == Digit(b, j)
             u == IF q = 0 THEN <<>> ELSE Loop(b)[q]
             m == Meaning(b, Reverse(u))
  <2>1. /\ q \in Int0 /\ Abs(q) \in Nat /\ (q = 0 <=> Abs(q) = 0)
        /\ Abs(j) = b * Abs(q) + Abs(Rem(j, b))
    BY Turn
  <2>2. d = Abs(Rem(j, b)) /\ d \in 0..(b - 1) /\ d \in Int
    BY <1>1, DigitIs
  <2>3. d # Minus
    BY <2>2 DEF Minus, Bases
  <2>4. Loop(b)[j] = <<d>> \o u
    BY LoopIs
  <2>5. u \in Seq(Int)
    <3>1. Loop(b)[q] \in Seq(Int)
      BY <2>1, LoopIs
    <3> HIDE DEF q
    <3> QED
      BY <3>1
  <2>6. m \in Int /\ m = Abs(q) /\ (u = <<>> \/ Reverse(u)[1] # Minus)
    <3>1. CASE q = 0
      <4>1. u = <<>> /\ Abs(q) = 0
        BY <2>1, <3>1
      <4>2. Reverse(<<>>) = <<>>
        BY DEF Reverse
      <4>3. Meaning(b, <<>>) = 0
        <5>1. <<>> \in Seq(Int) /\ Len(<<>>) = 0 /\ 0 \in Nat
          OBVIOUS
        <5>2. \E f : f[0] = Meaning(b, <<>>) /\ f[0] = 0
          BY <5>1, MeaningIs
        <5> QED
          BY <5>2
      <4> HIDE DEF q, u
      <4> QED
        BY <4>1, <4>2, <4>3
    <3>2. CASE q # 0
      <4>1. Right(q) /\ u = Loop(b)[q]
        BY <1>1, <3>2
      <4> HIDE DEF q, u
      <4>2. m = Abs(q) /\ Reverse(u)[1] # Minus
        BY <4>1
      <4> QED
        BY <2>1, <4>2
    <3> QED
      BY <3>1, <3>2
  <2> HIDE DEF q, d, u
  <2>7. Reverse(Loop(b)[j]) = Append(Reverse(u), d) /\ Reverse(u) \in Seq(Int)
    BY <2>2, <2>4, <2>5, Reversed
  <2>8. Meaning(b, Append(Reverse(u), d)) = m * b + d
    BY <2>2, <2>7, MeaningAppend
  <2>9. m * b + d = Abs(j)
    <3> HIDE DEF m
    <3> DEFINE a == Abs(q)
               r == Abs(Rem(j, b))
    <3>1. a \in Nat /\ m = a /\ d = r /\ r \in Int /\ Abs(j) = b * a + r
      BY <2>1, <2>2, <2>6
    <3> HIDE DEF a, r
    <3>2. b \in Nat /\ b * a = a * b
      BY <3>1 DEF Bases
    <3> QED
      BY <3>1, <3>2
  <2>10. Append(Reverse(u), d)[1] # Minus
    <3> DEFINE w == Reverse(u)
    <3>1. u = <<>> => w = <<>>
      BY DEF Reverse
    <3>2. w \in Seq(Int)
      BY <2>7
    <3>3. w = <<>> \/ w[1] # Minus
      BY <2>6, <3>1
    <3> HIDE DEF w
    <3>4. Append(w, d)[1] = IF w = <<>> THEN d ELSE w[1]
      <4>1. CASE w = <<>>
        BY <2>2, <4>1
      <4>2. CASE w # <<>>
        <5>1. Len(w) \in Nat /\ 1 \in 1..Len(w)
          BY <3>2, <4>2
        <5> QED
          BY <2>2, <3>2, <4>2, <5>1
      <4> QED
        BY <4>1, <4>2
    <3> QED
      BY <2>3, <3>3, <3>4 DEF w
  <2> QED
    BY <2>7, <2>8, <2>9, <2>10
<1> HIDE DEF Right
<1>2. ASSUME NEW j \in Int0, NEW k \in Nat, Abs(j) <= k + 1
      PROVE  Quot(j, b) = 0 \/ Abs(Quot(j, b)) <= k
  <2> DEFINE q == Quot(j, b)
  <2>1. /\ Abs(j) \in Nat /\ Abs(q) \in Nat /\ (q = 0 <=> Abs(q) = 0)
        /\ (Abs(j) # 0 => Abs(q) < Abs(j))
    BY Turn
  <2>2. Abs(j) = 0 => q = 0
    <3>1. Abs(j) = 0 => j = 0
      BY DEF Abs, Int0
    <3>2. Quot(0, b) = 0
      BY DEF Quot, Bases
    <3> QED
      BY <3>1, <3>2
  <2> HIDE DEF q
  <2>3. q = 0 \/ Abs(q) <= k
    BY <1>2, <2>1, <2>2
  <2> QED
    BY <2>3 DEF q
<1>3. ASSUME NEW j \in Int0 PROVE Quot(j, b) \in Int0 /\ (j >= 0 => Quot(j, b) >= 0)
  BY Turn
<1>4. 0 \in S
  <2>1. ASSUME NEW j \in Int0, b = 10 \/ j >= 0, Abs(j) <= 0 PROVE Right(j)
    <3>1. Abs(j) \in Nat /\ Abs(Quot(j, b)) \in Nat /\ (Quot(j, b) = 0 <=> Abs(Quot(j, b)) = 0)
      BY Turn
    <3>2. Quot(j, b) = 0
      BY <1>2, <2>1, <3>1
    <3> QED
      BY <1>1, <2>1, <3>2
  <2> QED
    BY <2>1
<1>5. ASSUME NEW k \in Nat, k \in S PROVE k + 1 \in S
  <2>1. ASSUME NEW j \in Int0, b = 10 \/ j >= 0, Abs(j) <= k + 1 PROVE Right(j)
    <3> DEFINE q == Quot(j, b)
    <3>1. q = 0 \/ Abs(q) <= k
      <4>1. Abs(j) \in Nat
        BY Turn
      <4> HIDE DEF S
      <4> QED
        BY <1>2, <2>1, <4>1
    <3>2. q \in Int0 /\ (b = 10 \/ q >= 0)
      BY <1>3, <2>1
    <3>3. q = 0 \/ Right(q)
      BY <1>5, <3>1, <3>2
    <3> HIDE DEF S
    <3> QED
      BY <1>1, <2>1, <3>3
  <2>2. k + 1 \in Nat
    OBVIOUS
  <2> QED
    BY <2>1, <2>2
<1>6. Nat \subseteq S
  <2> HIDE DEF S
  <2> QED
    BY <1>4, <1>5, NatInd
<1>7. Abs(i) \in Nat
  BY Turn
<1>8. Right(i)
  <2>1. Abs(i) \in S /\ Abs(i) <= Abs(i)
    BY <1>6, <1>7
  <2> QED
    BY <2>1
<1> QED
  BY <1>8 DEF Right

\* What convert and convertHex write means the number, whatever its sign.
LEMMA NumbersMean ==
  /\ \A v \in Int0 : ValueOf(convert[v], 10) = v
  /\ \A v \in 0..IntMax : ValueOf(convertHex[v], 16) = v
<1>1. ASSUME NEW chars, NEW base
      PROVE  ValueOf(chars, base) = IF chars[1] = Minus THEN -Meaning(base, Tail(chars))
                                    ELSE Meaning(base, chars)
  BY DEF ValueOf, Meaning
<1>2. ASSUME NEW v \in Int0 PROVE ValueOf(convert[v], 10) = v
  <2> DEFINE u == Loop(10)[v]
  <2>1. 10 \in Bases /\ u \in Seq(Int) /\ Minus \in Int
    <3>1. 10 \in Bases
      BY DEF Bases
    <3>2. Loop(10)[v] \in Seq(Int)
      BY <3>1, LoopIs
    <3>3. Minus \in Int
      BY DEF Minus
    <3> QED
      BY <3>1, <3>2, <3>3
  <2>2. Meaning(10, Reverse(u)) = Abs(v) /\ Reverse(u)[1] # Minus
    BY <2>1, LoopMeans
  <2>3. convert[v] = Reverse(u \o IF v < 0 THEN <<Minus>> ELSE <<>>)
    BY DEF convert, Int0
  <2> HIDE DEF u
  <2>4. CASE v < 0
    <3>1. convert[v] = Reverse(u \o <<Minus>>)
      BY <2>3, <2>4
    <3>2. convert[v][1] = Minus /\ Tail(convert[v]) = Reverse(u)
      <4>1. Reverse(u \o <<Minus>>)[1] = Minus /\ Tail(Reverse(u \o <<Minus>>)) = Reverse(u)
        BY <2>1, Reversed
      <4> QED
        BY <3>1, <4>1
    <3>3. ValueOf(convert[v], 10) = -Abs(v)
      BY <1>1, <2>2, <3>2
    <3>4. -Abs(v) = v
      BY <2>4 DEF Abs, Int0
    <3> QED
      BY <3>3, <3>4
  <2>5. CASE ~(v < 0)
    <3>1. u \o <<>> = u
      BY <2>1, ConcatEmptySeq
    <3>2. convert[v] = Reverse(u)
      BY <2>3, <2>5, <3>1
    <3>3. ValueOf(convert[v], 10) = Abs(v)
      BY <1>1, <2>2, <3>2
    <3> QED
      BY <2>5, <3>3 DEF Abs
  <2> QED
    BY <2>4, <2>5
<1>3. ASSUME NEW v \in 0..IntMax PROVE ValueOf(convertHex[v], 16) = v
  <2>1. 16 \in Bases /\ v \in Int0 /\ v >= 0 /\ Abs(v) = v
    BY LogStreamAssumption DEF Bases, Int0, IntMin, Abs
  <2>2. Meaning(16, Reverse(Loop(16)[v])) = v /\ Reverse(Loop(16)[v])[1] # Minus
    BY <2>1, LoopMeans
  <2>3. convertHex[v] = Reverse(Loop(16)[v])
    BY DEF convertHex
  <2> QED
    BY <1>1, <2>2, <2>3
<1> QED
  BY <1>2, <1>3

-----------------------------------------------------------------------------
(* The line.                                                               *)

PieceOK(p) ==
  /\ p.name \in Names
  /\ \/ p.kind = "text" /\ p.size \in Nat
     \/ p.kind = "double" /\ p.size \in 0..(kMaxNumericSize - 1)
     \/ p.kind = "int" /\ p.size \in IntMin..IntMax
     \/ p.kind = "pointer" /\ p.size \in 0..IntMax

\* A stream with a byte to spare.
Room == {l \in Lines : l.used < SIZE}

\* The stream with one more piece of some bytes.
Longer(s, name, bytes) == [kept |-> Append(s.kept, name), used |-> s.used + bytes]

\* A piece is kept if there is room for it.
LEMMA PutIs ==
  ASSUME NEW s \in Room, NEW p, PieceOK(p)
  PROVE  \E bytes \in Nat :
           /\ Put(s, p) \in {s, Longer(s, p.name, bytes)}
           /\ s.used + bytes < SIZE
           /\ p.kind = "text" =>
                bytes <= p.size /\ Put(s, p) = IF SIZE - s.used > p.size
                                               THEN Longer(s, p.name, p.size) ELSE s
           /\ p.kind = "int" =>
                bytes < kMaxNumericSize
                /\ Put(s, p) = IF SIZE - s.used >= kMaxNumericSize
                               THEN Longer(s, p.name, bytes) ELSE s
<1> DEFINE u == s.used
           K == kMaxNumericSize
<1>1. u \in Nat /\ u < SIZE /\ SIZE \in Nat /\ K \in Nat
  BY LogStreamAssumption DEF Room, Lines
<1> HIDE DEF u
<1>2. CASE p.kind = "text"
  <2>1. Put(s, p) = IF SIZE - u > p.size THEN Longer(s, p.name, p.size) ELSE s
    BY <1>2 DEF Put, append, avail, Longer, u
  <2>2. p.size \in Nat
    BY <1>2 DEF PieceOK
  <2>3. CASE SIZE - u > p.size
    <3>1. u + p.size < SIZE
      BY <1>1, <2>2, <2>3
    <3> WITNESS p.size \in Nat
    <3> QED
      BY <1>2, <2>1, <2>2, <2>3, <3>1 DEF u
  <2>4. CASE ~(SIZE - u > p.size)
    <3>1. 0 \in Nat /\ u + 0 < SIZE /\ 0 <= p.size
      BY <1>1, <2>2
    <3> WITNESS 0 \in Nat
    <3> QED
      BY <1>2, <2>1, <2>2, <2>4, <3>1 DEF u
  <2> QED
    BY <2>3, <2>4
<1>3. ASSUME p.kind # "text", NEW bytes \in 0..(K - 1),
             Put(s, p) = IF SIZE - u >= K THEN Longer(s, p.name, bytes) ELSE s
      PROVE  \E c \in Nat :
               /\ Put(s, p) \in {s, Longer(s, p.name, c)}
               /\ u + c < SIZE
               /\ c < K /\ Put(s, p) = IF SIZE - u >= K THEN Longer(s, p.name, c) ELSE s
  <2>1. CASE SIZE - u >= K
    <3>1. bytes \in Nat /\ u + bytes < SIZE /\ bytes < K
      BY <1>1, <1>3, <2>1
    <3> WITNESS bytes \in Nat
    <3> QED
      BY <1>3, <2>1, <3>1
  <2>2. CASE ~(SIZE - u >= K)
    <3>1. 0 \in Nat /\ u + 0 < SIZE /\ 0 < K
      BY <1>1, LogStreamAssumption
    <3> WITNESS 0 \in Nat
    <3> QED
      BY <1>3, <2>2, <3>1
  <2> QED
    BY <2>1, <2>2
<1>4. CASE p.kind = "double"
  <2>1. p.size \in 0..(K - 1)
    BY <1>4 DEF PieceOK
  <2>2. Put(s, p) = IF SIZE - u >= K THEN Longer(s, p.name, p.size) ELSE s
    BY <1>4 DEF Put, formatDouble, avail, Longer, u
  <2>3. p.kind # "text" /\ p.kind # "int"
    BY <1>4
  <2> QED
    BY <1>3, <2>1, <2>2, <2>3 DEF u
<1>5. CASE p.kind = "int"
  <2> DEFINE c == Len(convert[p.size])
  <2>1. c \in 0..(K - 1)
    BY <1>5, NumbersFit DEF PieceOK, Int0
  <2>2. Put(s, p) = IF SIZE - u >= K THEN Longer(s, p.name, c) ELSE s
    BY <1>5 DEF Put, formatInteger, avail, Longer, u
  <2>3. p.kind # "text"
    BY <1>5
  <2> HIDE DEF c
  <2> QED
    BY <1>3, <1>5, <2>1, <2>2, <2>3 DEF u
<1>6. CASE p.kind = "pointer"
  <2> DEFINE c == 2 + Len(convertHex[p.size])
  <2>1. c \in 0..(K - 1)
    <3> DEFINE h == Len(convertHex[p.size])
    <3>1. h \in 0..(K - 3)
      BY <1>6, NumbersFit DEF PieceOK
    <3> HIDE DEF h
    <3>2. 2 + h \in 0..(K - 1)
      BY <1>1, <3>1
    <3> QED
      BY <3>2 DEF h
  <2>2. Put(s, p) = IF SIZE - u >= K THEN Longer(s, p.name, c) ELSE s
    <3>1. Put(s, p) = formatPointer(s, p.name, p.size)
      BY <1>6 DEF Put
    <3> DEFINE h == Len(convertHex[p.size])
    <3>2. h \in Nat
      <4>1. h \in 0..(K - 3)
        BY <1>6, NumbersFit DEF PieceOK
      <4> HIDE DEF h
      <4> QED
        BY <4>1
    <3>3. formatPointer(s, p.name, p.size)
            = IF SIZE - u >= K
              THEN [kept |-> Append(s.kept, p.name), used |-> u + 2 + h] ELSE s
      BY DEF formatPointer, avail, u
    <3> HIDE DEF h
    <3>4. u + 2 + h = u + (2 + h)
      BY <1>1, <3>2
    <3> QED
      BY <3>1, <3>3, <3>4 DEF Longer, u, h
  <2>3. p.kind # "text" /\ p.kind # "int"
    BY <1>6
  <2> HIDE DEF c
  <2> QED
    BY <1>3, <2>1, <2>2, <2>3 DEF u
<1> QED
  BY <1>2, <1>4, <1>5, <1>6 DEF PieceOK

\* So there is always a byte to spare, and what was kept stays.
LEMMA PutKeeps ==
  ASSUME NEW s \in Room, NEW p, PieceOK(p)
  PROVE  /\ Put(s, p) \in Room /\ s.used <= Put(s, p).used
         /\ Put(s, p).kept \in {s.kept, Append(s.kept, p.name)}
<1>1. PICK c \in Nat : Put(s, p) \in {s, Longer(s, p.name, c)} /\ s.used + c < SIZE
  BY PutIs
<1>2. s.kept \in Seq(Names) /\ s.used \in Nat /\ p.name \in Names /\ SIZE \in Nat
  BY LogStreamAssumption DEF Room, Lines, PieceOK
<1>3. Append(s.kept, p.name) \in Seq(Names) /\ s.used + c \in Nat /\ s.used <= s.used + c
  BY <1>2
<1> DEFINE l == Longer(s, p.name, c)
<1>4. l \in Room
  BY <1>1, <1>3 DEF Longer, Room, Lines
<1>5. l.kept = Append(s.kept, p.name) /\ s.used <= l.used
  BY <1>3 DEF Longer
<1>6. s.used <= s.used
  BY <1>2
<1> HIDE DEF l
<1>7. CASE Put(s, p) = l
  BY <1>4, <1>5, <1>7
<1>8. CASE Put(s, p) = s
  BY <1>6, <1>8
<1> QED
  BY <1>1, <1>7, <1>8 DEF l

\* A line that starts with time, thread and level goes on to.
Begun(s) == s \in Room /\ Len(s.kept) >= 3 /\ Started(s)

\* Every piece leaves it so.
LEMMA BegunPut ==
  ASSUME NEW s, Begun(s), NEW p, PieceOK(p)
  PROVE  Begun(Put(s, p))
<1>1. /\ Put(s, p) \in Room /\ Put(s, p).kept \in {s.kept, Append(s.kept, p.name)}
      /\ s.kept \in Seq(Names) /\ Len(s.kept) >= 3 /\ p.name \in Names
      /\ SubSeq(s.kept, 1, 3) = <<"time", "tid", "level">>
  BY PutKeeps DEF Begun, Room, Lines, PieceOK, Started
<1>2. Put(s, p).used < SIZE
  BY <1>1 DEF Room
<1> DEFINE k == s.kept
           l == Append(k, p.name)
<1>3. k \in Seq(Names) /\ Len(k) >= 3 /\ p.name \in Names
  BY <1>1
<1> HIDE DEF k
<1>4. Len(l) = Len(k) + 1 /\ l \in Seq(Names) /\ \A i \in 1..3 : l[i] = k[i]
  BY <1>3
<1> HIDE DEF l
<1>5. SubSeq(l, 1, 3) = SubSeq(k, 1, 3) /\ Len(l) >= 3
  <2>1. Len(l) >= 3 /\ 3 \in 0..Len(l) /\ 3 \in 0..Len(k)
    BY <1>3, <1>4
  <2>2. SubSeq(l, 1, 3) = [i \in 1..3 |-> l[i]] /\ SubSeq(k, 1, 3) = [i \in 1..3 |-> k[i]]
    BY <1>3, <1>4
  <2> QED
    BY <1>4, <2>1, <2>2
<1>6. Put(s, p).kept \in {k, l}
  BY <1>1 DEF k, l
<1>7. Len(Put(s, p).kept) >= 3 /\ SubSeq(Put(s, p).kept, 1, 3) = <<"time", "tid", "level">>
  BY <1>1, <1>5, <1>6 DEF k
<1> QED
  BY <1>1, <1>2, <1>7 DEF Begun, Started

\* Pieces to stream, and the streams after each of them.
AllOK(ps, n) == DOMAIN ps = 1..n /\ \A i \in 1..n : PieceOK(ps[i])
Fills(f, s0, ps, n) ==
  /\ f[n] = PutAll(s0, ps) /\ f[0] = s0
  /\ \A k \in 0..n : f[k] \in Room
  /\ \A k \in 1..n : f[k] = Put(f[k - 1], ps[k])
HasFill(s0, ps, n) == \E f : Fills(f, s0, ps, n)

\* PutAll puts one piece after the other.
LEMMA PutAllIs ==
  ASSUME NEW s0 \in Room, NEW n \in Nat, NEW ps, AllOK(ps, n)
  PROVE  HasFill(s0, ps, n)
<1> DEFINE G == [p \in (1..n) \X Room |-> Put(p[2], ps[p[1]])]
<1>1. DOMAIN ps = 1..n /\ \A i \in 1..n : PieceOK(ps[i])
  BY DEF AllOK
<1>2. \A i \in 1..n, m \in Room : Put(m, ps[i]) \in Room
  BY <1>1, PutKeeps
<1>3. G \in [(1..n) \X Room -> Room]
  BY <1>2
<1>4. \A i \in 1..n, m \in Room : G[<<i, m>>] = Put(m, ps[i])
  OBVIOUS
<1>5. s0 \in Room
  OBVIOUS
<1> HIDE DEF G
<1>6. PICK h : FoldsTo(h, Room, s0, G, n)
  BY <1>3, <1>5, FoldExists DEF HasFold
<1> DEFINE Solves(f) == f = [s \in SUBSET (DOMAIN ps) |->
                               IF s = {} THEN s0 ELSE Put(f[s \ {Max(s)}], ps[Max(s)])]
<1>7. Solves(h)
  <2>1. ASSUME NEW s \in SUBSET (1..n), s # {} PROVE h[s] = Put(h[s \ {Max(s)}], ps[Max(s)])
    <3> PICK m : m = Max(s)
      OBVIOUS
    <3>1. m \in s
      BY <2>1, MaxIs
    <3>2. h[s \ {m}] \in Room /\ h[s] = G[<<m, h[s \ {m}]>>]
      BY <1>6, <2>1 DEF FoldsTo
    <3> QED
      BY <1>4, <3>1, <3>2
  <2>2. h \in [SUBSET (1..n) -> Room] /\ h[{}] = s0
    BY <1>6 DEF FoldsTo
  <2> QED
    BY <1>1, <2>1, <2>2
<1> DEFINE iter == CHOOSE f : Solves(f)
<1>8. Solves(iter)
  BY <1>7
<1>9. PutAll(s0, ps) = iter[DOMAIN ps]
  BY DEF PutAll, FoldLeft, MapThenFoldSet
<1>10. \A s \in SUBSET (1..n) :
         iter[s] = IF s = {} THEN s0 ELSE Put(iter[s \ {Max(s)}], ps[Max(s)])
  <2> HIDE DEF iter
  <2> QED
    BY <1>1, <1>8
<1> HIDE DEF iter, Solves
<1> DEFINE f == [k \in 0..n |-> iter[1..k]]
<1>11. f[n] = PutAll(s0, ps) /\ f[0] = s0
  <2>1. 1..0 = {} /\ 1..0 \in SUBSET (1..n)
    OBVIOUS
  <2>2. iter[1..0] = s0
    BY <1>10, <2>1
  <2>3. f[n] = iter[1..n] /\ f[0] = iter[1..0]
    OBVIOUS
  <2> HIDE DEF f
  <2> QED
    BY <1>1, <1>9, <2>2, <2>3
<1>12. ASSUME NEW k \in 1..n PROVE f[k] = Put(f[k - 1], ps[k])
  <2>1. 1..k \in SUBSET (1..n) /\ 1..k # {} /\ (1..k) \ {k} = 1..(k - 1)
    <3> HIDE DEF f
    <3>1. 1..k \in SUBSET (1..n) /\ 1..k # {}
      <4>1. k \in 1..k /\ \A j \in 1..k : j \in 1..n
        OBVIOUS
      <4> QED
        BY <4>1
    <3>2. (1..k) \ {k} = 1..(k - 1)
      OBVIOUS
    <3> QED
      BY <3>1, <3>2
  <2>2. Max(1..k) = k
    <3> PICK m : m = Max(1..k)
      OBVIOUS
    <3>1. m \in 1..k /\ \A y \in 1..k : y <= m
      BY <2>1, MaxIs
    <3>2. m \in 1..k /\ k <= m
      BY <3>1
    <3> QED
      BY <3>2
  <2>3. iter[1..k] = Put(iter[1..(k - 1)], ps[k])
    BY <1>10, <2>1, <2>2
  <2>4. f[k] = iter[1..k] /\ f[k - 1] = iter[1..(k - 1)]
    OBVIOUS
  <2> HIDE DEF f
  <2> QED
    BY <2>3, <2>4
<1> HIDE DEF f
<1>13. \A k \in 0..n : f[k] \in Room
  <2> DEFINE S == {k \in Nat : k <= n => f[k] \in Room}
  <2>1. 0 \in S
    BY <1>5, <1>11
  <2>2. ASSUME NEW k \in Nat, k \in S PROVE k + 1 \in S
    <3>1. ASSUME k + 1 <= n PROVE f[k + 1] \in Room
      <4>1. k + 1 \in 1..n /\ (k + 1) - 1 = k /\ f[k] \in Room
        BY <2>2, <3>1
      <4>2. f[k + 1] = Put(f[k], ps[k + 1])
        BY <1>12, <4>1
      <4> QED
        BY <1>2, <4>1, <4>2
    <3> QED
      BY <3>1
  <2>3. Nat \subseteq S
    <3> HIDE DEF S
    <3> QED
      BY <2>1, <2>2, NatInd
  <2> QED
    BY <2>3
<1>14. Fills(f, s0, ps, n)
  BY <1>11, <1>12, <1>13 DEF Fills
<1> QED
  BY <1>14 DEF HasFill

\* A text and a number of the line itself.
LEMMA OwnPieces ==
  /\ \A x \in FixedTexts :
       Text(x).kind = "text" /\ Text(x).name = x /\ Text(x).size = SizeOf[x] /\ PieceOK(Text(x))
  /\ \A x \in {"tid", "errno", "line"}, v \in IntMin..IntMax :
       Number(x, v).kind = "int" /\ Number(x, v).name = x /\ PieceOK(Number(x, v))
<1>1. ASSUME NEW x \in FixedTexts
      PROVE  /\ Text(x).kind = "text" /\ Text(x).name = x /\ Text(x).size = SizeOf[x]
             /\ PieceOK(Text(x))
  <2>1. SizeOf[x] \in Nat /\ x \in Names
    BY TextsFit DEF Names
  <2> QED
    BY <2>1 DEF Text, PieceOK
<1>2. ASSUME NEW x \in {"tid", "errno", "line"}, NEW v \in IntMin..IntMax
      PROVE  Number(x, v).kind = "int" /\ Number(x, v).name = x /\ PieceOK(Number(x, v))
  <2>1. x \in Names
    BY DEF Names
  <2> QED
    BY <2>1 DEF Number, PieceOK
<1> QED
  BY <1>1, <1>2

\* What starts with three elements still does with more behind it.
LEMMA HeadStays ==
  ASSUME NEW P, NEW s \in Seq(P), NEW t \in Seq(P), Len(s) >= 3
  PROVE  s \o t \in Seq(P) /\ Len(s \o t) >= 3 /\ \A i \in 1..3 : (s \o t)[i] = s[i]
OBVIOUS

\* A name pushed is the last.
LEMMA NamePushed ==
  ASSUME NEW s \in Seq(Names), NEW z \in Names
  PROVE  /\ Append(s, z) \in Seq(Names) /\ Len(Append(s, z)) = Len(s) + 1 /\ Len(s) \in Nat
         /\ \A i \in 1..Len(s) : Append(s, z)[i] = s[i]
         /\ Append(s, z)[Len(s) + 1] = z
OBVIOUS

\* The start of a line, as the sequence LineShape compares.
LEMMA ThreeNames ==
  ASSUME NEW t \in Seq(Names), Len(t) = 3, t[1] = "time", t[2] = "tid", t[3] = "level"
  PROVE  t = <<"time", "tid", "level">> /\ SubSeq(t, 1, 3) = t
<1>1. t = <<t[1], t[2], t[3]>>
  OBVIOUS
<1>2. t = <<"time", "tid", "level">>
  BY <1>1
<1> QED
  BY <1>2, SubSeqFull

\* What the constructor streams: the time, the thread, the level, and more.
LEMMA PrologueIs ==
  ASSUME NEW m \in DOMAIN Macros, NEW errno \in ErrnoValues
  PROVE  \E n \in Nat :
           LET ps == Prologue(Macros[m], errno)
           IN  /\ n >= 3 /\ AllOK(ps, n)
               /\ ps[1] = Text("time") /\ ps[2] = Number("tid", Tid) /\ ps[3] = Text("level")
<1> DEFINE P == {Text(x) : x \in FixedTexts}
                  \cup {Number(x, v) : x \in {"tid", "errno", "line"}, v \in IntMin..IntMax}
           a == <<Text("time"), Number("tid", Tid), Text("level")>>
           b == IF Macros[m].adds = "errno" /\ errno # 0
                THEN <<Text("strerror"), Text("(errno="), Number("errno", errno), Text(")")>>
                ELSE <<>>
           c == IF Macros[m].adds = "func" THEN <<Text("func"), Text("space")>> ELSE <<>>
           ps == Prologue(Macros[m], errno)
<1>1. \A p \in P : PieceOK(p)
  BY OwnPieces
<1>2. /\ {Text("time"), Text("level"), Text("strerror"), Text("(errno="), Text(")"),
          Text("func"), Text("space")} \subseteq P
      /\ Number("tid", Tid) \in P /\ Number("errno", errno) \in P
  <2>1. {Text("time"), Text("level"), Text("strerror"), Text("(errno="), Text(")"),
         Text("func"), Text("space")} \subseteq P
    BY DEF FixedTexts
  <2>2. Number("tid", Tid) \in P /\ Number("errno", errno) \in P
    <3>1. Tid \in IntMin..IntMax /\ errno \in IntMin..IntMax
      BY LoggerAssumption
    <3> QED
      BY <3>1
  <2> QED
    BY <2>1, <2>2
<1> HIDE DEF P
<1>3. a \in Seq(P) /\ Len(a) = 3 /\ a[1] = Text("time") /\ a[2] = Number("tid", Tid)
      /\ a[3] = Text("level")
  BY <1>2
<1>4. b \in Seq(P)
  BY <1>2
<1>5. c \in Seq(P)
  BY <1>2
<1>6. ps = (a \o b) \o c
  BY DEF Prologue
<1> HIDE DEF a, b, c, ps
<1> DEFINE d == a \o b
<1>7. d \in Seq(P) /\ Len(d) >= 3 /\ \A i \in 1..3 : d[i] = a[i]
  <2>1. Len(a) >= 3
    BY <1>3
  <2> QED
    BY <1>3, <1>4, <2>1, HeadStays
<1> HIDE DEF d
<1>8. ps \in Seq(P) /\ Len(ps) >= 3 /\ \A i \in 1..3 : ps[i] = d[i]
  <2> DEFINE w == d \o c
  <2>1. w \in Seq(P) /\ Len(w) >= 3 /\ \A i \in 1..3 : w[i] = d[i]
    BY <1>5, <1>7, HeadStays
  <2> QED
    BY <1>6, <2>1 DEF d
<1>9. Len(ps) \in Nat /\ AllOK(ps, Len(ps))
  BY <1>1, <1>8 DEF AllOK
<1>10. ps[1] = Text("time") /\ ps[2] = Number("tid", Tid) /\ ps[3] = Text("level")
  BY <1>3, <1>7, <1>8
<1> WITNESS Len(ps) \in Nat
<1> QED
  BY <1>8, <1>9, <1>10 DEF ps

\* The line the constructor begins.
LEMMA LineBegins ==
  ASSUME NEW m \in DOMAIN Macros, NEW errno \in ErrnoValues
  PROVE  Begun(PutAll(EmptyStream, Prologue(Macros[m], errno)))
<1> DEFINE ps == Prologue(Macros[m], errno)
           K == kMaxNumericSize
           T == SizeOf["time"]
           L == SizeOf["level"]
<1>1. PICK n \in Nat :
        /\ n >= 3 /\ AllOK(ps, n)
        /\ ps[1] = Text("time") /\ ps[2] = Number("tid", Tid) /\ ps[3] = Text("level")
  BY PrologueIs
<1>2. /\ K \in Nat /\ SIZE \in Nat /\ T \in Nat /\ L \in Nat /\ T + K + L < SIZE
      /\ Tid \in IntMin..IntMax
  BY LogStreamAssumption, LoggerAssumption, TextsFit DEF FixedTexts
<1> HIDE DEF ps, T, L
<1>3. EmptyStream \in Room /\ EmptyStream.kept = <<>> /\ EmptyStream.used = 0
  BY <1>2 DEF EmptyStream, Room, Lines
<1>4. PICK f : /\ f[n] = PutAll(EmptyStream, ps) /\ f[0] = EmptyStream
               /\ \A k \in 0..n : f[k] \in Room
               /\ \A k \in 1..n : f[k] = Put(f[k - 1], ps[k])
  <2>1. HasFill(EmptyStream, ps, n)
    BY <1>1, <1>3, PutAllIs
  <2> QED
    BY <2>1 DEF HasFill, Fills
<1>5. /\ f[0] \in Room /\ f[1] \in Room /\ f[2] \in Room /\ f[3] \in Room
      /\ f[1] = Put(f[0], ps[1]) /\ f[2] = Put(f[1], ps[2]) /\ f[3] = Put(f[2], ps[3])
  <2>1. 0 \in 0..n /\ 1 \in 0..n /\ 2 \in 0..n /\ 3 \in 0..n
    BY <1>1
  <2>2. /\ 1 \in 1..n /\ 2 \in 1..n /\ 3 \in 1..n /\ 1 - 1 = 0 /\ 2 - 1 = 1 /\ 3 - 1 = 2
    BY <1>1
  <2>3. f[1] = Put(f[1 - 1], ps[1]) /\ f[2] = Put(f[2 - 1], ps[2]) /\ f[3] = Put(f[3 - 1], ps[3])
    BY <1>4, <2>2
  <2> QED
    BY <1>4, <2>1, <2>2, <2>3
<1>6. f[1].kept = <<"time">> /\ f[1].used = T
  <2>1. "time" \in FixedTexts
    BY DEF FixedTexts
  <2> DEFINE p == Text("time")
  <2>2. p.kind = "text" /\ p.name = "time" /\ p.size = T /\ PieceOK(p)
    BY <2>1, OwnPieces DEF T
  <2>3. f[0] \in Room /\ f[0].used = 0 /\ f[0].kept = <<>> /\ f[1] = Put(f[0], p)
    BY <1>1, <1>3, <1>4, <1>5
  <2> HIDE DEF p
  <2>4. f[1] = IF SIZE - f[0].used > p.size THEN Longer(f[0], p.name, p.size) ELSE f[0]
    BY <2>2, <2>3, PutIs
  <2>5. SIZE - f[0].used > p.size
    BY <1>2, <2>2, <2>3
  <2>6. f[1] = Longer(f[0], "time", T)
    BY <2>2, <2>4, <2>5
  <2>7. f[1].kept = Append(<<>>, "time") /\ f[1].used = 0 + T
    BY <2>3, <2>6 DEF Longer
  <2> QED
    BY <1>2, <2>7
<1>7. f[2].kept = <<"time", "tid">> /\ f[2].used < T + K /\ f[2].used \in Nat
  <2> DEFINE p == Number("tid", Tid)
  <2>1. p.kind = "int" /\ p.name = "tid" /\ PieceOK(p)
    BY <1>2, OwnPieces
  <2>2. f[2] = Put(f[1], p)
    BY <1>1, <1>5
  <2> HIDE DEF p
  <2>3. PICK c \in Nat : /\ c < K
                         /\ f[2] = IF SIZE - f[1].used >= K
                                   THEN Longer(f[1], p.name, c) ELSE f[1]
    BY <1>5, <2>1, <2>2, PutIs
  <2>4. SIZE - f[1].used >= K
    BY <1>2, <1>6
  <2>5. f[2] = Longer(f[1], "tid", c)
    BY <2>1, <2>3, <2>4
  <2>6. f[2].kept = Append(<<"time">>, "tid") /\ f[2].used = T + c
    BY <1>6, <2>5 DEF Longer
  <2> QED
    BY <1>2, <2>3, <2>6
<1>8. /\ f[3].kept = <<"time", "tid", "level">> /\ Len(f[3].kept) = 3
      /\ SubSeq(f[3].kept, 1, 3) = f[3].kept
  <2>1. "level" \in FixedTexts
    BY DEF FixedTexts
  <2> DEFINE p == Text("level")
  <2>2. p.kind = "text" /\ p.name = "level" /\ p.size = L /\ PieceOK(p)
    BY <2>1, OwnPieces DEF L
  <2>3. f[3] = Put(f[2], p)
    BY <1>1, <1>5
  <2> HIDE DEF p
  <2>4. f[3] = IF SIZE - f[2].used > p.size THEN Longer(f[2], p.name, p.size) ELSE f[2]
    BY <1>5, <2>2, <2>3, PutIs
  <2>5. SIZE - f[2].used > p.size
    BY <1>2, <1>7, <2>2
  <2>6. f[3] = Longer(f[2], "level", L)
    BY <2>2, <2>4, <2>5
  <2> DEFINE s == f[2].kept
             t == Append(s, "level")
  <2>7. f[3].kept = t
    BY <2>6 DEF Longer
  <2>8. s \in Seq(Names) /\ "level" \in Names /\ Len(s) = 2 /\ s[1] = "time" /\ s[2] = "tid"
    <3>1. s \in Seq(Names)
      BY <1>5 DEF Room, Lines
    <3>2. "level" \in Names
      BY <2>1 DEF Names
    <3>3. Len(s) = 2 /\ s[1] = "time" /\ s[2] = "tid"
      BY <1>7
    <3> QED
      BY <3>1, <3>2, <3>3
  <2> HIDE DEF s
  <2>9. /\ t \in Seq(Names) /\ Len(t) = Len(s) + 1 /\ t[Len(s) + 1] = "level"
        /\ \A i \in 1..Len(s) : t[i] = s[i]
    BY <2>8, NamePushed
  <2> HIDE DEF t
  <2>10. Len(t) = 3 /\ t[1] = "time" /\ t[2] = "tid" /\ t[3] = "level"
    <3>1. 1 \in 1..2 /\ 2 \in 1..2
      OBVIOUS
    <3> QED
      BY <2>8, <2>9, <3>1
  <2>11. t = <<"time", "tid", "level">> /\ SubSeq(t, 1, 3) = t
    BY <2>9, <2>10, ThreeNames
  <2> QED
    BY <2>7, <2>10, <2>11
<1>9. Begun(f[3])
  <2>1. f[3] \in Room /\ f[3].used < SIZE
    BY <1>5 DEF Room
  <2> QED
    BY <1>8, <2>1 DEF Begun, Started
<1> DEFINE S == {k \in Nat : k + 3 <= n => Begun(f[k + 3])}
<1>10. 0 \in S
  BY <1>9
<1>11. ASSUME NEW k \in Nat, k \in S PROVE k + 1 \in S
  <2>1. ASSUME (k + 1) + 3 <= n PROVE Begun(f[(k + 1) + 3])
    <3> DEFINE i == (k + 1) + 3
    <3>1. i \in 1..n /\ i - 1 = k + 3 /\ k + 3 <= n
      BY <1>1, <2>1
    <3>2. Begun(f[i - 1])
      BY <1>11, <3>1
    <3> HIDE DEF i
    <3>3. f[i] = Put(f[i - 1], ps[i]) /\ PieceOK(ps[i])
      BY <1>1, <1>4, <3>1 DEF AllOK
    <3>4. Begun(f[i])
      BY <3>2, <3>3, BegunPut
    <3> QED
      BY <3>4 DEF i
  <2> QED
    BY <2>1
<1>12. Begun(f[n])
  <2>1. Nat \subseteq S
    <3> HIDE DEF S
    <3> QED
      BY <1>10, <1>11, NatInd
  <2>2. n - 3 \in Nat /\ (n - 3) + 3 = n /\ n <= n
    BY <1>1
  <2>3. n - 3 \in S
    BY <2>1, <2>2
  <2> QED
    BY <2>2, <2>3
<1> QED
  BY <1>4, <1>12 DEF ps

\* The line the destructor finishes.
LEMMA LineEnds ==
  ASSUME NEW s, Begun(s)
  PROVE  PutAll(s, Epilogue) \in Lines /\ Finished(PutAll(s, Epilogue))
<1> DEFINE ps == Epilogue
           K == kMaxNumericSize
<1>1. /\ DOMAIN ps = 1..5
      /\ ps[1] = Text("dash") /\ ps[2] = Text("basename") /\ ps[3] = Text("colon")
      /\ ps[4] = Number("line", LineNo) /\ ps[5] = Text("newline")
  BY DEF Epilogue
<1>2. K \in Nat /\ SIZE \in Nat /\ SizeOf["newline"] = 1 /\ LineNo \in IntMin..IntMax
  BY LogStreamAssumption, LoggerAssumption, TextsFit
<1> HIDE DEF ps
<1>3. \A i \in 1..5 : PieceOK(ps[i])
  <2>1. /\ "dash" \in FixedTexts /\ "basename" \in FixedTexts /\ "colon" \in FixedTexts
        /\ "newline" \in FixedTexts /\ "line" \in {"tid", "errno", "line"}
    BY DEF FixedTexts
  <2>2. /\ PieceOK(Text("dash")) /\ PieceOK(Text("basename")) /\ PieceOK(Text("colon"))
        /\ PieceOK(Text("newline")) /\ PieceOK(Number("line", LineNo))
    BY <1>2, <2>1, OwnPieces
  <2>3. \A i \in 1..5 : i = 1 \/ i = 2 \/ i = 3 \/ i = 4 \/ i = 5
    OBVIOUS
  <2> QED
    BY <1>1, <2>2, <2>3
<1>4. PICK f : /\ f[5] = PutAll(s, ps) /\ f[0] = s
               /\ \A k \in 0..5 : f[k] \in Room
               /\ \A k \in 1..5 : f[k] = Put(f[k - 1], ps[k])
  <2>1. s \in Room /\ 5 \in Nat
    BY DEF Begun
  <2>2. AllOK(ps, 5)
    BY <1>1, <1>3 DEF AllOK
  <2>3. HasFill(s, ps, 5)
    BY <2>1, <2>2, PutAllIs
  <2> QED
    BY <2>3 DEF HasFill, Fills
<1>5. /\ f[1] = Put(f[0], ps[1]) /\ f[2] = Put(f[1], ps[2]) /\ f[3] = Put(f[2], ps[3])
      /\ f[4] = Put(f[3], ps[4]) /\ f[5] = Put(f[4], ps[5])
  <2>1. /\ 1 \in 1..5 /\ 2 \in 1..5 /\ 3 \in 1..5 /\ 4 \in 1..5 /\ 5 \in 1..5
        /\ 1 - 1 = 0 /\ 2 - 1 = 1 /\ 3 - 1 = 2 /\ 4 - 1 = 3 /\ 5 - 1 = 4
    OBVIOUS
  <2>2. /\ f[1] = Put(f[1 - 1], ps[1]) /\ f[2] = Put(f[2 - 1], ps[2])
        /\ f[3] = Put(f[3 - 1], ps[3]) /\ f[4] = Put(f[4 - 1], ps[4])
        /\ f[5] = Put(f[5 - 1], ps[5])
    BY <1>4, <2>1
  <2> QED
    BY <2>1, <2>2
<1>6. Begun(f[3]) /\ Begun(f[4]) /\ Begun(f[5])
  <2>1. PieceOK(ps[1]) /\ PieceOK(ps[2]) /\ PieceOK(ps[3]) /\ PieceOK(ps[4]) /\ PieceOK(ps[5])
    BY <1>3
  <2>2. Begun(f[1])
    BY <1>4, <1>5, <2>1, BegunPut
  <2>3. Begun(f[2])
    BY <1>5, <2>1, <2>2, BegunPut
  <2>4. Begun(f[3])
    BY <1>5, <2>1, <2>3, BegunPut
  <2>5. Begun(f[4])
    BY <1>5, <2>1, <2>4, BegunPut
  <2> QED
    BY <1>5, <2>1, <2>4, <2>5, BegunPut
<1> DEFINE Named(l) == "line" \in ToSet(l.kept) \/ l.used > SIZE - K
<1>7. Named(f[4])
  <2> DEFINE p == Number("line", LineNo)
  <2>1. p.kind = "int" /\ p.name = "line" /\ PieceOK(p)
    BY <1>2, OwnPieces
  <2>2. f[4] = Put(f[3], p) /\ f[3] \in Room
    BY <1>1, <1>5, <1>6 DEF Begun
  <2> HIDE DEF p
  <2>3. PICK c \in Nat : f[4] = IF SIZE - f[3].used >= K THEN Longer(f[3], p.name, c) ELSE f[3]
    BY <2>1, <2>2, PutIs
  <2>4. CASE SIZE - f[3].used >= K
    <3> DEFINE k == f[3].kept
               l == Append(k, "line")
    <3>1. f[4].kept = l
      BY <2>1, <2>3, <2>4 DEF Longer
    <3>2. k \in Seq(Names) /\ "line" \in Names
      BY <2>2 DEF Room, Lines, Names
    <3> HIDE DEF k
    <3>3. Len(k) + 1 \in DOMAIN l /\ l[Len(k) + 1] = "line"
      BY <3>2
    <3> HIDE DEF l
    <3>4. "line" \in ToSet(l)
      BY <3>3 DEF ToSet
    <3> QED
      BY <3>1, <3>4
  <2>5. CASE ~(SIZE - f[3].used >= K)
    <3>1. f[4].used = f[3].used /\ f[3].used \in Nat
      BY <2>2, <2>3, <2>5 DEF Room, Lines
    <3> QED
      BY <1>2, <2>5, <3>1
  <2> QED
    BY <2>4, <2>5
<1>8. Named(f[5]) /\ (Last(f[5].kept) # "newline" => f[5].used = SIZE - 1)
  <2> DEFINE p == Text("newline")
             k == f[4].kept
             u == f[4].used
             l == Append(k, "newline")
  <2>1. "newline" \in FixedTexts
    BY DEF FixedTexts
  <2>2. p.kind = "text" /\ p.name = "newline" /\ p.size = 1 /\ PieceOK(p)
    BY <1>2, <2>1, OwnPieces
  <2>3. f[5] = Put(f[4], p) /\ f[4] \in Room
    BY <1>1, <1>5, <1>6 DEF Begun
  <2> HIDE DEF p
  <2>4. f[5] = IF SIZE - f[4].used > p.size THEN Longer(f[4], p.name, p.size) ELSE f[4]
    BY <2>2, <2>3, PutIs
  <2>5. f[5] = IF SIZE - u > 1 THEN Longer(f[4], "newline", 1) ELSE f[4]
    BY <2>2, <2>4
  <2>6. k \in Seq(Names) /\ "newline" \in Names /\ u \in Nat /\ u < SIZE
    BY <2>1, <2>3 DEF Room, Lines, Names
  <2>7. CASE SIZE - u > 1
    <3>1. f[5].kept = l /\ f[5].used = u + 1
      BY <2>5, <2>7 DEF Longer
    <3>2. "line" \in ToSet(k) \/ u > SIZE - K
      BY <1>7
    <3> HIDE DEF k, u
    <3>3. Len(l) = Len(k) + 1 /\ l[Len(l)] = "newline"
      BY <2>6
    <3>4. ToSet(k) \subseteq ToSet(l)
      <4>1. DOMAIN k = 1..Len(k) /\ DOMAIN l = 1..(Len(k) + 1) /\ \A i \in 1..Len(k) : l[i] = k[i]
        BY <2>6
      <4>2. Len(k) \in Nat
        BY <2>6
      <4> HIDE DEF l
      <4>3. \A i \in DOMAIN k : i \in DOMAIN l /\ l[i] = k[i]
        BY <4>1, <4>2
      <4> QED
        BY <4>3 DEF ToSet
    <3> HIDE DEF l
    <3>5. u + 1 > SIZE - K \/ "line" \in ToSet(l)
      BY <1>2, <2>6, <3>2, <3>4
    <3>6. Last(l) = "newline"
      BY <3>3 DEF Last
    <3> QED
      BY <3>1, <3>5, <3>6
  <2>8. CASE ~(SIZE - u > 1)
    <3>1. f[5] = f[4] /\ u = SIZE - 1
      BY <1>2, <2>5, <2>6, <2>8
    <3> QED
      BY <1>7, <3>1
  <2> QED
    BY <2>7, <2>8
<1>9. f[5] \in Lines /\ Started(f[5])
  BY <1>6 DEF Begun, Room
<1>10. Finished(f[5])
  BY <1>8, <1>9 DEF Finished
<1> QED
  BY <1>4, <1>9, <1>10 DEF ps

\* No statement, no line.
LEMMA InitLinesInv == Init => LinesInv
<1> SUFFICES ASSUME Init PROVE LinesInv
  OBVIOUS
<1>1. EmptyStream \in Lines
  BY DEF EmptyStream, Lines
<1>2. stream_ \in [Threads -> Lines] /\ \A t \in Threads : pc[t] # "stream"
  BY <1>1 DEF Init
<1>3. stdout = <<>> /\ log = <<>>
  BY DEF Init
<1>4. <<>> \in Seq(Lines) /\ DOMAIN <<>> = {}
  OBVIOUS
<1> QED
  BY <1>2, <1>3, <1>4 DEF LinesInv

\* A finished line joins those of an output.
LEMMA LineOut ==
  ASSUME NEW out \in Seq(Lines), \A i \in DOMAIN out : Finished(out[i]),
         NEW l \in Lines, Finished(l)
  PROVE  Append(out, l) \in Seq(Lines) /\ \A i \in DOMAIN Append(out, l) : Finished(Append(out, l)[i])
<1> DEFINE o == Append(out, l)
           n == Len(out)
<1>1. /\ o \in Seq(Lines) /\ n \in Nat /\ DOMAIN out = 1..n /\ DOMAIN o = 1..(n + 1)
      /\ o[n + 1] = l /\ \A i \in 1..n : o[i] = out[i]
  OBVIOUS
<1> HIDE DEF o, n
<1>2. \A i \in 1..(n + 1) : i \in 1..n \/ i = n + 1
  BY <1>1
<1>3. \A i \in DOMAIN o : Finished(o[i])
  BY <1>1, <1>2
<1> QED
  BY <1>1, <1>3 DEF o

\* The stream of a thread in a statement.
LEMMA StreamIs ==
  ASSUME LinesInv, NEW t \in Threads, pc[t] = "stream"
  PROVE  Begun(stream_[t])
BY DEF LinesInv, Begun, Room, Started

\* A line is begun, streamed to, or finished and handed over.
LEMMA StatementLinesInv ==
  ASSUME TypeOK, LinesInv, NEW t \in Threads,
         \/ \E m \in DOMAIN Macros, errno \in ErrnoValues : Begin(t, m, errno)
         \/ \E p \in UserPieces : Stream(t, p)
  PROVE  LinesInv'
<1>1. PICK s : /\ stream_' = [stream_ EXCEPT ![t] = s] /\ Begun(s)
               /\ \A u \in Threads : u # t => pc'[u] = pc[u]
               /\ UNCHANGED <<stdout, log>>
  <2>1. CASE \E m \in DOMAIN Macros, errno \in ErrnoValues : Begin(t, m, errno)
    <3>1. PICK m \in DOMAIN Macros, errno \in ErrnoValues : Begin(t, m, errno)
      BY <2>1
    <3> DEFINE s == PutAll(EmptyStream, Prologue(Macros[m], errno))
    <3>2. Begun(s)
      BY LineBegins
    <3>3. stream_' = [stream_ EXCEPT ![t] = s] /\ UNCHANGED <<stdout, log>>
      BY <3>1 DEF Begin, sinkVars
    <3>4. \A u \in Threads : u # t => pc'[u] = pc[u]
      BY <3>1 DEF Begin, TypeOK
    <3> HIDE DEF s
    <3> QED
      BY <3>2, <3>3, <3>4
  <2>2. CASE \E p \in UserPieces : Stream(t, p)
    <3>1. PICK p \in UserPieces : Stream(t, p)
      BY <2>2
    <3> DEFINE s == Put(stream_[t], p)
    <3>2. pc[t] = "stream" /\ pc' = pc /\ stream_' = [stream_ EXCEPT ![t] = Put(@, p)]
          /\ UNCHANGED <<stdout, log>>
      BY <3>1 DEF Stream, sinkVars
    <3>3. PieceOK(p)
      BY LoggerAssumption DEF PieceOK, Names
    <3>4. Begun(s)
      BY <3>2, <3>3, StreamIs, BegunPut
    <3>5. stream_' = [stream_ EXCEPT ![t] = s]
      BY <3>2
    <3> HIDE DEF s
    <3> QED
      BY <3>2, <3>4, <3>5
  <2> QED
    BY <2>1, <2>2
<1>2. s \in Lines
  BY <1>1 DEF Begun, Room
<1>3. stream_ \in [Threads -> Lines]
  BY DEF LinesInv
<1>4. /\ stream_' \in [Threads -> Lines] /\ stream_'[t] = s
      /\ \A u \in Threads : u # t => stream_'[u] = stream_[u]
  BY <1>1, <1>2, <1>3
<1>5. \A u \in Threads :
        pc'[u] = "stream" => Started(stream_'[u]) /\ Len(stream_'[u].kept) >= 3
  <2>1. ASSUME NEW u \in Threads, pc'[u] = "stream"
        PROVE  Started(stream_'[u]) /\ Len(stream_'[u].kept) >= 3
    <3>1. CASE u = t
      BY <1>1, <1>4, <3>1 DEF Begun
    <3>2. CASE u # t
      BY <1>1, <1>4, <2>1, <3>2 DEF LinesInv
    <3> QED
      BY <3>1, <3>2
  <2> QED
    BY <2>1
<1>6. /\ stdout' \in Seq(Lines) /\ \A i \in DOMAIN stdout' : Finished(stdout'[i])
      /\ log' \in Seq(Lines) /\ \A i \in DOMAIN log' : Finished(log'[i])
  BY <1>1 DEF LinesInv
<1> QED
  BY <1>4, <1>5, <1>6 DEF LinesInv

\* ~Logger leaves the stream and hands a finished line to one output at most.
LEMMA FinishLinesInv ==
  ASSUME TypeOK, LinesInv, NEW t \in Threads, Finish(t)
  PROVE  LinesInv'
<1> DEFINE l == PutAll(stream_[t], Epilogue)
<1>1. /\ pc[t] = "stream"
      /\ pc' = [pc EXCEPT ![t] = IF fatal[t] THEN "flush" ELSE "idle"]
      /\ stream_' = [stream_ EXCEPT ![t] = EmptyStream]
      /\ stdout' \in {stdout, Append(stdout, l)}
      /\ log' \in {log, Append(log, l)}
  BY DEF Finish
<1>2. l \in Lines /\ Finished(l)
  BY <1>1, StreamIs, LineEnds
<1> HIDE DEF l
<1>3. /\ stream_ \in [Threads -> Lines]
      /\ \A u \in Threads : pc[u] = "stream" => Started(stream_[u]) /\ Len(stream_[u].kept) >= 3
      /\ stdout \in Seq(Lines) /\ \A i \in DOMAIN stdout : Finished(stdout[i])
      /\ log \in Seq(Lines) /\ \A i \in DOMAIN log : Finished(log[i])
  BY DEF LinesInv
<1>4. EmptyStream \in Lines
  BY DEF EmptyStream, Lines
<1>5. stream_' \in [Threads -> Lines] /\ \A u \in Threads : u # t => stream_'[u] = stream_[u]
  BY <1>1, <1>3, <1>4
<1>6. pc'[t] # "stream" /\ \A u \in Threads : u # t => pc'[u] = pc[u]
  BY <1>1 DEF TypeOK
<1>7. \A u \in Threads :
        pc'[u] = "stream" => Started(stream_'[u]) /\ Len(stream_'[u].kept) >= 3
  BY <1>3, <1>5, <1>6
<1>8. stdout' \in Seq(Lines) /\ \A i \in DOMAIN stdout' : Finished(stdout'[i])
  <2>1. /\ Append(stdout, l) \in Seq(Lines)
        /\ \A i \in DOMAIN Append(stdout, l) : Finished(Append(stdout, l)[i])
    BY <1>2, <1>3, LineOut
  <2> QED
    BY <1>1, <1>3, <2>1
<1>9. log' \in Seq(Lines) /\ \A i \in DOMAIN log' : Finished(log'[i])
  <2>1. /\ Append(log, l) \in Seq(Lines)
        /\ \A i \in DOMAIN Append(log, l) : Finished(Append(log, l)[i])
    BY <1>2, <1>3, LineOut
  <2> QED
    BY <1>1, <1>3, <2>1
<1> QED
  BY <1>5, <1>7, <1>8, <1>9 DEF LinesInv

\* Every step keeps the lines.
LEMMA NextLinesInv == TypeOK /\ LinesInv /\ [Next]_vars => LinesInv'
<1> SUFFICES ASSUME TypeOK, LinesInv, [Next]_vars PROVE LinesInv'
  OBVIOUS
<1>1. CASE \E t \in Threads :
             \/ \E m \in DOMAIN Macros, errno \in ErrnoValues : Begin(t, m, errno)
             \/ \E p \in UserPieces : Stream(t, p)
  BY <1>1, StatementLinesInv
<1>2. CASE \E t \in Threads : Finish(t)
  BY <1>2, FinishLinesInv
<1>3. ASSUME UNCHANGED <<stream_, stdout, log>>,
             \A u \in Threads : pc'[u] = "stream" => pc[u] = "stream"
      PROVE  LinesInv'
  BY <1>3 DEF LinesInv
<1>4. CASE \/ \E t \in Threads : FlushAndAbort(t)
           \/ Construct \/ \E l \in Levels : SetLogLevel(l)
           \/ UNCHANGED vars
  <2>1. UNCHANGED <<stream_, stdout, log, pc>>
    BY <1>4 DEF FlushAndAbort, Construct, SetLogLevel, vars, threadVars, sinkVars
  <2> QED
    BY <1>3, <2>1
<1>5. CASE SetOutput \/ SetFlush
  <2>1. UNCHANGED <<stream_, stdout, log>>
        /\ \E c \in {"idle", "starting"} : pc' = [pc EXCEPT ![Main] = c]
    BY <1>5 DEF SetOutput, SetFlush, sinkVars
  <2>2. \A u \in Threads : pc'[u] = "stream" => pc[u] = "stream"
    BY <2>1 DEF TypeOK
  <2> QED
    BY <1>3, <2>1, <2>2
<1> QED
  BY <1>1, <1>2, <1>4, <1>5 DEF Next

-----------------------------------------------------------------------------

\* The control state of all threads, where g_output and g_flush point, and what every
\* line holds.
THEOREM InvariantHolds == Spec => []IInv
<1>1. Init => IInv
  BY InitInv, InitLinesInv DEF IInv
<1>2. IInv /\ [Next]_vars => IInv'
  <2>1. ControlInv => TypeOK
    BY DEF ControlInv
  <2> QED
    BY <2>1, NextInv, NextLinesInv DEF IInv
<1> QED
  BY <1>1, <1>2, PTL DEF Spec

\* Before FATAL aborts the program the output that took its line was flushed, the
\* AsyncLogging by stop(), whichever thread logs the line and whatever becomes the
\* output meanwhile; and only threads other than the
\* AsyncLogging's crash in a log statement.
THEOREM FatalFlushedHolds == Spec => []FatalFlushed
<1>1. IInv => FatalFlushed
  BY DEF IInv, ControlInv
<1> QED
  BY <1>1, InvariantHolds, PTL

\* A line never fills its buffer, starts with time, thread and level, and loses its
\* newline or its line number only for want of room, whatever a statement streams.
THEOREM LineShapeHolds == Spec => []LineShape
<1>1. IInv => LineShape
  <2> SUFFICES ASSUME IInv PROVE LineShape
    OBVIOUS
  <2> DEFINE s == stdout
             t == log
             u == s \o t
  <2>1. /\ s \in Seq(Lines) /\ \A i \in DOMAIN s : Finished(s[i])
        /\ t \in Seq(Lines) /\ \A i \in DOMAIN t : Finished(t[i])
    BY DEF IInv, LinesInv
  <2> HIDE DEF s, t
  <2>2. /\ DOMAIN s = 1..Len(s) /\ DOMAIN t = 1..Len(t) /\ Len(s) \in Nat /\ Len(t) \in Nat
        /\ DOMAIN u = 1..(Len(s) + Len(t))
        /\ \A i \in 1..(Len(s) + Len(t)) : u[i] = IF i <= Len(s) THEN s[i] ELSE t[i - Len(s)]
    BY <2>1
  <2> HIDE DEF u
  <2>3. ASSUME NEW i \in DOMAIN u PROVE Finished(u[i])
    <3>1. CASE i <= Len(s)
      <4>1. i \in 1..Len(s) /\ u[i] = s[i]
        BY <2>2, <3>1
      <4> QED
        BY <2>1, <2>2, <4>1
    <3>2. CASE ~(i <= Len(s))
      <4>1. i - Len(s) \in 1..Len(t) /\ u[i] = t[i - Len(s)]
        BY <2>2, <3>2
      <4> QED
        BY <2>1, <2>2, <4>1
    <3> QED
      BY <3>1, <3>2
  <2> QED
    BY <2>3 DEF LineShape, s, t, u
<1> QED
  BY <1>1, InvariantHolds, PTL

\* A number streamed next has room for all its digits and means the number, be it the
\* least of its type, for any width of an int.
THEOREM NumbersRightHolds == Spec => []NumbersRight
<1>1. IInv => NumbersRight
  <2> SUFFICES ASSUME IInv, NEW t \in Threads, pc[t] = "stream"
               PROVE  /\ \A v \in IntMin..IntMax :
                           LET s == formatInteger(stream_[t], "number", v)
                           IN  s # stream_[t] => s.used < SIZE /\ ValueOf(convert[v], 10) = v
                      /\ \A v \in 0..IntMax :
                           LET s == formatPointer(stream_[t], "number", v)
                           IN  s # stream_[t] => s.used < SIZE /\ ValueOf(convertHex[v], 16) = v
    BY DEF NumbersRight
  <2> DEFINE r == stream_[t]
             K == kMaxNumericSize
  <2>1. r \in Room /\ r.used \in Nat /\ r.used < SIZE
    <3>1. Begun(r)
      BY StreamIs DEF IInv
    <3> QED
      BY <3>1 DEF Begun, Room, Lines
  <2>2. SIZE \in Nat /\ K \in Nat /\ K > 3
    BY LogStreamAssumption
  <2> HIDE DEF r
  <2>3. ASSUME NEW v \in IntMin..IntMax, formatInteger(r, "number", v) # r
        PROVE  formatInteger(r, "number", v).used < SIZE /\ ValueOf(convert[v], 10) = v
    <3> DEFINE c == Len(convert[v])
    <3>1. c \in 0..(K - 1) /\ ValueOf(convert[v], 10) = v
      BY NumbersFit, NumbersMean DEF Int0
    <3>2. SIZE - r.used >= K /\ formatInteger(r, "number", v).used = r.used + c
      BY <2>3 DEF formatInteger, avail
    <3> HIDE DEF c
    <3>3. r.used + c < SIZE
      BY <2>1, <2>2, <3>1, <3>2
    <3> QED
      BY <3>1, <3>2, <3>3
  <2>4. ASSUME NEW v \in 0..IntMax, formatPointer(r, "number", v) # r
        PROVE  formatPointer(r, "number", v).used < SIZE /\ ValueOf(convertHex[v], 16) = v
    <3> DEFINE c == Len(convertHex[v])
    <3>1. c \in 0..(K - 3) /\ ValueOf(convertHex[v], 16) = v
      BY NumbersFit, NumbersMean
    <3>2. SIZE - r.used >= K /\ formatPointer(r, "number", v).used = r.used + 2 + c
      BY <2>4 DEF formatPointer, avail
    <3> HIDE DEF c
    <3>3. r.used + 2 + c < SIZE
      BY <2>1, <2>2, <3>1, <3>2
    <3> QED
      BY <3>1, <3>2, <3>3
  <2> QED
    BY <2>3, <2>4 DEF r
<1> QED
  BY <1>1, InvariantHolds, PTL

\* convert's loop, for any width of an int: the table digits is entered within its
\* bounds, also for the remainders of the least int, and gives the digit the
\* remainder stands for; and what is left to convert comes nearer to zero.
THEOREM DigitsInTable ==
  ASSUME NEW i \in IntMin..IntMax
  PROVE  /\ 10 + Rem(i, 10) \in DOMAIN digits
         /\ zero(Rem(i, 10)) = IF i < 0 THEN -Rem(i, 10) ELSE Rem(i, 10)
         /\ i = 10 * Quot(i, 10) + Rem(i, 10)
         /\ Quot(i, 10) \in IntMin..IntMax
         /\ IF i < 0 THEN i < Quot(i, 10) /\ Quot(i, 10) <= 0
                     ELSE 0 <= Quot(i, 10) /\ (i # 0 => Quot(i, 10) < i)
<1> DEFINE q == Quot(i, 10)
           r == Rem(i, 10)
<1>1. 10 \in Bases /\ i \in Int0 /\ IntMax \in Nat /\ IntMin = -IntMax - 1
  BY LogStreamAssumption DEF Bases, Int0, IntMin
<1>2. /\ q \in Int0 /\ r \in -9..9
      /\ Abs(i) = 10 * Abs(q) + Abs(r) /\ (Abs(i) # 0 => Abs(q) < Abs(i))
      /\ i >= 0 => q >= 0 /\ r >= 0
  <2>1. 10 - 1 = 9
    OBVIOUS
  <2> QED
    BY <1>1, <2>1, Turn
<1>3. q <= 0 \/ i >= 0
  <2>1. ASSUME i < 0 PROVE q <= 0
    <3> DEFINE n == -i
    <3>1. n \in Nat /\ q = -(n \div 10)
      BY <1>1, <2>1 DEF Quot, Int0
    <3> HIDE DEF n
    <3>2. n \div 10 \in Nat
      BY <3>1
    <3> QED
      BY <3>1, <3>2
  <2> QED
    BY <1>1, <2>1 DEF Int0
<1>4. i \in Int /\ q \in Int /\ r \in Int /\ r = i - 10 * q
  BY <1>1, <1>2 DEF Rem, Int0
<1>5. 10 + r \in DOMAIN digits /\ zero(r) = Abs(r)
  <2>1. DOMAIN digits = 1..19
    BY DEF digits
  <2>2. 10 + r \in 1..19
    BY <1>2
  <2> QED
    BY <1>2, <2>1, <2>2, ZeroIs
<1> HIDE DEF q, r
<1>6. zero(r) = IF i < 0 THEN -r ELSE r
  BY <1>2, <1>3, <1>4, <1>5 DEF Abs
<1>7. IF i < 0 THEN i < q /\ q <= 0 ELSE 0 <= q /\ (i # 0 => q < i)
  BY <1>2, <1>3, <1>4 DEF Abs
<1> QED
  BY <1>2, <1>4, <1>5, <1>6, <1>7 DEF q, r, Int0
=============================================================================
