--------------------------- MODULE TcpConnection ----------------------------
(***************************************************************************)
(* TcpConnection objects on the threads of their event loops.              *)
(*                                                                         *)
(* A loop runs one call at a time.  todo[l] is what it still has to do of  *)
(* the call it is in: the handlers that Channel::handleEvent calls for one *)
(* channel, or one functor, with the callbacks they lead to.  At a step    *)
(* "callback" the application's code runs, which may call send and         *)
(* shutdown on the connection it was given.  Other threads (Users) call    *)
(* them through a TcpConnectionPtr they hold.  The step "closeCallback" is *)
(* left to the owner of the connection, who composes this module.          *)
(*                                                                         *)
(* The stream is a sequence of units; a message has MsgLen of them.  A     *)
(* failed assert() stops the program; aborted names it.                    *)
(***************************************************************************)
EXTENDS Channel, Naturals, FiniteSets, SequencesExt

CONSTANTS
  Conns,       \* the connection objects
  Loops,       \* the event loops (threads)
  Users,       \* threads that run no loop of a connection
  MsgLen,      \* units of a message
  SndBuf,      \* units the socket's send buffer takes
  MaxSends,    \* bound: sends on a connection
  MayShutdown  \* whether the application calls shutdown()

ASSUME TcpConnectionAssumption ==
  /\ MsgLen \in Nat \ {0}
  /\ SndBuf \in Nat \ {0}
  /\ MaxSends \in Nat
  /\ MayShutdown \in BOOLEAN

VARIABLES
  conn,      \* the objects, each with its channel_ and the socket behind it
  lpc,       \* where each loop is: "poll", "dispatch" or "functors"
  active,    \* reported <<connection, revents>> not yet handled
  todo,      \* the rest of the call a loop is in, a sequence of steps
  functors,  \* pendingFunctors_ of each loop
  batch,     \* doPendingFunctors's vector: all its functors, until it returns
  left,      \* the functors of batch still to run
  ucall,     \* a user thread between the state_ test of send or shutdown and
             \* the functor it queues
  uref,      \* the TcpConnectionPtrs the user threads hold
  connections_, \* the connections their owner holds a TcpConnectionPtr to
  aborted    \* the assertion that failed, or "none"

loopVars == <<lpc, active, todo, functors, batch, left>>
userVars == <<ucall, uref>>

\* Mutant of SharedOps: connectDestroyed is bound to a raw pointer.
SharedOpsRawDestroy == {"connectEstablished", "removeConnectionInLoop",
                        "closeCallback", "callback"}

\* Steps and functors that hold a TcpConnectionPtr, and those bound to this.
SharedOps == {"connectEstablished", "connectDestroyed", "removeConnectionInLoop",
              "closeCallback", "callback"}
RawOps == {"sendInLoop", "shutdownInLoop", "removeChannel",
           "handleClose", "handleError", "handleRead", "handleWrite"}
Step == [op : SharedOps \cup RawOps, conn : Conns]
Do(op, c) == [op |-> op, conn |-> c]

ConnType ==
  [made : BOOLEAN,                                    \* constructed
   loop : Loops,                                      \* loop_
   state : {"kConnecting", "kConnected", "kDisconnected"},
   channel : ChannelType,
   outputBuffer : Seq(Nat),
   sent : Nat,                                        \* units given to sendInLoop
   written : Seq(Nat),                                \* units the kernel accepted
   room : 0..SndBuf,                                  \* free space of the send buffer
   unread : 0..1,                                     \* data waiting to be read
   peer : {"open", "closed", "reset"},
   err : BOOLEAN,                                     \* SO_ERROR is set
   shutWr : BOOLEAN,                                  \* SHUT_WR was done
   downs : Nat]                                       \* history: "down" callbacks

Unmade(l) ==
  [made |-> FALSE, loop |-> l, state |-> "kConnecting", channel |-> NewChannel,
   outputBuffer |-> <<>>, sent |-> 0, written |-> <<>>, room |-> SndBuf,
   unread |-> 0, peer |-> "open", err |-> FALSE, shutWr |-> FALSE,
   downs |-> 0]

Assertions == {"none", "connectEstablished", "connectDestroyed", "handleClose",
               "removeChannel", "removeConnectionInLoop", "destroyed"}
NoCall == [op |-> "none"]

ConnTypeOK ==
  /\ conn \in [Conns -> ConnType]
  /\ lpc \in [Loops -> {"poll", "dispatch", "functors"}]
  /\ active \in [Loops -> SUBSET (Conns \X SUBSET Revents)]
  /\ todo \in [Loops -> Seq(Step)]
  /\ functors \in [Loops -> Seq(Step)]
  /\ batch \in [Loops -> Seq(Step)]
  /\ left \in [Loops -> Seq(Step)]
  /\ ucall \in [Users -> {NoCall} \cup [op : {"sendInLoop", "shutdownInLoop"}, conn : Conns]]
  /\ uref \in [Users -> SUBSET Conns]
  /\ connections_ \subseteq Conns
  /\ aborted \in Assertions

ConnInit ==
  /\ conn \in [Conns -> {Unmade(l) : l \in Loops}]
  /\ lpc = [l \in Loops |-> "poll"]
  /\ active = [l \in Loops |-> {}]
  /\ todo = [l \in Loops |-> <<>>]
  /\ functors = [l \in Loops |-> <<>>]
  /\ batch = [l \in Loops |-> <<>>]
  /\ left = [l \in Loops |-> <<>>]
  /\ ucall = [u \in Users |-> NoCall]
  /\ uref = [u \in Users |-> {}]
  /\ connections_ = {}
  /\ aborted = "none"

-----------------------------------------------------------------------------
(* What one connection does, as operators on its record.                   *)

\* ::write of n units: 0 stands for EAGAIN and for any other error.
WriteResult(k, n) ==
  IF k.shutWr \/ k.peer = "reset" THEN 0
  ELSE IF n <= k.room THEN n ELSE k.room

\* sendInLoop tries to write directly only behind an empty outputBuffer_.
WritesDirectly(k) == ~isWriting(k.channel) /\ k.outputBuffer = <<>>

\* The units of the next message.
NextUnits(k) == [i \in 1..MsgLen |-> k.sent + i]

\* Mutant of sendInLoop: writes without looking at outputBuffer_.
sendInLoopUnordered(k) ==
  LET n == WriteResult(k, MsgLen) IN
  [k EXCEPT !.sent = @ + MsgLen,
            !.written = @ \o SubSeq(NextUnits(k), 1, n),
            !.room = @ - n,
            !.outputBuffer = @ \o SubSeq(NextUnits(k), n + 1, MsgLen),
            !.channel = IF n < MsgLen /\ ~isWriting(@) THEN enableWriting(@) ELSE @]

\* sendInLoop: what is not written now goes to outputBuffer_ and the channel
\* waits for EPOLLOUT.  A write error is treated as a write of nothing.
sendInLoop(k) ==
  LET n == IF WritesDirectly(k) THEN WriteResult(k, MsgLen) ELSE 0 IN
  [k EXCEPT !.sent = @ + MsgLen,
            !.written = @ \o SubSeq(NextUnits(k), 1, n),
            !.room = @ - n,
            !.outputBuffer = @ \o SubSeq(NextUnits(k), n + 1, MsgLen),
            !.channel = IF n < MsgLen /\ ~isWriting(@) THEN enableWriting(@) ELSE @]

\* The functors sendInLoop queues: writeCompleteCallback_ if the direct write
\* took the whole message.
sendCompletes(c) ==
  IF WritesDirectly(conn[c]) /\ WriteResult(conn[c], MsgLen) = MsgLen
  THEN <<Do("callback", c)>> ELSE <<>>

\* Mutant of shutdownInLoop: it does not wait for outputBuffer_.
shutdownInLoopNow(k) == [k EXCEPT !.shutWr = TRUE]

\* shutdownInLoop: while data is buffered it is left to handleWrite.
shutdownInLoop(k) == IF isWriting(k.channel) THEN k ELSE [k EXCEPT !.shutWr = TRUE]

\* Mutant of handleWrite: writing stays enabled when the buffer is drained.
handleWriteStaysEnabled(k) ==
  LET n == WriteResult(k, Len(k.outputBuffer)) IN
  IF ~isWriting(k.channel) \/ n = 0 THEN k
  ELSE [k EXCEPT !.written = @ \o SubSeq(k.outputBuffer, 1, n),
                 !.outputBuffer = SubSeq(@, n + 1, Len(@)),
                 !.room = @ - n]

\* Mutant of handleWrite: the SHUT_WR that was put off is forgotten.
handleWriteForgetsShutdown(k) ==
  LET n == WriteResult(k, Len(k.outputBuffer))
      w == [k EXCEPT !.written = @ \o SubSeq(k.outputBuffer, 1, n),
                     !.outputBuffer = SubSeq(@, n + 1, Len(@)),
                     !.room = @ - n]
  IN IF ~isWriting(k.channel) \/ n = 0 THEN k
     ELSE IF w.outputBuffer # <<>> THEN w
     ELSE [w EXCEPT !.channel = disableWriting(@)]

\* handleWrite: write from outputBuffer_; when it is drained stop waiting for
\* EPOLLOUT and do the SHUT_WR that shutdown() had to put off.  The
\* writeCompleteCallback_ is bound here but neither called nor queued.
handleWrite(k) ==
  LET n == WriteResult(k, Len(k.outputBuffer))
      w == [k EXCEPT !.written = @ \o SubSeq(k.outputBuffer, 1, n),
                     !.outputBuffer = SubSeq(@, n + 1, Len(@)),
                     !.room = @ - n]
      d == [w EXCEPT !.channel = disableWriting(@)]
  IN IF ~isWriting(k.channel) \/ n = 0 THEN k
     ELSE IF w.outputBuffer # <<>> THEN w
     ELSE IF d.state = "kDisconnected" THEN shutdownInLoop(d)
     ELSE d

\* The events epoll reports for a connection: HUP and ERR always, the others
\* when the channel asks for them.
ReventsOf(k) ==
  (IF "read" \in k.channel.interest /\ (k.unread > 0 \/ k.peer # "open")
   THEN {"IN"} ELSE {})
    \cup (IF "write" \in k.channel.interest
             /\ (k.room > 0 \/ k.shutWr \/ k.peer = "reset")
          THEN {"OUT"} ELSE {})
    \cup (IF k.peer = "reset" \/ (k.peer = "closed" /\ k.shutWr)
          THEN {"HUP"} ELSE {})
    \cup (IF k.err THEN {"ERR"} ELSE {})

Held(steps) == {s.conn : s \in {r \in ToSet(steps) : r.op \in SharedOps}}

\* The connections someone holds a TcpConnectionPtr to: the others that were
\* made are destroyed.
Alive ==
  connections_
    \cup (UNION {Held(todo[l]) \cup Held(functors[l]) \cup Held(batch[l]) : l \in Loops})
    \cup (UNION {uref[u] : u \in Users})

\* The reports epoll_wait returns on loop l.  The destructor closes the
\* socket, which also takes it out of the epoll set.
Reports(l) ==
  {<<c, ReventsOf(conn[c])>> :
     c \in {d \in Alive : conn[d].loop = l
                          /\ conn[d].channel.registered /\ ReventsOf(conn[d]) # {}}}

-----------------------------------------------------------------------------
(* The loops.                                                              *)

Running == aborted = "none"
Idle(l) == Running /\ todo[l] = <<>>
IsAt(l, op) == Running /\ todo[l] # <<>> /\ Head(todo[l]).op = op
Current(l) == Head(todo[l]).conn

\* The rest of loop l's call once the current step is over and replaced by
\* the steps it leads to.
Continue(l, steps) == todo' = [todo EXCEPT ![l] = steps \o Tail(@)]

\* queueInLoop on loop l.
Queue(l, steps) == functors' = [functors EXCEPT ![l] = @ \o steps]

Abort(name) == aborted' = name

\* epoll_wait returns; a wakeup or a signal may make it return nothing.
Poll(l) ==
  /\ Idle(l) /\ lpc[l] = "poll"
  /\ active' = [active EXCEPT ![l] = Reports(l)]
  /\ lpc' = [lpc EXCEPT ![l] = "dispatch"]
  /\ UNCHANGED <<conn, todo, functors, batch, left, userVars, aborted>>

\* The constructor sets all four callbacks.
Callbacks(revents) ==
  handleEvent(revents, {"handleRead", "handleWrite", "handleClose", "handleError"})

\* The loop calls handleEvent on the next active channel, with the revents of
\* the poll, whatever happened to the connection since.
Dispatch(l) ==
  /\ Idle(l) /\ lpc[l] = "dispatch"
  /\ \E r \in active[l] :
       /\ active' = [active EXCEPT ![l] = @ \ {r}]
       /\ todo' = [todo EXCEPT ![l] =
                     [i \in DOMAIN Callbacks(r[2]) |-> Do(Callbacks(r[2])[i], r[1])]]
  /\ UNCHANGED <<conn, lpc, functors, batch, left, userVars, aborted>>

\* doPendingFunctors takes all pending functors.
SwapPending(l) ==
  /\ Idle(l) /\ lpc[l] = "dispatch" /\ active[l] = {}
  /\ lpc' = [lpc EXCEPT ![l] = "functors"]
  /\ batch' = [batch EXCEPT ![l] = functors[l]]
  /\ left' = [left EXCEPT ![l] = functors[l]]
  /\ functors' = [functors EXCEPT ![l] = <<>>]
  /\ UNCHANGED <<conn, active, todo, userVars, aborted>>

RunFunctor(l) ==
  /\ Idle(l) /\ lpc[l] = "functors" /\ left[l] # <<>>
  /\ todo' = [todo EXCEPT ![l] = <<Head(left[l])>>]
  /\ left' = [left EXCEPT ![l] = Tail(@)]
  /\ UNCHANGED <<conn, lpc, active, functors, batch, userVars, aborted>>

\* The vector of functors, and the pointers they hold, are destroyed.
FunctorsDone(l) ==
  /\ Idle(l) /\ lpc[l] = "functors" /\ left[l] = <<>>
  /\ lpc' = [lpc EXCEPT ![l] = "poll"]
  /\ batch' = [batch EXCEPT ![l] = <<>>]
  /\ UNCHANGED <<conn, active, todo, functors, left, userVars, aborted>>

-----------------------------------------------------------------------------
(* The handlers and functors of a connection, on its loop.                 *)

ConnectEstablished(l) ==
  /\ IsAt(l, "connectEstablished")
  /\ LET c == Current(l) IN
     IF conn[c].state = "kConnecting"
     THEN /\ conn' = [conn EXCEPT ![c].state = "kConnected",
                                  ![c].channel = enableReading(@)]
          /\ Continue(l, <<Do("callback", c)>>)
          /\ UNCHANGED aborted
     ELSE Abort("connectEstablished") /\ UNCHANGED <<conn, todo>>
  /\ UNCHANGED <<lpc, active, functors, batch, left, userVars>>

\* connectDestroyed up to its callback; removeChannel follows it.
ConnectDestroyed(l) ==
  /\ IsAt(l, "connectDestroyed")
  /\ LET c == Current(l) IN
     IF conn[c].state = "kConnected"
     THEN /\ conn' = [conn EXCEPT ![c].state = "kDisconnected",
                                  ![c].channel = disableAll(@),
                                  ![c].downs = @ + 1]
          /\ Continue(l, <<Do("callback", c), Do("removeChannel", c)>>)
          /\ UNCHANGED aborted
     ELSE Abort("connectDestroyed") /\ UNCHANGED <<conn, todo>>
  /\ UNCHANGED <<lpc, active, functors, batch, left, userVars>>

RemoveChannel(l) ==
  /\ IsAt(l, "removeChannel")
  /\ LET c == Current(l) IN
     IF removeChannelAsserts(conn[c].channel)
     THEN /\ conn' = [conn EXCEPT ![c].channel = removeChannel(@)]
          /\ Continue(l, <<>>)
          /\ UNCHANGED aborted
     ELSE Abort("removeChannel") /\ UNCHANGED <<conn, todo>>
  /\ UNCHANGED <<lpc, active, functors, batch, left, userVars>>

\* handleRead: data, else a pending error, else end of file.  EPOLLIN was
\* reported for one of them and only handleRead consumes it.
HandleRead(l) ==
  /\ IsAt(l, "handleRead")
  /\ LET c == Current(l) IN
     \/ /\ conn[c].unread > 0
        /\ conn' = [conn EXCEPT ![c].unread = @ - 1]
        /\ Continue(l, <<Do("callback", c)>>)
     \/ /\ conn[c].unread = 0 /\ conn[c].err
        /\ conn' = [conn EXCEPT ![c].err = FALSE]
        /\ Continue(l, <<Do("handleError", c)>>)
     \/ /\ conn[c].unread = 0 /\ ~conn[c].err
        /\ Continue(l, <<Do("handleClose", c)>>)
        /\ UNCHANGED conn
  /\ UNCHANGED <<lpc, active, functors, batch, left, userVars, aborted>>

HandleWrite(l) ==
  /\ IsAt(l, "handleWrite")
  /\ conn' = [conn EXCEPT ![Current(l)] = handleWrite(@)]
  /\ Continue(l, <<>>)
  /\ UNCHANGED <<lpc, active, functors, batch, left, userVars, aborted>>

\* Mutant of HandleClose: the channel stays registered.
HandleCloseKeepsChannel(l) ==
  /\ IsAt(l, "handleClose")
  /\ LET c == Current(l) IN
     IF conn[c].state = "kConnected"
     THEN /\ Continue(l, <<Do("closeCallback", c)>>)
          /\ UNCHANGED <<conn, aborted>>
     ELSE Abort("handleClose") /\ UNCHANGED <<conn, todo>>
  /\ UNCHANGED <<lpc, active, functors, batch, left, userVars>>

\* handleClose leaves state_ as it is.
HandleClose(l) ==
  /\ IsAt(l, "handleClose")
  /\ LET c == Current(l) IN
     IF conn[c].state = "kConnected"
     THEN /\ conn' = [conn EXCEPT ![c].channel = disableAll(@)]
          /\ Continue(l, <<Do("closeCallback", c)>>)
          /\ UNCHANGED aborted
     ELSE Abort("handleClose") /\ UNCHANGED <<conn, todo>>
  /\ UNCHANGED <<lpc, active, functors, batch, left, userVars>>

\* handleError reads, and so clears, SO_ERROR.
HandleError(l) ==
  /\ IsAt(l, "handleError")
  /\ conn' = [conn EXCEPT ![Current(l)].err = FALSE]
  /\ Continue(l, <<>>)
  /\ UNCHANGED <<lpc, active, functors, batch, left, userVars, aborted>>

SendInLoop(l) ==
  /\ IsAt(l, "sendInLoop")
  /\ conn' = [conn EXCEPT ![Current(l)] = sendInLoop(@)]
  /\ Queue(l, sendCompletes(Current(l)))
  /\ Continue(l, <<>>)
  /\ UNCHANGED <<lpc, active, batch, left, userVars, aborted>>

ShutdownInLoop(l) ==
  /\ IsAt(l, "shutdownInLoop")
  /\ conn' = [conn EXCEPT ![Current(l)] = shutdownInLoop(@)]
  /\ Continue(l, <<>>)
  /\ UNCHANGED <<lpc, active, functors, batch, left, userVars, aborted>>

\* A functor bound to this runs for a connection that is destroyed: undefined
\* behaviour, at which the model stops.
UseDestroyed(l) ==
  /\ Running /\ todo[l] # <<>> /\ Current(l) \notin Alive
  /\ Abort("destroyed")
  /\ UNCHANGED <<conn, loopVars, userVars>>

-----------------------------------------------------------------------------
(* The application.                                                        *)

\* Sends on connection c so far, the queued ones included (for MaxSends).
Sends(c) ==
  LET l == conn[c].loop IN
  conn[c].sent \div MsgLen
    + Cardinality({i \in 1..Len(todo[l] \o left[l] \o functors[l]) :
                     (todo[l] \o left[l] \o functors[l])[i] = Do("sendInLoop", c)})

\* send() in a callback: on the loop's own thread it is done at once.
AppSend(l) ==
  /\ IsAt(l, "callback")
  /\ LET c == Current(l) IN
     /\ conn[c].state = "kConnected" /\ Sends(c) < MaxSends
     /\ conn' = [conn EXCEPT ![c] = sendInLoop(@)]
     /\ Queue(l, sendCompletes(c))
  /\ UNCHANGED <<lpc, active, todo, batch, left, userVars, aborted>>

\* shutdown() in a callback.
AppShutdown(l) ==
  /\ MayShutdown
  /\ IsAt(l, "callback")
  /\ LET c == Current(l) IN
     /\ conn[c].state = "kConnected"
     /\ conn' = [conn EXCEPT ![c] = shutdownInLoop([@ EXCEPT !.state = "kDisconnected"])]
  /\ UNCHANGED <<loopVars, userVars, aborted>>

\* The callback gives the TcpConnectionPtr to another thread.
AppShares(l, u) ==
  /\ IsAt(l, "callback")
  /\ Current(l) \notin uref[u]
  /\ uref' = [uref EXCEPT ![u] = @ \cup {Current(l)}]
  /\ UNCHANGED <<conn, loopVars, ucall, aborted>>

CallbackReturns(l) ==
  /\ IsAt(l, "callback")
  /\ Continue(l, <<>>)
  /\ UNCHANGED <<conn, lpc, active, functors, batch, left, userVars, aborted>>

\* send() or shutdown() on another thread: the test of state_ ...
UserTestsState(u, c, op) ==
  /\ Running /\ ucall[u] = NoCall
  /\ c \in uref[u]
  /\ conn[c].state = "kConnected"
  /\ \/ op = "sendInLoop" /\ Sends(c) < MaxSends
     \/ op = "shutdownInLoop" /\ MayShutdown
  /\ ucall' = [ucall EXCEPT ![u] = Do(op, c)]
  /\ UNCHANGED <<conn, loopVars, uref, aborted>>

\* ... and, later, setState (for shutdown) and the functor, bound to this.
UserQueues(u) ==
  /\ Running /\ ucall[u] # NoCall
  /\ LET c == ucall[u].conn IN
     /\ conn' = IF ucall[u].op = "shutdownInLoop"
                THEN [conn EXCEPT ![c].state = "kDisconnected"] ELSE conn
     /\ Queue(conn[c].loop, <<ucall[u]>>)
  /\ ucall' = [ucall EXCEPT ![u] = NoCall]
  /\ UNCHANGED <<lpc, active, todo, batch, left, uref, aborted>>

UserReleases(u, c) ==
  /\ Running /\ ucall[u] = NoCall
  /\ c \in uref[u]
  /\ uref' = [uref EXCEPT ![u] = @ \ {c}]
  /\ UNCHANGED <<conn, loopVars, ucall, aborted>>

-----------------------------------------------------------------------------
(* The peer and the kernel.                                                *)

PeerSends(c) ==
  /\ Running /\ conn[c].made /\ conn[c].peer = "open" /\ conn[c].unread = 0
  /\ conn' = [conn EXCEPT ![c].unread = 1]
  /\ UNCHANGED <<loopVars, userVars, aborted>>

PeerReads(c) ==
  /\ Running /\ conn[c].made /\ conn[c].peer # "reset" /\ conn[c].room < SndBuf
  /\ conn' = [conn EXCEPT ![c].room = SndBuf]
  /\ UNCHANGED <<loopVars, userVars, aborted>>

PeerCloses(c) ==
  /\ Running /\ conn[c].made /\ conn[c].peer = "open"
  /\ conn' = [conn EXCEPT ![c].peer = "closed"]
  /\ UNCHANGED <<loopVars, userVars, aborted>>

PeerResets(c) ==
  /\ Running /\ conn[c].made /\ conn[c].peer # "reset"
  /\ conn' = [conn EXCEPT ![c].peer = "reset", ![c].err = TRUE]
  /\ UNCHANGED <<loopVars, userVars, aborted>>

-----------------------------------------------------------------------------

LoopMachinery(l) ==
  Poll(l) \/ Dispatch(l) \/ SwapPending(l) \/ RunFunctor(l) \/ FunctorsDone(l)

ConnStep(l) ==
  \/ ConnectEstablished(l) \/ ConnectDestroyed(l) \/ RemoveChannel(l)
  \/ HandleRead(l) \/ HandleWrite(l) \/ HandleClose(l) \/ HandleError(l)
  \/ SendInLoop(l) \/ ShutdownInLoop(l) \/ CallbackReturns(l)

ConnHandler(l) ==
  \/ UseDestroyed(l)
  \/ ConnStep(l) /\ Current(l) \in Alive

Application ==
  \/ \E l \in Loops : AppSend(l) \/ AppShutdown(l) \/ \E u \in Users : AppShares(l, u)
  \/ \E u \in Users :
       \/ UserQueues(u)
       \/ \E c \in Conns :
            \/ UserTestsState(u, c, "sendInLoop")
            \/ UserTestsState(u, c, "shutdownInLoop")
            \/ UserReleases(u, c)

Peer(c) == PeerSends(c) \/ PeerReads(c) \/ PeerCloses(c) \/ PeerResets(c)
=============================================================================
