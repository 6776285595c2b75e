----------------------------- MODULE TcpServer ------------------------------
(***************************************************************************)
(* A TcpServer: the acceptor and connections_ on the base loop, the        *)
(* connections spread over the io loops by EventLoopThreadPool.            *)
(***************************************************************************)
EXTENDS TcpConnection

CONSTANTS
  BaseLoop,    \* loop_, the acceptor's loop
  Pools        \* the pools setThreadNum may ask for: sequences of io loops

ASSUME TcpServerAssumption ==
  /\ Pools \subseteq Seq(Loops \ {BaseLoop})
  /\ BaseLoop \in Loops

VARIABLES
  loops_,        \* the io loops of the thread pool, possibly none
  next_          \* the index getNextLoop uses next

vars == <<conn, loopVars, userVars, aborted, connections_, loops_, next_>>
serverVars == <<connections_, loops_, next_>>

TypeOK ==
  /\ ConnTypeOK
  /\ loops_ \in Pools
  /\ next_ \in 0 .. Len(loops_)
  /\ loops_ # <<>> => next_ < Len(loops_)

Init ==
  /\ ConnInit
  /\ \A c \in Conns : conn[c].loop = BaseLoop
  /\ loops_ \in Pools
  /\ next_ = 0

getNextLoop == IF loops_ = <<>> THEN BaseLoop ELSE loops_[next_ + 1]

\* Acceptor::handleRead and newConnection, in a callback of the base loop: the
\* connection is stored and connectEstablished run on its loop.
NewConnection(c) ==
  LET l == getNextLoop IN
  /\ Idle(BaseLoop) /\ lpc[BaseLoop] = "dispatch"
  /\ ~conn[c].made
  /\ conn' = [conn EXCEPT ![c].made = TRUE, ![c].loop = l]
  /\ next_' = IF loops_ = <<>> THEN next_ ELSE (next_ + 1) % Len(loops_)
  /\ connections_' = connections_ \cup {c}
  /\ IF l = BaseLoop
     THEN /\ todo' = [todo EXCEPT ![l] = <<Do("connectEstablished", c)>>]
          /\ UNCHANGED functors
     ELSE /\ Queue(l, <<Do("connectEstablished", c)>>)
          /\ UNCHANGED todo
  /\ UNCHANGED <<lpc, active, batch, left, userVars, aborted, loops_>>

\* removeConnection, the closeCallback_ of a server's connection.
RemoveConnection(l) ==
  /\ IsAt(l, "closeCallback")
  /\ LET remove == <<Do("removeConnectionInLoop", Current(l))>> IN
     IF l = BaseLoop
     THEN Continue(l, remove) /\ UNCHANGED functors
     ELSE Queue(BaseLoop, remove) /\ Continue(l, <<>>)
  /\ UNCHANGED <<conn, lpc, active, batch, left, userVars, aborted, serverVars>>

\* Mutant of RemoveConnectionInLoop: connectDestroyed is not queued.
RemoveConnectionInLoopForgets(l) ==
  /\ IsAt(l, "removeConnectionInLoop")
  /\ LET c == Current(l) IN
     IF c \in connections_
     THEN /\ connections_' = connections_ \ {c}
          /\ Continue(l, <<>>)
          /\ UNCHANGED <<functors, aborted>>
     ELSE Abort("removeConnectionInLoop") /\ UNCHANGED <<connections_, functors, todo>>
  /\ UNCHANGED <<conn, lpc, active, batch, left, userVars, loops_, next_>>

\* removeConnectionInLoop, on the base loop.
RemoveConnectionInLoop(l) ==
  /\ IsAt(l, "removeConnectionInLoop")
  /\ LET c == Current(l) IN
     IF c \in connections_
     THEN /\ connections_' = connections_ \ {c}
          /\ Queue(conn[c].loop, <<Do("connectDestroyed", c)>>)
          /\ Continue(l, <<>>)
          /\ UNCHANGED aborted
     ELSE Abort("removeConnectionInLoop") /\ UNCHANGED <<connections_, functors, todo>>
  /\ UNCHANGED <<conn, lpc, active, batch, left, userVars, loops_, next_>>

LoopStep(l) ==
  \/ LoopMachinery(l) /\ UNCHANGED serverVars
  \/ ConnHandler(l) /\ UNCHANGED serverVars
  \/ RemoveConnection(l) \/ RemoveConnectionInLoop(l)

Next ==
  \/ \E l \in Loops : LoopStep(l)
  \/ \E c \in Conns : NewConnection(c)
  \/ Application /\ UNCHANGED serverVars
  \/ \E c \in Conns : Peer(c) /\ UNCHANGED serverVars

Spec == Init /\ [][Next]_vars

\* epoll_wait has a reason to return: an event, or the wakeup that came with a
\* functor.  Only a writeCompleteCallback_ may have been queued without one, by
\* a functor on its own loop (EventLoop's NoLostWakeup).
Woken(l) ==
  \/ lpc[l] # "poll"
  \/ Reports(l) # {}
  \/ \E s \in ToSet(functors[l]) : s.op # "callback"

\* Every loop that is not blocked in epoll_wait is scheduled and its callbacks
\* return; a user thread finishes the call it is in; the peer goes on reading.
Fairness ==
  /\ \A l \in Loops : WF_vars(LoopStep(l) /\ Woken(l))
  /\ \A u \in Users : WF_vars(UserQueues(u) /\ UNCHANGED serverVars)
  /\ \A c \in Conns : WF_vars(PeerReads(c) /\ UNCHANGED serverVars)

FairSpec == Spec /\ Fairness

-----------------------------------------------------------------------------
(* Properties.                                                             *)

\* What queueInLoop is given.
FunctorOps == {"connectEstablished", "removeConnectionInLoop", "connectDestroyed",
               "callback", "sendInLoop", "shutdownInLoop"}

\* epoll never holds, and the loop never dispatches to, a channel whose
\* connection is destroyed, and no functor bound to a raw this nor a step of a
\* handler is left to run for one: connections_ or the connectDestroyed functor
\* keeps it until removeChannel, across two loops and a stale list of reports.
NothingDangles ==
  aborted = "none" =>
    /\ \A c \in Conns : conn[c].channel.registered => c \in Alive
    /\ \A l \in Loops :
         /\ \A r \in active[l] : r[1] \in Alive
         /\ \A s \in ToSet(todo[l] \o functors[l] \o left[l]) : s.conn \in Alive

\* Messages reach the socket whole, once, and in the order sendInLoop took
\* them, through any mix of direct, partial, failed and delayed writes.
InOrder(k) == k.written \o k.outputBuffer = [i \in 1..k.sent |-> i]
StreamInOrder == \A c \in Conns : InOrder(conn[c])

\* Unsent data is waited for: outside handleClose's aftermath the channel asks
\* for EPOLLOUT exactly while outputBuffer_ holds something, so the buffer is
\* never stuck and the loop never spins on a writable socket.
BufferWaitedFor(k) ==
  "read" \in k.channel.events => (isWriting(k.channel) <=> k.outputBuffer # <<>>)
WritingIffBuffered == \A c \in Conns : BufferWaitedFor(conn[c])

\* The kernel's epoll set and a channel agree, and no epoll_ctl failed.
EpollAgrees(ch) ==
  /\ ~ch.fatal
  /\ ch.registered <=> ch.index = "kAdded"
  /\ ch.registered => ch.interest = ch.events

\* A connection between two steps.  Its channel is untouched until
\* connectEstablished and then reads until the peer closes or resets.
Sound(k) ==
  /\ EpollAgrees(k.channel) /\ InOrder(k) /\ BufferWaitedFor(k)
  /\ k.state = "kConnecting" => k.channel = NewChannel /\ k.outputBuffer = <<>>
  /\ k.state # "kConnecting" =>
       k.made /\ (k.peer = "open" => "read" \in k.channel.events)
  /\ k.err => k.peer = "reset"

\* What makes a step of a connection legal wherever it waits: only a connection
\* that is established is sent on or shut down, only one whose peer is gone
\* is closed.
Justified(s) ==
  LET k == conn[s.conn] IN
  /\ k.made
  /\ s.op \in {"sendInLoop", "shutdownInLoop"} => k.state # "kConnecting"
  /\ s.op \in {"handleClose", "closeCallback", "removeConnectionInLoop",
               "connectDestroyed"} => k.peer # "open"

\* A report of EPOLLIN or EPOLLHUP holds until its handler runs.
Founded(r, l) ==
  LET k == conn[r[1]] IN
  /\ k.made /\ k.loop = l
  /\ "IN" \in r[2] => k.unread > 0 \/ k.peer # "open"
  /\ "HUP" \in r[2] => k.peer # "open"

\* One handleRead per report: what epoll reported to be readable is still there.
OneRead(steps) ==
  \A i, j \in DOMAIN steps :
    steps[i].op = "handleRead" /\ steps[j].op = "handleRead" => i = j

\* The calls and reports of one loop.
LoopSound(l) ==
  /\ \A s \in ToSet(todo[l]) :
       /\ Justified(s)
       /\ s.op = "handleRead" =>
            Founded(<<s.conn, {"IN"}>>, l) /\ \A r \in active[l] : r[1] # s.conn
  /\ OneRead(todo[l])
  /\ \A s \in ToSet(functors[l]) \cup ToSet(left[l]) : Justified(s) /\ s.op \in FunctorOps
  /\ \A r \in active[l] : Founded(r, l)
  /\ \A r1, r2 \in active[l] : r1[1] = r2[1] => r1 = r2

\* A connection is kept for its channel by connections_ or by the connectDestroyed
\* on its way to its loop; after that the channel is idle, and out of epoll
\* when removeChannel returns.
DestroyPending(c) ==
  LET l == conn[c].loop IN
  Do("connectDestroyed", c) \in ToSet(todo[l]) \cup ToSet(functors[l]) \cup ToSet(left[l])
Kept(c) == c \in connections_ \/ DestroyPending(c)
Down(c) ==
  LET k == conn[c] IN
  /\ k.state = "kDisconnected" /\ k.channel.events = {}
  /\ k.channel.registered => Do("removeChannel", c) \in ToSet(todo[k.loop])

\* The handlers of a channel run in dispatch, on its loop, while the connection is
\* kept; connectDestroyed and removeChannel run while the loop's vector of
\* functors holds it.
LoopKeeps(l) ==
  /\ lpc[l] # "functors" => left[l] = <<>>
  /\ ToSet(left[l]) \subseteq ToSet(batch[l])
  /\ \A s \in ToSet(todo[l]) :
       /\ s.op \in {"connectDestroyed", "removeChannel"} =>
            lpc[l] = "functors" /\ Do("connectDestroyed", s.conn) \in ToSet(batch[l])
       /\ s.op \in {"handleClose", "handleError", "handleRead", "handleWrite"} =>
            lpc[l] = "dispatch" /\ conn[s.conn].loop = l /\ Kept(s.conn)
  /\ \A r \in active[l] : lpc[l] = "dispatch" /\ Kept(r[1])
  /\ \A s \in ToSet(todo[l]) \cup ToSet(functors[l]) \cup ToSet(left[l]) :
       /\ s.op = "connectDestroyed" => conn[s.conn].loop = l
       /\ s.op \notin {"sendInLoop", "shutdownInLoop"}

\* Who keeps what, in a server whose connections are used in callbacks only.
Ownership ==
  /\ \A c \in Conns : conn[c].made => Kept(c) \/ Down(c)
  /\ \A l \in Loops : LoopKeeps(l)

\* Data nobody will write: handleClose or connectDestroyed disabled the channel,
\* and a send came after that.  No write drains it once the peer has reset.
Late(k) == k.outputBuffer # <<>> /\ "read" \notin k.channel.events
Stuck(k) == Late(k) /\ k.peer = "reset"

\* All a loop is still to do, in the order it will do it.
Agenda(l) == todo[l] \o left[l] \o functors[l]

\* At most one place of a sequence of steps, or of all agendas, is in S.
OnceIn(s, S) == \A i, j \in DOMAIN s : s[i] \in S /\ s[j] \in S => i = j
Meets(s, S) == ToSet(s) \cap S # {}
OnceAnywhere(S) ==
  /\ \A l \in Loops : OnceIn(Agenda(l), S)
  /\ \A l, m \in Loops : Meets(Agenda(l), S) /\ Meets(Agenda(m), S) => l = m

\* A connection's way from newConnection to connectDestroyed, of which only one
\* step waits anywhere; only a stuck one may be closed a second time.
Life(c) == {Do(op, c) : op \in {"connectEstablished", "closeCallback",
                                "removeConnectionInLoop", "connectDestroyed"}}
OneLife(c) ==
  /\ OnceAnywhere({Do("connectDestroyed", c)})
  /\ Stuck(conn[c]) \/ OnceAnywhere(Life(c))

\* The record of a connection agrees with itself, ...
Coherent(k) ==
  /\ "write" \in k.channel.events => k.outputBuffer # <<>>
  /\ k.channel.events # {} => k.channel.registered
  /\ k.shutWr => k.state = "kDisconnected"
  /\ k.state # "kDisconnected" => k.downs = 0

\* ... with connections_, and with the epoll set: a channel is registered because
\* it reads, because of late data, or until removeChannel.
Anchored(c) ==
  LET k == conn[c] IN
  /\ c \in connections_ => k.made /\ k.downs = 0
  /\ "read" \in k.channel.events => c \in connections_
  /\ k.channel.registered =>
       "read" \in k.channel.events \/ Late(k) \/ Do("removeChannel", c) \in ToSet(todo[k.loop])

\* Who may be closed: a connection that reads, or one with late data that the
\* peer reset or the application shut down.
MayClose(k) ==
  \/ "read" \in k.channel.events
  \/ Late(k) /\ (k.peer = "reset" \/ k.state = "kDisconnected")

HandlerNames == {"handleRead", "handleWrite", "handleClose", "handleError"}

\* A step waits on the right loop and comes at its time in the connection's life.
Timely(s, l) ==
  LET k == conn[s.conn] IN
  /\ IF s.op = "removeConnectionInLoop" THEN l = BaseLoop ELSE k.loop = l
  /\ s.op = "connectEstablished" <=> k.state = "kConnecting"
  /\ s.op = "connectEstablished" => s.conn \in connections_
  /\ s.op \in {"closeCallback", "removeConnectionInLoop"} =>
       "read" \notin k.channel.events /\ (s.conn \in connections_ \/ Stuck(k))
  /\ s.op = "connectDestroyed" =>
       s.conn \notin connections_ /\ k.downs = 0 /\ "read" \notin k.channel.events
  /\ s.op = "shutdownInLoop" => k.state = "kDisconnected"
  /\ s.op = "removeChannel" =>
       /\ k.state = "kDisconnected" /\ k.channel.events = {}
       /\ k.channel.index = "kAdded" \/ k.outputBuffer # <<>>
  /\ s.op \in HandlerNames => Kept(s.conn) \/ Late(k)
  /\ s.op = "handleRead" => "read" \in k.channel.events
  /\ s.op = "handleClose" => MayClose(k)

\* The same of a report that is not handled yet.
TimelyReport(r) ==
  LET k == conn[r[1]] IN
  /\ k.state # "kConnecting"
  /\ Kept(r[1]) \/ Late(k)
  /\ "IN" \in r[2] => "read" \in k.channel.events
  /\ "HUP" \in r[2] => MayClose(k)

\* What a loop is in the middle of: handlers run in dispatch, one connection's at a
\* time and handleWrite the last of them; connectDestroyed and removeChannel run
\* while the vector of functors holds the connection, removeChannel the last.
Tidy(l) ==
  /\ lpc[l] # "functors" => left[l] = <<>>
  /\ lpc[l] # "dispatch" => active[l] = {}
  /\ ToSet(left[l]) \subseteq ToSet(batch[l])
  /\ \A s \in ToSet(todo[l]) :
       /\ s.op \in {"connectDestroyed", "removeChannel"} =>
            lpc[l] = "functors" /\ Do("connectDestroyed", s.conn) \in ToSet(batch[l])
       /\ s.op \in HandlerNames => lpc[l] = "dispatch"
       /\ s.op = "removeChannel" =>
            \A t \in ToSet(todo[l]) : t.op \in {"callback", "removeChannel"}
       /\ \A r \in active[l] : r[1] # s.conn
  /\ \A i \in DOMAIN todo[l] :
       todo[l][i].op \in {"handleWrite", "connectDestroyed", "removeChannel"} => i = Len(todo[l])
  /\ OnceIn(todo[l], {Do(op, c) : op \in {"handleRead", "handleClose"}, c \in Conns})

\* The order of a connection's life, whoever uses it: established once, closed once,
\* erased, destroyed; and what late data upsets in it.
Orderly ==
  /\ \A c \in Conns : Coherent(conn[c]) /\ Anchored(c) /\ OneLife(c)
  /\ \A l \in Loops : \A s \in ToSet(Agenda(l)) : Timely(s, l)
  /\ \A l \in Loops : \A r \in active[l] : TimelyReport(r)
  /\ \A l \in Loops : Tidy(l)

\* The invariant of the proofs: the types, and every connection, step, call and
\* report that waits.
IInv ==
  /\ TypeOK
  /\ \A c \in Conns : Sound(conn[c])
  /\ \A u \in Users : ucall[u] # NoCall => Justified(ucall[u])
  /\ \A l \in Loops : LoopSound(l)
  /\ Orderly
  /\ Users = {} => Ownership

\* shutdown() loses nothing: as long as the peer is there, shutdownInLoop does
\* SHUT_WR only when everything given to sendInLoop before it is written,
\* whichever threads called send() and shutdown().
ShutdownAfterDrain ==
  [][\A c \in Conns :
       (conn[c].peer = "open" /\ ~conn[c].shutWr /\ conn'[c].shutWr)
         => conn'[c].outputBuffer = <<>>]_vars

\* What can stop the program.  handleClose or connectDestroyed meet a connection the
\* application shut down; or a send, of another thread or of a write-complete
\* callback, late enough to find the channel disabled leaves data it cannot write,
\* enableWriting puts the channel back into epoll, and removeChannel,
\* removeConnectionInLoop or a second handleClose fail, or its events are handled
\* when nobody keeps the connection; or the functor of such a call is run then.
AbortsExplained ==
  LET shutDown(c) == conn[c].state = "kDisconnected" /\ conn[c].downs = 0
  IN
  CASE aborted = "none" -> TRUE
    [] aborted = "connectDestroyed" -> \E c \in Conns : shutDown(c)
    [] aborted = "handleClose" -> \E c \in Conns : shutDown(c) \/ Late(conn[c])
    [] aborted \in {"removeChannel", "removeConnectionInLoop"} ->
         \E c \in Conns : Late(conn[c])
    [] aborted = "destroyed" ->
         \E l \in Loops : /\ todo[l] # <<>>
                          /\ Current(l) \notin Alive
                          /\ \/ Head(todo[l]).op \in {"sendInLoop", "shutdownInLoop"}
                             \/ Late(conn[Current(l)])
    [] aborted = "connectEstablished" -> FALSE

\* A connection whose peer closed or reset it is closed, erased from the map,
\* told to the application once and, as soon as no user thread holds it,
\* destroyed, unless an assertion stops the program.  Only a write-complete
\* callback of a send made by the loop's last functors may hold it longer: nothing
\* wakes the loop for it.
ClosedIsDestroyed ==
  \A c \in Conns :
    (conn[c].made /\ conn[c].peer # "open")
      ~> \/ /\ conn[c].downs = 1
            /\ c \in Alive => \/ \E u \in Users : c \in uref[u]
                              \/ Do("callback", c) \in ToSet(functors[conn[c].loop])
         \/ aborted # "none"

\* shutdown() with a peer that goes on reading ends in SHUT_WR, however much
\* was still buffered (unless the peer ends the connection first).
ShutdownCompletes ==
  \A c \in Conns :
    (conn[c].state = "kDisconnected" /\ conn[c].downs = 0)
      ~> (conn[c].shutWr \/ conn[c].peer # "open")

\* test10.cpp: a server that shuts a connection down is later told that the
\* connection "is down", so handleClose must accept a connection that was shut
\* down.
PeerCloseAfterShutdown == aborted # "handleClose"
=============================================================================
