----------------------------- MODULE TcpClient ------------------------------
(***************************************************************************)
(* A TcpClient: a Connector and the one connection it makes, made again    *)
(* when it is lost (retry_).  The connection is modelled by what the       *)
(* client sees of it; TcpConnection has its details.  connect(), stop()    *)
(* and disconnect() are called on the loop thread or on one other thread.  *)
(***************************************************************************)
EXTENDS Connector

CONSTANTS
  retry_,         \* whether enableRetry() was called
  MaxStarts       \* bound: calls of connect()

ASSUME TcpClientAssumption ==
  /\ retry_ \in BOOLEAN
  /\ MaxStarts \in Nat

VARIABLES
  clientConnect_, \* TcpClient::connect_
  connection_,    \* None, or the connection, named by its descriptor
  conns,          \* how far the TcpConnection of each descriptor is
  hup,            \* connections reported closed by their peer, to be handled
  upc,            \* the other thread, in stop() or disconnect()
  starts,         \* calls of connect() so far
  stopped,        \* history: stop() returned, and no connect() came after it
  farStop,        \* history: stop() was called on the other thread
  disconnected    \* history: whether disconnect() shut down a connection that
                  \* was "open", or "closing": handleClose had begun with it

callVars == <<starts, stopped, farStop, disconnected>>
clientVars == <<clientConnect_, connection_, conns, hup, upc, callVars>>
vars == <<connectorVars, clientVars>>

FunctorCalls ==
  {Call("startInLoop"), Call("resetChannel")}
    \cup {Do("cancel", id) : id \in TimerSeqs \cup {None}}
    \cup {Do("connectDestroyed", fd) : fd \in Fds}

\* What is left of newConnection and of handleClose.
ConnectionOps == {"connectEstablished", "removeConnection"}
ConnectionCalls == {Do(op, fd) : op \in ConnectionOps, fd \in Fds}

\* The rest of a call: one more call, except that handleWrite follows handleError.
Todos ==
  {<<>>} \cup {<<c>> : c \in FunctorCalls \cup ConnectorCalls \cup ConnectionCalls}
    \cup {<<Call(op), Call("handleWrite")>> : op \in {"handleError", "runAfter"}}

\* A connection that removeConnection let go is closed; connectDestroyed will
\* find it kConnected, or kDisconnected.
Live == {"kConnecting", "kConnected", "kDisconnected"}
Closed == {"closed", "closedDisconnected"}

TypeOK ==
  /\ ConnectorTypeOK
  /\ todo \in Todos
  /\ functors \in Seq(FunctorCalls) /\ batch \in Seq(FunctorCalls)
  /\ clientConnect_ \in BOOLEAN
  /\ connection_ \in Fds \cup {None}
  /\ conns \in [Fds -> {"none"} \cup Live \cup Closed]
  /\ hup \subseteq Fds
  /\ upc \in {"idle", "connector", "cancel", "disconnect"}
  /\ starts \in Nat
  /\ {stopped, farStop} \subseteq BOOLEAN
  /\ disconnected \subseteq {"open", "closing"}

Init ==
  /\ ConnectorInit
  /\ clientConnect_ = FALSE
  /\ connection_ = None
  /\ conns = [fd \in Fds |-> "none"]
  /\ hup = {}
  /\ upc = "idle"
  /\ starts = 0
  /\ stopped = FALSE
  /\ farStop = FALSE
  /\ disconnected = {}

-----------------------------------------------------------------------------
(* The loop thread.                                                        *)

\* The peers of some of the established connections have closed them.
ClientPoll ==
  /\ Poll
  /\ hup' \in SUBSET {fd \in Fds : conns[fd] \in {"kConnected", "kDisconnected"}}
  /\ UNCHANGED <<clientConnect_, connection_, conns, upc, callVars>>

\* newConnection, called by handleWrite: the client has a connection ...
NewConnection ==
  /\ IsAt("newConnection") /\ connect_
  /\ connection_' = Head(todo).arg
  /\ conns' = [conns EXCEPT ![Head(todo).arg] = "kConnecting"]
  /\ Continue(<<Do("connectEstablished", Head(todo).arg)>>)
  /\ UNCHANGED <<connect_, state_, channel_, retryDelayMs_, timerVars, attempt,
                 open, runVars, gaveUp, aborted, clientConnect_, hup, upc,
                 callVars>>

\* ... which is established once mutex_ is unlocked.
ConnectEstablished ==
  /\ IsAt("connectEstablished")
  /\ IF conns[Head(todo).arg] = "kConnecting"
     THEN /\ conns' = [conns EXCEPT ![Head(todo).arg] = "kConnected"]
          /\ Continue(<<>>)
          /\ UNCHANGED aborted
     ELSE Abort("connectEstablished") /\ UNCHANGED <<conns, todo>>
  /\ UNCHANGED <<connect_, state_, channel_, retryDelayMs_, timerVars, attempt,
                 open, runVars, gaveUp, clientConnect_, connection_, hup, upc,
                 callVars>>

\* handleClose of a connection: its assertion, before its closeCallback_ ...
HandleClose(fd) ==
  /\ Idle /\ phase = "events" /\ fd \in hup
  /\ hup' = hup \ {fd}
  /\ IF conns[fd] = "kConnected"
     THEN todo' = <<Do("removeConnection", fd)>> /\ UNCHANGED aborted
     ELSE Abort("handleClose") /\ UNCHANGED todo
  /\ UNCHANGED <<connect_, state_, channel_, retryDelayMs_, timerVars, attempt,
                 open, runVars, gaveUp, clientConnect_, connection_, conns, upc,
                 callVars>>

\* The end of removeConnection.
Reconnects == IF retry_ /\ clientConnect_ THEN <<Call("restart")>> ELSE <<>>

\* ... removeConnection, which locks mutex_ to let the connection go.
RemoveConnection ==
  /\ IsAt("removeConnection")
  /\ LET fd == Head(todo).arg
     IN IF connection_ = fd
        THEN /\ connection_' = None
             /\ conns' = [conns EXCEPT ![fd] =
                            IF @ = "kConnected" THEN "closed" ELSE "closedDisconnected"]
             /\ Queue(<<Do("connectDestroyed", fd)>>)
             /\ Continue(Reconnects)
             /\ UNCHANGED aborted
        ELSE Abort("removeConnection") /\ UNCHANGED <<connection_, conns, functors, todo>>
  /\ UNCHANGED <<connect_, state_, channel_, retryDelayMs_, timerVars, attempt,
                 open, phase, batch, gaveUp, clientConnect_, hup, upc, callVars>>

\* connectDestroyed and its assertion.  The last TcpConnectionPtr goes with it;
\* the destructor closes the socket.
ConnectDestroyed ==
  /\ IsAt("connectDestroyed")
  /\ IF conns[Head(todo).arg] = "closed"
     THEN /\ conns' = [conns EXCEPT ![Head(todo).arg] = "none"]
          /\ open' = open \ {Head(todo).arg}
          /\ Continue(<<>>)
          /\ UNCHANGED aborted
     ELSE Abort("connectDestroyed") /\ UNCHANGED <<conns, open, todo>>
  /\ UNCHANGED <<connect_, state_, channel_, retryDelayMs_, timerVars, attempt,
                 runVars, gaveUp, clientConnect_, connection_, hup, upc,
                 callVars>>

-----------------------------------------------------------------------------
(* The application.                                                        *)

\* Application code runs on the loop thread.
InApp == Idle /\ phase # "poll"

\* The application calls connect() once, and again only after stop().
MayConnect == starts < MaxStarts /\ (starts = 0 \/ stopped)

\* connect() on the loop thread, or before loop() ...
ConnectInLoop ==
  /\ InApp
  /\ MayConnect
  /\ starts' = starts + 1
  /\ clientConnect_' = TRUE
  /\ connect_' = TRUE
  /\ stopped' = FALSE
  /\ todo' = <<Call("startInLoop")>>
  /\ UNCHANGED <<state_, channel_, retryDelayMs_, timerVars, attempt, open,
                 runVars, gaveUp, aborted, connection_, conns, hup, upc,
                 farStop, disconnected>>

\* ... and on another thread.
ConnectFromAfar ==
  /\ Running /\ upc = "idle"
  /\ MayConnect /\ Len(functors) < MaxPending
  /\ starts' = starts + 1
  /\ clientConnect_' = TRUE
  /\ connect_' = TRUE
  /\ stopped' = FALSE
  /\ Queue(<<Call("startInLoop")>>)
  /\ UNCHANGED <<state_, channel_, retryDelayMs_, timerVars, attempt, open,
                 phase, todo, batch, gaveUp, aborted, connection_, conns, hup,
                 upc, farStop, disconnected>>

\* stop() on the loop thread.
StopInLoop ==
  /\ InApp
  /\ clientConnect_' = FALSE
  /\ connect_' = FALSE
  /\ timers' = timers \ {timerId_}
  /\ ripe' = ripe \ {timerId_}
  /\ stopped' = TRUE
  /\ UNCHANGED <<state_, channel_, retryDelayMs_, timerId_, attempt, open,
                 runVars, todo, gaveUp, aborted, connection_, conns, hup, upc,
                 starts, farStop, disconnected>>

\* stop() on another thread, after connect(): the client's connect_ ...
StopStoreClient ==
  /\ Running /\ upc = "idle" /\ starts > 0
  /\ clientConnect_' = FALSE
  /\ upc' = "connector"
  /\ farStop' = TRUE
  /\ UNCHANGED <<connectorVars, connection_, conns, hup, starts, stopped,
                 disconnected>>

\* ... the connector's ...
StopStoreConnector ==
  /\ Running /\ upc = "connector"
  /\ connect_' = FALSE
  /\ upc' = "cancel"
  /\ UNCHANGED <<state_, channel_, retryDelayMs_, timerVars, attempt, open,
                 runVars, todo, gaveUp, aborted, clientConnect_, connection_,
                 conns, hup, callVars>>

\* ... and the cancel of timerId_ as it is now.
StopCancel ==
  /\ Running /\ upc = "cancel" /\ Len(functors) < MaxPending
  /\ Queue(<<Do("cancel", timerId_)>>)
  /\ upc' = "idle"
  /\ stopped' = TRUE
  /\ UNCHANGED <<connect_, state_, channel_, retryDelayMs_, timerVars, attempt,
                 open, phase, todo, batch, gaveUp, aborted, clientConnect_,
                 connection_, conns, hup, starts, farStop, disconnected>>

\* Under mutex_, shutdown() of the connection there is.
ShutsDown ==
  LET shut == {fd \in Fds : fd = connection_ /\ conns[fd] = "kConnected"}
      when == IF IsAt("removeConnection") THEN "closing" ELSE "open"
  IN /\ conns' = [fd \in Fds |-> IF fd \in shut THEN "kDisconnected" ELSE conns[fd]]
     /\ disconnected' = IF shut = {} THEN disconnected ELSE disconnected \cup {when}

\* disconnect() on the loop thread ...
DisconnectInLoop ==
  /\ InApp
  /\ clientConnect_' = FALSE
  /\ ShutsDown
  /\ UNCHANGED <<connectorVars, connection_, hup, upc, starts, stopped, farStop>>

\* ... and on another thread, before ...
DisconnectStore ==
  /\ Running /\ upc = "idle"
  /\ clientConnect_' = FALSE
  /\ upc' = "disconnect"
  /\ UNCHANGED <<connectorVars, connection_, conns, hup, callVars>>

\* ... and under the lock.
DisconnectLocked ==
  /\ Running /\ upc = "disconnect"
  /\ ShutsDown
  /\ upc' = "idle"
  /\ UNCHANGED <<connectorVars, clientConnect_, connection_, hup, starts,
                 stopped, farStop>>

-----------------------------------------------------------------------------

LoopStep ==
  \/ (LoopMachinery /\ (hup = {} \/ phase # "events")) /\ UNCHANGED clientVars
  \/ ConnectorStep /\ UNCHANGED clientVars
  \/ ClientPoll \/ NewConnection \/ ConnectEstablished
  \/ RemoveConnection \/ ConnectDestroyed
  \/ \E fd \in Fds : HandleClose(fd)

Stop == StopStoreConnector \/ StopCancel

Next ==
  \/ LoopStep
  \/ ConnectGivesUp /\ UNCHANGED clientVars
  \/ Kernel /\ UNCHANGED clientVars
  \/ \E id \in TimerSeqs : Ripen(id) /\ UNCHANGED clientVars
  \/ ConnectInLoop \/ ConnectFromAfar
  \/ StopInLoop \/ StopStoreClient \/ Stop
  \/ DisconnectInLoop \/ DisconnectStore \/ DisconnectLocked

Spec == Init /\ [][Next]_vars

\* epoll_wait has a reason to return.  All functors of this model are queued
\* by another thread or in an event callback, so a wakeup comes with them or
\* they are run in the same iteration.
Woken == phase # "poll" \/ Reported # {} \/ ripe # {} \/ functors # <<>>

\* The loop is scheduled and its callbacks return, delays end and stop() goes
\* on.  Of the server it is assumed that the connects do not fail for ever:
\* if they are tried again and again, some are accepted and not reset at once.
FairSpec ==
  /\ Spec
  /\ WF_vars(LoopStep /\ Woken)
  /\ WF_vars(Stop)
  /\ \A id \in TimerSeqs : SF_vars(Ripen(id) /\ UNCHANGED clientVars)
  /\ SF_vars(ConnectInProgress /\ UNCHANGED clientVars)
  /\ SF_vars(Resolves("connected") /\ UNCHANGED clientVars)
  /\ WF_vars(Kernel /\ UNCHANGED clientVars)
  /\ SF_vars(HandleWrite /\ attempt = "connected" /\ UNCHANGED clientVars)

-----------------------------------------------------------------------------
(* Properties.                                                             *)

\* The calls the loop has ahead of it.
Ahead == todo \o batch \o functors
IsAhead(ops) == \E i \in DOMAIN Ahead : Ahead[i].op \in ops

\* The socket handleWrite is about to hand over.
HandedOver == {c.arg : c \in {d \in ToSet(todo) : d.op = "newConnection"}}

\* No socket is leaked, and none is closed under a channel or a connection
\* that still uses it: the open descriptors are those of the channel that is
\* registered, of the connections, and the one being handed over.
SocketsOwned ==
  Running =>
    open = {fd \in Fds : conns[fd] # "none"} \cup HandedOver
             \cup (IF Registered THEN {channel_.fd} ELSE {})

\* The calls that begin an attempt or put one off.
Beginning == {"startInLoop", "restart", "runAfter"}
BeginningCalls(calls) == Cardinality({i \in DOMAIN calls : calls[i].op \in Beginning})

\* What the connector has under way: attempts to come, a retry timer, a
\* registered channel.
UnderWay ==
  BeginningCalls(Ahead) + Cardinality(timers) + (IF Registered THEN 1 ELSE 0)

\* connect() once, and any number of stops, losses and reconnections, never
\* have two attempts going at a time, nor one beside an established connection.
OneAttempt ==
  UnderWay + Cardinality(HandedOver) + (IF connection_ # None THEN 1 ELSE 0) <= 1

\* A client that is to be connected is never left with nothing under way:
\* whatever fails, there is a connection, an attempt or a retry timer, until
\* it is stopped or the connect fails for good.
NeverStranded ==
  (Running /\ retry_ /\ clientConnect_ /\ connect_ /\ ~gaveUp)
    => (connection_ # None \/ HandedOver # {} \/ UnderWay > 0)

\* Each call is made in its phase.
CallsInPhase ==
  /\ phase = "poll" => todo = <<>>
  /\ batch # <<>> => phase = "functors"
  /\ \A c \in ToSet(todo) :
       /\ c.op \in {"handleError", "handleWrite", "newConnection", "restart"} \cup ConnectionOps
            => phase = "events"
       /\ c.op \in {"resetChannel", "connectDestroyed", "cancel"} => phase = "functors"

\* state_ follows channel_, and a channel that reported an error is still there.
ConnectingRegistered ==
  Running => /\ Registered <=> state_ = "kConnecting"
             /\ IsAt("handleError") => Registered

\* The functors that must run once, for what they release.
Cleanups == {"connectDestroyed", "resetChannel"}

\* A socket has one owner at a time: a connection is destroyed once, after it
\* was closed, and a channel is reset once, after it was removed.
OneOwner ==
  Running =>
    /\ Registered => conns[channel_.fd] = "none" /\ HandedOver = {}
    /\ \A fd \in HandedOver : conns[fd] = "none"
    /\ \A c \in ToSet(Ahead) :
         /\ c.op = "connectDestroyed" => conns[c.arg] \in Closed
         /\ c.op = "resetChannel" => channel_ # None /\ ~Registered
    /\ \A i, j \in DOMAIN Ahead :
         Ahead[i].op \in Cleanups /\ Ahead[j] = Ahead[i] => j = i

\* The connection of the client is the one there is, and the connector stays
\* connected until it is restarted.
ConnectionIsThe ==
  Running =>
    /\ \A fd \in Fds : conns[fd] \in Live <=> fd = connection_
    /\ hup \subseteq {connection_}
    /\ connection_ # None \/ HandedOver # {} \/ IsAt("restart") => state_ = "kConnected"
    /\ connection_ # None => HandedOver = {} /\ ~IsAt("restart")

\* What was done to a connection shows in its state: connectEstablished comes
\* next if it is kConnecting, and disconnect() shut it down if it is
\* kDisconnected, after handleClose's assertion if removeConnection comes next
\* or has been.
ConnectionStates ==
  Running =>
    /\ \A fd \in Fds :
         /\ conns[fd] = "kConnecting" <=> IsAt("connectEstablished") /\ Head(todo).arg = fd
         /\ conns[fd] = "kDisconnected" =>
              (IF IsAt("removeConnection") THEN "closing" ELSE "open") \in disconnected
         /\ conns[fd] = "closedDisconnected" => "closing" \in disconnected
    /\ IsAt("removeConnection") => Head(todo).arg = connection_ /\ hup = {}

\* The part of the inductive invariant that needs no bound on connect().
SocketInv ==
  /\ TypeOK /\ CallsInPhase /\ ConnectingRegistered /\ OneOwner /\ ConnectionIsThe
  /\ ConnectionStates /\ SocketsOwned

\* Before connect() there is nothing.
NothingBeforeConnect ==
  starts = 0 =>
    /\ Ahead = <<>> /\ timers = {} /\ channel_ = None /\ state_ = "kDisconnected"
    /\ connection_ = None /\ conns = [fd \in Fds |-> "none"]

\* An attempt begins with a connector that is disconnected and has no channel.
BeginsAfresh ==
  Running =>
    /\ IsAhead({"startInLoop", "runAfter"}) \/ timers # {} => state_ = "kDisconnected"
    /\ IsAhead({"startInLoop", "restart"}) => channel_ = None

\* A channel that was removed is reset in the same iteration of the loop, before
\* a retry timer or the loss of a connection can begin an attempt.
ResetComes ==
  (Running /\ channel_ # None /\ ~Registered) =>
    \/ /\ phase = "events" /\ ripe = {} /\ connection_ \notin hup /\ ~IsAt("removeConnection")
       /\ Call("resetChannel") \in ToSet(functors)
    \/ phase = "functors" /\ Call("resetChannel") \in ToSet(todo \o batch)

\* A stop() on another thread is final for the client, and nothing else cancels
\* a timer later.
FarStops ==
  /\ farStop => ~clientConnect_ /\ starts > 0
  /\ IsAhead({"cancel"}) \/ upc \in {"connector", "cancel"} => farStop

\* The timer that waits is the one timerId_ names, and a stopped client begins
\* nothing.
StopKnowsTimer ==
  /\ timers \subseteq {timerId_}
  /\ (stopped /\ ~farStop) => ~clientConnect_ /\ ~IsAhead({"restart", "runAfter"})

\* No assertion of the connector, the client or the connection fails, except
\* after a disconnect(): handleClose's, for a connection that was shut down
\* before its peer closed it, and connectDestroyed's, for one that another
\* thread shut down between handleClose's assertion and removeConnection's lock.
AssertionsHold ==
  \/ aborted = "none"
  \/ aborted = "handleClose" /\ "open" \in disconnected
  \/ aborted = "connectDestroyed" /\ "closing" \in disconnected

\* When stop() of the loop's thread has returned, the connector stays told not
\* to connect and the retry timer is taken back, whichever retry set it, until
\* connect() is called again.
StopIsFinal == (stopped /\ ~farStop) => (~connect_ /\ timers = {})

\* The types, the descriptors, and at every moment exactly the attempts, timers
\* and connections there should be: the inductive invariant of a client whose
\* connect() is called once and whose callbacks take less than a retry delay.
IInv ==
  /\ SocketInv
  /\ OneAttempt /\ NeverStranded
  /\ NothingBeforeConnect /\ BeginsAfresh /\ ResetComes
  /\ FarStops /\ StopKnowsTimer
  /\ StopIsFinal /\ AssertionsHold

\* A client with retry_ is connected again after every loss, unless it is
\* stopped, a connect fails for good, or the race of disconnect() with the loss
\* stops the program.
Reconnected ==
  (clientConnect_ /\ retry_)
    ~> (connection_ # None \/ ~clientConnect_ \/ gaveUp \/ aborted = "connectDestroyed")

\* Connector.h: stop() "can be called in any thread", with the same effect.
StopInAnyThread == stopped => ~connect_
=============================================================================
