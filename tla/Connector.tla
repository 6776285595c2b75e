----------------------------- MODULE Connector ------------------------------
(***************************************************************************)
(* A Connector on the thread of its event loop: non-blocking connects,     *)
(* retried after a delay that doubles, until one succeeds or stop().       *)
(*                                                                         *)
(* One iteration of the loop goes through the phases "poll", "events" and  *)
(* "functors"; todo is the rest of the call the loop is in.  With todo     *)
(* empty, other channels' callbacks and functors run, in which the         *)
(* application may call the connector.  What its owner does with a         *)
(* connected socket (the step "newConnection") is left to the module that  *)
(* composes this one.  A failed assert() stops the program: aborted.       *)
(***************************************************************************)
EXTENDS Integers, FiniteSets, FiniteSetsExt, SequencesExt, Channel

CONSTANTS
  Fds,                \* descriptors the kernel hands out for sockets
  TimerSeqs,          \* sequence numbers of retry timers, reused when forgotten
  kInitRetryDelayMs,
  kMaxRetryDelayMs,
  MaxPending,         \* bound: functors queued to the loop
  SlowCallbacks,      \* whether a callback may outlast the retry delay
  None                \* a null pointer, an unset TimerId

ASSUME ConnectorAssumption ==
  /\ kInitRetryDelayMs \in Nat \ {0}
  /\ kMaxRetryDelayMs \in Nat
  /\ kInitRetryDelayMs <= kMaxRetryDelayMs
  /\ MaxPending \in Nat
  /\ SlowCallbacks \in BOOLEAN
  /\ None \notin Fds \cup TimerSeqs
  /\ None \notin [fd : Fds, ch : ChannelType]

VARIABLES
  connect_, state_,
  channel_,       \* None, or the channel_ with its descriptor
  retryDelayMs_,
  timerId_,
  timers,         \* the retry timers in the loop's TimerQueue
  ripe,           \* those whose delay is over
  attempt,        \* the kernel's side of the connect under way
  open,           \* the open descriptors
  phase, todo,
  functors,       \* pendingFunctors_
  batch,          \* what is left of doPendingFunctors's vector
  gaveUp,         \* history: connect failed with an error that is not retried
  aborted         \* the assertion that failed, or "none"

timerVars == <<timerId_, timers, ripe>>
runVars == <<phase, functors, batch>>
connectorVars == <<connect_, state_, channel_, retryDelayMs_, timerVars, attempt,
                   open, runVars, todo, gaveUp, aborted>>

\* Calls without an argument carry None.
Do(op, arg) == [op |-> op, arg |-> arg]
Call(op) == Do(op, None)
ConnectorCalls ==
  {Call(op) : op \in {"startInLoop", "restart", "runAfter", "resetChannel",
                      "handleError", "handleWrite"}}
    \cup {Do("newConnection", fd) : fd \in Fds}
    \cup {Do("cancel", id) : id \in TimerSeqs \cup {None}}

\* The channel while a connect is under way, and when it is disabled.
Added == enableWriting(NewChannel)
Removed == disableAll(Added)

ConnectorTypeOK ==
  /\ connect_ \in BOOLEAN
  /\ state_ \in {"kDisconnected", "kConnecting", "kConnected"}
  /\ channel_ \in {None} \cup [fd : Fds, ch : {Added, Removed}]
  /\ retryDelayMs_ \in kInitRetryDelayMs .. kMaxRetryDelayMs
  /\ timerId_ \in TimerSeqs \cup {None}
  /\ timers \subseteq TimerSeqs
  /\ ripe \subseteq timers
  /\ attempt \in {"pending", "connected", "selfConnect", "failed"}
  /\ open \subseteq Fds
  /\ phase \in {"poll", "events", "functors"}
  /\ gaveUp \in BOOLEAN

ConnectorInit ==
  /\ connect_ = FALSE
  /\ state_ = "kDisconnected"
  /\ channel_ = None
  /\ retryDelayMs_ = kInitRetryDelayMs
  /\ timerId_ = None
  /\ timers = {}
  /\ ripe = {}
  /\ attempt = "pending"
  /\ open = {}
  /\ phase = "functors"   \* the application, before loop()
  /\ todo = <<>>
  /\ functors = <<>>
  /\ batch = <<>>
  /\ gaveUp = FALSE
  /\ aborted = "none"

-----------------------------------------------------------------------------
(* The loop.                                                               *)

Running == aborted = "none"
Idle == Running /\ todo = <<>>
IsAt(op) == Running /\ todo # <<>> /\ Head(todo).op = op
Continue(calls) == todo' = calls \o Tail(todo)
Queue(calls) == functors' = functors \o calls
Abort(name) == aborted' = name

Registered == channel_ # None /\ channel_.ch.registered

\* The events epoll reports for channel_: a failed connect is an error and a
\* hangup, any other result makes the socket writable.
Reported ==
  IF Registered /\ attempt # "pending"
  THEN IF attempt = "failed" THEN {"OUT", "ERR", "HUP"} ELSE {"OUT"}
  ELSE {}

\* The callbacks connecting() sets are those for writing and for errors.
Handlers(revents) ==
  LET calls == handleEvent(revents, {"handleError", "handleWrite"})
  IN [i \in DOMAIN calls |-> Call(calls[i])]

\* epoll_wait returns (for this channel, the timerfd, a wakeup or anything
\* else).  The handlers of channel_ are called first if it was reported.
Poll ==
  /\ Idle /\ phase = "poll"
  /\ phase' = "events"
  /\ todo' = Handlers(Reported)
  /\ UNCHANGED <<connect_, state_, channel_, retryDelayMs_, timerVars, attempt,
                 open, functors, batch, gaveUp, aborted>>

\* doPendingFunctors takes the functors, after the expired timers ...
SwapPending ==
  /\ Idle /\ phase = "events"
  /\ ripe = {} \/ SlowCallbacks
  /\ phase' = "functors"
  /\ batch' = functors
  /\ functors' = <<>>
  /\ UNCHANGED <<connect_, state_, channel_, retryDelayMs_, timerVars, attempt,
                 open, todo, gaveUp, aborted>>

\* ... and runs them.
RunFunctor ==
  /\ Idle /\ phase = "functors" /\ batch # <<>>
  /\ todo' = <<Head(batch)>>
  /\ batch' = Tail(batch)
  /\ UNCHANGED <<connect_, state_, channel_, retryDelayMs_, timerVars, attempt,
                 open, phase, functors, gaveUp, aborted>>

FunctorsDone ==
  /\ Idle /\ phase = "functors" /\ batch = <<>>
  /\ phase' = "poll"
  /\ UNCHANGED <<connect_, state_, channel_, retryDelayMs_, timerVars, attempt,
                 open, todo, functors, batch, gaveUp, aborted>>

\* A retry delay ends, while the loop waits or, if callbacks are slow, at any
\* time.
Ripen(id) ==
  /\ Running
  /\ id \in timers \ ripe
  /\ phase = "poll" \/ SlowCallbacks
  /\ ripe' = ripe \cup {id}
  /\ UNCHANGED <<connect_, state_, channel_, retryDelayMs_, timerId_, timers,
                 attempt, open, runVars, todo, gaveUp, aborted>>

\* TimerQueue::handleRead runs the callback of a retry timer.
TimerFires(id) ==
  /\ Idle /\ phase = "events"
  /\ id \in ripe
  /\ timers' = timers \ {id}
  /\ ripe' = ripe \ {id}
  /\ todo' = <<Call("startInLoop")>>
  /\ UNCHANGED <<connect_, state_, channel_, retryDelayMs_, timerId_, attempt,
                 open, runVars, gaveUp, aborted>>

-----------------------------------------------------------------------------
(* The connector, on the loop thread.                                      *)

\* Mutant of retryCalls: no retry.
retryCallsNone == <<>>

\* retry, after Close(sockfd) and setState(kDisconnected): what follows.
retryCalls == IF connect_ THEN <<Call("runAfter")>> ELSE <<>>

\* connecting(sockfd) and its assertion.
connecting(fd) ==
  /\ state_' = "kConnecting"
  /\ IF channel_ = None
     THEN /\ channel_' = [fd |-> fd, ch |-> enableWriting(NewChannel)]
          /\ attempt' = "pending"
          /\ open' = open \cup {fd}
          /\ UNCHANGED aborted
     ELSE Abort("connecting") /\ UNCHANGED <<channel_, attempt, open>>

\* startInLoop when it does not connect: its assertion fails, or stop() came.
StartInLoopRefuses ==
  /\ IsAt("startInLoop")
  /\ state_ # "kDisconnected" \/ ~connect_
  /\ IF state_ # "kDisconnected"
     THEN Abort("startInLoop") /\ UNCHANGED todo
     ELSE Continue(<<>>) /\ UNCHANGED aborted
  /\ UNCHANGED <<connect_, state_, channel_, retryDelayMs_, timerVars, attempt,
                 open, runVars, gaveUp>>

Connects == IsAt("startInLoop") /\ state_ = "kDisconnected" /\ connect_

\* connect(): the connection is under way, ...
ConnectInProgress ==
  /\ Connects
  /\ \E fd \in Fds \ open : connecting(fd)
  /\ Continue(<<>>)
  /\ UNCHANGED <<connect_, retryDelayMs_, timerVars, runVars, gaveUp>>

\* ... or failed and is retried with a new socket, ...
ConnectFails ==
  /\ Connects
  /\ Fds \ open # {}
  /\ Continue(retryCalls)
  /\ UNCHANGED <<connect_, state_, channel_, retryDelayMs_, timerVars, attempt,
                 open, runVars, gaveUp, aborted>>

\* ... or failed for good.
ConnectGivesUp ==
  /\ Connects
  /\ gaveUp' = TRUE
  /\ Continue(<<>>)
  /\ UNCHANGED <<connect_, state_, channel_, retryDelayMs_, timerVars, attempt,
                 open, runVars, aborted>>

\* Mutant of RunAfter: timerId_ is not kept.
RunAfterForgetsId ==
  /\ IsAt("runAfter")
  /\ \E id \in TimerSeqs \ (timers \cup {timerId_} \cup {f.arg : f \in ToSet(functors \o batch)}) :
       timers' = timers \cup {id} /\ UNCHANGED timerId_
  /\ retryDelayMs_' = Min({2 * retryDelayMs_, kMaxRetryDelayMs})
  /\ Continue(<<>>)
  /\ UNCHANGED <<connect_, state_, channel_, ripe, attempt, open, runVars,
                 gaveUp, aborted>>

\* The end of retry: the retry timer, under a sequence number nobody uses.
RunAfter ==
  /\ IsAt("runAfter")
  /\ \E id \in TimerSeqs \ (timers \cup {timerId_} \cup {f.arg : f \in ToSet(functors \o batch)}) :
       timers' = timers \cup {id} /\ timerId_' = id
  /\ retryDelayMs_' = Min({2 * retryDelayMs_, kMaxRetryDelayMs})
  /\ Continue(<<>>)
  /\ UNCHANGED <<connect_, state_, channel_, ripe, attempt, open, runVars,
                 gaveUp, aborted>>

\* Mutant of removeAndResetChannel: the functor is not queued.
removeAndResetChannelKeeps ==
  /\ channel_' = [channel_ EXCEPT !.ch = disableAll(@)]
  /\ UNCHANGED functors

\* removeAndResetChannel: channel_ leaves the epoll set now, and is destroyed
\* by a functor, because one of its callbacks is running.
removeAndResetChannel ==
  /\ channel_' = [channel_ EXCEPT !.ch = disableAll(@)]
  /\ Queue(<<Call("resetChannel")>>)

ResetChannel ==
  /\ IsAt("resetChannel")
  /\ channel_' = None
  /\ Continue(<<>>)
  /\ UNCHANGED <<connect_, state_, retryDelayMs_, timerVars, attempt, open,
                 runVars, gaveUp, aborted>>

\* handleError: give the socket up and retry.
HandleError ==
  /\ IsAt("handleError")
  /\ IF state_ = "kConnecting"
     THEN /\ removeAndResetChannel
          /\ open' = open \ {channel_.fd}
          /\ state_' = "kDisconnected"
          /\ Continue(retryCalls)
          /\ UNCHANGED aborted
     ELSE Abort("handleError") /\ UNCHANGED <<channel_, functors, open, state_, todo>>
  /\ UNCHANGED <<connect_, retryDelayMs_, timerVars, attempt, phase, batch, gaveUp>>

\* handleWrite: nothing after handleError of the same report; otherwise look
\* at the result of the connect.
HandleWrite ==
  /\ IsAt("handleWrite")
  /\ IF state_ # "kConnecting"
     THEN Continue(<<>>) /\ UNCHANGED <<channel_, functors, open, state_>>
     ELSE /\ removeAndResetChannel
          /\ IF attempt = "connected"
             THEN /\ state_' = "kConnected"
                  /\ Continue(<<Do("newConnection", channel_.fd)>>)
                  /\ UNCHANGED open
             ELSE /\ state_' = "kDisconnected"
                  /\ open' = open \ {channel_.fd}
                  /\ Continue(retryCalls)
  /\ UNCHANGED <<connect_, retryDelayMs_, timerVars, attempt, phase, batch,
                 gaveUp, aborted>>

\* Mutant of CloseConnected: the socket is left open.
CloseConnectedLeaks ==
  /\ IsAt("newConnection") /\ ~connect_
  /\ Continue(<<>>)
  /\ UNCHANGED <<connect_, state_, channel_, retryDelayMs_, timerVars, attempt,
                 open, runVars, gaveUp, aborted>>

\* The end of handleWrite if stop() came meanwhile.
CloseConnected ==
  /\ IsAt("newConnection") /\ ~connect_
  /\ open' = open \ {Head(todo).arg}
  /\ Continue(<<>>)
  /\ UNCHANGED <<connect_, state_, channel_, retryDelayMs_, timerVars, attempt,
                 runVars, gaveUp, aborted>>

\* restart, up to startInLoop.
Restart ==
  /\ IsAt("restart")
  /\ state_' = "kDisconnected"
  /\ retryDelayMs_' = kInitRetryDelayMs
  /\ connect_' = TRUE
  /\ Continue(<<Call("startInLoop")>>)
  /\ UNCHANGED <<channel_, timerVars, attempt, open, runVars, gaveUp, aborted>>

\* cancel(id) of the loop's TimerQueue, run as a functor.
CancelTimer ==
  /\ IsAt("cancel")
  /\ timers' = timers \ {Head(todo).arg}
  /\ ripe' = ripe \ {Head(todo).arg}
  /\ Continue(<<>>)
  /\ UNCHANGED <<connect_, state_, channel_, retryDelayMs_, timerId_, attempt,
                 open, runVars, gaveUp, aborted>>

-----------------------------------------------------------------------------
(* The kernel and the peer.                                                *)

\* The connect under way ends.
Resolves(result) ==
  /\ Running
  /\ Registered /\ attempt = "pending"
  /\ attempt' = result
  /\ UNCHANGED <<connect_, state_, channel_, retryDelayMs_, timerVars, open,
                 runVars, todo, gaveUp, aborted>>

\* The peer resets the connection after it was reported, before handleWrite
\* looks at it.
ResetsEarly ==
  /\ IsAt("handleWrite") /\ attempt = "connected"
  /\ attempt' = "failed"
  /\ UNCHANGED <<connect_, state_, channel_, retryDelayMs_, timerVars, open,
                 runVars, todo, gaveUp, aborted>>

-----------------------------------------------------------------------------

LoopMachinery == SwapPending \/ RunFunctor \/ FunctorsDone

ConnectorStep ==
  \/ StartInLoopRefuses \/ ConnectInProgress \/ ConnectFails \/ RunAfter
  \/ ResetChannel \/ HandleError \/ HandleWrite \/ CloseConnected \/ Restart
  \/ CancelTimer \/ \E id \in TimerSeqs : TimerFires(id)

Kernel ==
  \/ \E r \in {"connected", "selfConnect", "failed"} : Resolves(r)
  \/ ResetsEarly
=============================================================================
