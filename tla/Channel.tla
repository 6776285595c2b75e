------------------------------ MODULE Channel -------------------------------
(***************************************************************************)
(* A Channel and the EPoller's bookkeeping for it, as operators on one     *)
(* record: events and index are the Channel's members events_ and index_,  *)
(* registered and interest are what the kernel's epoll set holds for its   *)
(* descriptor, fatal records a failed EPOLL_CTL_ADD or MOD (LOG_SYSFATAL). *)
(***************************************************************************)
EXTENDS Sequences

Interests == {"read", "write"}
Revents == {"IN", "OUT", "HUP", "ERR"}

ChannelType ==
  [events : SUBSET Interests, index : {"kNew", "kAdded"},
   registered : BOOLEAN, interest : SUBSET Interests, fatal : BOOLEAN]

\* The constructor.
NewChannel ==
  [events |-> {}, index |-> "kNew", registered |-> FALSE, interest |-> {},
   fatal |-> FALSE]

\* EPoller::update, one epoll_ctl call.  ADD of a registered descriptor and
\* MOD of an unregistered one fail fatally; a failed DEL is only logged.
update(operation, ch) ==
  CASE operation = "ADD" ->
         IF ch.registered THEN [ch EXCEPT !.fatal = TRUE]
         ELSE [ch EXCEPT !.registered = TRUE, !.interest = ch.events]
    [] operation = "MOD" ->
         IF ch.registered THEN [ch EXCEPT !.interest = ch.events]
         ELSE [ch EXCEPT !.fatal = TRUE]
    [] operation = "DEL" ->
         [ch EXCEPT !.registered = FALSE, !.interest = {}]

\* Mutant of updateChannel: index_ stays kAdded after the last event is gone.
updateChannelKeepsIndex(ch) ==
  IF ch.index = "kNew" THEN update("ADD", [ch EXCEPT !.index = "kAdded"])
  ELSE IF ch.events = {} THEN update("DEL", ch)
  ELSE update("MOD", ch)

\* EPoller::updateChannel.  A kNew channel is added even with no event set.
updateChannel(ch) ==
  IF ch.index = "kNew" THEN update("ADD", [ch EXCEPT !.index = "kAdded"])
  ELSE IF ch.events = {} THEN [update("DEL", ch) EXCEPT !.index = "kNew"]
  ELSE update("MOD", ch)

\* EPoller::removeChannel and its two assertions.
removeChannelAsserts(ch) == ch.events = {} /\ ch.index = "kAdded"
removeChannel(ch) == [update("DEL", ch) EXCEPT !.index = "kNew"]

isWriting(ch) == "write" \in ch.events
enableReading(ch) == updateChannel([ch EXCEPT !.events = @ \cup {"read"}])
enableWriting(ch) == updateChannel([ch EXCEPT !.events = @ \cup {"write"}])
disableWriting(ch) == updateChannel([ch EXCEPT !.events = @ \ {"write"}])
disableAll(ch) == updateChannel([ch EXCEPT !.events = {}])

\* Channel::handleEvent: which of the callbacks that are set the reported
\* events call, in order.
handleEvent(revents, callbacks) ==
  LET CallIf(event, callback) ==
        IF event /\ callback \in callbacks THEN <<callback>> ELSE <<>>
  IN  CallIf("HUP" \in revents /\ "IN" \notin revents, "handleClose")
        \o CallIf("ERR" \in revents, "handleError")
        \o CallIf("IN" \in revents, "handleRead")
        \o CallIf("OUT" \in revents, "handleWrite")
=============================================================================
