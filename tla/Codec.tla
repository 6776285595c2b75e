------------------------------- MODULE Codec --------------------------------
(***************************************************************************)
(* The input side of a connection: the peer's codec frames messages,       *)
(* TcpConnection::handleRead reads chunks of any size into inputBuffer_    *)
(* and calls the message callback, which is either the codec of the chat   *)
(* example or an application that takes bytes as it likes.                 *)
(*                                                                         *)
(* A byte is a digit 0..Base-1 and a length is kHeaderLen digits, most     *)
(* significant first (htobe32), read back as a signed number.  The         *)
(* connection is TCP: bytes arrive in order, cut anywhere.                 *)
(***************************************************************************)
EXTENDS Buffer, Integers, SequencesExt

CONSTANTS
  Base,        \* the values of a byte (256)
  kHeaderLen,  \* sizeof(int32_t)
  MaxLen,      \* the longest message onMessage accepts (65536)
  Messages,    \* what the peer may send
  MaxSend,     \* bound: messages sent
  Reserves     \* the arguments of shrink

Byte == 0..Base - 1

\* The weight of the digit that i digits follow.
Power[i \in 0..kHeaderLen] == IF i = 0 THEN 1 ELSE Power[i - 1] * Base

Lengths == Power[kHeaderLen]  \* the values of a header (2^32)

ASSUME CodecAssumption ==
  /\ Base \in Nat \ {0, 1}
  /\ kHeaderLen \in 1..kCheapPrepend
  /\ MaxLen \in Nat /\ MaxLen < Lengths \div 2
  /\ Messages \subseteq Seq(Byte)
  /\ \A m \in Messages : Len(m) < Lengths  \* no length wraps to another
  /\ MaxSend \in Nat
  /\ Reserves \subseteq Nat

VARIABLES
  callback,      \* who handles the messages: the codec, or another application
  wire,          \* the bytes in flight
  inputBuffer_,
  lpc,           \* the io loop: polling, or in the message callback
  shut,          \* conn->shutdown() was called
  sent,          \* history: the messages sent
  delivered,     \* history: the messages passed to messageCallback_
  consumed,      \* history: the bytes retrieved
  torn           \* history: what was readable before a shrink that tore it, or <<>>

vars == <<callback, wire, inputBuffer_, lpc, shut, sent, delivered, consumed, torn>>

TypeOK ==
  /\ callback \in {"codec", "bytes"}
  /\ wire \in Seq(Byte)
  /\ inputBuffer_ \in [buffer_ : Seq(Byte), readerIndex_ : Nat, writerIndex_ : Nat]
  /\ lpc \in {"poll", "onMessage"}
  /\ shut \in BOOLEAN
  /\ sent \in Seq(Messages) /\ delivered \in Seq(Seq(Byte))
  /\ consumed \in Seq(Byte)

Init ==
  /\ callback \in {"codec", "bytes"}
  /\ wire = <<>>
  /\ inputBuffer_ = NewBuffer
  /\ lpc = "poll"
  /\ shut = FALSE
  /\ sent = <<>> /\ delivered = <<>> /\ consumed = <<>> /\ torn = <<>>

-----------------------------------------------------------------------------
(* The codec.                                                              *)

\* htobe32 and be32toh
Encode(len) == [i \in 1..kHeaderLen |-> (len \div Power[kHeaderLen - i]) % Base]
Unsigned(digits) ==
  LET value[i \in 0..kHeaderLen] == IF i = 0 THEN 0 ELSE value[i - 1] * Base + digits[i]
  IN  value[kHeaderLen]
Decode(digits) ==
  LET u == Unsigned(digits)
  IN  IF u >= Lengths \div 2 THEN u - Lengths ELSE u

\* Mutant of Frame: the header counts itself too.
FrameCountsHeader(m) ==
  Content(prepend(append(NewBuffer, m), Encode(Len(m) + kHeaderLen)))

\* What Codec::send passes to the connection.
Frame(m) == Content(prepend(append(NewBuffer, m), Encode(Len(m))))

\* The peer's Codec::send.
Send(m) ==
  /\ Len(sent) < MaxSend
  /\ sent' = Append(sent, m)
  /\ wire' = wire \o Frame(m)
  /\ UNCHANGED <<callback, inputBuffer_, lpc, shut, delivered, consumed, torn>>

\* handleRead with n bytes: the buffer takes them, then the callback is called.
HandleRead(n) ==
  /\ lpc = "poll" /\ torn = <<>>
  /\ n <= Len(wire) /\ n <= writableBytes(inputBuffer_) + ExtraSize
  /\ inputBuffer_' = readFd(inputBuffer_, SubSeq(wire, 1, n))
  /\ wire' = SubSeq(wire, n + 1, Len(wire))
  /\ lpc' = "onMessage"
  /\ UNCHANGED <<callback, shut, sent, delivered, consumed, torn>>

-----------------------------------------------------------------------------
(* Codec::onMessage, an iteration of its loop a step.                      *)

Decoding == callback = "codec" /\ lpc = "onMessage"

HeaderIn == readableBytes(inputBuffer_) >= kHeaderLen
Length == Decode(SubSeq(Content(inputBuffer_), 1, kHeaderLen))
Invalid == Length > MaxLen \/ Length < 0

\* Mutant of Complete: a buffer that holds the message and no more must wait.
CompleteTooStrict == readableBytes(inputBuffer_) > Length + kHeaderLen

Complete == readableBytes(inputBuffer_) >= Length + kHeaderLen

\* A whole message: the header is retrieved, messageCallback_ called with the
\* bytes that follow, and they are retrieved.
Deliver ==
  /\ Decoding /\ HeaderIn /\ ~Invalid /\ Complete
  /\ LET rest == retrieve(inputBuffer_, kHeaderLen)
         message == SubSeq(rest.buffer_, rest.readerIndex_ + 1, rest.readerIndex_ + Length)
     IN  /\ delivered' = Append(delivered, message)
         /\ inputBuffer_' = retrieve(rest, Length)
         /\ consumed' = consumed \o SubSeq(Content(inputBuffer_), 1, kHeaderLen + Length)
  /\ UNCHANGED <<callback, wire, lpc, shut, sent, torn>>

\* An impossible length: the connection is shut down, but goes on reading.
Reject ==
  /\ Decoding /\ HeaderIn /\ Invalid
  /\ shut' = TRUE
  /\ lpc' = "poll"
  /\ UNCHANGED <<callback, wire, inputBuffer_, sent, delivered, consumed, torn>>

\* The rest of the header or of the message is to come.
Wait ==
  /\ Decoding /\ (HeaderIn => ~Invalid /\ ~Complete)
  /\ lpc' = "poll"
  /\ UNCHANGED <<callback, wire, inputBuffer_, shut, sent, delivered, consumed, torn>>

-----------------------------------------------------------------------------
(* Another application's message callback.                                 *)

Taking == callback = "bytes" /\ lpc = "onMessage"

\* retrieve, retrieveUntil, or, of all bytes, retrieveAsString and retrieveAll.
Retrieve(len) ==
  /\ Taking /\ len <= readableBytes(inputBuffer_)
  /\ inputBuffer_' = retrieve(inputBuffer_, len)
  /\ consumed' = consumed \o SubSeq(Content(inputBuffer_), 1, len)
  /\ lpc' = "poll"
  /\ UNCHANGED <<callback, wire, shut, sent, delivered, torn>>

\* shrink; the application ends when its bytes are torn.
Shrink(reserve) ==
  /\ Taking
  /\ inputBuffer_' = shrink(inputBuffer_, reserve)
  /\ torn' = IF IndexesInOrder(inputBuffer_') /\ Content(inputBuffer_') = Content(inputBuffer_)
             THEN <<>> ELSE <<Content(inputBuffer_)>>
  /\ lpc' = "poll"
  /\ UNCHANGED <<callback, wire, shut, sent, delivered, consumed>>

-----------------------------------------------------------------------------

OnMessage == Deliver \/ Reject \/ Wait
Read == \E n \in 1..Len(wire) : HandleRead(n)

Next ==
  \/ \E m \in Messages : Send(m)
  \/ Read
  \/ OnMessage
  \/ \E len \in 1..readableBytes(inputBuffer_) : Retrieve(len)
  \/ \E reserve \in Reserves : Shrink(reserve)

Spec == Init /\ [][Next]_vars

\* The io loop polls a readable connection again and its callbacks return.
FairSpec == Spec /\ WF_vars(Read) /\ WF_vars(OnMessage)

-----------------------------------------------------------------------------
(* Properties.                                                             *)

\* The indexes are in order and no assertion of makeSpace fails, whatever is
\* appended; only shrink after a partial retrieve tears what is readable.
BufferSound ==
  /\ TypeOK
  /\ torn = <<>> => /\ kCheapPrepend <= inputBuffer_.readerIndex_
                    /\ IndexesInOrder(inputBuffer_)
  /\ torn = <<>> => \A len \in 0..Len(wire) : MakeSpaceAsserts(inputBuffer_, len)
  /\ torn # <<>> => inputBuffer_.readerIndex_ > kCheapPrepend

\* inputBuffer_ is a byte stream: readFd, also when the bytes overflow into
\* extrabuf, makeSpace and retrieve keep every byte and its place.
Stream == INSTANCE ByteStream WITH
            Chunks <- {Frame(m) : m \in Messages},
            incoming <- wire,
            content <- IF torn = <<>> THEN Content(inputBuffer_) ELSE torn[1],
            taken <- consumed
ImplementsByteStream == Stream!Spec

\* However the stream was cut into reads, the codec delivers the messages sent,
\* in order; it gives a connection up only where a message longer than the
\* receiver accepts is next, and send() takes those.
FramesInOrder ==
  callback = "codec" =>
    /\ IsPrefix(delivered, sent)
    /\ shut => /\ Len(delivered) < Len(sent)
               /\ Len(sent[Len(delivered) + 1]) > MaxLen

\* The bytes of the connection: taken, readable, in flight.
Written == consumed \o Content(inputBuffer_) \o wire

\* They are the frames of the messages sent, the k-th up to cut[k], and the codec
\* has taken whole frames.
CutAt(cut) ==
  /\ cut[0] = 0 /\ cut[Len(sent)] = Len(Written)
  /\ \A k \in 1..Len(sent) :
       /\ cut[k] = cut[k - 1] + kHeaderLen + Len(sent[k])
       /\ \A i \in 1..kHeaderLen + Len(sent[k]) : Written[cut[k - 1] + i] = Frame(sent[k])[i]
  /\ Len(delivered) <= Len(sent)
  /\ Len(consumed) = cut[Len(delivered)]

Framed ==
  callback = "codec" => \E cut \in [0..Len(sent) -> 0..Len(Written)] : CutAt(cut)

\* Only another application tears its bytes, and then it ends.
TornEnds == torn # <<>> => lpc = "poll" /\ callback = "bytes"

\* The inductive invariant.
IInv == BufferSound /\ TornEnds /\ Framed /\ FramesInOrder

\* Every message sent is delivered, with no need of a message after it, unless
\* it or one before it is longer than the receiver accepts.
AllDelivered ==
  \A k \in 1..MaxSend :
    (callback = "codec" /\ Len(sent) >= k)
      ~> (Len(delivered) >= k \/ \E i \in DOMAIN sent : i <= k /\ Len(sent[i]) > MaxLen)
=============================================================================
