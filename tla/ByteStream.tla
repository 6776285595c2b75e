----------------------------- MODULE ByteStream -----------------------------
(***************************************************************************)
(* What a connection's input buffer promises: the bytes the peer wrote are *)
(* taken by the application in their order, none lost, none twice,         *)
(* whatever the sizes of the reads and of the takes.                       *)
(***************************************************************************)
EXTENDS Naturals, Sequences

CONSTANT Chunks  \* what a write may consist of

VARIABLES incoming, content, taken  \* in flight, readable, taken
vars == <<incoming, content, taken>>

Init == incoming = <<>> /\ content = <<>> /\ taken = <<>>

Write == \E d \in Chunks : incoming' = incoming \o d /\ UNCHANGED <<content, taken>>

Receive ==
  /\ \E n \in 1..Len(incoming) :
       /\ content' = content \o SubSeq(incoming, 1, n)
       /\ incoming' = SubSeq(incoming, n + 1, Len(incoming))
  /\ UNCHANGED taken

Take ==
  /\ \E n \in 1..Len(content) :
       /\ taken' = taken \o SubSeq(content, 1, n)
       /\ content' = SubSeq(content, n + 1, Len(content))
  /\ UNCHANGED incoming

Spec == Init /\ [][Write \/ Receive \/ Take]_vars
=============================================================================
