------------------------------ MODULE MCLogger ------------------------------
(* A small instance of Logger for TLC: six-bit ints and a buffer in      *)
(* which a text, a number or the newline may be the piece that does not    *)
(* fit.                                                                    *)
EXTENDS Logger

MCSizeOf ==
  [time |-> 3, level |-> 2, strerror |-> 4, func |-> 2, space |-> 1, dash |-> 2,
   basename |-> 3, colon |-> 1, newline |-> 1] @@ ("(errno=" :> 1) @@ (")" :> 1)
MCUserPieces ==
  {[kind |-> "text", name |-> "user", size |-> n] : n \in {1, 7}}
    \cup {[kind |-> "double", name |-> "user", size |-> kMaxNumericSize - 1],
          [kind |-> "int", name |-> "user", size |-> IntMin],
          [kind |-> "pointer", name |-> "user", size |-> IntMax]}
=============================================================================
