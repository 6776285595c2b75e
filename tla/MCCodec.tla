------------------------------ MODULE MCCodec -------------------------------
(* A small instance of Codec for TLC: three-bit lengths, of which 4..7 are *)
(* negative.  The messages are empty, short, as long as allowed, too long, *)
(* and so long that the length is negative.                                *)
EXTENDS Codec

MCMessages == {<<>>, <<1>>, <<0, 1>>, <<0, 0, 1>>, <<1, 0, 0, 0>>}
=============================================================================
