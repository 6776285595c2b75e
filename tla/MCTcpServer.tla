---------------------------- MODULE MCTcpServer -----------------------------
(* Small instances of TcpServer for TLC.                                   *)
EXTENDS TcpServer

CONSTANT Io1    \* the one io loop

NoIoLoop == {<<>>}
OneIoLoop == {<<Io1>>}
NoneOrOne == NoIoLoop \cup OneIoLoop
=============================================================================
