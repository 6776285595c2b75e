---------------------------- MODULE MCTimerQueue ----------------------------
(* Small instances of TimerQueue for TLC.                                  *)
EXTENDS TimerQueue, TLC

Symmetric == Permutations(Addrs)
=============================================================================
