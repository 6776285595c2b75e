---------------------------- MODULE MCEventLoop -----------------------------
(* Small instances of EventLoop for TLC: every value is given by the cfg.  *)
EXTENDS EventLoop
=============================================================================
