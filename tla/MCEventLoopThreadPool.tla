----------------------- MODULE MCEventLoopThreadPool ------------------------
(* Small instances of EventLoopThreadPool for TLC.                         *)
EXTENDS EventLoopThreadPool
=============================================================================
