SPECIFICATION FairSpec
CONSTANTS
  Conns = {c1}
  Users = {u1}
  Loops = {base, io1}
  BaseLoop = base
  Io1 = io1
  Pools <- OneIoLoop
  MsgLen = 2
  SndBuf = 1
  MaxSends = 2
  MayShutdown = TRUE
INVARIANTS StreamInOrder WritingIffBuffered AbortsExplained
PROPERTIES ShutdownAfterDrain ShutdownCompletes ClosedIsDestroyed
CHECK_DEADLOCK FALSE
