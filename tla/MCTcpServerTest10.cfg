SPECIFICATION Spec
CONSTANTS
  Conns = {c1}
  Users = {}
  Loops = {base}
  BaseLoop = base
  Io1 = io1
  Pools <- NoIoLoop
  MsgLen = 2
  SndBuf = 1
  MaxSends = 2
  MayShutdown = TRUE
INVARIANT PeerCloseAfterShutdown
CHECK_DEADLOCK FALSE
