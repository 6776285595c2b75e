SPECIFICATION FairSpec
CONSTANTS
  Conns = {c1}
  Users = {}
  Loops = {base, io1}
  BaseLoop = base
  Io1 = io1
  Pools <- NoneOrOne
  MsgLen = 2
  SndBuf = 3
  MaxSends = 3
  MayShutdown = TRUE
INVARIANTS IInv NothingDangles AbortsExplained
PROPERTY ClosedIsDestroyed
CHECK_DEADLOCK FALSE
