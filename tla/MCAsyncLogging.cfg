SPECIFICATION FairSpec
CONSTANTS
  rollSize_ = 2
  kRollPerSeconds_ = 3
  checkEveryN_ = 2
  flushInterval_ = 0
  BufferCap = 2
  MaxLines = 5
  MaxTime = 3
  MaxErrors = 1
INVARIANTS LinesInOrder RecycleHasBuffers IInv RollsInTime
PROPERTIES LineReachesDisk StopReturns
CHECK_DEADLOCK FALSE
