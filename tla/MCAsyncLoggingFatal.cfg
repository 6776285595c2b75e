SPECIFICATION Spec
CONSTANTS
  rollSize_ = 2
  kRollPerSeconds_ = 3
  checkEveryN_ = 2
  flushInterval_ = 1
  BufferCap = 2
  MaxLines = 3
  MaxTime = 1
  MaxErrors = 0
INVARIANT StopFlushes
CHECK_DEADLOCK FALSE
