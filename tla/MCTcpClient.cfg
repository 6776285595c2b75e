SPECIFICATION FairSpec
CONSTANTS
  Fds = {s1, s2}
  TimerSeqs = {t1, t2, t3}
  None = none
  kInitRetryDelayMs = 2
  kMaxRetryDelayMs = 7
  MaxPending = 2
  SlowCallbacks = FALSE
  retry_ = TRUE
  MaxStarts = 1
INVARIANTS IInv AssertionsHold StopIsFinal
PROPERTY Reconnected
CHECK_DEADLOCK FALSE
