SPECIFICATION FairSpec
CONSTANTS
  Addrs = {a1, a2}
  MaxTimers = 2
  MaxTime = 3
  MinDelay = 1
  Intervals = {0, 1}
  MaxPending = 1
  Asserts = FALSE
INVARIANTS IInv ArmedInTime CancelledStaysCancelled
PROPERTY TimerRuns
