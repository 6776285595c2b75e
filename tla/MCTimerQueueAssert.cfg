SPECIFICATION Spec
CONSTANTS
  Addrs = {a1, a2}
  MaxTimers = 2
  MaxTime = 4
  MinDelay = 2
  Intervals = {0, 1}
  MaxPending = 1
  Asserts = TRUE
SYMMETRY Symmetric
INVARIANT ExpiredAssertHolds
