SPECIFICATION FairSpec
CONSTANT numThreads_ = 2
INVARIANTS IInv ExitingAssert
PROPERTIES WaiterIsNotified HeardQuitJoins
CHECK_DEADLOCK FALSE
