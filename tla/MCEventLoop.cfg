SPECIFICATION FairSpec
CONSTANTS
  Callers = {t1, t2}
  LoopThread = loop
  Channels = {c1}
  WakeupChannel = wc
  Functors = {f1, f2}
  EventfdMax = 2
  InitEventListSize = 1
INVARIANTS FunctorFifo NoLostWakeup
PROPERTIES ImplementsFunctorQueue QueuedFunctorRuns QuitStopsLoop
