SPECIFICATION FairSpec
CONSTANTS
  kCheapPrepend = 4
  kInitialSize = 3
  ExtraSize = 3
  Base = 2
  kHeaderLen = 3
  MaxLen = 2
  Messages <- MCMessages
  MaxSend = 2
  Reserves = {0, 2}
INVARIANTS BufferSound FramesInOrder
PROPERTIES ImplementsByteStream AllDelivered
CHECK_DEADLOCK FALSE
