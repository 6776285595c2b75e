SPECIFICATION Spec
CONSTANTS
  SIZE = 24
  kMaxNumericSize = 6
  IntMax = 31
  Levels = {4}
  Main = main
  Threads = {main, io}
  SizeOf <- MCSizeOf
  Tid = 7
  LineNo = 20
  ErrnoValues = {0, 11}
  UserPieces <- MCUserPieces
  MaxPieces = 2
  MaxStatements = 2
INVARIANTS NumbersRight LineShape FatalFlushed
CHECK_DEADLOCK FALSE
