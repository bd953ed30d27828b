SPECIFICATION Spec
CONSTANTS
  MidiBufSize = 3
  SizeWord = 64
  Scripts <- MCScripts
  Others <- MCOthers
  EventSize = 4
  OutBufSize = 9
  InBufCells = 5
  FifoSize = 2
  WriteSizes = {1, 4}
  ReadSizes = {6}
INVARIANTS
  TypeOK
  WriterKeepsOrder
  SentAtRest
  ReaderHearsEvents
PROPERTIES
  WriteReturns
CHECK_DEADLOCK FALSE
