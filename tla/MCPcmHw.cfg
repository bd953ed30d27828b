SPECIFICATION Spec
CONSTANTS
  BufferSize = 3
  Boundary = 6
  StartThreshold = 2
  StopThresholds = {3, 6}
  AvailMin = 2
  MaxRequest = 4
  MaxTick = 2
INVARIANTS
  TypeOK
  FramesIntact
  ReadsIntact
  TransferInFreeSpace
  ReturnAccountsForFrames
  RingBounded
PROPERTIES
  ImplementsFifo
  CallReturns
