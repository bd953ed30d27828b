SPECIFICATION Spec
CONSTANTS
  BufferSize = 4
  Boundary = 16
  SlaveSize = 4
  SlaveBoundary = 16
  Period = 2
  AvailMin = 2
  StopThresholds = {4, 16}
  Word = 64
  CanResume = TRUE
  MaxRequest = 4
  Horizon = 100
  MaxLag = 3
INVARIANTS
  MixesOnlyWritten
CHECK_DEADLOCK FALSE
