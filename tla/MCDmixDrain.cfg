SPECIFICATION Spec
CONSTANTS
  BufferSize = 4
  Boundary = 16
  SlaveSize = 4
  SlaveBoundary = 12
  Period = 2
  AvailMin = 2
  StopThresholds = {4, 16}
  Word = 48
  CanResume = TRUE
  MaxRequest = 2
  Horizon = 4
  MaxLag = 3
PROPERTIES
  DrainReturns
CHECK_DEADLOCK FALSE
