SPECIFICATION Spec
CONSTANTS
  BufferSize = 4
  Boundary = 16
  SlaveSize = 4
  SlaveBoundary = 12
  Period = 2
  AvailMin = 2
  StopThresholds = {4, 16}
  Word = 48
  CanResume = TRUE
  MaxRequest = 4
  Horizon = 10
  MaxLag = 3
INVARIANTS
  ClearOfActivePeriod
CHECK_DEADLOCK FALSE
