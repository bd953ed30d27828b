SPECIFICATION Spec
CONSTANTS
  BufferSize = 4
  Boundary = 16
  SlaveSize = 4
  SlaveBoundary = 12
  Period = 2
  AvailMin = 2
  StopThresholds = {3, 16}
  Word = 48
  CanResume = TRUE
  MaxRequest = 2
  Horizon = 5
  MaxLag = 3
INVARIANTS
  TypeOK
  MixesOnlyWritten
  Lockstep
PROPERTIES
  DrainPlaysOut
  WaitReturns
  StartedDrainReturns
CHECK_DEADLOCK FALSE
