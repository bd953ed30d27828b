SPECIFICATION Spec
CONSTANTS
  BufferSize = 3
  Boundary = 6
  StartThreshold = 2
  StopThresholds = {3}
  AvailMin = 2
  MaxRequest = 4
  MaxTick = 2
INVARIANT
  ReturnIsFramesWritten
