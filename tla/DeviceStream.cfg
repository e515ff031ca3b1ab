SPECIFICATION DeviceSpec
CONSTANTS
  SourceRate <- Rates
  Channels = {1, 2}
  Sample <- Extremes
  F32Unit = 2
  MaxFrames = 3
  MaxCallbacks = 3
INVARIANTS DeviceInv DriftBounded WithinInput
CHECK_DEADLOCK FALSE
