SPECIFICATION DownSpec
CONSTANTS
  WireMessage <- AllShapes
  GarbageBytes <- GarbageFrames
  MaxSends = 2
INVARIANTS DownInv ReceivedAsSent NothingHeldBack ConsumesWithin SpeechHeard
CHECK_DEADLOCK FALSE
