SPECIFICATION MicSpec
CONSTANTS
  Reader = {r1, r2}
  MaxOpen = 2
  BufLen = 2
  MaxChunk = 3
  MaxSamples = 2
INVARIANTS WorkerNeverPanics
CHECK_DEADLOCK FALSE
