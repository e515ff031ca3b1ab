SPECIFICATION MicFairSpec
CONSTANTS
  Reader = {r1, r2}
  MaxOpen = 2
  BufLen = 4
  MaxChunk = 3
  MaxSamples = 5
INVARIANTS MicTypeOK ReadsContiguous ReadsWholeSamples OwnConsumer WorkerOutlivesReaders MicInv
PROPERTIES ReadReturns
CHECK_DEADLOCK FALSE
