\* The client's one run from counters between which the ring looks empty,
\* the write counter being another number than 0.
SPECIFICATION RunSpec
CONSTANTS
  N = 2
  MaxMsgs = 2
  InitCounts <- StaleCounts
INVARIANT NoWriteOverlapping
