\* One run from any value of the uninitialised counters.
SPECIFICATION RunSpec
CONSTANTS
  N = 2
  MaxMsgs = 1
  InitCounts <- AnyCounts
INVARIANT InBounds
