\* Several runs of a ring of three slots, which wraps around and overflows;
\* the caller ends its saver before it starts again or clears, and launches it
\* before the first start only if the write counter is 0.
SPECIFICATION InOrderSpec
CONSTANTS
  N = 3
  MaxMsgs = 7
  InitCounts <- AnyCounts
INVARIANTS
  TypeOK
  NoWriteOverlapping
  InBounds
  InputAccounted
PROPERTIES
  FifoSpec
  AllSaved
