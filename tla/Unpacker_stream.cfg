\* Five messages of 7 to 11 bytes through buffers of 13 bytes.
SPECIFICATION Spec
CONSTANTS
  Ints <- ShortAndLong
  Bins <- SomeBins
  Counter = 1
  Initial = 13
  Reserve = 4
INVARIANTS
  TypeOK
  HandleGood
  InStep
  CountsRight
  Fits
PROPERTIES
  AllHandled
\* the thread ends
CHECK_DEADLOCK FALSE
