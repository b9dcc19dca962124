SPECIFICATION WaitingSpec
CONSTANTS
  Procs = {server}
  NDac = 2
  W = 2
  Patience = 1
  MaxCalls = 2
  RawRegs = {}
  Lossy = TRUE
  Late = FALSE
INVARIANTS TypeOK NewTemp PushWhole
PROPERTIES AckMeansDone RunOrder CallEnds
CHECK_DEADLOCK FALSE
