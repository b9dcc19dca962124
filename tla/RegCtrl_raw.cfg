SPECIFICATION Spec
CONSTANTS
  Procs = {ctrl}
  NDac = 1
  W = 4
  Patience = 1
  MaxCalls = 3
  RawRegs = {"dacConf"}
  Lossy = FALSE
  Late = FALSE
INVARIANT NewTemp
CHECK_DEADLOCK FALSE
