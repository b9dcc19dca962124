\* reset, start, then stop or quit.
SPECIFICATION Spec
CONSTANTS
  MaxRuns = 1
  MaxCmds = 3
  MaxConns = 1
  Prompt = TRUE
  Reset = TRUE
  Moving = FALSE
PROPERTY JoinEnds
CHECK_DEADLOCK FALSE
