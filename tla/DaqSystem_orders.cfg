\* Three commands, the first a reset, over up to two connections, with up to two
\* starts.
SPECIFICATION Spec
CONSTANTS
  MaxRuns = 2
  MaxCmds = 3
  MaxConns = 2
  Prompt = TRUE
  Backlog = 2
INVARIANT OneSaver
PROPERTY OrderSpec
\* the client or the server ends
CHECK_DEADLOCK FALSE
