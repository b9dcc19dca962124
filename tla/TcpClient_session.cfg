\* Five commands, three connections and up to three runs; the data file may be
\* moved away between runs.
SPECIFICATION Spec
CONSTANTS
  MaxRuns = 3
  MaxCmds = 5
  MaxConns = 3
  Prompt = TRUE
  Reset = FALSE
  Moving = TRUE
INVARIANTS
  TypeOK
  AcceptHasSaver
  OneFeeder
PROPERTIES
  ToldInOrder
  QuitUnstarted
  JoinWatchEnds
  DropEnds
\* the client exits, crashes or is terminated
CHECK_DEADLOCK FALSE
