SPECIFICATION Spec
CONSTANTS
  Clients = {1, 2}
  MaxMsgs = 2
  Backlog = 2
  Prompt = TRUE
  Throwing = TRUE
INVARIANTS TypeOK OnlyConn
PROPERTIES CommandsRead Served CloseEnds
CHECK_DEADLOCK FALSE
