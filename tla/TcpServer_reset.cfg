\* No command throws: what ends a receive thread is the reset.
SPECIFICATION Spec
CONSTANTS
  Clients = {1}
  MaxMsgs = 1
  Backlog = 2
  Prompt = TRUE
  Throwing = FALSE
PROPERTY ClosedNoticed
CHECK_DEADLOCK FALSE
