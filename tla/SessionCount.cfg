SPECIFICATION CountSpec
CONSTANTS
  Clients = {c1, c2, c3}
  Resumers = {r1, r2}
  UI = UI
  Server = Server
  None = None
  DoFails = TRUE
INVARIANT
  LastWordIsNewest
PROPERTIES
  NeverBackwards
  ZeroIsTold
CHECK_DEADLOCK FALSE
