SPECIFICATION Spec
CONSTANTS
  N = 3
  Cmds = {1, 3}
  Deaf = {1, 2}
INVARIANTS
  NobodyIsForgotten
  BlameIsTrue
PROPERTY
  DeadServiceEndsRun
CHECK_DEADLOCK FALSE
