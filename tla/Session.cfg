SPECIFICATION Spec
CONSTANTS
  Values = {"a", "b"}
  Sizes = {1}
  Cap = 1
  Wants = {TRUE, FALSE}
  ActKinds = {"b", "fails"}
  Ends = {"eof", "cancel", "quit", "signal"}
  MaxActs = 2
  MaxEvents = 1
INVARIANTS
  NoGap
  ClientIsCurrent
PROPERTIES
  FramesGoOn
  ReaderEnds
CHECK_DEADLOCK FALSE
