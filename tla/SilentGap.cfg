SPECIFICATION Spec
CONSTANTS
  Values = {"a", "b"}
  Sizes = {1}
  Cap = 1
  Wants = {TRUE}
  ActKinds = {"b", "swap"}
  Ends = {}
  MaxActs = 2
  MaxEvents = 1
INVARIANT
  GapsAreLoud
CHECK_DEADLOCK FALSE
