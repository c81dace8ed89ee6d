SPECIFICATION BridgeSpec
CONSTANTS
  HasHook = TRUE
  HostSets = {}
  PostKinds = {"quit", "suspend"}
  EventKinds = {"suspend"}
  SignalKinds = {"INT", "TSTP"}
  Reacquires = {TRUE, FALSE}
  FlushResults = {TRUE}
  SignalBuffer = 2
  MaxPosts = 1
  MaxSignals = 2
  MaxEvents = 0
  MaxVal = 1
PROPERTIES
  SettledMeansPainted
  InterruptEnds
  FramesArePainted
