SPECIFICATION Spec
CONSTANTS
  HasHook = TRUE
  HostSets = {"before"}
  PostKinds = {"set", "reload", "suspend", "quit"}
  EventKinds = {"none", "set", "quit", "suspend"}
  SignalKinds = {"INT", "WINCH", "TSTP"}
  Reacquires = {TRUE}
  FlushResults = {TRUE}
  SignalBuffer = 2
  MaxPosts = 2
  MaxSignals = 2
  MaxEvents = 1
  MaxVal = 2
INVARIANTS
  TerminalHandedOver
  DirtyMeansScheduled
  NoStaleScreen
  NilMeansAsked
PROPERTY
  FarewellShown
