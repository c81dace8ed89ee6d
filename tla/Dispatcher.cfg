SPECIFICATION Spec
CONSTANTS
  UI = UI
  Goroutines = {g1, g2}
  MaxPosts = 2
INVARIANT
  NoLostWakeup
PROPERTY
  ImplementsWorkQueue
