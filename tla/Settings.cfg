SPECIFICATION Spec
CONSTANTS
  Registered = {k1, k2}
  Free = {f}
  Values = {u, v, w}
  Unencodable = {w}
  None = None
  SaveResults = {TRUE, FALSE}
  AutoSaveTo = {FALSE}
  HostCalls = {}
  MaxSets = 3
  MaxStarts = 1
INVARIANTS
  SetsAreNoticed
  SavedIsTrue
PROPERTIES
  StopDelivers
  AutoSaveOffers
CHECK_DEADLOCK FALSE
