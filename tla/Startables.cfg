SPECIFICATION Spec
CONSTANTS
  Tickers = {k}
  Tips = {t}
  Watchers = {w}
  Children = {c, d}
  Paths = {p}
  Trees = {{k, c}, {t, d}, {w}}
  MaxEdits = 2
  MaxWrites = 1
  MaxHovers = 1
INVARIANTS
  TipsNeedHover
  ErrorIsTrue
PROPERTIES
  StopIsBarrier
  StopsReturn
CHECK_DEADLOCK FALSE
