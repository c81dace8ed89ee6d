SPECIFICATION Spec
CONSTANTS
  Sources <- MCSources
  Computed <- MCComputed
  Values <- MCValues
  None = "none"
  First <- MCFirst
  Second <- MCSecond
  Result <- MCResult
  Rank <- MCRank
  Aggs <- MCAggs
  OutOf <- MCOutOf
  Panics = {"okxy"}
INVARIANTS
  CleanIsRight
  ExactlyTheBranch
  OutIsRight
