SPECIFICATION Spec
CONSTANTS
  Comps <- MCComps
  None = "none"
  Root = "r"
  Chain <- MCChain
  Rank <- MCRank
  Stops <- MCStops
  Hovers <- MCHovers
  Watched <- MCWatched
  Mnemonics <- MCMnemonics
  Hosts <- MCHosts
  AllowSets <- MCAllowSets
  MayLeave <- MCMayLeave
  MayCollapse <- MCMayCollapse
  MaxEdits = 3
INVARIANTS
  FlagsAreTrue
  NothingIsStale
PROPERTIES
  PicturesDoNotAct
  ClicksAreEarned
