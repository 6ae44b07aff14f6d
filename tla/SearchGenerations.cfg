SPECIFICATION LiveSpec
CONSTANTS
  old = old
  new = new
  None = None
  Contracts <- TwoReleases
  MaxHead = 3
  Ceiling = 2
  MaxFaults = 1
  MaxKills = 1
  MaxLosses = 2
INVARIANTS PointerComplete
PROPERTIES FencedHead SearchReturns
CHECK_DEADLOCK FALSE
