SPECIFICATION Spec
CONSTANTS
  old = old
  new = new
  None = None
  Contracts <- TwoReleases
  MaxHead = 3
  Ceiling = 2
  MaxFaults = 0
  MaxKills = 1
  MaxLosses = 1
INVARIANTS NeverDangling
CHECK_DEADLOCK FALSE
