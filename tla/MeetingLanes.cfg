SPECIFICATION LiveSpec
CONSTANTS
  NumSources = 2
  Watched <- FirstWatched
  Grantable <- SecondOnly
  Targets <- SecondOnly
  Lanes = 1
  MaxImports = 1
INVARIANTS LanesBounded NotIdleWithImports
PROPERTIES ImportsServed GrantTried
