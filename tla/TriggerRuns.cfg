SPECIFICATION LiveSpec
CONSTANTS
  i1 = i1
  s1 = s1
  s2 = s2
  ann = ann
  bob = bob
  None = None
  Impacts <- OneImpact
  Sweeps <- TwoSweeps
  Actor <- TwoPeople
  Scope <- Scopes
  Tokens <- FewTokens
  MaxAttempts = 2
  MaxRunning = 2
  MaxTime = 1
  MaxStops = 1
INVARIANTS OneLiveRun WrittenOnce VerdictIsNewest
PROPERTIES RunsEnd
CHECK_DEADLOCK FALSE
