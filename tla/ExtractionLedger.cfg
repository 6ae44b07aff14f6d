\* Two keys, two workers, three attempts per key.
SPECIFICATION Spec
CONSTANTS
  k1 = k1
  k2 = k2
  w1 = w1
  w2 = w2
  NoClaim = NoClaim
  Keys <- MCKeys
  Workers <- MCWorkers
  MaxAttempt = 3
INVARIANTS SpendWithinGrants OneCallPerKey ClaimStaysLatest
CHECK_DEADLOCK FALSE
