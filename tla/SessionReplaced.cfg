SPECIFICATION Spec
CONSTANTS
  p1 = p1
  p2 = p2
  None = None
  Clients <- TwoClients
  Does <- Roles
  MaxFamilies = 2
  MaxRotation = 1
  MaxCrashes = 0
INVARIANTS NewerLoginStands
CHECK_DEADLOCK FALSE
