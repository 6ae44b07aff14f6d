SPECIFICATION Spec
CONSTANTS
  a1 = a1
  a2 = a2
  Approvals <- TwoApprovals
  Lanes = 1
SYMMETRY Symmetry
INVARIANTS GateExclusive NoLostWake ClosedQuiet
PROPERTIES DrainBarrier
CHECK_DEADLOCK FALSE
