SPECIFICATION LiveSpec
CONSTANTS
  m1 = m1
  m2 = m2
  p1 = p1
  p2 = p2
  x = x
  d0 = d0
  d1 = d1
  d2 = d2
  None = None
  NoCommitment = d0
  Meetings <- TwoMeetings
  Content <- OneContent
  Input <- OneInput
  Decisions <- TwoResults
  Projects <- NoProject
  Passes <- OnePass
  Server = p1
  MaxSettings = 0
  MaxAttempt = 1
INVARIANTS NoLostImport
PROPERTIES ImportSettles ProposalReachesReviewer
CHECK_DEADLOCK FALSE
