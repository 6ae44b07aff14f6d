SPECIFICATION LiveSpec
CONSTANTS
  m1 = m1
  m2 = m2
  p1 = p1
  p2 = p2
  x = x
  d0 = d0
  d1 = d1
  d2 = d2
  None = None
  NoCommitment = d0
  Meetings <- OneMeeting
  Content <- OneContent
  Input <- OneInput
  Decisions <- OneResult
  Projects <- NoProject
  Passes <- TwoPasses
  Server = p1
  MaxSettings = 0
  MaxAttempt = 2
INVARIANTS NeverPayTwice
PROPERTIES GrantSpent
CHECK_DEADLOCK FALSE
