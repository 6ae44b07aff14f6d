SPECIFICATION Spec
CONSTANTS
  m1 = m1
  m2 = m2
  p1 = p1
  p2 = p2
  x = x
  d0 = d0
  d1 = d1
  d2 = d2
  None = None
  NoCommitment = d0
  Meetings <- OneMeeting
  Content <- EditedAndUndone
  Input <- InputOfEdits
  Decisions <- TwoResults
  Projects <- OneProject
  Passes <- OnePass
  Server = p1
  MaxSettings = 1
  MaxAttempt = 1
INVARIANTS OneOpenProposal PendingOnlyQueued
PROPERTIES ProposalsFinal AdvanceSettled
CHECK_DEADLOCK FALSE
CONSTRAINT WatchChangesEarly
