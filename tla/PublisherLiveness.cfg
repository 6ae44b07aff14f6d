SPECIFICATION LiveSpec
CONSTANTS
  a1 = a1
  a2 = a2
  a3 = a3
  c1 = c1
  c2 = c2
  c3 = c3
  desktop = desktop
  slack = slack
  w1 = w1
  w2 = w2
  None = None
  Proposals <- ThreeProposals
  Commands <- ThreeCommands
  Surfaces <- OneSurface
  MaxGroups = 1
  Publishers <- OnePublisher
  PageSize = 1
  Unpublishable <- FirstUnpublishable
PROPERTIES PublishedInTheEnd
