SPECIFICATION Spec
CONSTANTS
  a1 = a1
  a2 = a2
  a3 = a3
  c1 = c1
  c2 = c2
  c3 = c3
  desktop = desktop
  slack = slack
  w1 = w1
  w2 = w2
  None = None
  Proposals <- TwoProposals
  Commands <- TwoCommands
  Surfaces <- BothSurfaces
  MaxGroups = 2
  Publishers <- TwoPublishers
  PageSize = 1
  Unpublishable <- NoneUnpublishable
INVARIANTS OneRecordPerGroup ReceiptComplete HooksOncePerRecord WinnersDecided
PROPERTIES RegisterSpec
SYMMETRY Symmetry
