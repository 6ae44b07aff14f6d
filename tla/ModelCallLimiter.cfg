SPECIFICATION LiveSpec
CONSTANTS
  note = note
  sweep = sweep
  question = question
  None = None
  Plain <- OneNote
  Sessions <- TwoSessions
  Priority <- PriorityOfEach
  MaxRequests = 1
  CallLimits <- TwoSlots
  SessionLimits <- OneSlot
  CooldownMin = 1
  CooldownMax = 2
  MaxPauses = 2
INVARIANTS SlotsFit
PROPERTIES PausesOnce AllServed
