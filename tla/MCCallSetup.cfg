SPECIFICATION SetupSpec
CONSTANTS
  Callers = {"a", "b"}
  NumSlots = 2
  MaxDialogs = 3
INVARIANTS
  OneSetupAtATime
  SlotsMatchSessions
PROPERTY EverySlotServes
CHECK_DEADLOCK FALSE
