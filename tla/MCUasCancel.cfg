SPECIFICATION Spec
CONSTANTS
  NumCells = 1
  MaxCalls = 1
  NumTimers = 1
  Numbers = {"111"}
  Unsendable = {}
INVARIANT
  CancelsOnlyRegistered
CHECK_DEADLOCK FALSE
