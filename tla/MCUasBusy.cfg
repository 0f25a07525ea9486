SPECIFICATION Spec
CONSTANTS
  NumCells = 2
  MaxCalls = 2
  NumTimers = 2
  Numbers = {"111"}
  Unsendable = {100}
INVARIANT
  BusyOnlyWhenFull
CHECK_DEADLOCK FALSE
