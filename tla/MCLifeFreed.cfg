CONSTANTS
  NumCells = 2
  MaxCalls = 1
  NumTimers = 2
  Numbers = {"111"}
  Unsendable = {}
  Garbage <- NoIdGarbage
SPECIFICATION LifeSpec
INVARIANT NoUseAfterRelease
CHECK_DEADLOCK FALSE
