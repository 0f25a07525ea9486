CONSTANTS
  NumCells = 2
  MaxCalls = 2
  NumTimers = 1
  Numbers = {"111", "222"}
  Unsendable = {}
  Garbage <- NoIdGarbage
SPECIFICATION LifeFairSpec
INVARIANTS LifeTypeOK RingsOnlyWithTones HangupReachesAll UndisturbedStart
PROPERTY Quits
CHECK_DEADLOCK FALSE
