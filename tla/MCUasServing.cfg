SPECIFICATION FairSpec
CONSTANTS
  NumCells = 2
  MaxCalls = 2
  NumTimers = 1
  Numbers = {"111", "222", "other"}
  Unsendable = {404}
INVARIANTS
  TypeOK
  TimersTrackCalls
  CallbackFindsItsCell
  NoNullCell
PROPERTY
  CallsEnd
CHECK_DEADLOCK FALSE
