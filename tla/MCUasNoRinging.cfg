SPECIFICATION Spec
CONSTANTS
  NumCells = 2
  MaxCalls = 2
  NumTimers = 2
  Numbers = {"111", "222", "other"}
  Unsendable = {180, 404}
INVARIANTS
  CellsOwnLiveCalls
  FreeCellForNewCall
  LiveCallIsTimed
  ToneMatchesNumber
  CancelFindsItsNode
PROPERTY
  ImplementsContract
CHECK_DEADLOCK FALSE
