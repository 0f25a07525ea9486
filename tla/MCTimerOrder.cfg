CONSTANTS
  e1 = e1
  e2 = e2
  e3 = e3
  e4 = e4
  e5 = e5
  e6 = e6
  Nobody = Nobody
  Entries <- SixEntries
  InitSize = 4
  MaxSize = 8
  Delays <- TwoDelays
  Horizon = 2
  PerPoll = 1
  Quota = 6
  Careless = FALSE
SYMMETRY AnyOrder
SPECIFICATION Spec
INVARIANTS HeapTypeOK RoomForOneMore HeapOrdered TableFindsNodes FreelistIsTheRest
PROPERTIES KeepsService
CHECK_DEADLOCK FALSE
