CONSTANTS
  e1 = e1
  e2 = e2
  e3 = e3
  e4 = e4
  e5 = e5
  e6 = e6
  Nobody = Nobody
  Entries <- FewEntries
  InitSize = 3
  MaxSize = 6
  Delays <- TwoDelays
  Horizon = 3
  PerPoll = 2
  Quota = 3
  Careless = TRUE
SPECIFICATION FairSpec
INVARIANT OwnersFindTheirTimers
PROPERTIES KeepsService DueTimersExpire
CHECK_DEADLOCK FALSE
