SPECIFICATION FairSpec
CONSTANTS
  Callers <- Negotiating
  Mishaps <- AllMishaps
INVARIANTS
  InviteTypeOK
  OneFinalAnswer
  ByeWaitsForAck
  AnswerHasTransaction
  ConnectingWaitsForAck
PROPERTIES
  ImplementsSlot
  TransactionEnds
CHECK_DEADLOCK FALSE
