SPECIFICATION HangingUp
CONSTANTS
  Callers <- OfferlessSameBranch
  Mishaps = {}
PROPERTIES
  IncompleteIsDisconnected
CHECK_DEADLOCK FALSE
