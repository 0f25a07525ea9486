CONSTANTS
  MaxCalls = 2
  MaxPorts = 6
  DeviceFails = TRUE
SPECIFICATION BridgeSpec
INVARIANTS BridgeAgrees CallerHearsOwnTone HeardNeedsDevice BridgeSurvives
PROPERTY IdleDeviceCloses
CHECK_DEADLOCK FALSE
