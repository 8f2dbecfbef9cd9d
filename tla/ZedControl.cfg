SPECIFICATION NodesFairSpec
CONSTANTS
  Detectors = {"obj"}
  Setups <- MCSetups
  Required = TRUE
  MaxCalls = 1
  None = None
INVARIANTS
  ZedInv
  CameraOutlivesThreads
PROPERTIES
  SafeGrab
  CallsReturn
CHECK_DEADLOCK FALSE
