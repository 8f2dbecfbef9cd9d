SPECIFICATION SimSpec
CHECK_DEADLOCK FALSE
CONSTANTS
  MaxMoves = 2
  Inputs <- const_Inputs
  Ids <- const_Ids
  None = None
  Spawned <- const_Spawned
  Timeout = 1
INVARIANTS
  SimInv
  ReadyMeansDriving
PROPERTIES
  StackStarts
  ReadbackSettles
