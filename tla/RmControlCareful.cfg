SPECIFICATION FairSpec
CONSTANTS
  Goals = {1, 2, 3, 4}
  Waypoints <- MCWaypoints
  Duration <- MCDuration
  JointCount = 3
  Client = "careful"
  Cancellable = {1, 2, 3, 4}
  MayShutdown = FALSE
  Other = Other
INVARIANTS
  CarefulInv
  SucceededMeansSent
  NoConflict
PROPERTIES
  StreamRefinement
CHECK_DEADLOCK FALSE
