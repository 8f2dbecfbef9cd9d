SPECIFICATION FairSpec
CONSTANTS
  Goals = {1, 2}
  Waypoints <- MCWaypoints
  Duration <- MCDuration
  JointCount = 2
  Client = "serial"
  Cancellable = {1}
  MayShutdown = FALSE
  Other = Other
INVARIANTS
  SucceededMeansSent
CHECK_DEADLOCK FALSE
