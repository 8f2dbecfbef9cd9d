SPECIFICATION FairSpec
CONSTANTS
  Goals = {5, 6}
  Waypoints <- MCWaypoints
  Duration <- MCDuration
  JointCount = 1
  Client = "any"
  Cancellable = {5}
  MayShutdown = TRUE
  Other = Other
INVARIANTS
  TypeOK
PROPERTIES
  EveryGoalEnds
  Quiesces
CHECK_DEADLOCK FALSE
