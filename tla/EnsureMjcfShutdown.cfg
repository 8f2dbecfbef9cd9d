SPECIFICATION FairSpec
CONSTANTS
  Runs = {1}
  Keys = {"a"}
  Key <- MCKey
  Forced = {}
  Outputs <- MCOutputs
  MayOrphan = FALSE
  NoFile = NoFile
  Empty = Empty
PROPERTIES
  ShutdownHonoured
CHECK_DEADLOCK FALSE
