SPECIFICATION RsSpec
CONSTANTS
  Video = {"frameset"}
  Hold = TRUE
  MayReset = {TRUE, FALSE}
  WaitingList = 1
  MaxUnplugs = 1
  MaxFailures = 1
  MaxMessages = 4
INVARIANTS
  RsInv
  OrderKept
PROPERTIES
  HeldLeave
  Recovers
CHECK_DEADLOCK FALSE
