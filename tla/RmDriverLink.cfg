SPECIFICATION FairSpec
CONSTANTS
  Callers <- MCCallers
  MaxOutages = 2
INVARIANTS
  LinkInv
PROPERTIES
  Reconnects
  CommandsRecover
  InterruptEndsNode
CHECK_DEADLOCK FALSE
