SPECIFICATION CatchFairSpec
CONSTANTS
  MaxCommands = 12
  Topics <- MCTopics
  Group <- MCGroup
  Queries <- MCQueries
  Silent = {}
  None = None
  Nothing = Nothing
INVARIANTS
  CatchInv
PROPERTIES
  CatchEnds
CHECK_DEADLOCK FALSE
