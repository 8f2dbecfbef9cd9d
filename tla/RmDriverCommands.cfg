SPECIFICATION CommandsFairSpec
CONSTANTS
  Callers <- MCCallers
  MaxOutages = 1
  MaxCommands = 2
  Topics <- MCTopics
  UdpHand = TRUE
  NoTopic = NoTopic
INVARIANTS
  CommandsInv
  OnlyLiftRaces
PROPERTIES
  ServesArm
  StopFreesMove
CHECK_DEADLOCK FALSE
