SPECIFICATION PartsSpec
CONSTANTS
  MaxFrames = 3
  MaxResets = 1
  Poses = 3
  Launches <- MCLaunches
  None = None
  Launched <- MCLaunched
  GrabRate = 2
  MaxChanges = 2
  MaxRefusals = 1
  OneLaunches <- MCOneLaunches
  Lo = 1
  Hi = 2
  MaxOneChanges = 2
  MaxOneRefusals = 1
INVARIANTS
  ZpInv
  StampsMatch
  ChainMatches
  SettingsInv
  OneSettingsInv
CHECK_DEADLOCK FALSE
PROPERTIES
  HandedOver
