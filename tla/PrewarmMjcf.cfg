SPECIFICATION PrewarmFairSpec
CONSTANTS
  Runs = {1, 2, 3}
  Keys = {"a", "b"}
  Key <- MCKey
  Forced = {2}
  Outputs <- MCOutputs
  MayOrphan = FALSE
  Child = 3
  NoFile = NoFile
  Empty = Empty
INVARIANTS
  CacheInv
  CacheIsSound
  PublishedIsPatched
  PrewarmOkMeansHit
PROPERTIES
  EverythingSettles
CHECK_DEADLOCK FALSE
