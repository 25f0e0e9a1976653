SPECIFICATION WatchFairSpec
CONSTANTS
  Keys = {k1, k2}
  NoFile = NoFile
  MaxChanges = 4
  MaxTime = 2
INVARIANTS
  WatchTypeOK
  QuietMeansCurrent
  DropsFollowLoads
PROPERTIES
  ComesToRest
CHECK_DEADLOCK FALSE
