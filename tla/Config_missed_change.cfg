CONSTANTS
  MaxVersions = 2
  MaxNoise = 0
  WatchFails = FALSE
SPECIFICATION FairSpec
PROPERTY FileIsFollowed
CHECK_DEADLOCK FALSE
