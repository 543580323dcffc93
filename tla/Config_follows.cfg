CONSTANTS
  MaxVersions = 4
  MaxNoise = 1
  WatchFails = TRUE
SPECIFICATION FairSpec
INVARIANTS
  TypeOK
  StaleIsPending
  NewsIsTrue
PROPERTIES
  ImplementsFeed
  WatchedFileIsFollowed
CHECK_DEADLOCK FALSE
