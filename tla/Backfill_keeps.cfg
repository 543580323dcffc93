CONSTANTS
  MaxAllocations = 2
  MaxFaults = 3
SPECIFICATION FairSpec
INVARIANTS
  TypeOK
  LateAtMostOnce
  JoinedByStop
PROPERTIES
  KeptAlive
  StopReachesBase
CHECK_DEADLOCK FALSE
