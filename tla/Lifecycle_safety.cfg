CONSTANTS
  Faults <- AllFaults
  StopsAgain = TRUE
SPECIFICATION FairSpec
INVARIANTS
  TypeOK
  StopIsClean
PROPERTIES
  KnownCrashes
  StopCompletes
CHECK_DEADLOCK FALSE
