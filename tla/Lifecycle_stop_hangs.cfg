CONSTANTS
  Faults <- AllFaults
  StopsAgain = FALSE
SPECIFICATION FairSpec
PROPERTY StopAlwaysCompletes
CHECK_DEADLOCK FALSE
