CONSTANTS
  Faults = {}
  StopsAgain = FALSE
SPECIFICATION Spec
INVARIANT NoCrash
CHECK_DEADLOCK FALSE
