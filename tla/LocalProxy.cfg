CONSTANTS
  Callers = {c1, c2}
  MaxCalls = 3
  MaxFaults = 2
SPECIFICATION Spec
INVARIANTS
  TypeOK
  ResultIsTrue
  GameKnows
  NoPanicOnceStarted
SYMMETRY Symmetry
CHECK_DEADLOCK FALSE
