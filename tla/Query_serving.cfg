CONSTANTS
  Callers = {c1, c2}
  MaxMetrics = 2
  Values = {1, 2}
  PlayerCounts <- Limits
  MaxConfigs = 1
  MaxSets = 3
SPECIFICATION Spec
INVARIANTS
  TypeOK
  ReportsTheGame
  NoPanicOnceServing
SYMMETRY Symmetry
CHECK_DEADLOCK FALSE
