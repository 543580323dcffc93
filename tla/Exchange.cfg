CONSTANTS
  Addr = {a1}
  Randoms <- MCRandoms
  Texts <- MCTexts
  Counts <- MCCounts
  MaxMetrics = 2
  MetricValues <- MCMetricValues
  Strays <- MCStrays
  BufSize = 11
  MaxSets = 1
  MaxFaults = 2
SPECIFICATION FairSpec
INVARIANTS
  TypeOK
  AnswersReadBack
PROPERTIES
  AnswersEarned
  Served
CHECK_DEADLOCK FALSE
