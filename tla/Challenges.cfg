CONSTANTS
  Addr = {c1, c2}
  Purge = {p1, p2}
  Life = 2
  MaxTime = 5
  MaxIssued = 3
SPECIFICATION FairSpec
INVARIANTS
  TypeOK
  OneAnswer
  PurgeIsThorough
  PurgeSparesOlder
PROPERTY StaleLeaves
CHECK_DEADLOCK FALSE
