SPECIFICATION FairSpec
CONSTANTS
  Visits = {v1, v2, v3}
  Tokens = {t1, t2}
  None = None
  MaxDay = 2
  Retention = 2
  Fenced = TRUE
INVARIANTS
  NumbersAreTally
  ReceiptsStandForCounts
PROPERTIES
  CountsOnlyVisible
  CountsEachPairOnce
  EveryVisitEnds
CHECK_DEADLOCK FALSE
