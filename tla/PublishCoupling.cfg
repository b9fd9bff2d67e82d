SPECIFICATION FairSpec
CONSTANTS
  Requests = {r1, r2, r3}
  None = None
  MaxTime = 2
INVARIANTS
  FlipsAudited
  NotifierAccount
  ScheduleSurvives
PROPERTIES
  StampsMonotone
  OnlyTheCallHangs
CHECK_DEADLOCK FALSE
