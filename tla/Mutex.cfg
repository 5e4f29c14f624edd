CONSTANTS
  t1 = t1  t2 = t2  t3 = t3
  None = None
  Thread = {t1, t2, t3}
  Timed = {t3}
  Victims = {t1, t2}
  MaxDepth = 2
SPECIFICATION FairSpec
INVARIANTS
  Exclusion
  NoLostWakeup
  DeadOwnsNothing
PROPERTIES
  FreeIsTaken
CHECK_DEADLOCK FALSE
