CONSTANTS
  t1 = t1  t2 = t2  t3 = t3
  None = None
  Thread = {t1, t2, t3}
  Timed = {t3}
  Victims = {t1, t2}
  Limit = 2
  Initial = 1
  Signallers = {t3}
SPECIFICATION FairSpec
INVARIANTS
  Conserved
  ResourcesCharged
  NoLostWakeup
  DeadHoldsNothing
PROPERTIES
  FreeIsTaken
CHECK_DEADLOCK FALSE
