CONSTANTS
  t1 = t1  t2 = t2  t3 = t3
  None = None
  Thread = {t1, t2}
  Timed = {}
  Victims = {t2}
  MaxDepth = 1
SPECIFICATION Spec
INVARIANTS
  DeadNotWaiting
CHECK_DEADLOCK FALSE
