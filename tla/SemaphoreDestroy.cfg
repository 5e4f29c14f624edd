CONSTANTS
  t1 = t1  t2 = t2  t3 = t3
  None = None
  Thread = {t1, t2}
  Timed = {}
  Victims = {t1}
  Limit = 1
  Initial = 1
  Signallers = {t2}
SPECIFICATION Spec
INVARIANTS
  FlushedStays
CHECK_DEADLOCK FALSE
