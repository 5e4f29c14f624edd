CONSTANTS
  t1 = t1  t2 = t2  t3 = t3
  Waiter = {t1}
  Timed = {t1}
  Ops = {"complete", "once", "all", "reinit"}
  Modulus = 8
SPECIFICATION FairSpec
INVARIANTS
  NoLostWakeup
PROPERTIES
  WaitReturns
