CONSTANTS
  t1 = t1  t2 = t2  t3 = t3
  Waiter = {t1, t2, t3}
  Timed = {t3}
  Ops = {"all", "reinit"}
  Modulus = 8
SPECIFICATION Spec
INVARIANTS
  TypeOK
  NoLostWakeup
