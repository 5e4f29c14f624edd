CONSTANTS
  t1 = t1  t2 = t2  t3 = t3
  Waiter = {t1, t2}
  Timed = {}
  Ops = {"complete"}
  Modulus = 4
SPECIFICATION Spec
PROPERTIES
  CompleteWakes
