CONSTANTS
  t1 = t1  t2 = t2  g1 = g1  g2 = g2
  None = None
  Hcpu <- Cpus
  Home <- HomeOf
  Thread = {t2}
  Guest = {g1}
  High = {}
  SelfOps = {}
  OtherOps = {"READY", "PAUSED"}
  Sleepers = {}
  Preempters = {}
  Movers = {t2}
  Both = TRUE
SPECIFICATION Spec
INVARIANTS
  OnOneHcpu
CHECK_DEADLOCK FALSE
