CONSTANTS
  t1 = t1  t2 = t2  g1 = g1  g2 = g2
  None = None
  Hcpu <- Cpus
  Home <- HomeOf
  Thread = {t2}
  Guest = {g1}
  High = {}
  SelfOps = {}
  OtherOps = {"READY", "HALTED"}
  Sleepers = {}
  Preempters = {}
  Movers = {}
  Both = FALSE
SPECIFICATION Spec
INVARIANTS
  DetachIntact
CHECK_DEADLOCK FALSE
