CONSTANTS
  t1 = t1  t2 = t2  g1 = g1  g2 = g2
  None = None
  Hcpu <- Cpus
  Home <- HomeOf
  Thread = {}
  Guest = {g1}
  High = {}
  SelfOps = {}
  OtherOps = {"READY", "PAUSED", "HALTED", "RESET", "UNKNOWN"}
  Sleepers = {}
  Preempters = {}
  Movers = {}
  Both = FALSE
SPECIFICATION Spec
INVARIANTS
  TypeOK
  RunsOnce
CHECK_DEADLOCK FALSE
