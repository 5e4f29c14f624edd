CONSTANTS
  t1 = t1  t2 = t2  g1 = g1  g2 = g2
  None = None
  Hcpu <- Cpus
  Home <- HomeOf
  Thread = {}
  Guest = {g1}
  High = {}
  SelfOps = {}
  OtherOps = {"HALTED", "UNKNOWN"}
  Sleepers = {}
  Preempters = {}
  Movers = {}
  Both = FALSE
SPECIFICATION FairSpec
PROPERTIES
  HaltTakesEffect
CHECK_DEADLOCK FALSE
