CONSTANTS
  t1 = t1  t2 = t2  g1 = g1  g2 = g2
  None = None
  Hcpu <- OneCpu
  Home <- OneHome
  Thread = {t1, t2}
  Guest = {g1}
  High = {t1}
  SelfOps = {"PAUSED", "HALTED"}
  OtherOps = {"READY", "PAUSED"}
  Sleepers = {t2}
  Preempters = {}
  Movers = {}
  Both = FALSE
SPECIFICATION FairSpec
PROPERTIES
  ReadyRuns
CHECK_DEADLOCK FALSE
