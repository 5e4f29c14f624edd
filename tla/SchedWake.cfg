CONSTANTS
  t1 = t1  t2 = t2  g1 = g1  g2 = g2
  None = None
  Hcpu <- OneCpu
  Home <- OneHome
  Thread = {t1, t2}
  Guest = {}
  High = {t1}
  SelfOps = {"PAUSED", "HALTED"}
  OtherOps = {"READY"}
  Sleepers = {t1, t2}
  Preempters = {}
  Movers = {}
  Both = FALSE
SPECIFICATION FairSpec
PROPERTIES
  ReadyRuns
CHECK_DEADLOCK FALSE
