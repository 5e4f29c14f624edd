CONSTANTS
  t1 = t1  t2 = t2  g1 = g1  g2 = g2
  None = None
  Hcpu <- Cpus
  Home <- OneHome
  Thread = {t1, t2}
  Guest = {}
  High = {t1}
  SelfOps = {}
  OtherOps = {}
  Sleepers = {t1, t2}
  Preempters = {t1}
  Movers = {}
  Both = FALSE
SPECIFICATION Spec
INVARIANTS
  ContextIntact
PROPERTIES
  StaysWhileDisabled
