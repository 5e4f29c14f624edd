CONSTANTS
  t1 = t1  t2 = t2  t3 = t3
  Cpu <- Cpus
  Late = {1}
  Caller = {t1, t2}
  Home <- HomeOf
  Movers = {}
  Masking = {t1}
  Kinds = {"sync", "async"}
  SyncSize = 1
  AsyncSize = 1
  Tries = 1
  MaxCalls <- OneEach
SPECIFICATION Spec
INVARIANTS
  EarlyCallServed
CHECK_DEADLOCK FALSE
