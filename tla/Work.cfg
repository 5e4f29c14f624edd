CONSTANTS
  u1 = u1  u2 = u2  w1 = w1  d1 = d1  e1 = e1  q0 = q0  q1 = q1
  None = None
  Cpu <- Cpus
  Event = {d1, e1}
  Plain = {e1}
  Periodic = {e1}
  User = {u1, u2}
  Home <- HomeOf
  Movers = {}
  LocalChip = TRUE
  Booting = {0}
  Stops = {1}
  Durations = {1}
  MaxTime = 2
  MaxCalls <- TwoAndOne
  Work = {w1, d1}
  Delayed = {d1}
  Queue = {q0, q1}
  syswq <- SysWq
  Where <- WorkerOn
  Targets <- Named
  Rearming = {w1}
  Overlap = FALSE
  Ops <- Roles
SPECIFICATION FairSpec
INVARIANTS
  ActiveIsListed
  ChipCovers
  ScheduledIsQueued
  NoLostWork
  StopHolds
PROPERTIES EventFires WorkRuns CallsReturn
CHECK_DEADLOCK FALSE
