CONSTANTS
  d1 = d1  d2 = d2
  Irq = {1, 6}
  Prio <- Prios
  Maskable = {6}
  Device = {d1, d2}
  Self = self
  Clock = clock
  Lines <- LinesOf
  Ops <- Roles
  Admin = {"pause", "resume", "halt", "reset"}
  MaxOps <- TwoAndOne
  MaxAdmin = 2
SPECIFICATION Spec
CHECK_DEADLOCK FALSE
INVARIANT NoWakeupLostToResume
