CONSTANTS
  d1 = d1  d2 = d2
  Irq = {0, 1, 6}
  Prio <- Prios
  Maskable = {6}
  Device = {d1, d2}
  Self = self
  Clock = clock
  Lines <- WithReset
  Ops <- Roles
  Admin = {"pause", "resume", "halt", "reset"}
  MaxOps <- TwoAndOne
  MaxAdmin = 1
SPECIFICATION FairSpec
INVARIANTS
  Covered
  WaitIsSeen
  NoLostWakeup
PROPERTIES IrqHandled
CHECK_DEADLOCK FALSE
