CONSTANTS
  a = a
  b = b
  r = r
  p0 = p0
  p1 = p1
  p2 = p2
  None = None
  Clients = {a, r}
  Ops <- ReapOps
  OpBudget <- ReapBudget
  Placements = {p0, p1, p2}
  AssignedTo <- EveryTarget
  NotBefore <- EveryHour
  Admitted = TRUE
  Promise = 1
  MaxTime = 1
  MaxCrashes = 1
  SelfTerminating <- EitherKind
  SubmitterRestarts <- OneLaunch
SPECIFICATION Spec
INVARIANTS TypeOK DestinationAfterFence NeverLost OutcomeBeforeCleaning
PROPERTY LiveLeaseNeverReaped
CHECK_DEADLOCK FALSE
