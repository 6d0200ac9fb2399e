CONSTANTS
  a = a
  b = b
  r = r
  p0 = p0
  p1 = p1
  p2 = p2
  None = None
  Clients = {a, b}
  Ops <- CancelSweepOps
  OpBudget <- TwoEach
  Placements = {p0}
  AssignedTo <- OneTarget
  NotBefore <- OneHour
  Admitted = TRUE
  Promise = 1
  MaxTime = 0
  MaxCrashes = 1
  SelfTerminating <- Stays
  SubmitterRestarts <- Stays
SPECIFICATION Spec
INVARIANT NeverLost
CHECK_DEADLOCK FALSE
