CONSTANTS
  a = a
  b = b
  r = r
  p0 = p0
  p1 = p1
  p2 = p2
  None = None
  Clients = {a, b}
  Ops <- ClaimOps
  OpBudget <- OneEach
  Placements = {p0}
  AssignedTo <- OneTarget
  NotBefore <- OneHour
  Admitted = TRUE
  Promise = 1
  MaxTime = 0
  MaxCrashes = 0
  SelfTerminating <- Stays
  SubmitterRestarts <- Stays
SPECIFICATION Spec
INVARIANT OneHolder
CHECK_DEADLOCK FALSE
