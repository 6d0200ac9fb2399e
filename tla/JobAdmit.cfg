CONSTANTS
  a = a
  b = b
  r = r
  p0 = p0
  p1 = p1
  p2 = p2
  None = None
  Clients = {a, b}
  Ops <- AdmitOps
  OpBudget <- TwoEach
  Placements = {p0, p1}
  AssignedTo <- SameTarget
  NotBefore <- TwoHours
  Admitted = FALSE
  Promise = 1
  MaxTime = 1
  MaxCrashes = 0
  SelfTerminating <- StaysTwice
  SubmitterRestarts <- StaysTwice
SPECIFICATION FairSpec
INVARIANTS IndexedFromAdmission NotClaimedEarly
PROPERTY CallsReturn
CHECK_DEADLOCK FALSE
