CONSTANTS
  s1 = s1
  s2 = s2
  s3 = s3
  s4 = s4
  p1 = p1
  p2 = p2
  p3 = p3
  None = None
  Sessions = {s1, s2, s3, s4}
  Procs = {p1, p2, p3}
  Proc <- Invocations
  Host <- TwoHosts
  Pid <- OnePid
  MaxTries = 1
  MaxStamp = 1
SPECIFICATION Spec
INVARIANTS TypeOK OneOwner OwnerCurrent
PROPERTIES LockSpec LiveOwnerKeepsLease StateOnlyAdvances TokensRotate
SYMMETRY TwoInOne
CHECK_DEADLOCK FALSE
