CONSTANTS
  s1 = s1
  s2 = s2
  s3 = s3
  s4 = s4
  s5 = s5
  p1 = p1
  p2 = p2
  p3 = p3
  p4 = p4
  None = None
  Sessions = {s1, s2, s3, s4, s5}
  Procs = {p1, p2, p3, p4}
  Proc <- Loops
  Host <- TwoHosts
  Pid <- TwoPids
  MaxLost = 2
SPECIFICATION FairSpec
INVARIANTS OneTick TickRecorded
PROPERTIES LockSpec LeftRecordTaken
CHECK_DEADLOCK FALSE
