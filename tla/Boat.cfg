CONSTANTS
  t = t
  c = c
  b1 = b1
  b2 = b2
  None = None
  Ticks = {t}
  Stops = {c}
  Boxes = {b1, b2}
  MaxFaults = 1
  MaxRequeues = 1
SPECIFICATION FairSpec
INVARIANTS TypeOK StartedOnce CompletedCollected ReleasedIsDown RunningRecorded
PROPERTY RunningEnds
CHECK_DEADLOCK FALSE
