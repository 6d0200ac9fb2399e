CONSTANTS
  c1 = c1
  c2 = c2
  w = w
  None = None
  Callers = {c1, c2}
  Sweepers = {w}
  Prios = {0, 1}
  MaxCalls = 4
  MaxMoves = 2
  MaxCrashes = 1
SPECIFICATION FairSpec
INVARIANTS TypeOK IndexOrder
PROPERTY Converges
CHECK_DEADLOCK FALSE
