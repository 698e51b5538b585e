SPECIFICATION StopFairSpec
CONSTANTS
  N = 2
  Blocking = {1}
  Streams = {c1, c2, c3}
  Absent = Absent
INVARIANTS CountsItsWorkers IdleForGood
CHECK_DEADLOCK FALSE
PROPERTY StopReturns
