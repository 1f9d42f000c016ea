CONSTANTS
  Threads = {t1, t2, t3}
  Parties = 2
  Count = 2
  MaxRounds = 2
  MaxBelow = 1
SPECIFICATION Spec
CHECK_DEADLOCK FALSE
INVARIANTS NoLostWakeup ZeroMeansAllArrived
PROPERTY ReleasedWaitsReturn
