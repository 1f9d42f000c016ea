CONSTANTS
  putter = putter
  other = other
  k1 = k1
  k2 = k2
  Clients = {putter, other}
  Tasks = {k1, k2}
  TimerThread = TimerThread
  NoTask = NoTask
  NoThread = NoThread
  MayThrow = TRUE
  ClientOps <- OwnOps
  Puts <- OwnTasks
  Delays = {0, 1}
  MaxTime = 2
SPECIFICATION Spec
CHECK_DEADLOCK FALSE
INVARIANTS PutOnce NoLostWakeup NoEarlyRun StopMeansOver
PROPERTIES NothingFiresAfterStop DueTasksFire EveryCallReturns
