CONSTANTS
  putter = putter
  other = other
  k1 = k1
  k2 = k2
  Clients = {putter, other}
  Tasks = {k1}
  TimerThread = TimerThread
  NoTask = NoTask
  NoThread = NoThread
  MayThrow = FALSE
  ClientOps <- SharedOps
  Puts <- SharedTasks
  Delays = {1, 2}
  MaxTime = 3
SPECIFICATION Spec
CHECK_DEADLOCK FALSE
INVARIANT PutOnce
