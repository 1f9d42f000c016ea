CONSTANTS
  adder = adder
  stopper = stopper
  Clients = {adder, stopper}
  ClientOps <- ServeOps
  TimerOps <- AdderOps
  Tasks = {k1}
  Periodic = {k1}
  threadNum = 1
  Workers = {1}
  TimerThread = TimerThread
  EndTask = EndTask
  NoTask = NoTask
  NoWorker = NoWorker
  MayThrow = FALSE
  MaxQueue = 1
SPECIFICATION TimerSpec
CHECK_DEADLOCK FALSE
INVARIANTS LateTimerAddsNothing StopEndsTheTimer
PROPERTIES EarlyTasksStop EveryPoolCallReturns TimerCancelReturns
