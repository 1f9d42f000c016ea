CONSTANTS
  adder = adder
  stopper = stopper
  other = other
  Clients = {adder, stopper}
  ClientOps <- StopperOps
  Tasks = {k1, k2}
  threadNum = 2
  Workers = {1, 2}
  EndTask = EndTask
  NoTask = NoTask
  NoWorker = NoWorker
  Periodic = {}
  MayThrow = TRUE
SPECIFICATION Spec
SYMMETRY TaskSymmetry
CHECK_DEADLOCK FALSE
INVARIANTS StopMeansQuiescent StopDrains NoLostWakeup EnoughEndTasks
PROPERTY ImplementsExecutor
