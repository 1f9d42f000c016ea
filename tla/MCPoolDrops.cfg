CONSTANTS
  adder = adder
  stopper = stopper
  other = other
  Clients = {adder, other}
  ClientOps <- DropOps
  Tasks = {k1}
  threadNum = 1
  Workers = {1}
  EndTask = EndTask
  NoTask = NoTask
  NoWorker = NoWorker
  Periodic = {}
  MayThrow = FALSE
SPECIFICATION Spec
CHECK_DEADLOCK FALSE
PROPERTY EarlyCancelReturns
