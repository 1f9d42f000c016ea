CONSTANTS
  Threads = {t1, t2}
  Cancellers = {c1, c2}
  NoThread = NoThread
SPECIFICATION Spec
CHECK_DEADLOCK FALSE
INVARIANTS NoLostFinishWakeup CancelledIsPastTheWork
PROPERTY EveryCancelReturns
