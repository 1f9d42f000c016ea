CONSTANTS
  Tasks = {k1}
  Periodic = {k1}
  Runners = {r1}
  Cancellers = {c1, c2}
  NoTask = NoTask
  MayThrow = FALSE
SPECIFICATION Spec
CHECK_DEADLOCK FALSE
INVARIANT NoPeriodicRunAfterCancelReturns
