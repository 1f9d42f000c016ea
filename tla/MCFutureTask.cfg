CONSTANTS
  Tasks = {k1, k2}
  Periodic = {k2}
  Futures = {k1}
  Runners = {r1, r2}
  Cancellers = {c1}
  Getters = {g1}
  NoTask = NoTask
  Nobody = Nobody
  MayThrow = TRUE
SPECIFICATION FutureSpec
CHECK_DEADLOCK FALSE
INVARIANTS NoLostCancelWakeup NoRunAfterCancelReturns NoLostResultWakeup
PROPERTIES CancellationSticks CancelReturnsUnlessAbandoned ImplementsTaskBase GetResultReturnsUnlessNone
