CONSTANTS
  Threads = {t1, t2, t3}
  Elems = {e1, e2}
  NoElem = NoElem
  MaxSizes = {1, 2}
SPECIFICATION Spec
INVARIANTS NoLostWakeup
PROPERTY ImplementsBoundedFifo
