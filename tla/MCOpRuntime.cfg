\* Two goroutines that share handles, three operations.
CONSTANTS
  t1 = t1
  t2 = t2
  Threads = {t1, t2}
  Requests = {1}
  MaxOps = 3
  MaxDepth = 3
SPECIFICATION Spec
SYMMETRY Symmetry
INVARIANTS
  FinishedOnce
  FailureNotHidden
  PanicNeverSwallowed
  NoneForgotten
PROPERTY PanicReported
