\* Every policy and every change of it; no, one or two sink workers; two calls of Stop.
CONSTANTS
  c1 = c1
  c2 = c2
  w1 = w1
  w2 = w2
  s1 = s1
  s2 = s2
  Callers = {c1, c2}
  Stoppers = {s1, s2}
  WorkerSets <- UpToTwo
  Policies = {"DropLatest", "DropOldest", "BlockShort"}
  BatchSize = 2
  QueueFactor = 1
  BatchFactor = 1
  MaxEntries = 3
SPECIFICATION Spec
SYMMETRY Symmetry
INVARIANTS
  NoSendOnClosed
  StopLeavesNothingBehind
  SingleWorkerFIFO
  StatsReconcile
PROPERTY KeepsPromise
