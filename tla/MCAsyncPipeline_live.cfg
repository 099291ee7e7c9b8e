\* Liveness, with one call of Stop that may or may not be made.
CONSTANTS
  c1 = c1
  c2 = c2
  w1 = w1
  w2 = w2
  s1 = s1
  s2 = s2
  Callers = {c1, c2}
  Stoppers = {s1}
  WorkerSets <- UpToOne
  Policies = {"DropLatest", "DropOldest", "BlockShort"}
  BatchSize = 2
  QueueFactor = 1
  BatchFactor = 1
  MaxEntries = 3
SPECIFICATION FairSpec
PROPERTIES
  StopTerminates
  LogReturns
  AcceptedIsResolved
