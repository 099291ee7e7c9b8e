\* One caller that races Stop: its entry is accepted after the drain and stays in the queue.
CONSTANTS
  c1 = c1
  c2 = c2
  w1 = w1
  w2 = w2
  s1 = s1
  s2 = s2
  Callers = {c1}
  Stoppers = {s1}
  WorkerSets <- UpToOne
  Policies = {"DropLatest"}
  BatchSize = 1
  QueueFactor = 4
  BatchFactor = 2
  MaxEntries = 2
SPECIFICATION Spec
INVARIANT NothingStranded
