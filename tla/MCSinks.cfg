\* A writer, a worker, the flusher and Close; every chain.
CONSTANTS
  Writers = {v1}
  Workers = {w1}
  Flusher = flusher
  Closer = closer
  NoOne = NoOne
  Fronts = {"async", "buffered"}
  Leaves = {"file", "alert", "loki"}
  QueueSize = 1
  MaxSize = 2
  CapFactor = 1
  RotateSize = 1
  MaxBackups = 2
  Unencodable = {3}
  MaxAttempts = 4
  Budget = 40
  MaxGap = 10
  Durations = {25}
  MaxEntries = 3
  MaxToggles = 1
SPECIFICATION FairSpec
CHECK_DEADLOCK FALSE
INVARIANTS
  Accounted
  CloseDrains
  FilesInOrder
PROPERTIES
  KeepsPromise
  CloseReturns
