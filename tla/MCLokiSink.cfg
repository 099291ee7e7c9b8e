\* A writer, the ticker and Close; the buffer holds one batch of one or two entries.
CONSTANTS
  w1 = w1
  c1 = c1
  ticker = ticker
  Writers = {w1}
  Closers = {c1}
  Ticker = ticker
  BatchSizes = {1, 2}
  CapFactor = 1
  Retries = 1
  MaxEntries = 3
SPECIFICATION FairSpec
INVARIANTS
  NothingVanishes
  HeldOnce
PROPERTIES
  GrowsWithinCap
  KeepsPromise
  EventuallyPushed
  CloseTerminates
