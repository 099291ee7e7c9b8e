\* Two goroutines with two calls, two resets, and a pipeline with two workers.
CONSTANTS
  t1 = t1
  t2 = t2
  Threads = {t1, t2}
  Workers = {w1, w2}
  Names <- MCNames
  Lowered <- MCLowered
  Allowed = {"a", "b", "_"}
  Subjects <- MCSubjects
  Configs <- MCConfigs
  MaxNames = 1
  MaxDelta = 1
  MaxCalls = 2
  MaxResets = 2
  MaxFlushes = 4
SPECIFICATION Spec
CHECK_DEADLOCK FALSE
SYMMETRY Symmetry
INVARIANTS
  CapHolds
  OverflowOnlyWhenFull
  LabelsOfOneInit
  
  
  HookExact
