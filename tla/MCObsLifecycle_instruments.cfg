\* A second Init while operations record metrics.
CONSTANTS
  t1 = t1
  t2 = t2
  Threads = {t1, t2}
  MaxObs = 2
  Configs <- MCConfigs
  Endpoint = TRUE
  App = App
  NoProvider = NoProvider
  NoOne = NoOne
SPECIFICATION Spec
SYMMETRY Symmetry
INVARIANT InstrumentsFollow
