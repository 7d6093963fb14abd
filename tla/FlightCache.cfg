SPECIFICATION FairSpec
CONSTANTS
  c1 = c1
  c2 = c2
  c3 = c3
  k1 = k1
  k2 = k2
  Callers = {c1, c2, c3}
  Cacheless = {c3}
  Keys = {k1, k2}
  MaxEntries = 1
  MaxFlights = 3
  ForgetSets <- FirstKeyForgotten
  FilesVanish = TRUE
INVARIANTS
  FailureNotCached
  NoStaleResult
  RunnerPresent
PROPERTIES
  EveryCallReturns
