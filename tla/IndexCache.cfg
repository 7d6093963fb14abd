SPECIFICATION FairSpec
CONSTANTS
  c1 = c1
  c2 = c2
  Callers = {c1, c2}
  Transports = {"local", "direct", "cached", "etags"}
  Failures = TRUE
  Untagged = TRUE
  MaxVersion = 2
  MaxFlights = 3
CHECK_DEADLOCK FALSE
INVARIANTS
  AsFreshUnshared
  CacheInOrder
PROPERTIES
  EveryCallReturns
