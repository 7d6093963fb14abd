SPECIFICATION FairSpec
CONSTANTS
  p1 = p1
  p2 = p2
  Old = Old
  Procs = {p1, p2}
  MaxGets <- MCMaxGets
  Retries = 1
  Signed = TRUE
  IOErrors = TRUE
CHECK_DEADLOCK FALSE
INVARIANTS
  ServedVerified
  NeverDangles
  VerifiedCopyWins
  SettledEntryReadable
  NothingAbandoned
PROPERTIES
  EveryGetReturns
