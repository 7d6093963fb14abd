SPECIFICATION Spec
CONSTANTS
  MaxVersion = 2
  MaxSize = 4
  MaxBuf = 2
  Limits <- MCLimits
  DefaultLimit = 1
CHECK_DEADLOCK FALSE
INVARIANTS
  InPlace
  EofIsWhole
  LimitHolds
PROPERTIES
  DownloadEnds
