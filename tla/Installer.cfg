SPECIFICATION FairSpec
CONSTANTS
  N = 3
  Jobs = 2
  Lazies = {TRUE, FALSE}
  Entries <- FilesAndLinks
  Origins = {"o1", "none"}
  Replacing <- EachWay
  Bases <- NewOrMade
  FailAt = {"fetch", "cancel", "files", "scripts", "record"}
  MaxCalls = 2
CHECK_DEADLOCK FALSE
INVARIANTS
  InstalledInOrder
  DatabaseDescribesImage
PROPERTIES
  EveryInstallReturns
