SPECIFICATION FairSpec
CONSTANTS
  m1 = m1
  m2 = m2
  u1 = u1
  Mounters = {m1, m2}
  Unmounters = {u1}
  Ls = {1, 2}
  MaxSessions = 3
  MountFails = TRUE
  Busy = TRUE
  CleanupBusy = FALSE
  RewriteFails = TRUE
  Kills = TRUE
INVARIANTS
  MountsInOrder
  UpperKept
PROPERTIES
  TornDownEventually
