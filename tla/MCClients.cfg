SPECIFICATION MCSpec
CONSTANTS
  l1 = l1
  c1 = c1
  c2 = c2
  Clients = {l1, c1, c2}
  Launchers = {l1}
  Members = {"piped"}
  Nested = {l1}
  Holders = {c1, c2}
  MaxGeneration = 2
  MaxSessions = 2
  MaxFailures = 1
INVARIANTS
  OneFailureLeavesNothingOpen
  OnlyTimeEndsAuthority
  NothingOutlivesTheLaunch
PROPERTIES
  CleanupSparesSuccessor
  LostProtectionStopsTheRoot
CHECK_DEADLOCK FALSE
