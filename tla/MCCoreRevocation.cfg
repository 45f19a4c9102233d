SPECIFICATION CoreSpec
CONSTANTS
  Agents = {a1}
  Surfaces = {x1}
  MaxEntries = 1
  MaxPending = 1
  MaxGeneration = 2
  MaxLease = 1
  SessionIds = {s1}
  NoParent = NoParent
  MaxSessions = 1
  MaxTTL = 1
  MaxLockWait = 0
  Endpoint = e1
  MaxTime = 0
  Workers = {w1, w2}
  Cleanup = cleanup
  Managed = {}
  MaxRouteIDs = 1
  MaxConcurrent = 1
  Kinds = {"registerAgent", "deleteAgent", "createSession", "proxy"}
SYMMETRY Symmetry
INVARIANTS
  SettledRoutesCarryNoTraffic
PROPERTIES
  ImplementsRouteCapability
