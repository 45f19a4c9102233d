SPECIFICATION CoreFairSpec
CONSTANTS
  Agents = {a1}
  Surfaces = {x1}
  MaxEntries = 1
  MaxPending = 1
  MaxGeneration = 2
  MaxLease = 1
  SessionIds = {s1}
  NoParent = NoParent
  MaxSessions = 1
  MaxTTL = 2
  MaxLockWait = 0
  Endpoint = e1
  MaxTime = 1
  Workers = {w1}
  Cleanup = cleanup
  Managed = {a1}
  MaxRouteIDs = 1
  MaxConcurrent = 1
  Kinds = {"listAgents", "getAgent", "registerAgent", "heartbeatAgent", "deleteAgent", "createSession", "createChildSession", "proxy"}
INVARIANTS
  TrafficIsAuthorized
PROPERTIES
  ClosesRoutes
  WithdrawnTrafficStops
  ExpiredSessionsAreRevoked
