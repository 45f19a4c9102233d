SPECIFICATION Spec
CONSTANTS
  SessionIds = {s1, s2, s3}
  NoParent = NoParent
  Routes = {r1, r2}
  Endpoints = {e1, e2}
  MaxSessions = 3
  MaxTTL = 2
  MaxLockWait = 1
  MaxTime = 3
SYMMETRY Symmetry
INVARIANTS
  AuthorityFlowsFromParent
  RevocationIsComplete
  ListedSessionsFormATree
