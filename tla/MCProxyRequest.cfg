SPECIFICATION FairProxySpec
CONSTANTS
  r1 = r1
  r2 = r2
  s1 = s1
  p = p
  q = q
  Asks <- MCAsks
  Resolvers = {d1}
  MaxPendingApprovals = 1
  Unset = Unset
  MaxRules = 2
  Requests = {r1, r2}
  Sessions = {s1}
  SessionOf <- MCSessionOf
  Interactive = {r1, r2}
  Secrets = {p, q}
  Category <- MCCategory
  Engines <- MCEngines
  Arrivals <- MCArrivals
  Answers <- MCAnswers
  MaxItems = 1
  MaxRounds = 2
  MaxEntries = 1
  Capacity <- MCCapacity
  Nothing = Nothing
INVARIANTS
  DecisionsAreUsedOnce
  PendingApprovalsAreAwaited
  NothingIsSentUnapproved
  ClientSeesOnlyApproved
PROPERTIES
  NobodyHangs
CHECK_DEADLOCK FALSE
