SPECIFICATION MCSpec
CONSTANTS
  l1 = l1
  c1 = c1
  c2 = c2
  Clients = {l1, c1, c2}
  Launchers = {l1}
  Members = {"piped"}
  Nested = {}
  Holders = {c1, c2}
  MaxGeneration = 1
  MaxSessions = 1
  MaxFailures = 0
PROPERTIES
  CancelledGroupsDie
CHECK_DEADLOCK FALSE
