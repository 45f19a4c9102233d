SPECIFICATION FairSpec
CONSTANTS
  CAs = {c1, c2, c3, c4}
  None = None
  MaxStoredCAs = 4
  MaxFaults = 3
INVARIANTS
  TrustFollowsTheStore
PROPERTIES
  ConvergesUnlessTorn
CHECK_DEADLOCK FALSE
