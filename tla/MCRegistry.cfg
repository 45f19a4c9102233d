SPECIFICATION Spec
CONSTANTS
  Agents = {a1, a2, a3}
  Surfaces = {x1, x2}
  MaxEntries = 2
  MaxPending = 2
  MaxGeneration = 2
  MaxLease = 1
  MaxTime = 2
SYMMETRY Symmetry
INVARIANTS
  NoRevocationLost
  TrackedAgentsCanReregister
PROPERTIES
  WithdrawnRoutesStayWithdrawn
  LapsedLeaseStaysLapsed
