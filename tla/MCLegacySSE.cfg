SPECIFICATION FairSpec
CONSTANTS
  Channels = {c1, c2}
  Posts = {p1, p2}
  Sessions = {s1}
  MaxChannels = 1
  MaxPostsPerChannel = 1
  MaxLockWait = 1
  MaxTime = 1
INVARIANTS
  VaultsFollowTheirUsers
PROPERTIES
  UnlistedVaultsAreDestroyed
  NoPostWaitsForever
