SPECIFICATION ControlSpec
CONSTANTS
  Versions = {v1, v2}
  NoVersion = NoVersion
  MaxInstalledVersions = 2
  MaxUnsynced = 2
  Handlers = {h1, h2}
  Models = {m1}
  NoModel = NoModel
  Policies = {p1, p2}
  DefaultPolicy = p1
  NoPolicy = NoPolicy
SYMMETRY Symmetry
INVARIANTS
  RestartFindsTheActiveVersion
  AcknowledgedChangesSurvive
  ScannerFollowsItsChoices
  AcknowledgedPolicyIsInForce
