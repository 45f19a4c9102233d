SPECIFICATION StreamSpec
CONSTANTS
  Characters <- TheCharacters
  Events <- SplitEvents
  Rules <- SplitRules
  CredentialBytes <- Bytes
  Marker <- TheMarker
  Closing <- TheClosing
  Ids = {"1", "2"}
  Vault <- Known
  Redacted <- TheRedacted
  Lookbehind = 2
  ChunkBytes = 4
  OverlapBytes = 2
  Blanks <- TheBlanks
  MaxPendingStreamEvents = 4
  MaxBatch = 2
  MaxText = 6
INVARIANTS
  EmittedTextIsSanitised
  ClosedStreamsAreComplete
  EveryFindingIsReportedOnce
CHECK_DEADLOCK FALSE
