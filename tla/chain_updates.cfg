SPECIFICATION Spec
CONSTANTS
  Bits <- Bits3
  Masks <- Masks3
  Rules <- Rules3
  NoRule = NoRule
  Threshold = 1
  MaxTuples = 3
  MaxDead = 1
INVARIANTS
  TypeOK
  MarkersComplete
  OwnersLinked
  EntriesNeeded
  MarkersFresh
  SearchBestUnlessStale
PROPERTIES
  UpdatesExact
  SearchReturns
