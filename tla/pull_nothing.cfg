SPECIFICATION Spec
CONSTANTS
  Setups <- FeedSetup
  PktBatch = 2
  MaxInsertions = 2
  MaxDeletions = 2
  MaxUpdates = 3
  UpdBatch = 2
  UpdateFiles <- AllFiles
  MaxDue = 13
INVARIANTS
  NumberIsPending
CHECK_DEADLOCK FALSE
