SPECIFICATION Spec
CONSTANTS
  Setups <- AllSetups
  PktBatch = 2
  MaxInsertions = 2
  MaxDeletions = 2
  MaxUpdates = 3
  UpdBatch = 2
  UpdateFiles <- AllFiles
  MaxDue = 13
INVARIANTS
  TypeOK
  PacketsInOrder
  ReceivedWerePushed
  AppliedInOrder
  BufferByTime
  FibPulledInOrder
PROPERTIES
  EmulationEnds
CHECK_DEADLOCK FALSE
