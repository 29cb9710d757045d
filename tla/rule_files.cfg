SPECIFICATION Spec
CONSTANTS
  Bits <- AllBits
  Masks <- AllMasks
  Rules = {}
  NoRule = NoRule
  PortBits = 2
  FieldBits = 3
  Rows <- AllRows
  rrc_vec <- AllItems
  FieldNb = 2
  RuleNb = 2
  Share = 2
  GivenFiles <- AllFiles
  MaxRows = 2
INVARIANTS
  RowsSplit
  PrioritiesNested
  TemplateIsUpdated
  TrafficAnswered
  LeastCover
CHECK_DEADLOCK FALSE
