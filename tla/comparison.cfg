SPECIFICATION Spec
CONSTANTS
  Bits <- Bits5
  Masks <- AllMasks
  Rules <- AllRules
  NoRule = NoRule
  Threshold = 2
  MaxNodes = 9
  Setups <- AllSetups
  Field <- Fields
  MaskThreshold <- Threshold2
  MaskLen = 1
  TreeDepth = 2
  Relaxed <- Relaxed2
  Cal <- Cal2
INVARIANTS
  TypeOK
  HeadAnswers
  RulesPlacedOnce
  TreeAnswers
  RangeAnswers
  MergeAnswers
  PrunedAnswers
  LowLevelAnswers
CHECK_DEADLOCK FALSE
