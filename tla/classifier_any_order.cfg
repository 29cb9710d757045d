SPECIFICATION Spec
CONSTANTS
  Bits <- Bits2
  Masks <- Masks4
  Rules <- Rules5
  NoRule = NoRule
  Threshold = 1
  InOrder = FALSE
  MaxDead = 1
INVARIANTS
  AnswerExplained
