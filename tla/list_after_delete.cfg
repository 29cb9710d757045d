SPECIFICATION Spec
CONSTANTS
  Bits <- Bits2
  Masks <- Masks4
  Rules <- Rules5
  NoRule = NoRule
  Threshold = 2
  InOrder = TRUE
  MaxDead = 1
INVARIANTS
  ListAnswerIsBest
