SPECIFICATION Spec
CONSTANTS
  Bits <- Bits3
  Masks <- Masks3
  Rules <- Rules3
  NoRule = NoRule
  Threshold = 0
  MaxTuples = 3
  MaxDead = 0
INVARIANTS
  SearchIsBest
