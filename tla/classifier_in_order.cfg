SPECIFICATION Spec
CONSTANTS
  Bits <- Bits2
  Masks <- Masks4
  Rules <- Rules6
  NoRule = NoRule
  Threshold = 0
  InOrder = TRUE
  MaxDead = 1
INVARIANTS
  TypeOK
  TuplesChained
  OwnersInChain
PROPERTIES
  Implements
