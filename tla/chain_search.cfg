SPECIFICATION Spec
CONSTANTS
  Bits <- Bits4
  Masks <- Masks6
  Rules <- Rules6
  NoRule = NoRule
  Threshold = 0
  MaxTuples = 5
  MaxDead = 0
INVARIANTS
  ChainNested
  SearchFindsLongest
  SearchLogarithmic
