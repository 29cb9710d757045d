SPECIFICATION Spec
CONSTANTS
  Bits <- Bits4
  Masks = {{1}, {1, 2, 3, 4}}
  Rules <- AllRules
  NoRule = NoRule
  MaxNodes = 11
  Garbage = {0, 7, 21}
  Setups <- AllSetups
INVARIANTS
  TypeOK
  TreesBalanced
  HeapKeepsHeld
  AnswerBest
CHECK_DEADLOCK FALSE
