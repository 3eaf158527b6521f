SPECIFICATION Spec
CONSTANTS
  MaxLevel = 3
  MaxLineLen = 3
  MaxLine = 3
  MaxColumn = 4
INVARIANTS
  TypeOK
  BracketsBalance
  KeysAreJudged
PROPERTIES
  LinesAreCounted
