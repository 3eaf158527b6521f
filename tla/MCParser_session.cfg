SPECIFICATION MCSpec
CONSTANTS
  MaxGedcLevel = 99
  Modes = {"IMMED_FAIL", "DEFER_FAIL", "IGNORE_ERRORS"}
  MaxLevel = 2
  MaxLines = 4
INVARIANTS
  TypeOK
  CountsMatchSections
PROPERTIES
  ErrorsAreHandled
  ContextsFit
  ParseReturns
