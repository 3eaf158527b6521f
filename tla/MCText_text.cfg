SPECIFICATION MCSpec
CONSTANTS
  Tables <- MCTables
  Supported <- MCSupported
  Inputs <- MCInputs
  SysNewline <- MCSysNewline
  MaxParses = 3
  MaxSettings = 1
  MaxFiles = 1
  Values <- MCValues
  Handles <- MCHandles
  MAXGEDCLINELEN = 12
  AgeLines <- MCAgeLines
  MaxAges = 2
  Texts <- MCTexts
  Sizes <- MCSizes
INVARIANTS
  EncodingsAgree
  TextIsKept
  AgesAreKept
  AnselIsKept
PROPERTY
  WritingEnds
CHECK_DEADLOCK FALSE
