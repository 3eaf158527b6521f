SPECIFICATION MCSpec
CONSTANTS
  Keys <- MCKeys
  NoKey = NoKey
  hkey <- MChkey
  InitSize = 2
  MaxCount = 9
  Inserts = 10
INVARIANTS
  TypeOK
PROPERTIES
  RefinesTable
  ScansEnd
