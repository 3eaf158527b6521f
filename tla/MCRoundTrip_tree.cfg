SPECIFICATION Spec
CONSTANTS
  Records <- MCRecords
  MaxLines = 4
  MaxWide = 2
  Deep <- MCDeep
  MaxDeep = 6
INVARIANTS
  TypeOK
  RecordIsRead
  RecordIsWritten
  MemoryIsGivenBack
  UsesAreGivenBack
CHECK_DEADLOCK FALSE
