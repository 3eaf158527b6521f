SPECIFICATION Spec
CONSTANTS
  Versions <- MCVersions
  MaxFiles = 2
  MaxRecords = 3
  MaxSections = 2
INVARIANTS
  CompatibilityOfTheFile
  LinksAreDefined
  ParentsAreOfTheFile
CHECK_DEADLOCK FALSE
