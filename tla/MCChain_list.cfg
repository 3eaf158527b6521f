SPECIFICATION Spec
CONSTANTS
  e1 = e1
  e2 = e2
  e3 = e3
  e4 = e4
  e5 = e5
  NULL = NULL
  Elt <- MCElt
  MoveLengths <- MCNotTwo
INVARIANTS
  TypeOK
  WellLinked
PROPERTIES
  IsASequence
