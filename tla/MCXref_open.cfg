SPECIFICATION Spec
CONSTANTS
  k1 = k1
  k2 = k2
  FAM = FAM
  INDI = INDI
  NONE = NONE
  ANY = ANY
  RefType <- MCRefType
  Key <- MCKey
  UseType <- MCOpenTypes
  MaxUse = 1
SYMMETRY KeySymmetry
INVARIANTS
  TypeOK
  NodesAreConsistent
  ReportsAreRight
