SPECIFICATION Spec
CONSTANTS
  k1 = k1
  k2 = k2
  k3 = k3
  FAM = FAM
  INDI = INDI
  NONE = NONE
  ANY = ANY
  NULL = NULL
  RefType <- MCRefType
  Key <- MCKeys2
  Field <- MCFieldAll
  OwnerType <- MCOwnerType
  LinkType <- MCLinkType
  Kind <- MCKind
  Mishap <- MishapKind
  MaxUse = 2
SYMMETRY KeySymmetry
CHECK_DEADLOCK FALSE
INVARIANTS
  RecordsAreListed
