SPECIFICATION Spec
CONSTANTS
  k1 = k1
  k2 = k2
  k3 = k3
  FAM = FAM
  INDI = INDI
  NONE = NONE
  ANY = ANY
  NULL = NULL
  RefType <- MCRefType
  Key <- MCKeys3
  Field <- MCField
  OwnerType <- MCOwnerType
  LinkType <- MCLinkType
  Kind <- MCKind
  Mishap <- MCNoMishap
  MaxUse = 10
SYMMETRY KeySymmetry
INVARIANTS
  TypeOK
  UsesAreCounted
  ReferencesAreSound
PROPERTIES
  IsARecordStore
