------------------------------- MODULE MCGom --------------------------------
(***************************************************************************)
(* Instances of Gom for TLC: families with a husband and children,         *)
(* individuals with a family link and, in the runs with associations, an   *)
(* association.                                                            *)
(***************************************************************************)
EXTENDS Gom, TLC

CONSTANTS k1, k2, k3, FAM, INDI

MCKeys2 == {k1, k2}
MCKeys3 == {k1, k2, k3}
MCRefType == {FAM, INDI}

MCField == {"HUSB", "CHIL", "FAMC"}
MCFieldAll == {"HUSB", "FAMC", "ASSO"}
MCOwnerType == [f \in Field |-> IF f \in {"FAMC", "ASSO"} THEN INDI ELSE FAM]
MCLinkType == [f \in Field |-> CASE f = "FAMC" -> FAM
                                 [] f = "ASSO" -> ANY
                                 [] OTHER -> INDI]
MCKind == [f \in Field |-> CASE f = "HUSB" -> "single"
                             [] f \in {"FAMC", "ASSO"} -> "sub"
                             [] OTHER -> "list"]

MCNoMishap == {}

\* Keys are only compared with each other.
KeySymmetry == Permutations(Key)
=============================================================================
