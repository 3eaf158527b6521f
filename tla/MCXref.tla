------------------------------- MODULE MCXref -------------------------------
(* Instances of Xref for TLC: two keys, two record types. *)
EXTENDS Xref, TLC

CONSTANTS k1, k2, FAM, INDI

MCKey == {k1, k2}
MCRefType == {FAM, INDI}
MCOpenTypes == MCRefType \cup {ANY}  \* files with ASSO pointers

\* Keys are only compared with each other.
KeySymmetry == Permutations(MCKey)

=============================================================================
