------------------------------ MODULE MCChain -------------------------------
(* Instances of Chain for TLC. *)
EXTENDS Chain

CONSTANTS e1, e2, e3, e4, e5

MCElt == {e1, e2, e3, e4, e5}
MCAnyLength == 0..5
MCNotTwo == MCAnyLength \ {2}

=============================================================================
