------------------------------ MODULE XrefNode ------------------------------
(***************************************************************************)
(* One node of the cross-reference table of gedcom/xref.c: the record      *)
(* struct xref_node and the pure part of the functions that read and write *)
(* it.  The line numbers a node remembers only feed message texts and the  *)
(* string only repeats the key, so neither is part of the model; the       *)
(* object pointer is in module Gom.                                        *)
(***************************************************************************)
EXTENDS Integers

CONSTANTS
  RefType,   \* the record types a cross-reference can point to (XREF_FAM ...)
  NONE,      \* XREF_NONE
  ANY        \* XREF_ANY, "if the type is not known"

ASSUME RefTypeAssumption ==
  /\ NONE \notin RefType
  /\ ANY \notin RefType
  /\ NONE # ANY

\* A type that a caller can name, and a type that a node can hold.
XrefType == RefType \cup {ANY}
NodeType == XrefType \cup {NONE}

Node == [type         : NodeType,   \* the public xref_value.type
         defined_type : NodeType,
         used_type    : NodeType,
         use_count    : Int]

\* Mutation: a field that clear_xref_node forgets keeps what malloc returned.
ClearNodeForgetful == [type |-> NONE, defined_type |-> "garbage",
                       used_type |-> NONE, use_count |-> 0]

\* clear_xref_node
ClearNode == [type |-> NONE, defined_type |-> NONE, used_type |-> NONE,
              use_count |-> 0]

\* Mutation: the type of the first mention is not noted.
NewNodeUntyped(t) == ClearNode

\* add_xref: a new node carries the type of the first mention of its key.
NewNode(t) == [ClearNode EXCEPT !.type = t]

\* The two conflicts that set_xref_fields reports.
DefinedOtherwise(n, t) == n.defined_type \notin {NONE, ANY, t}
UsedOtherwise(n, t)    == n.used_type \notin {NONE, t}

\* Mutation: set_xref_fields forgets the second conflict.
AcceptsIgnoringUses(n, t) == ~DefinedOtherwise(n, t)

\* set_xref_fields returns 0.
Accepts(n, t) == ~DefinedOtherwise(n, t) /\ ~UsedOtherwise(n, t)

Define(n, t) ==
  [n EXCEPT !.defined_type = IF @ = NONE THEN t ELSE @]

Use(n, t) ==
  [n EXCEPT !.use_count = @ + 1,
            !.used_type = IF @ = NONE THEN t ELSE @]

\* The node that set_xref_fields leaves behind.
SetXrefFields(n, ctxt, t) ==
  IF Accepts(n, t)
  THEN IF ctxt = "DEFINED" THEN Define(n, t) ELSE Use(n, t)
  ELSE n

\* The condition under which gedcom_unlink_xref lowers the use count.
Unlinkable(n, t) == n.defined_type \in {t, ANY}

Unlink(n) == [n EXCEPT !.use_count = @ - 1]

\* What check_xref_table reports of a node.
UsedNotDefined(n) == n.defined_type = NONE /\ n.used_type # NONE
DefinedNotUsed(n) == n.used_type = NONE /\ n.defined_type # NONE
=============================================================================
