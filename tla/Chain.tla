------------------------------- MODULE Chain --------------------------------
(***************************************************************************)
(* The doubly linked list of gom/func_template.h: the macros               *)
(* LINK_CHAIN_ELT, UNLINK_CHAIN_ELT, MOVE_CHAIN_ELT and DESTROY_CHAIN_ELTS *)
(* on one list, as the gom functions that add, remove and move its         *)
(* elements call them.  "next" of the last element is NULL; "previous" of  *)
(* the first element is the last one, which is how LINK finds the end.     *)
(***************************************************************************)
EXTENDS Naturals, Sequences, FiniteSets

CONSTANTS
  Elt,          \* the structs that can be allocated as elements of the list
  NULL,
  MoveLengths   \* lengths of the list at which its user moves an element

ASSUME ChainAssumption ==
  /\ IsFiniteSet(Elt)
  /\ NULL \notin Elt
  /\ MoveLengths \subseteq Nat

VARIABLES
  first,     \* the list head in the owner (FIRSTVAL)
  nxt,       \* next
  prv,       \* previous
  linked,    \* the allocated elements; the fields of the others are NULL
  outcome    \* of the last call: "ok", "warned" (gom_move_error) or
             \* "refused" (gom_find_error)

pointers == <<first, nxt, prv, linked>>
vars == <<first, nxt, prv, linked, outcome>>

Pointer == Elt \cup {NULL}

\* The variables have their types, and no call writes into a struct that is
\* not allocated.
TypeOK ==
  /\ first \in Pointer
  /\ nxt \in [Elt -> Pointer]
  /\ prv \in [Elt -> Pointer]
  /\ linked \in SUBSET Elt
  /\ outcome \in {"ok", "warned", "refused"}
  /\ \A e \in Elt \ linked : nxt[e] = NULL /\ prv[e] = NULL

Init ==
  /\ first = NULL
  /\ nxt = [e \in Elt |-> NULL]
  /\ prv = [e \in Elt |-> NULL]
  /\ linked = {}
  /\ outcome = "ok"

\* What a walk along next from the first element meets: it is in every set
\* that holds the first element and, with an element, the next one.
Found(e) ==
  /\ first # NULL
  /\ \A S \in SUBSET Elt :
       /\ first \in S
       /\ \A x \in S : nxt[x] # NULL => nxt[x] \in S
       => e \in S

-----------------------------------------------------------------------------
\* Mutation: the first element does not learn that the end has moved.
AppendPrevForgotten(e) == [prv EXCEPT ![e] = prv[first]]

\* The "previous" fields after LINK_CHAIN_ELT on a list that is not empty.
AppendPrev(e) == [prv EXCEPT ![e] = prv[first], ![first] = e]

\* MAKE_CHAIN_ELT with LINK_CHAIN_ELT
Link(e) ==
  /\ e \notin linked
  /\ linked' = linked \cup {e}
  /\ outcome' = "ok"
  /\ \/ /\ first = NULL
        /\ first' = e
        /\ nxt' = [nxt EXCEPT ![e] = NULL]
        /\ prv' = [prv EXCEPT ![e] = e]
     \/ /\ first # NULL
        /\ nxt' = [nxt EXCEPT ![e] = NULL, ![prv[first]] = e]
        /\ prv' = AppendPrev(e)
        /\ UNCHANGED first

FirstWithout(e) == IF e = first THEN nxt[e] ELSE first

NextWithout(e) ==
  LET passed == IF e = first THEN nxt ELSE [nxt EXCEPT ![prv[e]] = nxt[e]]
  IN  [passed EXCEPT ![e] = NULL]

\* Mutation: the removal of the last element is not told to the first one.
PrevWithoutTail(e) ==
  IF nxt[e] # NULL THEN [prv EXCEPT ![nxt[e]] = prv[e], ![e] = NULL]
                   ELSE [prv EXCEPT ![e] = NULL]

PrevWithout(e) ==
  LET after == IF nxt[e] # NULL THEN nxt[e] ELSE FirstWithout(e)
  IN  IF after # NULL THEN [prv EXCEPT ![after] = prv[e], ![e] = NULL]
                      ELSE [prv EXCEPT ![e] = NULL]

\* The search of SUB_FINDFUNC (find_xref) fails.
NotFound(e) ==
  /\ ~Found(e)
  /\ outcome' = "refused"
  /\ UNCHANGED pointers

\* SUB_REMOVEFUNC (gom_remove_xref): UNLINK_CHAIN_ELT, then free.
Unlink(e) ==
  \/ NotFound(e)
  \/ /\ Found(e)
     /\ first' = FirstWithout(e)
     /\ nxt' = NextWithout(e)
     /\ prv' = PrevWithout(e)
     /\ linked' = linked \ {e}
     /\ outcome' = "ok"

\* MOVE_CHAIN_ELT exchanges a and b, the element after it.
Exchange(a, b) ==
  LET head == IF a = first THEN b ELSE first
      after == IF nxt[b] # NULL THEN nxt[b] ELSE head
      before == IF a = first THEN nxt ELSE [nxt EXCEPT ![prv[a]] = b]
  IN  /\ first' = head
      /\ nxt' = [before EXCEPT ![a] = nxt[b], ![b] = a]
      /\ prv' = [prv EXCEPT ![after] = a, ![b] = prv[a], ![a] = b]
      /\ UNCHANGED linked

\* SUB_MOVEFUNC (gom_move_xref)
Move(up, e) ==
  LET a == IF up THEN prv[e] ELSE e
      b == IF up THEN e ELSE nxt[e]
  IN  /\ Cardinality(linked) \in MoveLengths
      /\ \/ NotFound(e)
         \/ /\ Found(e)
            /\ b \notin {NULL, first}
            /\ Exchange(a, b)
            /\ outcome' = "ok"
         \/ /\ Found(e)
            /\ b \in {NULL, first}
            /\ outcome' = "warned"
            /\ UNCHANGED pointers

\* DESTROY_CHAIN_ELTS, when the owner of the list is cleaned up.
Destroy ==
  LET freed == {e \in Elt : Found(e)}
  IN  /\ first' = NULL
      /\ nxt' = [e \in Elt |-> IF e \in freed THEN NULL ELSE nxt[e]]
      /\ prv' = [e \in Elt |-> IF e \in freed THEN NULL ELSE prv[e]]
      /\ linked' = linked \ freed
      /\ outcome' = "ok"

Next ==
  \/ \E e \in Elt : Link(e) \/ Unlink(e)
  \/ \E e \in Elt, up \in BOOLEAN : Move(up, e)
  \/ Destroy

Spec == Init /\ [][Next]_vars

-----------------------------------------------------------------------------
(* What the list promises.                                                 *)

\* The pointers are those of a list with the n entries s.
Represents(s, n) ==
  /\ linked = {s[i] : i \in 1..n}
  /\ \A i, j \in 1..n : s[i] = s[j] => i = j
  /\ first = IF n = 0 THEN NULL ELSE s[1]
  /\ \A i \in 1..n : nxt[s[i]] = IF i = n THEN NULL ELSE s[i + 1]
  /\ \A i \in 1..n : prv[s[i]] = IF i = 1 THEN s[n] ELSE s[i - 1]

\* "Doubly-linked list, but last rec->next is NULL": every allocated element
\* is in the list, once, and "previous" of the first one is the last one.
WellLinked ==
  \E n \in 0..Cardinality(Elt) : \E s \in [1..n -> Elt] : Represents(s, n)

\* The walk along next from e, cut off when it meets more than Elt holds.
WalkFrom(e) ==
  LET walk[n \in 0..Cardinality(Elt)] == [x \in Pointer |->
        IF x = NULL \/ n = 0 THEN <<>> ELSE <<x>> \o walk[n - 1][nxt[x]]]
  IN  walk[Cardinality(Elt)][e]

\* The list is a sequence to its user: every call adds at the end, removes one
\* element, exchanges two neighbours or changes nothing (gom_add_xref, "to the
\* end of the data list"; gom_move_xref).
Sequence == INSTANCE List WITH list <- WalkFrom(first)
IsASequence == Sequence!Spec
=============================================================================
