-------------------------------- MODULE List --------------------------------
(***************************************************************************)
(* What a linked list of the object model promises to its user: the list   *)
(* functions of gom (gom_add_xref, gom_remove_xref, gom_move_xref and the  *)
(* gom_add_XXX, gom_remove_XXX, gom_move_XXX families) read as operations  *)
(* on a sequence of distinct elements, in the order in which a walk along  *)
(* "next" meets them.  Module Chain implements it with pointers.           *)
(***************************************************************************)
EXTENDS Naturals, Sequences

Ext == INSTANCE SequencesExt

CONSTANT Elt

VARIABLE list

Elements == {list[i] : i \in 1..Len(list)}

\* The list with its entries i and j exchanged.
Swapped(i, j) == [list EXCEPT ![i] = list[j], ![j] = list[i]]

Init == list = <<>>

\* "adds the given cross-reference to the end of the data list"
Add(e) ==
  /\ e \notin Elements
  /\ list' = Append(list, e)

Remove(e) ==
  \E i \in 1..Len(list) : list[i] = e /\ list' = Ext!RemoveAt(list, i)

\* "If the cross-reference cannot be moved up (because the first in the list)
\* or down (because the last in the list)" the list stays as it is.
MoveUp(e) ==
  \E i \in 2..Len(list) : list[i] = e /\ list' = Swapped(i - 1, i)

MoveDown(e) ==
  \E i \in 1..(Len(list) - 1) : list[i] = e /\ list' = Swapped(i, i + 1)

Destroy == list' = <<>>

Next ==
  \/ \E e \in Elt : Add(e) \/ Remove(e) \/ MoveUp(e) \/ MoveDown(e)
  \/ Destroy

Spec == Init /\ [][Next]_list
=============================================================================
