----------------------------- MODULE Callbacks -----------------------------
(***************************************************************************)
(* The callbacks of the parser and their contexts: start_record,           *)
(* start_element and the end callbacks (gedcom/interface.c), the stack of  *)
(* contexts that PARENT reads (ctxt_stack in gedcom/gedcom.y), and the     *)
(* chain of contexts that the object model keeps until a record ends       *)
(* (gom/gom_internal.c), over the sections that the parser opens and       *)
(* closes.                                                                 *)
(*                                                                         *)
(* A section without a callback has the context of its parent.  A context  *)
(* is represented by the place in the parser's stack of the section that   *)
(* it was made for, as long as that section is open.                       *)
(***************************************************************************)
EXTENDS Parser

VARIABLES
  ctxt_stack,  \* by count_level; what is above count_level is never read
  selves       \* $<ctxt>$ of the open sections, by their place in the stack

callbackVars == <<ctxt_stack, selves>>

Null == 0
Left == -1   \* the section is over or was given up, its record goes on
Freed == -2
Context == {Null, Left, Freed} \cup (1 .. MaxLevel + 3)

CInit ==
  /\ Init
  /\ ctxt_stack = [n \in 0 .. MaxLevel + 2 |-> Null]
  /\ selves = <<>>

\* What becomes of a context in a step in which a section starts or ends.
After(ctxt) ==
  CASE ctxt > 0 -> IF ctxt \in DOMAIN stack' /\ stack'[ctxt] \in Counted THEN ctxt ELSE Left
    [] OTHER -> ctxt
\* def_rec_end frees every context in the chain.
AfterRecord(ctxt) == IF ctxt = Null THEN Null ELSE Freed

Stacks(cs, ss) ==
  /\ ctxt_stack' = [n \in DOMAIN ctxt_stack |-> IF n > count_level' THEN Null ELSE cs[n]]
  /\ selves' = [i \in DOMAIN stack' |-> IF i \in DOMAIN ss /\ stack'[i] \in Counted THEN ss[i] ELSE Null]

NoCallback ==
  Stacks([n \in DOMAIN ctxt_stack |-> After(ctxt_stack[n])], [i \in DOMAIN selves |-> After(selves[i])])

\* PARENT
get_parentctxt(count) == ctxt_stack[count]

\* The section on top of the stack is a record.
IsRecord == Below \in {"empty", "records"}

\* start_record and start_element: the context of what they start.
\* (Variant: a section without a callback hides the context of its parent.)
WithoutCallback == Null
Inherited == IF IsRecord THEN Null ELSE get_parentctxt(count_level)
SelfOf(isSubscribed) == IF isSubscribed THEN Len(stack) ELSE Inherited

\* ... which START stores.
Start(isSubscribed) ==
  LET self == SelfOf(isSubscribed)
  IN /\ StartSection
     /\ Stacks([ctxt_stack EXCEPT ![count_level + 1] = self], [selves EXCEPT ![Len(stack)] = self])

\* end_element, and end_record with the object model's end callback.  An error
\* that ends the parse may come before the callback (a mandatory tag is
\* missing, CHECKn) or after it (one section too many, OCCUR2; records are not
\* counted).
Ends == CloseSection \/ CloseSectionWithError
end_element == Ends /\ ~IsRecord /\ NoCallback
end_record ==
  /\ Ends /\ IsRecord /\ parsing'
  /\ Stacks([n \in DOMAIN ctxt_stack |-> AfterRecord(ctxt_stack[n])], <<>>)
CloseInVain == CloseSectionWithError /\ ~parsing' /\ NoCallback

CStep ==
  \/ \E isSubscribed \in BOOLEAN : Start(isSubscribed)
  \/ end_element
  \/ end_record
  \/ CloseInVain
  \/ QuietStep /\ NoCallback

cvars == <<parserVars, callbackVars>>
CNext ==
  \/ CStep
  \/ \E mechanism \in Modes : SetErrorHandling(mechanism) /\ NoCallback
  \/ ParseFile /\ NoCallback
  \/ Restart /\ ctxt_stack' = [n \in DOMAIN ctxt_stack |-> Null] /\ selves' = <<>>
CSpec == CInit /\ [][CNext]_cvars /\ WF_cvars(CStep)

-----------------------------------------------------------------------------
\* The most specific open section with a callback that holds the one on top of
\* the stack.
Holder == Max({Null} \cup {i \in 1 .. Len(stack) - 1 : stack[i] \in Counted /\ selves[i] = i})

\* What a callback gets, own being the section that it ends: while the sections
\* that are counted are those that are open, the context of the nearest one
\* around it that has one.  After a recovery that gave up sections which are
\* still counted it may be the context of a section of the same record that is
\* over, or of the one that ends; but of no other open section, and of none of
\* a record that has ended.
Fits(ctxt, own) ==
  /\ ctxt \in {Holder, Left} \cup own
  /\ count_level = Started(stack) => ctxt = Holder

\* Every callback in a record gets a parent context that fits, whatever the
\* file holds and whichever errors were passed over before (PARENT,
\* gedcom.y): in particular none that the object model has freed at the end
\* of a record (def_rec_end, gom_internal.c).
ContextsFit ==
  [][/\ StartSection /\ ~IsRecord => Fits(get_parentctxt(count_level), {})
     /\ end_element => Fits(get_parentctxt(Pop), {Len(stack)})]_cvars
=============================================================================
