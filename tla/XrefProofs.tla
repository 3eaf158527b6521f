----------------------------- MODULE XrefProofs -----------------------------
(***************************************************************************)
(* Proofs about the cross-reference table, for every set of keys and       *)
(* record types and every bound on the use counts.                         *)
(***************************************************************************)
EXTENDS Xref, TLAPS

USE RefTypeAssumption, XrefAssumption

-----------------------------------------------------------------------------
(* One node of the cross-reference table.                                  *)

LEMMA ClearNodeType == ClearNode \in Node
  BY DEF ClearNode, Node, NodeType

LEMMA NewNodeType ==
  ASSUME NEW t \in XrefType
  PROVE  /\ NewNode(t) \in Node
         /\ NewNode(t).type = t
         /\ NewNode(t).defined_type = NONE
         /\ NewNode(t).used_type = NONE
         /\ NewNode(t).use_count = 0
  BY DEF NewNode, ClearNode, Node, NodeType

LEMMA AnyFieldsType ==
  ASSUME NEW n \in Node, NEW ctxt \in {"DEFINED", "USED"}, NEW t \in NodeType
  PROVE  SetXrefFields(n, ctxt, t) \in Node
<1>1. Define(n, t) \in Node
  BY DEF Define, Node, NodeType
<1>2. Use(n, t) \in Node
  <2>1. /\ n.use_count + 1 \in Int
        /\ (IF n.used_type = NONE THEN t ELSE n.used_type) \in NodeType
    BY DEF Node, NodeType
  <2>2. QED
    BY <2>1 DEF Use, Node
<1>3. QED
  BY <1>1, <1>2 DEF SetXrefFields

LEMMA SetXrefFieldsType ==
  ASSUME NEW n \in Node, NEW ctxt \in {"DEFINED", "USED"}, NEW t \in XrefType
  PROVE  SetXrefFields(n, ctxt, t) \in Node
<1>1. t \in NodeType
  BY DEF NodeType
<1>2. QED
  BY <1>1, AnyFieldsType

LEMMA UnlinkType ==
  ASSUME NEW n \in Node
  PROVE  Unlink(n) \in Node
  BY DEF Unlink, Node

\* What set_xref_fields does to each field of the node.
LEMMA SetXrefFieldsEffect ==
  ASSUME NEW n \in Node, NEW ctxt \in {"DEFINED", "USED"}, NEW t \in XrefType,
         NEW m, m = SetXrefFields(n, ctxt, t)
  PROVE  /\ m.type = n.type
         /\ m.defined_type =
              IF Accepts(n, t) /\ ctxt = "DEFINED" /\ n.defined_type = NONE
              THEN t ELSE n.defined_type
         /\ m.used_type =
              IF Accepts(n, t) /\ ctxt = "USED" /\ n.used_type = NONE
              THEN t ELSE n.used_type
         /\ m.use_count =
              IF Accepts(n, t) /\ ctxt = "USED" THEN n.use_count + 1
                                                ELSE n.use_count
  BY DEF SetXrefFields, Define, Use, Node

-----------------------------------------------------------------------------
(* Type correctness.                                                       *)

\* Every reachable state of the table is well-typed.
THEOREM TypeCorrect == Spec => []TypeOK
<1>1. Init => TypeOK
  BY ClearNodeType DEF Init, TypeOK
<1>2. TypeOK /\ [Next]_vars => TypeOK'
  <2> SUFFICES ASSUME TypeOK, [Next]_vars
               PROVE  TypeOK'
    OBVIOUS
  <2> USE DEF TypeOK
  <2>1. CASE StartParse
    BY <2>1, ClearNodeType DEF StartParse, MakeXrefTable
  <2>2. ASSUME NEW k \in Key, NEW ctxt \in {"DEFINED", "USED"},
               NEW t \in XrefType, ParseXref(k, ctxt, t)
        PROVE  TypeOK'
    <3>1. FindOrAdd(k, t) \in Node
      BY NewNodeType DEF FindOrAdd
    <3>2. SetXrefFields(FindOrAdd(k, t), ctxt, t) \in Node
      BY <3>1, SetXrefFieldsType
    <3>3. QED
      BY <2>2, <3>2 DEF ParseXref, checkVars
  <2>3. CASE EndParse
    BY <2>3 DEF EndParse, tableVars, fileVars
  <2>4. CASE AbortParse
    BY <2>4 DEF AbortParse, tableVars, checkVars, fileVars
  <2>5. ASSUME NEW k \in Key, NEW t \in XrefType, AddXref(t, k)
        PROVE  TypeOK'
    <3>1. SetXrefFields(NewNode(t), "DEFINED", t) \in Node
      BY NewNodeType, SetXrefFieldsType
    <3>2. QED
      BY <2>5, <3>1 DEF AddXref, Refuse, tableVars, checkVars, fileVars
  <2>6. ASSUME NEW k \in Key, NEW t \in XrefType, LinkXref(t, k)
        PROVE  TypeOK'
    <3>1. SetXrefFields(node[k], "USED", t) \in Node
      BY SetXrefFieldsType
    <3>2. QED
      BY <2>6, <3>1 DEF LinkXref, Update, Refuse, tableVars, checkVars, fileVars
  <2>7. ASSUME NEW k \in Key, NEW t \in XrefType, UnlinkXref(t, k)
        PROVE  TypeOK'
    BY <2>7, UnlinkType
       DEF UnlinkXref, Update, Refuse, tableVars, checkVars, fileVars
  <2>8. ASSUME NEW k \in Key, DeleteXref(k)
        PROVE  TypeOK'
    BY <2>8, ClearNodeType DEF DeleteXref, Refuse, tableVars, checkVars, fileVars
  <2>9. CASE UNCHANGED vars
    BY <2>9 DEF vars
  <2>10. QED
    BY <2>1, <2>2, <2>3, <2>4, <2>5, <2>6, <2>7, <2>8, <2>9 DEF Next
<1>3. QED
  BY <1>1, <1>2, PTL DEF Spec

-----------------------------------------------------------------------------
(* Agreement of the types in one node.  The three properties of the table  *)
(* are not inductive: a definition that finds neither a definition nor a   *)
(* use could take any type, so a node must always hold one of them.        *)

NodeInv(n) ==
  /\ n.defined_type # NONE \/ n.used_type # NONE
  /\ n.defined_type # NONE /\ n.used_type # NONE /\ n.defined_type # ANY
       => n.used_type = n.defined_type
  /\ IF n.defined_type # NONE THEN n.type = n.defined_type
                              ELSE n.type = n.used_type
  /\ n.use_count > 0 => n.used_type # NONE

TableInv == \A k \in keys : NodeInv(node[k])

\* The first mention of a key is never refused.
LEMMA FirstMention ==
  ASSUME NEW ctxt \in {"DEFINED", "USED"}, NEW t \in XrefType
  PROVE  NodeInv(SetXrefFields(NewNode(t), ctxt, t))
<1> DEFINE m == SetXrefFields(NewNode(t), ctxt, t)
<1>1. Accepts(NewNode(t), t)
  BY NewNodeType DEF Accepts, DefinedOtherwise, UsedOtherwise
<1>2. /\ m.type = t
      /\ m.defined_type = IF ctxt = "DEFINED" THEN t ELSE NONE
      /\ m.used_type = IF ctxt = "USED" THEN t ELSE NONE
      /\ m.use_count = IF ctxt = "USED" THEN 1 ELSE 0
  BY <1>1, NewNodeType, SetXrefFieldsEffect
<1>3. t # NONE
  BY DEF XrefType
<1>4. QED
  BY <1>2, <1>3 DEF NodeInv

\* A later mention, refused or not, keeps the types in agreement.
LEMMA LaterMention ==
  ASSUME NEW n \in Node, NodeInv(n),
         NEW ctxt \in {"DEFINED", "USED"}, NEW t \in XrefType
  PROVE  NodeInv(SetXrefFields(n, ctxt, t))
<1> DEFINE m == SetXrefFields(n, ctxt, t)
<1>1. CASE ~Accepts(n, t)
  BY <1>1 DEF SetXrefFields
<1>2. CASE Accepts(n, t)
  <2>1. /\ n.defined_type \in {NONE, ANY, t}
        /\ n.used_type \in {NONE, t}
    BY <1>2 DEF Accepts, DefinedOtherwise, UsedOtherwise
  <2>2. t # NONE
    BY DEF XrefType
  <2>3. n.use_count \in Int
    BY DEF Node
  <2>4. CASE ctxt = "DEFINED"
    <3>1. /\ m.type = n.type
          /\ m.defined_type = IF n.defined_type = NONE THEN t
                                                       ELSE n.defined_type
          /\ m.used_type = n.used_type
          /\ m.use_count = n.use_count
      BY <1>2, <2>4, SetXrefFieldsEffect
    <3>2. QED
      BY <2>1, <2>2, <3>1 DEF NodeInv
  <2>5. CASE ctxt = "USED"
    <3>1. /\ m.type = n.type
          /\ m.defined_type = n.defined_type
          /\ m.used_type = IF n.used_type = NONE THEN t ELSE n.used_type
      BY <1>2, <2>5, SetXrefFieldsEffect
    <3>2. QED
      BY <2>1, <2>2, <3>1 DEF NodeInv
  <2>6. QED
    BY <2>4, <2>5
<1>3. QED
  BY <1>1, <1>2

LEMMA UnlinkKeepsNodeInv ==
  ASSUME NEW n \in Node, NodeInv(n)
  PROVE  NodeInv(Unlink(n))
<1>1. /\ Unlink(n).type = n.type
      /\ Unlink(n).defined_type = n.defined_type
      /\ Unlink(n).used_type = n.used_type
      /\ Unlink(n).use_count = n.use_count - 1
      /\ n.use_count \in Int
  BY DEF Unlink, Node
<1>2. QED
  BY <1>1 DEF NodeInv

\* Replacing one node by another one in agreement keeps the table so.
LEMMA OneNodeChanges ==
  ASSUME TypeOK, TableInv, NEW k \in Key, NEW n, NodeInv(n),
         keys' \subseteq keys \cup {k}, node' = [node EXCEPT ![k] = n]
  PROVE  TableInv'
  BY DEF TypeOK, TableInv

LEMMA TableInvariant == Spec => []TableInv
<1>1. Init => TableInv
  BY DEF Init, TableInv
<1>2. TypeOK /\ TableInv /\ [Next]_vars => TableInv'
  <2> SUFFICES ASSUME TypeOK, TableInv, [Next]_vars
               PROVE  TableInv'
    OBVIOUS
  <2>1. CASE StartParse
    BY <2>1 DEF StartParse, MakeXrefTable, TableInv
  <2>2. ASSUME NEW k \in Key, NEW ctxt \in {"DEFINED", "USED"},
               NEW t \in XrefType, ParseXref(k, ctxt, t)
        PROVE  TableInv'
    <3> DEFINE n == SetXrefFields(FindOrAdd(k, t), ctxt, t)
    <3>1. NodeInv(n)
      <4>1. CASE k \in keys
        BY <4>1, LaterMention DEF FindOrAdd, TypeOK, TableInv
      <4>2. CASE k \notin keys
        BY <4>2, FirstMention DEF FindOrAdd
      <4>3. QED
        BY <4>1, <4>2
    <3>2. keys' \subseteq keys \cup {k} /\ node' = [node EXCEPT ![k] = n]
      BY <2>2 DEF ParseXref
    <3>3. QED
      BY <3>1, <3>2, OneNodeChanges
  <2>3. CASE EndParse \/ AbortParse
    BY <2>3 DEF EndParse, AbortParse, tableVars, TableInv
  <2>4. ASSUME NEW k \in Key, NEW t \in XrefType, AddXref(t, k)
        PROVE  TableInv'
    <3>1. CASE k \in keys
      BY <2>4, <3>1 DEF AddXref, Refuse, tableVars, TableInv
    <3>2. CASE k \notin keys
      <4>1. /\ keys' \subseteq keys \cup {k}
            /\ node' = [node EXCEPT
                          ![k] = SetXrefFields(NewNode(t), "DEFINED", t)]
        BY <2>4, <3>2 DEF AddXref
      <4>2. QED
        BY <4>1, FirstMention, OneNodeChanges
    <3>3. QED
      BY <3>1, <3>2
  <2>5. ASSUME NEW k \in Key, NEW t \in XrefType, LinkXref(t, k)
        PROVE  TableInv'
    <3>1. CASE k \in keys /\ Accepts(node[k], t)
      <4>1. NodeInv(SetXrefFields(node[k], "USED", t))
        BY <3>1, LaterMention DEF TypeOK, TableInv
      <4>2. /\ keys' \subseteq keys \cup {k}
            /\ node' = [node EXCEPT ![k] = SetXrefFields(node[k], "USED", t)]
        BY <2>5, <3>1 DEF LinkXref, Update
      <4>3. QED
        BY <4>1, <4>2, OneNodeChanges
    <3>2. CASE ~(k \in keys /\ Accepts(node[k], t))
      BY <2>5, <3>2 DEF LinkXref, Refuse, tableVars, TableInv
    <3>3. QED
      BY <3>1, <3>2
  <2>6. ASSUME NEW k \in Key, NEW t \in XrefType, UnlinkXref(t, k)
        PROVE  TableInv'
    <3>1. CASE k \in keys /\ Unlinkable(node[k], t)
      <4>1. NodeInv(Unlink(node[k]))
        BY <3>1, UnlinkKeepsNodeInv DEF TypeOK, TableInv
      <4>2. keys' \subseteq keys \cup {k}
            /\ node' = [node EXCEPT ![k] = Unlink(node[k])]
        BY <2>6, <3>1 DEF UnlinkXref, Update
      <4>3. QED
        BY <4>1, <4>2, OneNodeChanges
    <3>2. CASE ~(k \in keys /\ Unlinkable(node[k], t))
      BY <2>6, <3>2 DEF UnlinkXref, Refuse, tableVars, TableInv
    <3>3. QED
      BY <3>1, <3>2
  <2>7. ASSUME NEW k \in Key, DeleteXref(k)
        PROVE  TableInv'
    BY <2>7 DEF DeleteXref, Refuse, tableVars, TableInv, TypeOK
  <2>8. CASE UNCHANGED vars
    BY <2>8 DEF vars, TableInv
  <2>9. QED
    BY <2>1, <2>2, <2>3, <2>4, <2>5, <2>6, <2>7, <2>8 DEF Next
<1>3. QED
  BY <1>1, <1>2, TypeCorrect, PTL DEF Spec

\* The definition and the accepted uses of a key never disagree.
THEOREM TypesAgreeAlways == Spec => []TypesAgree
<1>1. TableInv => TypesAgree
  BY DEF TableInv, NodeInv, TypesAgree
<1>2. QED
  BY <1>1, TableInvariant, PTL

\* The public type of a cross-reference is the type it is defined with, or
\* else used with.
THEOREM PublicTypeIsTrueAlways == Spec => []PublicTypeIsTrue
<1>1. TableInv => PublicTypeIsTrue
  BY DEF TableInv, NodeInv, PublicTypeIsTrue
<1>2. QED
  BY <1>1, TableInvariant, PTL

\* A positive use count comes with a recorded use.
THEOREM CountedIsUsedAlways == Spec => []CountedIsUsed
<1>1. TableInv => CountedIsUsed
  BY DEF TableInv, NodeInv, CountedIsUsed
<1>2. QED
  BY <1>1, TableInvariant, PTL

-----------------------------------------------------------------------------
(* What check_xref_table reports.  During the parse the table remembers    *)
(* just enough of the file: a recorded type is one the file mentioned, and *)
(* a key without a definition has not been defined as what it is used as.  *)

Remembers(k) ==
  /\ k \notin keys => defs[k] = {} /\ uses[k] = {}
  /\ k \in keys =>
       /\ node[k].defined_type \in defs[k] \cup {NONE}
       /\ node[k].used_type \in uses[k] \cup {NONE}
       /\ node[k].defined_type = NONE => node[k].used_type \notin defs[k]

FileInv == phase = "parsing" => \A k \in Key : Remembers(k)

LEMMA MentionIsRemembered ==
  ASSUME TypeOK, TableInv, FileInv,
         NEW k \in Key, NEW ctxt \in {"DEFINED", "USED"}, NEW t \in XrefType,
         ParseXref(k, ctxt, t)
  PROVE  FileInv'
<1> DEFINE n == FindOrAdd(k, t)
           m == SetXrefFields(n, ctxt, t)
<1>1. ASSUME NEW j \in Key, j # k
      PROVE  Remembers(j)'
  <2>1. /\ j \in keys' <=> j \in keys
        /\ node'[j] = node[j]
        /\ defs'[j] = defs[j]
        /\ uses'[j] = uses[j]
    BY <1>1 DEF ParseXref, TypeOK
  <2>2. Remembers(j)
    BY DEF FileInv, ParseXref
  <2>3. QED
    BY <2>1, <2>2 DEF Remembers
<1>2. Remembers(k)'
  <2>1. Remembers(k)
    BY DEF FileInv, ParseXref
  <2>2. t # NONE
    BY DEF XrefType
  <2>3. /\ n \in Node
        /\ n.defined_type \in defs[k] \cup {NONE}
        /\ n.used_type \in uses[k] \cup {NONE}
        /\ n.defined_type = NONE => n.used_type \notin defs[k] \/ n.used_type = NONE
    BY <2>1, NewNodeType DEF Remembers, FindOrAdd, TypeOK
  <2>4. n.defined_type = NONE /\ n.used_type = NONE => defs[k] = {}
    BY <2>1 DEF Remembers, FindOrAdd, TableInv, NodeInv
  <2>5. /\ keys' = keys \cup {k}
        /\ node'[k] = m
        /\ defs'[k] = IF ctxt = "DEFINED" THEN defs[k] \cup {t} ELSE defs[k]
        /\ uses'[k] = IF ctxt = "USED" THEN uses[k] \cup {t} ELSE uses[k]
    BY DEF ParseXref, TypeOK
  <2>6. /\ m.defined_type =
             IF Accepts(n, t) /\ ctxt = "DEFINED" /\ n.defined_type = NONE
             THEN t ELSE n.defined_type
        /\ m.used_type =
             IF Accepts(n, t) /\ ctxt = "USED" /\ n.used_type = NONE
             THEN t ELSE n.used_type
    BY <2>3, SetXrefFieldsEffect
  <2>7. m.defined_type = NONE => m.used_type \notin defs'[k]
    <3> SUFFICES ASSUME m.defined_type = NONE
                 PROVE  m.used_type \notin defs'[k]
      OBVIOUS
    <3>1. n.defined_type = NONE /\ ~(Accepts(n, t) /\ ctxt = "DEFINED")
      BY <2>2, <2>6
    <3>2. CASE ctxt = "DEFINED"
      <4>1. n.used_type # NONE /\ n.used_type # t
        BY <3>1, <3>2 DEF Accepts, DefinedOtherwise, UsedOtherwise
      <4>2. QED
        BY <2>3, <2>5, <2>6, <3>1, <3>2, <4>1
    <3>3. CASE ctxt = "USED"
      <4>1. CASE n.used_type = NONE
        BY <2>4, <2>5, <3>1, <3>3, <4>1
      <4>2. CASE n.used_type # NONE
        BY <2>3, <2>5, <2>6, <3>1, <3>3, <4>2
      <4>3. QED
        BY <4>1, <4>2
    <3>4. QED
      BY <3>2, <3>3
  <2>8. QED
    BY <2>3, <2>5, <2>6, <2>7 DEF Remembers
<1>3. QED
  BY <1>1, <1>2 DEF FileInv

\* Between two parses, no step touches what the properties of the report are
\* stated about.
LEMMA ReportStays ==
  ASSUME Next, phase' # "parsing", phase # "parsing"
  PROVE  UNCHANGED <<phase, errors, warnings, defs, uses>>
  BY DEF Next, StartParse, ParseXref, EndParse, AbortParse, AddXref, LinkXref,
         UnlinkXref, DeleteXref, checkVars, fileVars

\* The steps that leave the parsing phase leave it alone.
LEMMA FileInvariant == Spec => []FileInv
<1>1. Init => FileInv
  BY DEF Init, FileInv
<1>2. TypeOK /\ TableInv /\ FileInv /\ [Next]_vars => FileInv'
  <2> SUFFICES ASSUME TypeOK, TableInv, FileInv, [Next]_vars
               PROVE  FileInv'
    OBVIOUS
  <2>1. CASE StartParse
    BY <2>1 DEF StartParse, MakeXrefTable, FileInv, Remembers
  <2>2. ASSUME NEW k \in Key, NEW ctxt \in {"DEFINED", "USED"},
               NEW t \in XrefType, ParseXref(k, ctxt, t)
        PROVE  FileInv'
    BY <2>2, MentionIsRemembered
  <2>3. CASE phase' # "parsing"
    BY <2>3 DEF FileInv
  <2>4. CASE UNCHANGED vars
    BY <2>4 DEF vars, FileInv, Remembers
  <2>5. CASE Next /\ phase' = "parsing"
    BY <2>1, <2>2, <2>5 DEF Next, EndParse, AbortParse, AddXref, LinkXref,
       UnlinkXref, DeleteXref, Callable
  <2>6. QED
    BY <2>3, <2>4, <2>5
<1>3. QED
  BY <1>1, <1>2, TypeCorrect, TableInvariant, PTL DEF Spec

\* A step into the phase "checked" is check_xref_table or changes no report.
LEMMA CheckedStep ==
  ASSUME Next, phase' = "checked"
  PROVE  EndParse \/ UNCHANGED <<phase, errors, warnings, defs, uses>>
  BY ReportStays DEF Next, StartParse, ParseXref, AbortParse, AddXref, LinkXref,
     UnlinkXref, DeleteXref, Callable, checkVars, fileVars

\* Every key that the file uses and nowhere defines is reported, whatever the
\* order of its mentions.
THEOREM UndefinedIsReportedAlways == Spec => []UndefinedIsReported
<1>1. Init => UndefinedIsReported
  BY DEF Init, UndefinedIsReported
<1>2. TypeOK /\ TableInv /\ FileInv /\ UndefinedIsReported /\ [Next]_vars
        => UndefinedIsReported'
  <2> SUFFICES ASSUME TypeOK, TableInv, FileInv, UndefinedIsReported,
                      [Next]_vars, phase' = "checked"
               PROVE  UndefinedIsReported'
    BY DEF UndefinedIsReported
  <2>1. CASE EndParse
    BY <2>1 DEF EndParse, fileVars, tableVars, UndefinedIsReported, FileInv,
       Remembers, TableInv, NodeInv, UsedNotDefined
  <2>2. CASE UNCHANGED <<phase, errors, warnings, defs, uses>>
    BY <2>2 DEF UndefinedIsReported
  <2>3. QED
    BY <2>1, <2>2, CheckedStep DEF vars
<1>3. QED
  BY <1>1, <1>2, TypeCorrect, TableInvariant, FileInvariant, PTL DEF Spec

\* Every key that the file defines and nowhere uses is reported.
THEOREM UnusedIsReportedAlways == Spec => []UnusedIsReported
<1>1. Init => UnusedIsReported
  BY DEF Init, UnusedIsReported
<1>2. TypeOK /\ TableInv /\ FileInv /\ UnusedIsReported /\ [Next]_vars
        => UnusedIsReported'
  <2> SUFFICES ASSUME TypeOK, TableInv, FileInv, UnusedIsReported,
                      [Next]_vars, phase' = "checked"
               PROVE  UnusedIsReported'
    BY DEF UnusedIsReported
  <2>1. CASE EndParse
    BY <2>1 DEF EndParse, fileVars, tableVars, UnusedIsReported, FileInv,
       Remembers, TableInv, NodeInv, DefinedNotUsed
  <2>2. CASE UNCHANGED <<phase, errors, warnings, defs, uses>>
    BY <2>2 DEF UnusedIsReported
  <2>3. QED
    BY <2>1, <2>2, CheckedStep DEF vars
<1>3. QED
  BY <1>1, <1>2, TypeCorrect, TableInvariant, FileInvariant, PTL DEF Spec

\* A key that is reported as undefined, and that no association refers to, has a
\* use that no definition of the file satisfies.
THEOREM NoFalseAlarmOfKnownTypesAlways ==
  Spec => []NoFalseAlarmOfKnownTypes
<1>1. Init => NoFalseAlarmOfKnownTypes
  BY DEF Init, NoFalseAlarmOfKnownTypes
<1>2. TypeOK /\ TableInv /\ FileInv /\ NoFalseAlarmOfKnownTypes /\ [Next]_vars
        => NoFalseAlarmOfKnownTypes'
  <2> SUFFICES ASSUME TypeOK, TableInv, FileInv, NoFalseAlarmOfKnownTypes,
                      [Next]_vars, phase' = "checked"
               PROVE  NoFalseAlarmOfKnownTypes'
    BY DEF NoFalseAlarmOfKnownTypes
  <2>1. CASE EndParse
    <3> SUFFICES ASSUME NEW k \in keys, UsedNotDefined(node[k]),
                        ANY \notin uses[k]
                 PROVE  \E u \in uses[k] : u \notin defs[k] /\ u # ANY
      BY <2>1 DEF EndParse, fileVars, tableVars, NoFalseAlarmOfKnownTypes,
         Unsatisfied
    <3>1. k \in Key
      BY DEF TypeOK
    <3>2. QED
      BY <2>1, <3>1 DEF EndParse, FileInv, Remembers, UsedNotDefined
  <2>2. CASE UNCHANGED <<phase, errors, warnings, defs, uses>>
    BY <2>2 DEF NoFalseAlarmOfKnownTypes, Unsatisfied
  <2>3. QED
    BY <2>1, <2>2, CheckedStep DEF vars
<1>3. QED
  BY <1>1, <1>2, TypeCorrect, TableInvariant, FileInvariant, PTL DEF Spec

\* Together: the fields of a node fit together ...
THEOREM NodesAreConsistentAlways == Spec => []NodesAreConsistent
BY TypesAgreeAlways, PublicTypeIsTrueAlways, CountedIsUsedAlways, PTL DEF NodesAreConsistent

\* ... and the report on a file is right.
THEOREM ReportsAreRightAlways == Spec => []ReportsAreRight
BY UndefinedIsReportedAlways, UnusedIsReportedAlways, NoFalseAlarmOfKnownTypesAlways, PTL
   DEF ReportsAreRight
=============================================================================
