------------------------------ MODULE GomProofs -----------------------------
(***************************************************************************)
(* Proofs about the object model, for every set of keys, record types and  *)
(* fields, and for every choice of what may go wrong; each theorem names   *)
(* the mishaps under which it does not hold.                               *)
(***************************************************************************)
EXTENDS Gom, FiniteSetTheorems, TLAPS

USE RefTypeAssumption, GomAssumption

-----------------------------------------------------------------------------
(* One node of the cross-reference table.                                  *)

LEMMA ClearNodeType == ClearNode \in Node
  BY DEF ClearNode, Node, NodeType

LEMMA NewNodeType ==
  ASSUME NEW t \in XrefType
  PROVE  /\ NewNode(t) \in Node
         /\ NewNode(t).type = t
         /\ NewNode(t).defined_type = NONE
         /\ NewNode(t).used_type = NONE
         /\ NewNode(t).use_count = 0
  BY DEF NewNode, ClearNode, Node, NodeType

LEMMA AnyFieldsType ==
  ASSUME NEW n \in Node, NEW ctxt \in {"DEFINED", "USED"}, NEW t \in NodeType
  PROVE  SetXrefFields(n, ctxt, t) \in Node
<1>1. Define(n, t) \in Node
  BY DEF Define, Node, NodeType
<1>2. Use(n, t) \in Node
  <2>1. /\ n.use_count + 1 \in Int
        /\ (IF n.used_type = NONE THEN t ELSE n.used_type) \in NodeType
    BY DEF Node, NodeType
  <2>2. QED
    BY <2>1 DEF Use, Node
<1>3. QED
  BY <1>1, <1>2 DEF SetXrefFields

LEMMA SetXrefFieldsType ==
  ASSUME NEW n \in Node, NEW ctxt \in {"DEFINED", "USED"}, NEW t \in XrefType
  PROVE  SetXrefFields(n, ctxt, t) \in Node
<1>1. t \in NodeType
  BY DEF NodeType
<1>2. QED
  BY <1>1, AnyFieldsType

LEMMA UnlinkType ==
  ASSUME NEW n \in Node
  PROVE  Unlink(n) \in Node
  BY DEF Unlink, Node

\* What set_xref_fields does to each field of the node.
LEMMA SetXrefFieldsEffect ==
  ASSUME NEW n \in Node, NEW ctxt \in {"DEFINED", "USED"}, NEW t \in XrefType,
         NEW m, m = SetXrefFields(n, ctxt, t)
  PROVE  /\ m.type = n.type
         /\ m.defined_type =
              IF Accepts(n, t) /\ ctxt = "DEFINED" /\ n.defined_type = NONE
              THEN t ELSE n.defined_type
         /\ m.used_type =
              IF Accepts(n, t) /\ ctxt = "USED" /\ n.used_type = NONE
              THEN t ELSE n.used_type
         /\ m.use_count =
              IF Accepts(n, t) /\ ctxt = "USED" THEN n.use_count + 1
                                                ELSE n.use_count
  BY DEF SetXrefFields, Define, Use, Node

-----------------------------------------------------------------------------
(* Type correctness.                                                       *)

LEMMA MentionType ==
  ASSUME TypeOK, NEW k \in Key, NEW ctxt \in {"DEFINED", "USED"}, NEW t \in XrefType,
         Mention(k, ctxt, t)
  PROVE  /\ keys' \in SUBSET Key
         /\ node' \in [Key -> Node]
<1>1. (IF k \in keys THEN node[k] ELSE NewNode(t)) \in Node
  BY NewNodeType DEF TypeOK
<1>2. SetXrefFields(IF k \in keys THEN node[k] ELSE NewNode(t), ctxt, t) \in Node
  BY <1>1, SetXrefFieldsType
<1>3. QED
  BY <1>2 DEF Mention, TypeOK

LEMMA MakeRecordType ==
  ASSUME TypeOK, NEW k \in Key, NEW t \in RefType, MakeRecord(k, t)
  PROVE  /\ obj' \in [Key -> RefType \cup {NULL}]
         /\ recs' \in SUBSET Record
  BY DEF MakeRecord, TypeOK, Record

LEMMA ReleasedType ==
  ASSUME TypeOK, NEW c \in Cell
  PROVE  Released(c) \in [Key -> Node]
<1>1. ref[c] # NULL => Unlink(node[ref[c]]) \in Node
  BY UnlinkType DEF TypeOK
<1>2. QED
  BY <1>1 DEF Released, TypeOK

LEMMA TakenByType ==
  ASSUME NEW n \in [Key -> Node], NEW k \in Key
  PROVE  TakenBy(n, k) \in [Key -> Node]
<1>1. n[k].type \in NodeType
  BY DEF Node
<1>2. SetXrefFields(n[k], "USED", n[k].type) \in Node
  BY <1>1, AnyFieldsType
<1>3. QED
  BY <1>2 DEF TakenBy

\* The cells that a record has are finitely many.
LEMMA CellsFinite ==
  /\ IsFiniteSet(Cell)
  /\ \A k \in Key : CellsOf(k) \subseteq Cell /\ IsFiniteSet(CellsOf(k))
<1>1. IsFiniteSet(Cell)
  BY FS_Product DEF Cell
<1>2. \A k \in Key : CellsOf(k) \subseteq Cell
  BY DEF Cell, CellsOf
<1>3. QED
  BY <1>1, <1>2, FS_Subset

LEMMA UnreferencedType ==
  ASSUME TypeOK, NEW k \in Key
  PROVE  Unreferenced(k) \in [Key -> Node]
<1> SUFFICES ASSUME NEW j \in Key
             PROVE  Unreferenced(k)[j] \in Node
  BY DEF Unreferenced
<1> DEFINE S == {c \in CellsOf(k) : ref[c] = j}
<1>1. Cardinality(S) \in Nat
  BY CellsFinite, FS_Subset, FS_CardinalityType
<1>2. node[j].use_count - Cardinality(S) \in Int
  BY <1>1 DEF TypeOK, Node
<1>3. [node[j] EXCEPT !.use_count = @ - Cardinality(S)] \in Node
  BY <1>2 DEF TypeOK, Node
<1>4. QED
  BY <1>3 DEF Unreferenced, TypeOK

\* Every reachable state of the model is well-typed, whatever happens.
THEOREM TypeCorrect == Spec => []TypeOK
<1>1. Init => TypeOK
  BY ClearNodeType DEF Init, TypeOK, NoReferences
<1>2. TypeOK /\ [Next]_vars => TypeOK'
  <2> SUFFICES ASSUME TypeOK, [Next]_vars
               PROVE  TypeOK'
    OBVIOUS
  <2>1. CASE StartParse
    BY <2>1, ClearNodeType DEF StartParse, Cleanup, NoReferences, TypeOK
  <2>2. CASE FailToOpen
    BY <2>2 DEF FailToOpen, Cleanup, NoReferences, tableVars, TypeOK
  <2>3. ASSUME NEW k \in Key, NEW t \in RefType, ParseRecord(k, t)
        PROVE  TypeOK'
    <3>1. /\ keys' \in SUBSET Key
          /\ node' \in [Key -> Node]
      BY <2>3, MentionType DEF ParseRecord, XrefType
    <3>2. /\ obj' \in [Key -> RefType \cup {NULL}]
          /\ recs' \in SUBSET Record
      BY <2>3, MakeRecordType DEF ParseRecord
    <3>3. QED
      BY <2>3, <3>1, <3>2 DEF ParseRecord, TypeOK, Record
  <2>4. ASSUME NEW f \in Field, NEW k \in Key, ParseField(f, k)
        PROVE  TypeOK'
    <3>1. /\ keys' \in SUBSET Key
          /\ node' \in [Key -> Node]
      BY <2>4, MentionType DEF ParseField
    <3>2. /\ obj' \in [Key -> RefType \cup {NULL}]
          /\ recs' \in SUBSET Record
      BY <2>4, MakeRecordType DEF ParseField, XrefType
    <3>3. ref' \in [Cell -> Key \cup {NULL}]
      BY <2>4 DEF ParseField, TypeOK
    <3>4. QED
      BY <2>4, <3>1, <3>2, <3>3 DEF ParseField, TypeOK
  <2>5. ASSUME NEW f \in Field, NEW k \in Key, NEW t \in XrefType, ParseAssociation(f, k, t)
        PROVE  TypeOK'
    <3> DEFINE n == SetXrefFields(IF k \in keys THEN node[k] ELSE NewNode(ANY), "USED", ANY)
    <3>1. n \in Node
      BY NewNodeType, SetXrefFieldsType DEF XrefType, TypeOK
    <3>2. [n EXCEPT !.type = t] \in Node
      BY <3>1 DEF Node, NodeType
    <3>3. node' \in [Key -> Node]
      BY <2>5, <3>2 DEF ParseAssociation, TypeOK
    <3>4. ref' \in [Cell -> Key \cup {NULL}]
      BY <2>5 DEF ParseAssociation, TypeOK
    <3>5. QED
      BY <2>5, <3>3, <3>4 DEF ParseAssociation, TypeOK
  <2>6. CASE EndParse
    BY <2>6 DEF EndParse, tableVars, TypeOK
  <2>7. CASE AbortParse
    BY <2>7 DEF AbortParse, tableVars, TypeOK
  <2>8. ASSUME NEW k \in Key, NEW t \in RefType, New(k, t)
        PROVE  TypeOK'
    <3>1. SetXrefFields(NewNode(t), "DEFINED", t) \in Node
      BY NewNodeType, SetXrefFieldsType DEF XrefType
    <3>2. QED
      BY <2>8, <3>1 DEF New, Refuse, TypeOK, Record
  <2>9. ASSUME NEW k \in Key, NEW t \in RefType, Delete(k, t)
        PROVE  TypeOK'
    <3>1. [Unreferenced(k) EXCEPT ![k] = ClearNode] \in [Key -> Node]
      BY UnreferencedType, ClearNodeType
    <3>2. QED
      BY <2>9, <3>1 DEF Delete, Refuse, TypeOK
  <2>10. ASSUME NEW c \in Cell, NEW k \in Key \cup {NULL}, SetXref(c, k)
         PROVE  TypeOK'
    <3>1. Released(c) \in [Key -> Node]
      BY ReleasedType
    <3>2. \A j \in Key : TakenBy(Released(c), j) \in [Key -> Node]
      BY <3>1, TakenByType
    <3>3. node' \in [Key -> Node]
      <4>1. \/ node' \in {node, Released(c)}
            \/ \E j \in Key : node' = TakenBy(Released(c), j)
        BY <2>10 DEF SetXref, Refuse, TypeOK
      <4>2. QED
        BY <3>1, <3>2, <4>1 DEF TypeOK
    <3>4. ref' \in [Cell -> Key \cup {NULL}]
      <4>1. \/ ref' = ref
            \/ \E v \in Key \cup {NULL} : ref' = [ref EXCEPT ![c] = v]
        BY <2>10 DEF SetXref, Refuse, TypeOK
      <4>2. QED
        BY <4>1 DEF TypeOK
    <3>5. UNCHANGED <<keys, obj, recs, cur>> /\ phase' \in {phase, "crashed"}
          /\ outcome' \in {outcome, "ok", "refused"}
      BY <2>10 DEF SetXref, Refuse
    <3>6. QED
      BY <3>3, <3>4, <3>5 DEF TypeOK
  <2>11. ASSUME NEW c \in Cell, NEW k \in Key, AddXref(c, k)
         PROVE  TypeOK'
    <3>1. TakenBy(node, k) \in [Key -> Node]
      BY TakenByType DEF TypeOK
    <3>2. \/ Refuse
          \/ /\ node' = TakenBy(node, k)
             /\ ref' = [ref EXCEPT ![c] = k]
             /\ outcome' = "ok"
             /\ UNCHANGED <<phase, keys, obj, recs, cur>>
      BY <2>11 DEF AddXref
    <3>3. QED
      BY <3>1, <3>2 DEF Refuse, TypeOK
  <2>12. ASSUME NEW c \in Cell, RemoveXref(c)
         PROVE  TypeOK'
    BY <2>12, ReleasedType DEF RemoveXref, TypeOK
  <2>13. ASSUME NEW c \in Cell, RemoveSub(c)
         PROVE  TypeOK'
    BY <2>13 DEF RemoveSub, tableVars, TypeOK
  <2>14. CASE UNCHANGED vars
    BY <2>14 DEF vars, TypeOK
  <2>15. QED
    BY <2>1, <2>2, <2>3, <2>4, <2>5, <2>6, <2>7, <2>8, <2>9, <2>10, <2>11, <2>12, <2>13, <2>14
       DEF Next
<1>3. QED
  BY <1>1, <1>2, PTL DEF Spec

-----------------------------------------------------------------------------
(* The lists of records and the table, whatever happens.                   *)

LEMMA MakeRecordListed ==
  ASSUME TypeOK, RecordsAreListed, NEW k \in Key, NEW t \in RefType,
         MakeRecord(k, t), keys' = keys \cup {k}
  PROVE  RecordsAreListed'
<1>1. CASE obj[k] = NULL
  <2>1. \A r \in recs : r[1] # k
    BY <1>1 DEF RecordsAreListed, TypeOK, Record, XrefType
  <2>2. QED
    BY <1>1, <2>1 DEF MakeRecord, RecordsAreListed, TypeOK, Record
<1>2. CASE obj[k] # NULL
  BY <1>2 DEF MakeRecord, RecordsAreListed
<1>3. QED
  BY <1>1, <1>2

\* Whatever files contain and whichever calls the application makes, a record
\* in memory is the object of its key (make_xxx_record, UNREFALLFUNC).
THEOREM RecordsAreListedAlways == Spec => []RecordsAreListed
<1>1. Init => RecordsAreListed
  BY DEF Init, RecordsAreListed
<1>2. TypeOK /\ RecordsAreListed /\ [Next]_vars => RecordsAreListed'
  <2> SUFFICES ASSUME TypeOK, RecordsAreListed, [Next]_vars
               PROVE  RecordsAreListed'
    OBVIOUS
  <2>1. CASE StartParse \/ FailToOpen
    BY <2>1 DEF StartParse, FailToOpen, Cleanup, RecordsAreListed
  <2>2. ASSUME NEW k \in Key, NEW t \in RefType, ParseRecord(k, t)
        PROVE  RecordsAreListed'
    BY <2>2, MakeRecordListed DEF ParseRecord, Mention
  <2>3. ASSUME NEW f \in Field, NEW k \in Key, ParseField(f, k)
        PROVE  RecordsAreListed'
    BY <2>3, MakeRecordListed DEF ParseField, Mention, XrefType
  <2>4. ASSUME NEW f \in Field, NEW k \in Key, NEW t \in XrefType, ParseAssociation(f, k, t)
        PROVE  RecordsAreListed'
    BY <2>4 DEF ParseAssociation, RecordsAreListed
  <2>5. CASE EndParse \/ AbortParse
    BY <2>5 DEF EndParse, AbortParse, tableVars, RecordsAreListed
  <2>6. ASSUME NEW k \in Key, NEW t \in RefType, New(k, t)
        PROVE  RecordsAreListed'
    BY <2>6 DEF New, Refuse, RecordsAreListed, TypeOK, Record
  <2>7. ASSUME NEW k \in Key, NEW t \in RefType, Delete(k, t)
        PROVE  RecordsAreListed'
    <3>1. CASE Refuse
      BY <3>1 DEF Refuse, RecordsAreListed
    <3>2. CASE /\ keys' = keys \ {k}
               /\ obj' = [obj EXCEPT ![k] = NULL]
               /\ recs' = recs \ {<<k, t>>}
      <4>1. \A r \in recs' : r[1] # k
        BY <2>7, <3>2 DEF Delete, RecordsAreListed, TypeOK, Record
      <4>2. QED
        BY <3>2, <4>1 DEF RecordsAreListed, TypeOK, Record
    <3>3. QED
      BY <2>7, <3>1, <3>2 DEF Delete
  <2>8. ASSUME NEW c \in Cell, NEW k \in Key \cup {NULL},
               SetXref(c, k) \/ AddXref(c, k) \/ RemoveXref(c) \/ RemoveSub(c)
        PROVE  RecordsAreListed'
    BY <2>8 DEF SetXref, AddXref, RemoveXref, RemoveSub, Refuse, tableVars, RecordsAreListed
  <2>9. CASE UNCHANGED vars
    BY <2>9 DEF vars, RecordsAreListed
  <2>10. QED
    BY <2>1, <2>2, <2>3, <2>4, <2>5, <2>6, <2>7, <2>8, <2>9 DEF Next
<1>3. QED
  BY <1>1, <1>2, TypeCorrect, PTL DEF Spec

-----------------------------------------------------------------------------
(* Types.  That an object has the public type of its key is not inductive: *)
(* a mention of another type must be refused, so the definition and the    *)
(* uses of a key must be of that type as well, and there must be one.      *)

SoundNode(n, t) ==
  /\ t \in RefType
  /\ n.type = t
  /\ n.defined_type \in {NONE, t} /\ n.used_type \in {NONE, t}
  /\ n.defined_type = t \/ n.used_type = t

TypesInv ==
  /\ \A k \in Key : IF k \in keys THEN SoundNode(node[k], obj[k]) ELSE obj[k] = NULL
  /\ phase # "crashed"

LEMMA FirstMentionSound ==
  ASSUME NEW ctxt \in {"DEFINED", "USED"}, NEW t \in RefType
  PROVE  SoundNode(SetXrefFields(NewNode(t), ctxt, t), t)
<1>1. /\ NewNode(t) \in Node /\ NewNode(t).type = t
      /\ NewNode(t).defined_type = NONE /\ NewNode(t).used_type = NONE
  BY NewNodeType DEF XrefType
<1>2. Accepts(NewNode(t), t)
  BY <1>1 DEF Accepts, DefinedOtherwise, UsedOtherwise
<1>3. QED
  BY <1>1, <1>2, SetXrefFieldsEffect DEF SoundNode, XrefType

LEMMA LaterMentionSound ==
  ASSUME NEW n \in Node, NEW t, SoundNode(n, t),
         NEW ctxt \in {"DEFINED", "USED"}, NEW u \in RefType
  PROVE  SoundNode(SetXrefFields(n, ctxt, u), t)
<1>1. Accepts(n, u) => u = t
  BY DEF Accepts, DefinedOtherwise, UsedOtherwise, SoundNode
<1>2. QED
  BY <1>1, SetXrefFieldsEffect DEF SoundNode, XrefType

LEMMA SoundAccepts ==
  ASSUME NEW n, NEW t, SoundNode(n, t)
  PROVE  Accepts(n, n.type)
  BY DEF Accepts, DefinedOtherwise, UsedOtherwise, SoundNode

LEMMA UnlinkSound ==
  ASSUME NEW n \in Node, NEW t, SoundNode(n, t)
  PROVE  SoundNode(Unlink(n), t)
  BY DEF Unlink, SoundNode, Node

LEMMA MentionSound ==
  ASSUME TypeOK, TypesInv, NEW k \in Key, NEW ctxt \in {"DEFINED", "USED"},
         NEW t \in RefType, Mention(k, ctxt, t), MakeRecord(k, t), UNCHANGED phase \/ phase' # "crashed"
  PROVE  TypesInv'
<1>1. CASE k \in keys
  <2>1. SoundNode(node'[k], obj[k])
    BY <1>1, LaterMentionSound DEF Mention, TypeOK, TypesInv
  <2>2. obj[k] # NULL
    BY <1>1 DEF TypesInv, SoundNode, XrefType
  <2>3. QED
    BY <1>1, <2>1, <2>2 DEF Mention, MakeRecord, TypeOK, TypesInv
<1>2. CASE k \notin keys
  <2>1. SoundNode(node'[k], t)
    BY <1>2, FirstMentionSound DEF Mention, TypeOK
  <2>2. obj' = [obj EXCEPT ![k] = t]
    BY <1>2 DEF MakeRecord, TypesInv
  <2>3. QED
    BY <1>2, <2>1, <2>2 DEF Mention, TypeOK, TypesInv
<1>3. QED
  BY <1>1, <1>2

\* Giving back uses, or taking them as gom_set_xref does, keeps nodes sound.
LEMMA ReleasedSound ==
  ASSUME TypeOK, TypesInv, NEW c \in Cell, ref[c] \in keys \cup {NULL}
  PROVE  \A k \in keys : SoundNode(Released(c)[k], obj[k])
<1>1. ref[c] # NULL => SoundNode(Unlink(node[ref[c]]), obj[ref[c]])
  BY UnlinkSound DEF TypeOK, TypesInv
<1>2. QED
  BY <1>1 DEF Released, TypeOK, TypesInv

LEMMA TakenBySound ==
  ASSUME TypeOK, NEW n \in [Key -> Node], NEW k \in keys,
         \A j \in keys : SoundNode(n[j], obj[j])
  PROVE  \A j \in keys : SoundNode(TakenBy(n, k)[j], obj[j])
<1>1. n[k].type \in RefType
  BY DEF SoundNode
<1>2. SoundNode(SetXrefFields(n[k], "USED", n[k].type), obj[k])
  BY <1>1, LaterMentionSound DEF TypeOK
<1>3. QED
  BY <1>2 DEF TakenBy, TypeOK

LEMMA UnreferencedSound ==
  ASSUME TypeOK, TypesInv, NEW k \in Key
  PROVE  \A j \in keys : SoundNode(Unreferenced(k)[j], obj[j])
<1> SUFFICES ASSUME NEW j \in keys
             PROVE  SoundNode(Unreferenced(k)[j], obj[j])
  OBVIOUS
<1>1. node[j] \in Node /\ SoundNode(node[j], obj[j]) /\ j \in Key
  BY DEF TypeOK, TypesInv
<1>2. \A i : SoundNode([node[j] EXCEPT !.use_count = i], obj[j])
  BY <1>1 DEF SoundNode, Node
<1>3. QED
  BY <1>1, <1>2 DEF Unreferenced

\* Apart from associations, whatever files contain and the application calls:
\* the types of a key agree with its object, and gom_set_xref never fails at
\* what it cannot take back.
LEMMA TypesAreSound ==
  ASSUME "asso" \notin Mishap
  PROVE  Spec => []TypesInv
<1>1. Init => TypesInv
  BY DEF Init, TypesInv
<1>2. TypeOK /\ TypesInv /\ [Next]_vars => TypesInv'
  <2> SUFFICES ASSUME TypeOK, TypesInv, [Next]_vars
               PROVE  TypesInv'
    OBVIOUS
  <2>1. CASE StartParse
    BY <2>1 DEF StartParse, TypesInv
  <2>2. CASE FailToOpen
    BY <2>2 DEF FailToOpen, tableVars, TypesInv
  <2>3. ASSUME NEW k \in Key, NEW t \in RefType, ParseRecord(k, t)
        PROVE  TypesInv'
    BY <2>3, MentionSound DEF ParseRecord
  <2>4. ASSUME NEW f \in Field, NEW k \in Key, ParseField(f, k)
        PROVE  TypesInv'
    BY <2>4, MentionSound DEF ParseField, XrefType
  <2>5. CASE EndParse \/ AbortParse
    BY <2>5 DEF EndParse, AbortParse, tableVars, TypesInv
  <2>6. ASSUME NEW k \in Key, NEW t \in RefType, New(k, t)
        PROVE  TypesInv'
    <3>1. SoundNode(SetXrefFields(NewNode(t), "DEFINED", t), t)
      BY FirstMentionSound
    <3>2. CASE Refuse
      BY <3>2 DEF Refuse, TypesInv
    <3>3. QED
      BY <2>6, <3>1, <3>2 DEF New, TypesInv, TypeOK
  <2>7. ASSUME NEW k \in Key, NEW t \in RefType, Delete(k, t)
        PROVE  TypesInv'
    <3>1. CASE Refuse
      BY <3>1 DEF Refuse, TypesInv
    <3>2. CASE ~Refuse
      <4>1. /\ keys' = keys \ {k} /\ obj' = [obj EXCEPT ![k] = NULL] /\ phase' = phase
            /\ node' = [Unreferenced(k) EXCEPT ![k] = ClearNode]
        BY <2>7, <3>2 DEF Delete
      <4>2. Unreferenced(k) \in [Key -> Node]
        BY UnreferencedType
      <4>3. QED
        BY <4>1, <4>2, UnreferencedSound DEF TypesInv, TypeOK
    <3>3. QED
      BY <3>1, <3>2
  <2>8. ASSUME NEW c \in Cell, NEW k \in Key \cup {NULL}, SetXref(c, k)
        PROVE  TypesInv'
    <3>1. ref[c] \in keys \cup {NULL}
      BY <2>8 DEF SetXref
    <3>2. \A j \in keys : SoundNode(Released(c)[j], obj[j])
      BY <3>1, ReleasedSound
    <3>3. \A i, j \in keys : SoundNode(TakenBy(Released(c), i)[j], obj[j])
      BY <3>2, ReleasedType, TakenBySound
    <3>4. ref[c] = NULL => \A j \in keys : Accepts(node[j], node[j].type)
      BY SoundAccepts DEF TypesInv, TypeOK
    <3>5. phase' = phase
      BY <2>8, <3>4 DEF SetXref, Refuse
    <3>6. UNCHANGED <<keys, obj>>
      BY <2>8 DEF SetXref, Refuse
    <3>7. \A j \in keys : SoundNode(node'[j], obj[j])
      <4>1. \/ node' \in {node, Released(c)}
            \/ \E i \in keys : node' = TakenBy(Released(c), i)
        BY <2>8 DEF SetXref, Refuse
      <4>2. QED
        BY <3>2, <3>3, <4>1 DEF TypesInv, TypeOK
    <3>8. QED
      BY <3>5, <3>6, <3>7 DEF TypesInv
  <2>9. ASSUME NEW c \in Cell, NEW k \in Key, AddXref(c, k)
        PROVE  TypesInv'
    <3>1. UNCHANGED <<phase, keys, obj>>
      BY <2>9 DEF AddXref, Refuse
    <3>2. node' = node \/ (k \in keys /\ node' = TakenBy(node, k))
      BY <2>9 DEF AddXref, Refuse
    <3>3. \A j \in keys : SoundNode(node[j], obj[j])
      BY DEF TypesInv, TypeOK
    <3>4. k \in keys => \A j \in keys : SoundNode(TakenBy(node, k)[j], obj[j])
      BY <3>3, TakenBySound DEF TypeOK
    <3>5. QED
      BY <3>1, <3>2, <3>4 DEF TypesInv
  <2>10. ASSUME NEW c \in Cell, RemoveXref(c)
         PROVE  TypesInv'
    BY <2>10, ReleasedSound DEF RemoveXref, TypesInv
  <2>11. ASSUME NEW c \in Cell, RemoveSub(c)
         PROVE  TypesInv'
    BY <2>11 DEF RemoveSub, tableVars, TypesInv
  <2>12. CASE UNCHANGED vars
    BY <2>12 DEF vars, TypesInv
  <2>13. QED
    BY <2>1, <2>2, <2>3, <2>4, <2>5, <2>6, <2>7, <2>8, <2>9, <2>10, <2>11, <2>12
       DEF Next, ParseAssociation
<1>3. QED
  BY <1>1, <1>2, TypeCorrect, PTL DEF Spec

\* Where no file has associations, the public type of a key is the type its
\* object was made with: the casts of gom_get_XXX_by_xref are right.
THEOREM ObjectTypesAreTrueAlways ==
  ASSUME "asso" \notin Mishap
  PROVE  Spec => []ObjectTypesAreTrue
<1>1. TypesInv /\ TypeOK => ObjectTypesAreTrue
  BY DEF TypesInv, TypeOK, SoundNode, ObjectTypesAreTrue
<1>2. QED
  BY <1>1, TypesAreSound, TypeCorrect, PTL

\* ... and the rollback of gom_set_xref, "guaranteed to work", does.
THEOREM NeverCrashedAlways ==
  ASSUME "asso" \notin Mishap
  PROVE  Spec => []NeverCrashed
<1>1. TypesInv => NeverCrashed
  BY DEF TypesInv, NeverCrashed
<1>2. QED
  BY <1>1, TypesAreSound, PTL

-----------------------------------------------------------------------------
(* Use counts.  A step that keeps the references of a key and its count in *)
(* step keeps their difference; some mishaps let a count grow too large,   *)
(* which the store survives, others too small, which it does not.          *)

Slack(k) == node[k].use_count - Cardinality(Referring(k))
SlackBefore(k) == IF k \in keys THEN Slack(k) ELSE 0

ReferencesInTable == \A c \in Cell : ref[c] \in keys \cup {NULL}
AllDefined == phase = "model" => \A k \in keys : node[k].defined_type # NONE

\* Mishaps under which references stay counted, and those under which counts
\* stay exact.
CountsSuffice == Mishap \cap {"asso", "mistyped", "unopenable"} = {}
CountsAreExact == Mishap \subseteq {"confused", "unknown_key"}

KeepsPace(k) == /\ Slack(k)' >= SlackBefore(k)
                /\ CountsAreExact /\ AllDefined => Slack(k)' = SlackBefore(k)

LEMMA ReferringFinite ==
  ASSUME NEW k
  PROVE  IsFiniteSet(Referring(k)) /\ Cardinality(Referring(k)) \in Nat
  BY CellsFinite, FS_Subset, FS_CardinalityType DEF Referring

LEMMA ReferringAfter ==
  ASSUME TypeOK, NEW c \in Cell, NEW v \in Key \cup {NULL}, NEW k \in Key,
         ref' = [ref EXCEPT ![c] = v]
  PROVE  Cardinality(Referring(k))' =
           Cardinality(Referring(k)) - (IF ref[c] = k THEN 1 ELSE 0) + (IF v = k THEN 1 ELSE 0)
<1>1. IsFiniteSet(Referring(k)) /\ Cardinality(Referring(k)) \in Nat
  BY ReferringFinite
<1>2. ref[c] = k <=> c \in Referring(k)
  BY DEF Referring
<1>3. CASE v = k
  <2>1. Referring(k)' = Referring(k) \cup {c}
    BY <1>3 DEF Referring, TypeOK
  <2>2. Cardinality(Referring(k) \cup {c}) =
          IF c \in Referring(k) THEN Cardinality(Referring(k)) ELSE Cardinality(Referring(k)) + 1
    BY <1>1, FS_AddElement
  <2>3. Cardinality(Referring(k)') = Cardinality(Referring(k) \cup {c})
    BY <2>1
  <2>4. QED
    BY <1>1, <1>2, <1>3, <2>2, <2>3
<1>4. CASE v # k
  <2>1. Referring(k)' = Referring(k) \ {c}
    BY <1>4 DEF Referring, TypeOK
  <2>2. Cardinality(Referring(k) \ {c}) =
          IF c \in Referring(k) THEN Cardinality(Referring(k)) - 1 ELSE Cardinality(Referring(k))
    BY <1>1, FS_RemoveElement
  <2>3. Cardinality(Referring(k)') = Cardinality(Referring(k) \ {c})
    BY <2>1
  <2>4. QED
    BY <1>1, <1>2, <1>4, <2>2, <2>3
<1>5. QED
  BY <1>3, <1>4

\* A key that is not in the table has no references.
LEMMA UnknownUnreferenced ==
  ASSUME ReferencesInTable, NEW k \in Key \ keys
  PROVE  Cardinality(Referring(k)) = 0
<1>1. Referring(k) = {}
  BY DEF Referring, ReferencesInTable
<1>2. QED
  BY <1>1, FS_EmptySet

\* How the steps change the count of key k.
LEMMA MentionCount ==
  ASSUME TypeOK, TypesInv, NEW k \in Key, NEW ctxt \in {"DEFINED", "USED"}, NEW t \in RefType,
         obj[k] \in {NULL, t} \/ ctxt = "DEFINED", Mention(k, ctxt, t), NEW j \in Key
  PROVE  node'[j].use_count = (IF j \in keys \/ j # k THEN node[j].use_count ELSE 0)
                              + (IF j = k /\ ctxt = "USED" THEN 1 ELSE 0)
<1> DEFINE n == IF k \in keys THEN node[k] ELSE NewNode(t)
<1>1. n \in Node /\ t \in XrefType /\ n.use_count \in Int
  BY NewNodeType DEF TypeOK, XrefType, Node
<1>2. node[j].use_count \in Int
  BY DEF TypeOK, Node
<1>3. ctxt = "USED" => Accepts(n, t)
  <2>1. CASE k \in keys
    BY <2>1, SoundAccepts DEF TypesInv, SoundNode, XrefType
  <2>2. CASE k \notin keys
    BY <2>2, NewNodeType DEF XrefType, Accepts, DefinedOtherwise, UsedOtherwise
  <2>3. QED
    BY <2>1, <2>2
<1>4. SetXrefFields(n, ctxt, t).use_count = n.use_count + (IF ctxt = "USED" THEN 1 ELSE 0)
  BY <1>1, <1>3, SetXrefFieldsEffect
<1>5. node'[j] = IF j = k THEN SetXrefFields(n, ctxt, t) ELSE node[j]
  BY DEF Mention, TypeOK
<1>6. n.use_count = IF k \in keys THEN node[k].use_count ELSE 0
  BY NewNodeType DEF XrefType
<1>7. QED
  BY <1>2, <1>4, <1>5, <1>6

LEMMA ReleasedCount ==
  ASSUME TypeOK, NEW c \in Cell, NEW k \in Key
  PROVE  Released(c)[k].use_count = node[k].use_count - (IF ref[c] = k THEN 1 ELSE 0)
<1>1. node[k] \in Node /\ node[k].use_count \in Int
  BY DEF TypeOK, Node
<1>2. Unlink(node[k]).use_count = node[k].use_count - 1
  BY <1>1 DEF Unlink, Node
<1>3. QED
  BY <1>1, <1>2 DEF Released, TypeOK

LEMMA TakenByCount ==
  ASSUME TypeOK, NEW n \in [Key -> Node], NEW i \in keys, NEW k \in Key, SoundNode(n[i], obj[i])
  PROVE  TakenBy(n, i)[k].use_count = n[k].use_count + (IF i = k THEN 1 ELSE 0)
<1>1. n[k] \in Node /\ n[k].use_count \in Int /\ i \in Key
  BY DEF Node, TypeOK
<1>2. n[i].type \in XrefType /\ Accepts(n[i], n[i].type)
  BY SoundAccepts DEF SoundNode, XrefType
<1>3. SetXrefFields(n[i], "USED", n[i].type).use_count = n[i].use_count + 1
  BY <1>1, <1>2, SetXrefFieldsEffect
<1>4. QED
  BY <1>1, <1>3 DEF TakenBy

\* In a model with all keys defined every use of a key can be given back.
LEMMA DefinedCanUnlink ==
  ASSUME TypeOK, TypesInv, AllDefined, phase = "model", NEW k \in keys
  PROVE  CanUnlink(k)
  BY DEF TypeOK, TypesInv, AllDefined, SoundNode, CanUnlink, Unlinkable

LEMMA UnreferencedCount ==
  ASSUME TypeOK, NEW k \in Key, NEW j \in Key \ {k},
         ref' = [c \in Cell |-> IF c \in CellsOf(k) THEN NULL ELSE ref[c]],
         node' = [Unreferenced(k) EXCEPT ![k] = ClearNode]
  PROVE  \E n \in Nat : /\ Cardinality(Referring(j)') = Cardinality(Referring(j)) - n
                         /\ node'[j].use_count = node[j].use_count - (IF CanUnlink(j) THEN n ELSE 0)
<1> DEFINE S == {c \in CellsOf(k) : ref[c] = j}
<1>1. Cardinality(S) \in Nat
  BY CellsFinite, FS_Subset, FS_CardinalityType
<1>2. Cardinality(Referring(j)') = Cardinality(Referring(j)) - Cardinality(S)
  <2>1. Referring(j)' = Referring(j) \ CellsOf(k)
    BY DEF Referring
  <2>2. Referring(j) \cap CellsOf(k) = S
    BY CellsFinite DEF Referring
  <2>3. Cardinality(Referring(j) \ CellsOf(k)) = Cardinality(Referring(j)) - Cardinality(S)
    BY <2>2, ReferringFinite, FS_Difference
  <2>4. QED
    BY <2>1, <2>3
<1>3. node'[j].use_count = node[j].use_count - (IF CanUnlink(j) THEN Cardinality(S) ELSE 0)
  <2>1. node[j] \in Node /\ node[j].use_count \in Int
    BY DEF TypeOK, Node
  <2>2. node'[j] = Unreferenced(k)[j]
    BY UnreferencedType
  <2>3. [node[j] EXCEPT !.use_count = @ - Cardinality(S)].use_count
          = node[j].use_count - Cardinality(S)
    BY <2>1 DEF Node
  <2>4. node'[j] = IF CanUnlink(j) THEN [node[j] EXCEPT !.use_count = @ - Cardinality(S)]
                                  ELSE node[j]
    BY <2>2 DEF Unreferenced
  <2>5. CASE CanUnlink(j)
    BY <2>3, <2>4, <2>5
  <2>6. CASE ~CanUnlink(j)
    BY <2>1, <2>4, <2>6
  <2>7. QED
    BY <2>5, <2>6
<1>4. QED
  BY <1>1, <1>2, <1>3

\* The same count and the same references.
LEMMA PaceOfUnchanged ==
  ASSUME TypeOK, NEW k \in Key, k \in keys, ref' = ref, node'[k] = node[k]
  PROVE  KeepsPace(k)
<1>1. Slack(k)' = Slack(k)
  BY DEF Slack, Referring
<1>2. Slack(k) \in Int
  BY ReferringFinite DEF Slack, TypeOK, Node
<1>3. QED
  BY <1>1, <1>2 DEF KeepsPace, SlackBefore

LEMMA PaceOfParse ==
  ASSUME CountsSuffice, TypeOK, TypesInv, ReferencesInTable, NEW k \in Key,
         \/ \E j \in Key, t \in RefType : ParseRecord(j, t)
         \/ \E f \in Field, j \in Key : ParseField(f, j),
         k \in keys'
  PROVE  KeepsPace(k)
<1> DEFINE n == IF k \in keys THEN node[k].use_count ELSE 0
           m == Cardinality(Referring(k))
<1>1. n \in Int /\ m \in Nat /\ SlackBefore(k) = n - m
  BY ReferringFinite, UnknownUnreferenced DEF SlackBefore, Slack, TypeOK, Node
<1>2. ASSUME NEW j \in Key, NEW t \in RefType, ParseRecord(j, t)
      PROVE  KeepsPace(k)
  <2>1. Mention(j, "DEFINED", t) /\ ref' = ref /\ (k \in keys \/ k = j)
    BY <1>2 DEF ParseRecord, Mention
  <2>2. node'[k].use_count = (IF k \in keys \/ k # j THEN node[k].use_count ELSE 0)
                             + (IF k = j /\ "DEFINED" = "USED" THEN 1 ELSE 0)
    BY <2>1, MentionCount
  <2>3. node'[k].use_count = n
    BY <1>1, <2>1, <2>2
  <2>4. Referring(k)' = Referring(k)
    BY <2>1 DEF Referring
  <2>5. Slack(k)' = SlackBefore(k)
    BY <1>1, <2>3, <2>4 DEF Slack
  <2>6. QED
    BY <1>1, <2>5 DEF KeepsPace
<1>3. ASSUME NEW f \in Field, NEW j \in Key, ParseField(f, j)
      PROVE  KeepsPace(k)
  <2>1. PICK c \in Fillable(f) : ref' = [ref EXCEPT ![c] = j]
    BY <1>3 DEF ParseField
  <2>2. c \in Cell /\ (ref[c] # NULL => "repeated" \in Mishap)
    BY <2>1 DEF Fillable
  <2>3. node'[k].use_count = n + (IF j = k THEN 1 ELSE 0)
    <3>1. /\ Mention(j, "USED", LinkType[f]) /\ LinkType[f] \in RefType
          /\ obj[j] \in {NULL, LinkType[f]} /\ (k \in keys \/ k = j)
      BY <1>3 DEF ParseField, Mention, CountsSuffice, XrefType
    <3>2. node'[k].use_count = (IF k \in keys \/ k # j THEN node[k].use_count ELSE 0)
                               + (IF k = j /\ "USED" = "USED" THEN 1 ELSE 0)
      BY <3>1, MentionCount
    <3>3. QED
      BY <1>1, <3>1, <3>2
  <2>4. Cardinality(Referring(k)') = m - (IF ref[c] = k THEN 1 ELSE 0) + (IF j = k THEN 1 ELSE 0)
    BY <2>1, <2>2, ReferringAfter
  <2>5. CountsAreExact => ref[c] # k
    BY <2>2 DEF CountsAreExact
  <2>6. QED
    BY <1>1, <2>3, <2>4, <2>5 DEF KeepsPace, Slack
<1>4. QED
  BY <1>2, <1>3

LEMMA PaceOfNew ==
  ASSUME TypeOK, ReferencesInTable, NEW k \in Key, NEW j \in Key, NEW t \in RefType, New(j, t),
         k \in keys'
  PROVE  KeepsPace(k)
<1>1. CASE k \in keys
  BY <1>1, PaceOfUnchanged DEF New, Refuse, TypeOK
<1>2. CASE k \notin keys
  <2>1. k = j /\ ref' = ref /\ node'[k] = SetXrefFields(NewNode(t), "DEFINED", t)
    BY <1>2 DEF New, Refuse, TypeOK
  <2>2. node'[k].use_count = 0
    BY <2>1, NewNodeType, SetXrefFieldsEffect DEF XrefType
  <2>3. Cardinality(Referring(k)') = 0
    <3>1. Referring(k)' = Referring(k)
      BY <2>1 DEF Referring
    <3>2. QED
      BY <1>2, <3>1, UnknownUnreferenced
  <2>4. QED
    BY <1>2, <2>2, <2>3 DEF KeepsPace, Slack, SlackBefore
<1>3. QED
  BY <1>1, <1>2

LEMMA PaceOfDelete ==
  ASSUME TypeOK, TypesInv, NEW k \in Key, NEW j \in Key, NEW t \in RefType, Delete(j, t),
         k \in keys'
  PROVE  KeepsPace(k)
<1>1. CASE Refuse
  BY <1>1, PaceOfUnchanged DEF Refuse
<1>2. CASE ~Refuse
  <2>1. /\ k \in keys \ {j} /\ phase = "model"
        /\ ref' = [c \in Cell |-> IF c \in CellsOf(j) THEN NULL ELSE ref[c]]
        /\ node' = [Unreferenced(j) EXCEPT ![j] = ClearNode]
    BY <1>2 DEF Delete
  <2>2. PICK n \in Nat : /\ Cardinality(Referring(k)') = Cardinality(Referring(k)) - n
                         /\ node'[k].use_count = node[k].use_count - (IF CanUnlink(k) THEN n ELSE 0)
    BY <2>1, UnreferencedCount
  <2>3. AllDefined => CanUnlink(k)
    BY <2>1, DefinedCanUnlink
  <2>4. node[k].use_count \in Int /\ Cardinality(Referring(k)) \in Nat
    BY ReferringFinite DEF TypeOK, Node
  <2>5. QED
    BY <2>1, <2>2, <2>3, <2>4 DEF KeepsPace, Slack, SlackBefore
<1>3. QED
  BY <1>1, <1>2

LEMMA PaceOfSetXref ==
  ASSUME TypeOK, TypesInv, NEW k \in keys, NEW c \in Cell, NEW v \in Key \cup {NULL}, SetXref(c, v)
  PROVE  KeepsPace(k)
<1> DEFINE m == Cardinality(Referring(k))
<1>1. k \in Key /\ node[k].use_count \in Int /\ m \in Nat
  BY ReferringFinite DEF TypeOK, Node
<1>2. ref[c] \in keys \cup {NULL}
  BY DEF SetXref
<1>3. \A j \in keys : SoundNode(Released(c)[j], obj[j])
  BY <1>2, ReleasedSound
<1>4. \A j \in keys : Accepts(Released(c)[j], node[j].type)
  <2>1. \A j \in keys : Accepts(Released(c)[j], Released(c)[j].type)
    BY <1>3, SoundAccepts
  <2>2. \A j \in keys : Released(c)[j].type = node[j].type
    BY <1>3 DEF SoundNode, TypesInv, TypeOK
  <2>3. QED
    BY <2>1, <2>2
<1>5. ref[c] = NULL => Released(c) = node
  BY DEF Released
<1>6. CASE Refuse
  BY <1>1, <1>6, PaceOfUnchanged DEF Refuse
<1>7. ASSUME NEW j \in keys, node' = TakenBy(Released(c), j), ref' = [ref EXCEPT ![c] = j]
      PROVE  KeepsPace(k)
  <2>1. node'[k].use_count = node[k].use_count - (IF ref[c] = k THEN 1 ELSE 0)
                             + (IF j = k THEN 1 ELSE 0)
    BY <1>1, <1>3, <1>7, ReleasedType, ReleasedCount, TakenByCount
  <2>2. Cardinality(Referring(k)') = m - (IF ref[c] = k THEN 1 ELSE 0) + (IF j = k THEN 1 ELSE 0)
    BY <1>1, <1>7, ReferringAfter DEF TypeOK
  <2>3. Slack(k)' = Slack(k)
    BY <1>1, <2>1, <2>2 DEF Slack
  <2>4. QED
    BY <1>1, <2>3 DEF KeepsPace, SlackBefore, Slack
<1>8. CASE node' = Released(c) /\ ref' = [ref EXCEPT ![c] = NULL]
  <2>1. node'[k].use_count = node[k].use_count - (IF ref[c] = k THEN 1 ELSE 0)
    BY <1>1, <1>8, ReleasedCount
  <2>2. Cardinality(Referring(k)') = m - (IF ref[c] = k THEN 1 ELSE 0)
    <3>1. ref' = [ref EXCEPT ![c] = NULL]
      BY <1>8
    <3>2. Cardinality(Referring(k)') = m - (IF ref[c] = k THEN 1 ELSE 0)
                                         + (IF NULL = k THEN 1 ELSE 0)
      <4>1. k \in Key /\ NULL \in Key \cup {NULL}
        BY <1>1
      <4>2. QED
        BY <3>1, <4>1, ReferringAfter
    <3>3. QED
      BY <1>1, <3>2
  <2>3. Slack(k)' = Slack(k)
    BY <1>1, <2>1, <2>2 DEF Slack
  <2>4. QED
    BY <1>1, <2>3 DEF KeepsPace, SlackBefore, Slack
<1>9. QED
  BY <1>4, <1>5, <1>6, <1>7, <1>8 DEF SetXref

LEMMA PaceOfListCalls ==
  ASSUME TypeOK, TypesInv, NEW k \in keys, NEW c \in Cell,
         (\E j \in Key : AddXref(c, j)) \/ RemoveXref(c) \/ RemoveSub(c)
  PROVE  KeepsPace(k)
<1> DEFINE m == Cardinality(Referring(k))
<1>1. k \in Key /\ node[k].use_count \in Int /\ m \in Nat
  BY ReferringFinite DEF TypeOK, Node
<1>2. ASSUME NEW j \in Key, AddXref(c, j)
      PROVE  KeepsPace(k)
  <2>1. CASE Refuse
    BY <1>1, <2>1, PaceOfUnchanged DEF Refuse
  <2>2. CASE ~Refuse
    <3>1. /\ j \in keys /\ ref[c] = NULL /\ node' = TakenBy(node, j)
          /\ ref' = [ref EXCEPT ![c] = j]
      BY <1>2, <2>2 DEF AddXref
    <3>2. node'[k].use_count = node[k].use_count + (IF j = k THEN 1 ELSE 0)
      BY <1>1, <3>1, TakenByCount DEF TypeOK, TypesInv
    <3>3. Cardinality(Referring(k)') = m + (IF j = k THEN 1 ELSE 0)
      <4>1. Cardinality(Referring(k)') = m - (IF ref[c] = k THEN 1 ELSE 0)
                                           + (IF j = k THEN 1 ELSE 0)
        <5>1. k \in Key /\ j \in Key \cup {NULL} /\ ref' = [ref EXCEPT ![c] = j]
          BY <1>1, <3>1
        <5>2. QED
          BY <5>1, ReferringAfter
      <4>2. QED
        BY <1>1, <3>1, <4>1
    <3>4. Slack(k)' = Slack(k)
      BY <1>1, <3>2, <3>3 DEF Slack
    <3>5. QED
      BY <1>1, <3>4 DEF KeepsPace, SlackBefore, Slack
  <2>3. QED
    BY <2>1, <2>2
<1>3. CASE RemoveXref(c)
  <2>1. Cardinality(Referring(k)') = m - (IF ref[c] = k THEN 1 ELSE 0)
    <3>1. ref' = [ref EXCEPT ![c] = NULL]
      BY <1>3 DEF RemoveXref
    <3>2. Cardinality(Referring(k)') = m - (IF ref[c] = k THEN 1 ELSE 0)
                                         + (IF NULL = k THEN 1 ELSE 0)
      <4>1. k \in Key /\ NULL \in Key \cup {NULL}
        BY <1>1
      <4>2. QED
        BY <3>1, <4>1, ReferringAfter
    <3>3. QED
      BY <1>1, <3>2
  <2>2. node'[k].use_count = node[k].use_count
                             - (IF ref[c] = k /\ CanUnlink(ref[c]) THEN 1 ELSE 0)
    BY <1>1, <1>3, ReleasedCount DEF RemoveXref
  <2>3. AllDefined => CanUnlink(ref[c])
    BY <1>3, DefinedCanUnlink DEF RemoveXref
  <2>4. QED
    BY <1>1, <2>1, <2>2, <2>3 DEF KeepsPace, Slack, SlackBefore
<1>4. CASE RemoveSub(c)
  <2>1. Cardinality(Referring(k)') = m - (IF ref[c] = k THEN 1 ELSE 0)
    <3>1. ref' = [ref EXCEPT ![c] = NULL]
      BY <1>4 DEF RemoveSub
    <3>2. Cardinality(Referring(k)') = m - (IF ref[c] = k THEN 1 ELSE 0)
                                         + (IF NULL = k THEN 1 ELSE 0)
      <4>1. k \in Key /\ NULL \in Key \cup {NULL}
        BY <1>1
      <4>2. QED
        BY <3>1, <4>1, ReferringAfter
    <3>3. QED
      BY <1>1, <3>2
  <2>2. node' = node /\ ~CountsAreExact
    BY <1>4 DEF RemoveSub, tableVars, CountsAreExact
  <2>3. QED
    BY <1>1, <2>1, <2>2 DEF KeepsPace, Slack, SlackBefore
<1>5. QED
  BY <1>2, <1>3, <1>4

LEMMA PaceIsKept ==
  ASSUME CountsSuffice, TypeOK, TypesInv, ReferencesInTable, [Next]_vars, NEW k \in keys'
  PROVE  KeepsPace(k)
<1> USE DEF CountsSuffice
<1>1. ASSUME UNCHANGED <<keys, node, ref>>
      PROVE  KeepsPace(k)
  BY <1>1, PaceOfUnchanged DEF TypeOK
<1>2. CASE StartParse \/ EndParse \/ AbortParse \/ UNCHANGED vars
  BY <1>1, <1>2 DEF StartParse, EndParse, AbortParse, tableVars, vars
<1>3. ASSUME NEW j \in Key, NEW t \in RefType, ParseRecord(j, t)
      PROVE  KeepsPace(k)
  BY <1>3, PaceOfParse DEF ParseRecord, Mention, TypeOK
<1>4. ASSUME NEW f \in Field, NEW j \in Key, ParseField(f, j)
      PROVE  KeepsPace(k)
  BY <1>4, PaceOfParse DEF ParseField, Mention, TypeOK
<1>5. ASSUME NEW j \in Key, NEW t \in RefType, New(j, t)
      PROVE  KeepsPace(k)
  BY <1>5, PaceOfNew DEF New, Refuse, TypeOK
<1>6. ASSUME NEW j \in Key, NEW t \in RefType, Delete(j, t)
      PROVE  KeepsPace(k)
  BY <1>6, PaceOfDelete DEF Delete, Refuse, TypeOK
<1>7. ASSUME NEW c \in Cell, NEW v \in Key \cup {NULL}, SetXref(c, v)
      PROVE  KeepsPace(k)
  BY <1>7, PaceOfSetXref DEF SetXref, Refuse
<1>8. ASSUME NEW c \in Cell, (\E j \in Key : AddXref(c, j)) \/ RemoveXref(c) \/ RemoveSub(c)
      PROVE  KeepsPace(k)
  <2>1. k \in keys
    BY <1>8 DEF AddXref, RemoveXref, RemoveSub, Refuse, tableVars
  <2>2. QED
    BY <1>8, <2>1, PaceOfListCalls
<1>9. QED
  BY <1>2, <1>3, <1>4, <1>5, <1>6, <1>7, <1>8 DEF Next, FailToOpen, ParseAssociation

-----------------------------------------------------------------------------
(* The references and the records.                                         *)

RefsInv ==
  /\ \A k \in keys : <<k, obj[k]>> \in recs
  /\ ReferencesInTable
  /\ \A k \in keys : Slack(k) >= 0

LEMMA SlackType ==
  ASSUME TypeOK, NEW k \in Key
  PROVE  Slack(k) \in Int
  BY ReferringFinite DEF Slack, TypeOK, Node

LEMMA SlackAfterType ==
  ASSUME TypeOK', NEW k \in Key
  PROVE  Slack(k)' \in Int
<1>1. node'[k].use_count \in Int
  BY DEF TypeOK, Node
<1>2. Referring(k)' \subseteq Cell
  BY DEF Referring
<1>3. Cardinality(Referring(k)') \in Nat
  BY <1>2, CellsFinite, FS_Subset, FS_CardinalityType
<1>4. QED
  BY <1>1, <1>3 DEF Slack

LEMMA NotReferenced ==
  ASSUME TypeOK, RefsInv, NEW k \in keys, node[k].use_count = 0
  PROVE  \A c \in Cell : ref[c] # k
<1>1. Cardinality(Referring(k)) \in Nat /\ Slack(k) >= 0
  BY ReferringFinite DEF RefsInv
<1>2. Cardinality(Referring(k)) = 0
  BY <1>1 DEF Slack
<1>3. Referring(k) = {}
  BY <1>2, ReferringFinite, FS_EmptySet
<1>4. QED
  BY <1>3 DEF Referring

LEMMA RecordsStay ==
  ASSUME CountsSuffice, TypeOK, TypesInv, RecordsAreListed, RefsInv, [Next]_vars
  PROVE  \A k \in keys' : <<k, obj'[k]>> \in recs'
<1> USE DEF CountsSuffice, RefsInv
<1>1. CASE StartParse
  BY <1>1 DEF StartParse
<1>2. ASSUME NEW k \in Key, NEW t \in RefType, Mention(k, "DEFINED", t) \/ Mention(k, "USED", t),
             MakeRecord(k, t)
      PROVE  \A j \in keys' : <<j, obj'[j]>> \in recs'
  BY <1>2 DEF Mention, MakeRecord, TypesInv, TypeOK
<1>3. ASSUME NEW k \in Key, NEW t \in RefType, New(k, t)
      PROVE  \A j \in keys' : <<j, obj'[j]>> \in recs'
  BY <1>3 DEF New, Refuse, TypeOK
<1>4. ASSUME NEW k \in Key, NEW t \in RefType, Delete(k, t)
      PROVE  \A j \in keys' : <<j, obj'[j]>> \in recs'
  BY <1>4 DEF Delete, Refuse, TypeOK
<1>5. ASSUME UNCHANGED <<keys, obj, recs>>
      PROVE  \A j \in keys' : <<j, obj'[j]>> \in recs'
  BY <1>5
<1>6. QED
  <2>1. CASE UNCHANGED vars \/ EndParse \/ AbortParse
    BY <1>5, <2>1 DEF vars, EndParse, AbortParse, tableVars
  <2>2. ASSUME NEW c \in Cell, NEW k \in Key \cup {NULL},
               SetXref(c, k) \/ AddXref(c, k) \/ RemoveXref(c) \/ RemoveSub(c)
        PROVE  UNCHANGED <<keys, obj, recs>>
    BY <2>2 DEF SetXref, AddXref, RemoveXref, RemoveSub, Refuse, tableVars
  <2>3. ASSUME NEW k \in Key, NEW t \in RefType, ParseRecord(k, t)
        PROVE  \A j \in keys' : <<j, obj'[j]>> \in recs'
    BY <1>2, <2>3 DEF ParseRecord
  <2>4. ASSUME NEW f \in Field, NEW k \in Key, ParseField(f, k)
        PROVE  \A j \in keys' : <<j, obj'[j]>> \in recs'
    BY <1>2, <2>4 DEF ParseField, XrefType
  <2>5. QED
    BY <1>1, <1>3, <1>4, <1>5, <2>1, <2>2, <2>3, <2>4 DEF Next, FailToOpen, ParseAssociation

LEMMA ReferencesStay ==
  ASSUME CountsSuffice, TypeOK, TypesInv, RefsInv, [Next]_vars
  PROVE  ReferencesInTable'
<1> USE DEF CountsSuffice, ReferencesInTable, RefsInv
<1>1. CASE StartParse
  BY <1>1 DEF StartParse, Cleanup, NoReferences
<1>2. ASSUME NEW f \in Field, NEW k \in Key, ParseField(f, k)
      PROVE  ReferencesInTable'
  BY <1>2 DEF ParseField, Mention, TypeOK
<1>3. ASSUME NEW k \in Key, NEW t \in RefType, ParseRecord(k, t) \/ New(k, t)
      PROVE  ReferencesInTable'
  BY <1>3 DEF ParseRecord, New, Refuse, Mention
<1>4. ASSUME NEW k \in Key, NEW t \in RefType, Delete(k, t)
      PROVE  ReferencesInTable'
  <2>1. CASE Refuse
    BY <2>1 DEF Refuse
  <2>2. CASE ~Refuse
    <3>1. /\ node[k].use_count = 0 /\ keys' = keys \ {k}
          /\ ref' = [c \in Cell |-> IF c \in CellsOf(k) THEN NULL ELSE ref[c]]
      BY <1>4, <2>2 DEF Delete
    <3>2. \A c \in Cell : ref[c] # k
      BY <3>1, NotReferenced DEF TypeOK
    <3>3. QED
      BY <3>1, <3>2
  <2>3. QED
    BY <2>1, <2>2
<1>5. ASSUME NEW c \in Cell, NEW k \in Key \cup {NULL}, SetXref(c, k)
      PROVE  ReferencesInTable'
  <2>1. keys' = keys
    BY <1>5 DEF SetXref, Refuse
  <2>2. ref' = ref \/ \E v \in keys \cup {NULL} : ref' = [ref EXCEPT ![c] = v]
    BY <1>5 DEF SetXref, Refuse
  <2>3. QED
    BY <2>1, <2>2 DEF TypeOK
<1>6. ASSUME NEW c \in Cell, (\E k \in Key : AddXref(c, k)) \/ RemoveXref(c) \/ RemoveSub(c)
      PROVE  ReferencesInTable'
  <2>1. keys' = keys
    BY <1>6 DEF AddXref, RemoveXref, RemoveSub, Refuse, tableVars
  <2>2. ref' = ref \/ \E v \in keys \cup {NULL} : ref' = [ref EXCEPT ![c] = v]
    BY <1>6 DEF AddXref, RemoveXref, RemoveSub, Refuse
  <2>3. QED
    BY <2>1, <2>2 DEF TypeOK
<1>7. CASE UNCHANGED vars \/ EndParse \/ AbortParse
  BY <1>7 DEF vars, EndParse, AbortParse, tableVars
<1>8. QED
  BY <1>1, <1>2, <1>3, <1>4, <1>5, <1>6, <1>7 DEF Next, FailToOpen, ParseAssociation

\* The state that the store is implemented with.
StoreInv == TypeOK /\ TypesInv /\ RecordsAreListed /\ RefsInv

LEMMA StoreIsSound ==
  ASSUME CountsSuffice
  PROVE  Spec => []StoreInv
<1>1. Init => RefsInv
  BY DEF Init, RefsInv, ReferencesInTable, NoReferences
<1>2. StoreInv /\ TypeOK' /\ [Next]_vars => RefsInv'
  <2> SUFFICES ASSUME StoreInv, TypeOK', [Next]_vars
               PROVE  RefsInv'
    OBVIOUS
  <2>1. \A k \in keys' : <<k, obj'[k]>> \in recs'
    BY RecordsStay DEF StoreInv
  <2>2. ReferencesInTable'
    BY ReferencesStay DEF StoreInv
  <2>3. ASSUME NEW k \in keys'
        PROVE  Slack(k)' >= 0
    <3>1. KeepsPace(k)
      BY PaceIsKept DEF StoreInv, RefsInv
    <3>2. SlackBefore(k) >= 0 /\ SlackBefore(k) \in Int
      BY SlackType DEF StoreInv, TypeOK, RefsInv, SlackBefore
    <3>3. Slack(k)' \in Int
      BY SlackAfterType DEF TypeOK
    <3>4. QED
      BY <3>1, <3>2, <3>3 DEF KeepsPace
  <2>4. QED
    BY <2>1, <2>2, <2>3 DEF RefsInv
<1>3. Spec => []TypesInv
  BY TypesAreSound DEF CountsSuffice
<1>4. QED
  BY <1>1, <1>2, <1>3, TypeCorrect, RecordsAreListedAlways, PTL DEF Spec, StoreInv

-----------------------------------------------------------------------------
(* The refinement of the abstract store, which has no table and no counts. *)

\* A record exists exactly for the keys that have an object.
LEMMA ExistsExactly ==
  ASSUME StoreInv, NEW k \in Key
  PROVE  /\ Store!Exists(k) <=> k \in keys
         /\ obj[k] = NULL <=> k \notin keys
<1>1. obj[k] = NULL <=> k \notin keys
  BY DEF StoreInv, TypesInv, SoundNode, XrefType
<1>2. k \in keys => <<k, obj[k]>> \in recs /\ obj[k] \in RefType
  BY DEF StoreInv, RefsInv, TypesInv, SoundNode
<1>3. \A t \in RefType : <<k, t>> \in recs => k \in keys
  BY DEF StoreInv, RecordsAreListed
<1>4. QED
  BY <1>1, <1>2, <1>3 DEF Store!Exists

LEMMA MakeRecordIsCreate ==
  ASSUME StoreInv, NEW k \in Key, NEW t \in RefType, MakeRecord(k, t), UNCHANGED ref
  PROVE  Store!Change \/ Store!Keep
<1>1. obj[k] = NULL => Store!Create(k, t)
  BY ExistsExactly DEF MakeRecord, Store!Create
<1>2. obj[k] # NULL => Store!Keep
  BY DEF MakeRecord, Store!Keep
<1>3. QED
  BY <1>1, <1>2 DEF Store!Change

\* A cell of a record that exists is made to refer to a record that exists.
LEMMA ReferToRecord ==
  ASSUME StoreInv, NEW c \in Cell, <<c[1], OwnerType[c[2]]>> \in recs, NEW k \in keys,
         ref' = [ref EXCEPT ![c] = k], UNCHANGED recs
  PROVE  Store!Change
<1>1. k \in Key
  BY DEF StoreInv, TypeOK
<1>2. Store!Refer(c, k)
  BY <1>1, ExistsExactly DEF Store!Refer
<1>3. QED
  BY <1>1, <1>2 DEF Store!Change, Store!Cell, Cell

LEMMA ReleaseCell ==
  ASSUME NEW c \in Cell, ref' = [ref EXCEPT ![c] = NULL], UNCHANGED recs
  PROVE  Store!Change
<1>1. Store!Release(c)
  BY DEF Store!Release
<1>2. QED
  BY <1>1 DEF Store!Change, Store!Cell, Cell

LEMMA StepIsStoreStep ==
  ASSUME CountsSuffice, "unknown_key" \notin Mishap, StoreInv, [Next]_vars
  PROVE  [Store!Next]_<<recs, ref, outcome>>
<1> USE DEF Store!Next
<1>1. CASE StartParse
  <2>1. Store!Clear
    BY <1>1 DEF StartParse, Cleanup, NoReferences, Store!Clear, Store!Cell, Cell
  <2>2. QED
    BY <1>1, <2>1 DEF StartParse, Store!Change
<1>2. ASSUME NEW k \in Key, NEW t \in RefType, ParseRecord(k, t)
      PROVE  Store!Next
  BY <1>2, MakeRecordIsCreate DEF ParseRecord
<1>3. ASSUME NEW f \in Field, NEW k \in Key, ParseField(f, k)
      PROVE  Store!Next
  <2>1. PICK c \in Fillable(f) : ref' = [ref EXCEPT ![c] = k]
    BY <1>3 DEF ParseField
  <2>2. c \in Cell /\ <<c[1], OwnerType[c[2]]>> \in recs
    BY <2>1 DEF Fillable
  <2>3. LinkType[f] \in RefType /\ MakeRecord(k, LinkType[f]) /\ outcome' = "ok"
    BY <1>3 DEF ParseField, XrefType
  <2>4. CASE obj[k] = NULL
    <3>1. ~Store!Exists(k) /\ recs' = recs \cup {<<k, LinkType[f]>>}
      BY <2>3, <2>4, ExistsExactly DEF MakeRecord
    <3>2. Store!Refer(c, k)
      BY <2>1, <2>2, <2>3, <3>1 DEF Store!Refer
    <3>3. QED
      BY <2>2, <2>3, <3>2 DEF Store!Change, Store!Cell, Cell
  <2>5. CASE obj[k] # NULL
    <3>1. k \in keys /\ UNCHANGED recs
      BY <2>3, <2>5, ExistsExactly DEF MakeRecord
    <3>2. QED
      BY <2>1, <2>2, <2>3, <3>1, ReferToRecord
  <2>6. QED
    BY <2>4, <2>5
<1>4. ASSUME Refuse
      PROVE  Store!Next
  BY <1>4 DEF Refuse, Store!Keep
<1>5. ASSUME NEW k \in Key, NEW t \in RefType, New(k, t)
      PROVE  Store!Next
  <2>1. CASE ~Refuse
    <3>1. /\ k \notin keys /\ recs' = recs \cup {<<k, t>>} /\ UNCHANGED ref
          /\ outcome' = "ok"
      BY <1>5, <2>1 DEF New
    <3>2. Store!Create(k, t)
      BY <3>1, ExistsExactly DEF Store!Create
    <3>3. QED
      BY <3>1, <3>2 DEF Store!Change
  <2>2. QED
    BY <1>4, <2>1
<1>6. ASSUME NEW k \in Key, NEW t \in RefType, Delete(k, t)
      PROVE  Store!Next
  <2>1. CASE ~Refuse
    <3>1. /\ <<k, t>> \in recs /\ node[k].use_count = 0
          /\ recs' = recs \ {<<k, t>>}
          /\ ref' = [c \in Cell |-> IF c \in CellsOf(k) THEN NULL ELSE ref[c]]
          /\ outcome' = "ok"
      BY <1>6, <2>1 DEF Delete
    <3>2. k \in keys
      BY <3>1 DEF StoreInv, RecordsAreListed
    <3>3. \A c \in Cell : ref[c] # k
      BY <3>1, <3>2, NotReferenced DEF StoreInv
    <3>4. \A c \in Cell : c \in CellsOf(k) <=> c[1] = k
      BY DEF Cell, CellsOf
    <3>5. Store!Delete(k, t)
      BY <3>1, <3>3, <3>4 DEF Store!Delete, Store!Cell, Cell
    <3>6. QED
      BY <3>1, <3>5 DEF Store!Change
  <2>2. QED
    BY <1>4, <2>1
<1>7. ASSUME NEW c \in Cell, <<c[1], OwnerType[c[2]]>> \in recs, recs' = recs,
             NEW v \in keys \cup {NULL}, ref' = [ref EXCEPT ![c] = v], outcome' = "ok"
      PROVE  Store!Next
  BY <1>7, ReferToRecord, ReleaseCell
<1>8. ASSUME NEW c \in Cell, NEW k \in Key \cup {NULL}, SetXref(c, k)
      PROVE  [Store!Next]_<<recs, ref, outcome>>
  <2>1. <<c[1], OwnerType[c[2]]>> \in recs /\ recs' = recs
    BY <1>8 DEF SetXref, Reachable, Refuse
  <2>2. \/ ref' = ref /\ outcome' \in {outcome, "refused"}
        \/ outcome' = "ok" /\ \E v \in keys \cup {NULL} : ref' = [ref EXCEPT ![c] = v]
    BY <1>8 DEF SetXref, Refuse
  <2>3. QED
    BY <1>7, <2>1, <2>2 DEF Store!Keep
<1>9. ASSUME NEW c \in Cell, (\E k \in Key : AddXref(c, k)) \/ RemoveXref(c) \/ RemoveSub(c)
      PROVE  Store!Next
  <2>1. <<c[1], OwnerType[c[2]]>> \in recs /\ recs' = recs
    BY <1>9 DEF AddXref, RemoveXref, RemoveSub, Reachable, Refuse
  <2>2. \/ Refuse
        \/ outcome' = "ok" /\ \E v \in keys \cup {NULL} : ref' = [ref EXCEPT ![c] = v]
    BY <1>9 DEF AddXref, RemoveXref, RemoveSub
  <2>3. QED
    BY <1>4, <1>7, <2>1, <2>2
<1>10. CASE UNCHANGED vars \/ EndParse \/ AbortParse
  BY <1>10 DEF vars, EndParse, AbortParse, Store!Keep
<1>11. QED
  BY <1>1, <1>2, <1>3, <1>5, <1>6, <1>8, <1>9, <1>10
     DEF Next, FailToOpen, ParseAssociation, CountsSuffice

\* The object model implements the abstract store: every reference leads to a
\* record that exists, and gom_delete_XXX only deletes records that nothing
\* refers to, and a call that is refused changes no record and no reference, as
\* long as no file has associations, uses a key as another type than before or
\* fails to be opened, and gom_set_xref is not given an unknown key for a
\* reference that is set.
THEOREM ImplementsTheStore ==
  ASSUME CountsSuffice, "unknown_key" \notin Mishap
  PROVE  Spec => IsARecordStore
<1>1. Init => Store!Init
  BY DEF Init, NoReferences, Store!Init, Store!Cell, Cell
<1>2. StoreInv /\ [Next]_vars => [Store!Next]_<<recs, ref, outcome>>
  BY StepIsStoreStep
<1>3. QED
  BY <1>1, <1>2, StoreIsSound, PTL DEF Spec, IsARecordStore, Store!Spec

-----------------------------------------------------------------------------
(* The definitions of a model.  While a file is read its keys may wait for *)
(* their records; from gedcom_parse_end on every key has one.              *)

DefinedSuffices == Mishap \subseteq {"confused", "repeated", "remove_sub", "unknown_key"}

\* What the application does to the fields of records defines nothing and
\* takes no definition away.
LEMMA DefinitionsStay ==
  ASSUME TypeOK, TypesInv, AllDefined, phase = "model", NEW c \in Cell,
         \/ \E k \in Key \cup {NULL} : SetXref(c, k)
         \/ \E k \in Key : AddXref(c, k)
         \/ RemoveXref(c) \/ RemoveSub(c)
  PROVE  \A j \in keys' : node'[j].defined_type # NONE
<1>1. keys' = keys /\ keys \subseteq Key
  BY DEF SetXref, AddXref, RemoveXref, RemoveSub, Refuse, tableVars, TypeOK
<1>2. \A j \in keys : node[j] \in Node /\ SoundNode(node[j], obj[j]) /\ node[j].defined_type # NONE
  BY DEF TypeOK, TypesInv, AllDefined
<1>3. ref[c] \in Key \cup {NULL} /\ (node' # node => ref[c] \in keys \cup {NULL})
  BY DEF SetXref, AddXref, RemoveXref, RemoveSub, Refuse, tableVars, TypeOK
<1>4. \A j \in keys : Released(c)[j].defined_type = node[j].defined_type
  <2>1. ref[c] # NULL => Unlink(node[ref[c]]).defined_type = node[ref[c]].defined_type
    BY DEF Unlink, TypeOK, Node
  <2>2. QED
    BY <1>3, <2>1 DEF Released, TypeOK
<1>5. ASSUME NEW n \in [Key -> Node], NEW i \in keys, \A j \in keys : SoundNode(n[j], obj[j])
      PROVE  \A j \in keys : TakenBy(n, i)[j].defined_type = n[j].defined_type
  <2>1. n[i] \in Node /\ n[i].type \in XrefType /\ i \in Key
    BY <1>5 DEF SoundNode, XrefType, TypeOK
  <2>2. SetXrefFields(n[i], "USED", n[i].type).defined_type = n[i].defined_type
    BY <2>1, SetXrefFieldsEffect
  <2>3. QED
    BY <2>1, <2>2 DEF TakenBy
<1>6. \/ node' \in {node, Released(c)}
      \/ \E i \in keys : node' = TakenBy(node, i)
      \/ ref[c] \in keys \cup {NULL} /\ \E i \in keys : node' = TakenBy(Released(c), i)
  BY DEF SetXref, AddXref, RemoveXref, RemoveSub, Refuse, tableVars
<1>7. CASE node' \in {node, Released(c)}
  BY <1>1, <1>2, <1>4, <1>7
<1>8. CASE \E i \in keys : node' = TakenBy(node, i)
  <2>1. node \in [Key -> Node]
    BY DEF TypeOK
  <2>2. QED
    BY <1>1, <1>2, <1>5, <1>8, <2>1
<1>9. CASE ref[c] \in keys \cup {NULL} /\ \E i \in keys : node' = TakenBy(Released(c), i)
  <2>1. Released(c) \in [Key -> Node] /\ \A j \in keys : SoundNode(Released(c)[j], obj[j])
    BY <1>9, ReleasedType, ReleasedSound
  <2>2. QED
    BY <1>1, <1>2, <1>4, <1>5, <1>9, <2>1
<1>10. QED
  BY <1>6, <1>7, <1>8, <1>9

LEMMA AllDefinedStays ==
  ASSUME DefinedSuffices, TypeOK, TypesInv, AllDefined, [Next]_vars
  PROVE  AllDefined'
<1>1. CASE StartParse
  BY <1>1 DEF StartParse, AllDefined
<1>2. CASE EndParse
  <2>1. \A k \in keys : ~UsedNotDefined(node[k]) /\ SoundNode(node[k], obj[k])
    BY <1>2 DEF EndParse, DefinedSuffices, TypesInv, TypeOK
  <2>2. \A k \in keys : node[k].defined_type # NONE
    BY <2>1 DEF UsedNotDefined, SoundNode
  <2>3. QED
    BY <1>2, <2>2 DEF EndParse, AllDefined, tableVars
<1>3. ASSUME NEW k \in Key,
             (\E t \in RefType : ParseRecord(k, t)) \/ (\E f \in Field : ParseField(f, k))
      PROVE  AllDefined'
  BY <1>3 DEF ParseRecord, ParseField, AllDefined
<1>4. ASSUME NEW k \in Key, NEW t \in RefType, New(k, t)
      PROVE  AllDefined'
  <2>1. SetXrefFields(NewNode(t), "DEFINED", t).defined_type = t
    <3>1. NewNode(t) \in Node /\ NewNode(t).defined_type = NONE /\ NewNode(t).used_type = NONE
      BY NewNodeType DEF XrefType
    <3>2. Accepts(NewNode(t), t)
      BY <3>1 DEF Accepts, DefinedOtherwise, UsedOtherwise
    <3>3. QED
      BY <3>1, <3>2, SetXrefFieldsEffect DEF XrefType
  <2>2. QED
    BY <1>4, <2>1 DEF New, Refuse, AllDefined, TypeOK
<1>5. ASSUME NEW k \in Key, NEW t \in RefType, Delete(k, t)
      PROVE  AllDefined'
  <2>1. CASE Refuse
    BY <2>1 DEF Refuse, AllDefined
  <2>2. CASE ~Refuse
    <3>1. /\ phase = "model" /\ keys' = keys \ {k}
          /\ node' = [Unreferenced(k) EXCEPT ![k] = ClearNode]
      BY <1>5, <2>2 DEF Delete
    <3>2. \A j \in keys : Unreferenced(k)[j].defined_type = node[j].defined_type
      BY DEF Unreferenced, TypeOK, Node
    <3>3. \A j \in keys' : node'[j] = Unreferenced(k)[j]
      BY <3>1, UnreferencedType DEF TypeOK
    <3>4. QED
      BY <3>1, <3>2, <3>3 DEF AllDefined
  <2>3. QED
    BY <2>1, <2>2
<1>6. ASSUME NEW c \in Cell,
             \/ \E k \in Key \cup {NULL} : SetXref(c, k)
             \/ \E k \in Key : AddXref(c, k)
             \/ RemoveXref(c) \/ RemoveSub(c)
      PROVE  AllDefined'
  <2>1. phase = "model"
    BY <1>6 DEF SetXref, AddXref, RemoveXref, RemoveSub
  <2>2. QED
    BY <1>6, <2>1, DefinitionsStay DEF AllDefined
<1>7. CASE UNCHANGED vars
  BY <1>7 DEF vars, AllDefined
<1>8. QED
  BY <1>1, <1>2, <1>3, <1>4, <1>5, <1>6, <1>7
     DEF Next, FailToOpen, ParseAssociation, AbortParse, DefinedSuffices

LEMMA AllDefinedAlways ==
  ASSUME DefinedSuffices
  PROVE  Spec => [](StoreInv /\ AllDefined)
<1>1. Init => AllDefined
  BY DEF Init, AllDefined
<1>2. StoreInv /\ AllDefined /\ [Next]_vars => AllDefined'
  BY AllDefinedStays DEF StoreInv
<1>3. Spec => []StoreInv
  BY StoreIsSound DEF DefinedSuffices, CountsSuffice
<1>4. QED
  BY <1>1, <1>2, <1>3, PTL DEF Spec

\* In a model every reference leads to a record in memory of the type its key
\* tells, whatever the application has called, if the files were complete and
\* used their keys as they define them: gom_get_XXX_by_xref may cast, and a
\* field of a record is never left dangling.
THEOREM ReferencesAreSoundAlways ==
  ASSUME DefinedSuffices
  PROVE  Spec => []ReferencesAreSound
<1>1. StoreInv /\ AllDefined => ReferencesAreSound
  <2> SUFFICES ASSUME StoreInv, AllDefined
               PROVE  ReferencesAreSound
    OBVIOUS
  <2>1. ObjectTypesAreTrue /\ NeverCrashed
    BY DEF StoreInv, TypesInv, TypeOK, SoundNode, ObjectTypesAreTrue, NeverCrashed
  <2>2. ReferencesResolve
    BY DEF StoreInv, RefsInv, ReferencesInTable, AllDefined, ReferencesResolve
  <2>3. QED
    BY <2>1, <2>2 DEF ReferencesAreSound
<1>2. QED
  BY <1>1, AllDefinedAlways, PTL

CountsInv == \A k \in keys : Slack(k) = 0

\* The use count of a key is exactly the number of fields that refer to it, so
\* gom_delete_XXX refuses the records that are referenced and no others, as
\* long as files are well-formed (they may define a key as several types) and the
\* application removes no substructure with a reference (SUB_REMOVEFUNC gives
\* no use back).
THEOREM UsesAreCountedAlways ==
  ASSUME CountsAreExact
  PROVE  Spec => []UsesAreCounted
<1> DEFINE Inv == StoreInv /\ AllDefined
<1>1. Init => CountsInv
  BY DEF Init, CountsInv
<1>2. Inv /\ CountsInv /\ [Next]_vars => CountsInv'
  <2> SUFFICES ASSUME Inv, CountsInv, [Next]_vars, NEW k \in keys'
               PROVE  Slack(k)' = 0
    BY DEF CountsInv
  <2>1. KeepsPace(k)
    BY PaceIsKept DEF StoreInv, RefsInv, CountsAreExact, CountsSuffice
  <2>2. SlackBefore(k) = 0
    BY DEF SlackBefore, CountsInv
  <2>3. QED
    BY <2>1, <2>2 DEF KeepsPace
<1>3. StoreInv /\ CountsInv => UsesAreCounted
  <2> SUFFICES ASSUME StoreInv, CountsInv, NEW k \in keys
               PROVE  node[k].use_count = Cardinality(Referring(k))
    BY DEF UsesAreCounted
  <2>1. node[k].use_count \in Int /\ Cardinality(Referring(k)) \in Nat
    BY ReferringFinite DEF StoreInv, TypeOK, Node
  <2>2. QED
    BY <2>1 DEF CountsInv, Slack
<1>4. Spec => []Inv
  BY AllDefinedAlways DEF CountsAreExact, DefinedSuffices
<1> HIDE DEF Inv
<1>5. Inv => StoreInv
  BY DEF Inv
<1>6. QED
  BY <1>1, <1>2, <1>3, <1>4, <1>5, PTL DEF Spec
=============================================================================
