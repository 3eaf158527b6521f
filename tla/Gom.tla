-------------------------------- MODULE Gom ---------------------------------
(***************************************************************************)
(* The records of the object model and the references between them: the    *)
(* structs that gom/ keeps for the records of a file, the pointers that    *)
(* the cross-reference table holds to them, the pointers of their fields   *)
(* into the table, and the use counts that are to keep a record alive      *)
(* while it is referenced.                                                 *)
(*                                                                         *)
(* A field is a cell.  A "single" one is a struct xref_value* of a record  *)
(* (family.husband), a "list" one an entry of an xref_list                 *)
(* (family.children), a "sub" one is in an entry of a list of              *)
(* substructures (family_link.family, association.to).  A field whose link *)
(* type is ANY is the pointer of an association.                           *)
(***************************************************************************)
EXTENDS XrefNode, FiniteSets

CONSTANTS
  Key,
  NULL,
  Field,
  OwnerType,  \* Field -> the type of the records that have the field
  LinkType,   \* Field -> the type as which a file mentions its value
  Kind,       \* Field -> "single", "list" or "sub"
  Mishap,     \* what may happen besides well-formed files being loaded
  MaxUse      \* bound of the model: no use count exceeds it

MishapKind == {"mistyped",    \* a file uses a key as another type than before
               "confused",    \* a file defines a key as another type
               "repeated",    \* a file gives a single field twice
               "undefined",   \* a file leaves a used key undefined
               "aborted",     \* the grammar gives up on a file
               "unopenable",  \* a file cannot be opened
               "asso",        \* a file has associations
               "remove_sub",  \* the application calls gom_remove_XXX
               "unknown_key"} \* ... or gom_set_xref, for a reference that is
                              \* set, with a key that is not there

ASSUME GomAssumption ==
  /\ IsFiniteSet(Key) /\ IsFiniteSet(Field)
  /\ NULL \notin Key \cup XrefType
  /\ OwnerType \in [Field -> RefType]
  /\ LinkType \in [Field -> XrefType]
  /\ Kind \in [Field -> {"single", "list", "sub"}]
  /\ Mishap \subseteq MishapKind
  /\ MaxUse \in Nat

VARIABLES
  phase,    \* "null" (no table), "parsing", "model" or "crashed"
  keys,     \* the keys of the cross-reference table
  node,     \* their nodes
  obj,      \* Key -> the type of the struct xref.object points to, or NULL
  recs,     \* the record structs in memory, as pairs of key and type
  ref,      \* Cell -> the key of the xref_value it points to, or NULL
  cur,      \* the record being parsed, as key and type, or NULL
  outcome   \* of the last call: "ok" or "refused"

tableVars == <<keys, node, obj>>
vars == <<phase, keys, node, obj, recs, ref, cur, outcome>>

Cell == Key \X Field
Record == Key \X RefType
CellsOf(k) == {k} \X Field
Referring(k) == {c \in Cell : ref[c] = k}

TypeOK ==
  /\ phase \in {"null", "parsing", "model", "crashed"}
  /\ keys \in SUBSET Key
  /\ node \in [Key -> Node]
  /\ obj \in [Key -> RefType \cup {NULL}]
  /\ recs \in SUBSET Record
  /\ ref \in [Cell -> Key \cup {NULL}]
  /\ cur \in Record \cup {NULL}
  /\ outcome \in {"ok", "refused"}

NoReferences == [c \in Cell |-> NULL]

Init ==
  /\ phase = "null"
  /\ keys = {}
  /\ node = [k \in Key |-> ClearNode]
  /\ obj = [k \in Key |-> NULL]
  /\ recs = {}
  /\ ref = NoReferences
  /\ cur = NULL
  /\ outcome = "ok"

-----------------------------------------------------------------------------
(* Loading a file.                                                         *)

\* gom_cleanup: every record is freed, with its fields.
Cleanup ==
  /\ recs' = {}
  /\ ref' = NoReferences

\* gom_parse_file, until gedcom_parse starts on an empty table.
StartParse ==
  /\ phase \in {"null", "model"}
  /\ phase' = "parsing"
  /\ Cleanup
  /\ keys' = {}
  /\ node' = [k \in Key |-> ClearNode]
  /\ obj' = [k \in Key |-> NULL]
  /\ outcome' = "ok"
  /\ UNCHANGED cur

\* gom_parse_file on a file that gedcom_parse_file cannot open.
FailToOpen ==
  /\ "unopenable" \in Mishap
  /\ phase \in {"null", "model"}
  /\ Cleanup
  /\ outcome' = "refused"
  /\ UNCHANGED <<phase, tableVars, cur>>

\* gedcom_parse_xref
Mention(k, ctxt, t) ==
  /\ keys' = keys \cup {k}
  /\ node' = [node EXCEPT ![k] =
                SetXrefFields(IF k \in keys THEN @ ELSE NewNode(t), ctxt, t)]

\* Mutation: MAKEFUNC links a new record without it being remembered.
MakeRecordUnkept(k, t) ==
  IF obj[k] = NULL
  THEN /\ recs' = recs \cup {<<k, t>>}
       /\ UNCHANGED obj
  ELSE UNCHANGED <<obj, recs>>

\* "if (! xr->object) xr->object = MAKEFUNC(...)" of the callbacks.
MakeRecord(k, t) ==
  IF obj[k] = NULL
  THEN /\ obj' = [obj EXCEPT ![k] = t]
       /\ recs' = recs \cup {<<k, t>>}
  ELSE UNCHANGED <<obj, recs>>

\* A record starts (DEFINE_REC_CB): it takes over what a reference has made.
ParseRecord(k, t) ==
  /\ phase = "parsing"
  /\ obj[k] \in {NULL, t} \/ "confused" \in Mishap
  /\ Mention(k, "DEFINED", t)
  /\ MakeRecord(k, t)
  /\ cur' = <<k, t>>
  /\ outcome' = "ok"
  /\ UNCHANGED <<phase, ref>>

\* The cells of the current record that an element for field f can fill.  What
\* a field of the wrong struct overwrites is not modelled.
Fillable(f) ==
  {c \in Cell : /\ cur = <<c[1], OwnerType[f]>>
                /\ cur \in recs
                /\ c[2] = f
                /\ \/ ref[c] = NULL
                   \/ Kind[f] = "single" /\ "repeated" \in Mishap}

\* An element with a pointer starts (DEFINE_XREF_CB, DEFINE_XREF_LIST_CB and
\* the start callbacks of the substructures).
ParseField(f, k) ==
  /\ phase = "parsing"
  /\ LinkType[f] # ANY
  /\ node[k].use_count < MaxUse
  /\ obj[k] \in {NULL, LinkType[f]} \/ "mistyped" \in Mishap
  /\ \E c \in Fillable(f) : ref' = [ref EXCEPT ![c] = k]
  /\ Mention(k, "USED", LinkType[f])
  /\ MakeRecord(k, LinkType[f])
  /\ outcome' = "ok"
  /\ UNCHANGED <<phase, cur>>

\* An association with its TYPE (sub_assoc_start, sub_assoc_type_start): the
\* type goes to the shared xref_value, and no record is made.
ParseAssociation(f, k, t) ==
  /\ phase = "parsing"
  /\ "asso" \in Mishap
  /\ LinkType[f] = ANY
  /\ node[k].use_count < MaxUse
  /\ \E c \in Fillable(f) : ref' = [ref EXCEPT ![c] = k]
  /\ keys' = keys \cup {k}
  /\ node' = [node EXCEPT ![k] =
                [SetXrefFields(IF k \in keys THEN @ ELSE NewNode(ANY),
                               "USED", ANY) EXCEPT !.type = t]]
  /\ outcome' = "ok"
  /\ UNCHANGED <<phase, obj, recs, cur>>

\* check_xref_table finds every used key defined, or the file has undefined
\* keys: either way the model stays as it was read.
EndParse ==
  /\ phase = "parsing"
  /\ \/ \A k \in keys : ~UsedNotDefined(node[k])
     \/ "undefined" \in Mishap
  /\ phase' = "model"
  /\ cur' = NULL
  /\ outcome' = IF \E k \in keys : UsedNotDefined(node[k]) THEN "refused" ELSE "ok"
  /\ UNCHANGED <<tableVars, recs, ref>>

AbortParse ==
  /\ "aborted" \in Mishap
  /\ phase = "parsing"
  /\ phase' = "model"
  /\ cur' = NULL
  /\ outcome' = "refused"
  /\ UNCHANGED <<tableVars, recs, ref>>

-----------------------------------------------------------------------------
(* The calls of the application on a model.                                *)

Refuse ==
  /\ outcome' = "refused"
  /\ UNCHANGED <<phase, keys, node, obj, recs, ref, cur>>

\* gom_new_XXX
New(k, t) ==
  /\ phase = "model"
  /\ \/ /\ k \in keys
        /\ Refuse
     \/ /\ k \notin keys
        /\ keys' = keys \cup {k}
        /\ node' = [node EXCEPT ![k] = SetXrefFields(NewNode(t), "DEFINED", t)]
        /\ obj' = [obj EXCEPT ![k] = t]
        /\ recs' = recs \cup {<<k, t>>}
        /\ outcome' = "ok"
        /\ UNCHANGED <<phase, ref, cur>>

\* gedcom_unlink_xref succeeds for the public type of the key.
CanUnlink(k) == Unlinkable(node[k], node[k].type)

\* Mutation: the fields of a deleted record keep their uses.
UnreferencedNot(k) == node

\* UNREFALL: each cell of record k gives back its use of the key it refers to.
Unreferenced(k) ==
  [j \in Key |->
     IF CanUnlink(j)
     THEN [node[j] EXCEPT !.use_count =
             @ - Cardinality({c \in CellsOf(k) : ref[c] = j})]
     ELSE node[j]]

\* gom_delete_XXX on a record of the model.  What UNREFALL reads from an
\* xref_value that is gone is not modelled.
Delete(k, t) ==
  /\ phase = "model"
  /\ <<k, t>> \in recs
  /\ \/ /\ node[k].use_count # 0
        /\ Refuse
     \/ /\ node[k].use_count = 0
        /\ \A c \in CellsOf(k) : ref[c] \in (keys \ {k}) \cup {NULL}
        /\ keys' = keys \ {k}
        /\ node' = [Unreferenced(k) EXCEPT ![k] = ClearNode]
        /\ obj' = [obj EXCEPT ![k] = NULL]
        /\ recs' = recs \ {<<k, t>>}
        /\ ref' = [c \in Cell |-> IF c \in CellsOf(k) THEN NULL ELSE ref[c]]
        /\ outcome' = "ok"
        /\ UNCHANGED <<phase, cur>>

\* The cells that the application can reach through the records.
Reachable(kind) ==
  {c \in Cell : <<c[1], OwnerType[c[2]]>> \in recs /\ Kind[c[2]] \in kind}

\* gom_set_xref, in its three steps: release the old value, take the new one,
\* and restore the old one if the new one is refused.  A key that is not in
\* the table counts as no new value, after the error message: the caller gets
\* NULL, as for an error, but the reference is cleared.
Released(c) ==
  IF ref[c] = NULL THEN node
                   ELSE [node EXCEPT ![ref[c]] = Unlink(node[ref[c]])]

\* Mutation: the new value is used without being counted.
TakenUncounted(n, k) == n

TakenBy(n, k) == [n EXCEPT ![k] = SetXrefFields(n[k], "USED", n[k].type)]

SetXref(c, k) ==
  LET new == IF k \in keys THEN k ELSE NULL
      old == ref[c]
  IN  /\ phase = "model"
      /\ c \in Reachable({"single", "sub"})
      /\ old \in keys \cup {NULL}
      /\ k \in Key => node[k].use_count < MaxUse
      /\ \/ /\ \/ old # NULL /\ ~CanUnlink(old)
               \/ old = NULL /\ new = NULL
            /\ Refuse
         \/ /\ old # NULL => CanUnlink(old)
            /\ new # NULL
            /\ Accepts(Released(c)[new], node[new].type)
            /\ node' = TakenBy(Released(c), new)
            /\ ref' = [ref EXCEPT ![c] = new]
            /\ outcome' = "ok"
            /\ UNCHANGED <<phase, keys, obj, recs, cur>>
         \/ /\ old # NULL /\ CanUnlink(old)
            /\ new = NULL
            /\ k = NULL \/ "unknown_key" \in Mishap
            /\ node' = Released(c)
            /\ ref' = [ref EXCEPT ![c] = NULL]
            /\ outcome' = IF k = NULL THEN "ok" ELSE "refused"
            /\ UNCHANGED <<phase, keys, obj, recs, cur>>
         \/ /\ old # NULL /\ CanUnlink(old)
            /\ new # NULL
            /\ ~Accepts(Released(c)[new], node[new].type)
            /\ node' = TakenBy(Released(c), old)
            /\ outcome' = "refused"
            /\ UNCHANGED <<phase, keys, obj, recs, ref, cur>>
         \/ /\ old = NULL
            /\ new # NULL
            /\ ~Accepts(node[new], node[new].type)
            /\ phase' = "crashed"      \* the old value to restore is NULL
            /\ UNCHANGED <<keys, node, obj, recs, ref, cur, outcome>>

\* gom_add_xref
AddXref(c, k) ==
  /\ phase = "model"
  /\ c \in Reachable({"list"})
  /\ ref[c] = NULL
  /\ node[k].use_count < MaxUse
  /\ \/ /\ k \in keys
        /\ Accepts(node[k], node[k].type)
        /\ node' = TakenBy(node, k)
        /\ ref' = [ref EXCEPT ![c] = k]
        /\ outcome' = "ok"
        /\ UNCHANGED <<phase, keys, obj, recs, cur>>
     \/ /\ \/ k \notin keys
           \/ ~Accepts(node[k], node[k].type)
        /\ Refuse

\* gom_remove_xref: the result of gedcom_unlink_xref is not looked at.
RemoveXref(c) ==
  /\ phase = "model"
  /\ c \in Reachable({"list"})
  /\ ref[c] \in keys
  /\ node' = IF CanUnlink(ref[c]) THEN Released(c) ELSE node
  /\ ref' = [ref EXCEPT ![c] = NULL]
  /\ outcome' = "ok"
  /\ UNCHANGED <<phase, keys, obj, recs, cur>>

\* gom_remove_XXX (SUB_REMOVEFUNC): the substructure is freed, no more.
RemoveSub(c) ==
  /\ "remove_sub" \in Mishap
  /\ phase = "model"
  /\ c \in Reachable({"sub"})
  /\ ref[c] # NULL
  /\ ref' = [ref EXCEPT ![c] = NULL]
  /\ outcome' = "ok"
  /\ UNCHANGED <<phase, tableVars, recs, cur>>

-----------------------------------------------------------------------------
Next ==
  \/ StartParse
  \/ FailToOpen
  \/ \E k \in Key, t \in RefType : ParseRecord(k, t)
  \/ \E f \in Field, k \in Key : ParseField(f, k)
  \/ \E f \in Field, k \in Key, t \in XrefType : ParseAssociation(f, k, t)
  \/ EndParse
  \/ AbortParse
  \/ \E k \in Key, t \in RefType : New(k, t) \/ Delete(k, t)
  \/ \E c \in Cell, k \in Key : SetXref(c, k) \/ AddXref(c, k)
  \/ \E c \in Cell : SetXref(c, NULL) \/ RemoveXref(c) \/ RemoveSub(c)

Spec == Init /\ [][Next]_vars

-----------------------------------------------------------------------------
(* What the model promises.                                                *)

\* Every record struct in memory is the object of its key: the lists of
\* records and the cross-reference table never tell two stories.
RecordsAreListed ==
  \A r \in recs : r[1] \in keys /\ obj[r[1]] = r[2]

\* gom_get_XXX_by_xref casts an object by the public type of its key: that
\* must be the type it was made with.
ObjectTypesAreTrue ==
  \A k \in keys : obj[k] # NULL => node[k].type = obj[k]

\* The use count of a key is the number of fields that refer to it, so that
\* gom_delete_XXX refuses exactly the records that are still referenced.
UsesAreCounted ==
  \A k \in keys : node[k].use_count = Cardinality(Referring(k))

\* In a model, every reference leads to a record that was defined.
ReferencesResolve ==
  phase = "model" =>
    \A c \in Cell : ref[c] # NULL =>
      /\ ref[c] \in keys
      /\ node[ref[c]].defined_type # NONE
      /\ <<ref[c], obj[ref[c]]>> \in recs

\* While files and applications keep to the rules (no Mishap), the records are
\* a store in which a reference always leads to a record, only unreferenced
\* records are deleted, and a call that is refused changes no record and no
\* reference.  So gom_modify.c:191-194 says of gom_set_xref; for a key that is
\* not there the code does otherwise, which is the mishap "unknown_key".
Store == INSTANCE RecordStore
IsARecordStore == Store!Spec

\* The rollback of gom_set_xref is "guaranteed to work".
NeverCrashed == phase # "crashed"

\* What an application reaches through a reference is a record in memory of
\* the type that its key tells, and no call that follows one goes wrong.
ReferencesAreSound == ObjectTypesAreTrue /\ ReferencesResolve /\ NeverCrashed
=============================================================================
