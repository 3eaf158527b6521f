-------------------------------- MODULE Xref --------------------------------
(***************************************************************************)
(* The cross-reference table of gedcom/xref.c, as it is driven by          *)
(* gedcom_parse_file (multilex.c) and, between two parses, by an           *)
(* application that adds, links, unlinks and deletes cross-references.     *)
(*                                                                         *)
(* Every parse starts from an empty table (make_xref_table), mentions keys *)
(* in any order as DEFINED or USED (gedcom_parse_xref, whose callers in    *)
(* gedcom.y only look at a NULL result), and ends either in                *)
(* check_xref_table or, when the grammar gives up, without it.             *)
(***************************************************************************)
EXTENDS XrefNode, FiniteSets

CONSTANTS
  Key,       \* strings that is_valid_pointer accepts
  UseType,   \* the types under which a file or a caller mentions a key
  MaxUse     \* bound of the model: no use count leaves -MaxUse .. MaxUse

ASSUME XrefAssumption ==
  /\ UseType \subseteq XrefType
  /\ MaxUse \in Nat

VARIABLES
  phase,     \* "null" (no table yet), "parsing", then "checked" or "aborted"
  keys,      \* the keys in the hash table xrefs
  node,      \* the node of each key (ClearNode for a key not in the table)
  result,    \* what the last call told its caller: "ok" or "refused"
  errors,    \* keys that the last check_xref_table called undefined
  warnings,  \* keys that the last check_xref_table called unused
  defs,      \* history: the types each key was defined with in this file
  uses       \* history: the types each key was used with in this file

tableVars == <<keys, node>>
checkVars == <<errors, warnings>>
fileVars  == <<defs, uses>>
vars == <<phase, keys, node, result, errors, warnings, defs, uses>>

TypeOK ==
  /\ phase \in {"null", "parsing", "checked", "aborted"}
  /\ keys \in SUBSET Key
  /\ node \in [Key -> Node]
  /\ result \in {"ok", "refused"}
  /\ errors \in SUBSET Key
  /\ warnings \in SUBSET Key
  /\ defs \in [Key -> SUBSET XrefType]
  /\ uses \in [Key -> SUBSET XrefType]

Init ==
  /\ phase = "null"
  /\ keys = {}
  /\ node = [k \in Key |-> ClearNode]
  /\ result = "ok"
  /\ errors = {}
  /\ warnings = {}
  /\ defs = [k \in Key |-> {}]
  /\ uses = [k \in Key |-> {}]

-----------------------------------------------------------------------------
(* The parse.                                                              *)

\* Mutation: the table of the previous file stays.
KeepXrefTable == UNCHANGED tableVars

\* make_xref_table
MakeXrefTable ==
  /\ keys' = {}
  /\ node' = [k \in Key |-> ClearNode]

\* gedcom_parse_file up to the call of gedcom_parse.
StartParse ==
  /\ phase # "parsing"
  /\ phase' = "parsing"
  /\ MakeXrefTable
  /\ errors' = {}
  /\ warnings' = {}
  /\ defs' = [k \in Key |-> {}]
  /\ uses' = [k \in Key |-> {}]
  /\ UNCHANGED result

\* hash_lookup, or else add_xref.
FindOrAdd(k, t) == IF k \in keys THEN node[k] ELSE NewNode(t)

\* gedcom_parse_xref: the result of set_xref_fields is dropped, so that the
\* caller cannot tell a conflict from a success.
ParseXref(k, ctxt, t) ==
  /\ phase = "parsing"
  /\ keys' = keys \cup {k}
  /\ node' = [node EXCEPT ![k] = SetXrefFields(FindOrAdd(k, t), ctxt, t)]
  /\ node'[k].use_count <= MaxUse
  /\ defs' = [defs EXCEPT ![k] = IF ctxt = "DEFINED" THEN @ \cup {t} ELSE @]
  /\ uses' = [uses EXCEPT ![k] = IF ctxt = "USED" THEN @ \cup {t} ELSE @]
  /\ result' = "ok"
  /\ UNCHANGED <<phase, checkVars>>

\* check_xref_table, at the end of a parse without other errors.
EndParse ==
  /\ phase = "parsing"
  /\ phase' = "checked"
  /\ errors' = {k \in keys : UsedNotDefined(node[k])}
  /\ warnings' = {k \in keys : DefinedNotUsed(node[k])}
  /\ result' = IF errors' = {} THEN "ok" ELSE "refused"
  /\ UNCHANGED <<tableVars, fileVars>>

\* gedcom_parse returned nonzero: the table stays as far as it was filled.
AbortParse ==
  /\ phase = "parsing"
  /\ phase' = "aborted"
  /\ result' = "refused"
  /\ UNCHANGED <<tableVars, checkVars, fileVars>>

-----------------------------------------------------------------------------
(* The calls of the application.  They use the one-byte lexer to check the *)
(* key, which a running parse needs for itself: they come between parses.  *)

Callable == phase \in {"checked", "aborted"}

Refuse ==
  /\ result' = "refused"
  /\ UNCHANGED tableVars

Update(k, n) ==
  /\ result' = "ok"
  /\ node' = [node EXCEPT ![k] = n]
  /\ UNCHANGED keys

\* gedcom_add_xref
AddXref(t, k) ==
  /\ Callable
  /\ \/ /\ k \in keys
        /\ Refuse
     \/ /\ k \notin keys
        /\ keys' = keys \cup {k}
        /\ node' = [node EXCEPT ![k] = SetXrefFields(NewNode(t), "DEFINED", t)]
        /\ result' = "ok"
  /\ UNCHANGED <<phase, checkVars, fileVars>>

\* gedcom_link_xref
LinkXref(t, k) ==
  /\ Callable
  /\ \/ /\ k \in keys
        /\ Accepts(node[k], t)
        /\ node[k].use_count < MaxUse
        /\ Update(k, SetXrefFields(node[k], "USED", t))
     \/ /\ \/ k \notin keys
           \/ ~Accepts(node[k], t)
        /\ Refuse
  /\ UNCHANGED <<phase, checkVars, fileVars>>

\* gedcom_unlink_xref: nothing keeps the count from going below zero.
UnlinkXref(t, k) ==
  /\ Callable
  /\ \/ /\ k \in keys
        /\ Unlinkable(node[k], t)
        /\ node[k].use_count > -MaxUse
        /\ Update(k, Unlink(node[k]))
     \/ /\ \/ k \notin keys
           \/ ~Unlinkable(node[k], t)
        /\ Refuse
  /\ UNCHANGED <<phase, checkVars, fileVars>>

\* gedcom_delete_xref
DeleteXref(k) ==
  /\ Callable
  /\ \/ /\ k \in keys
        /\ node[k].use_count = 0
        /\ keys' = keys \ {k}
        /\ node' = [node EXCEPT ![k] = ClearNode]
        /\ result' = "ok"
     \/ /\ \/ k \notin keys
           \/ node[k].use_count # 0
        /\ Refuse
  /\ UNCHANGED <<phase, checkVars, fileVars>>

-----------------------------------------------------------------------------
Next ==
  \/ StartParse
  \/ \E k \in Key : \/ \E t \in UseType \ {ANY} : ParseXref(k, "DEFINED", t)
                    \/ \E t \in UseType : ParseXref(k, "USED", t)
  \/ EndParse
  \/ AbortParse
  \/ \E k \in Key, t \in UseType : \/ AddXref(t, k)
                                   \/ LinkXref(t, k)
                                   \/ UnlinkXref(t, k)
  \/ \E k \in Key : DeleteXref(k)

Spec == Init /\ [][Next]_vars

-----------------------------------------------------------------------------
(* What the table promises.                                                *)

\* The definition and the uses that a node has accepted never disagree, in
\* whatever order the file and the application brought them, unless the
\* definition left the type open (set_xref_fields).
TypesAgree ==
  \A k \in keys :
    LET n == node[k]
    IN  n.defined_type # NONE /\ n.used_type # NONE /\ n.defined_type # ANY
          => n.used_type = n.defined_type

\* The public type of a cross-reference, set once by its first mention, is
\* the type it was defined with, and before that the type it is used with:
\* gom_get_XXX_by_xref and gom_set_xref trust it instead of defined_type.
PublicTypeIsTrue ==
  \A k \in keys :
    LET n == node[k]
    IN  IF n.defined_type # NONE THEN n.type = n.defined_type
                                 ELSE n.type = n.used_type

\* A positive use count is backed by a recorded use: check_xref_table looks
\* at used_type only, and would otherwise call a counted key unused.
CountedIsUsed ==
  \A k \in keys : node[k].use_count > 0 => node[k].used_type # NONE

\* gedcom_parse_file, "An xref was used, but not defined (error)": every key
\* that this file uses and does not define is reported, whatever an earlier
\* file or the application had in the table.
UndefinedIsReported ==
  phase = "checked" =>
    \A k \in Key : uses[k] # {} /\ defs[k] = {} => k \in errors

\* gedcom_parse_file, "An xref was defined, but not used (warning)".
UnusedIsReported ==
  phase = "checked" =>
    \A k \in Key : defs[k] # {} /\ uses[k] = {} => k \in warnings

\* A use that no definition of the file satisfies; an open type (an ASSO
\* pointer) is satisfied by a definition of any type.
Unsatisfied(k, u) == u \notin defs[k] /\ (u = ANY => defs[k] = {})

\* A key is reported as undefined only if some use of it is unsatisfied: the
\* parser must not reject a file whose cross-references are all in order,
\* wherever in the file the definitions are.  So for the keys that no
\* association refers to; an open use before the definition is a conflict.
NoFalseAlarmOfKnownTypes ==
  phase = "checked" =>
    \A k \in errors : \/ ANY \in uses[k]
                      \/ \E u \in uses[k] : Unsatisfied(k, u)

\* What a node says of its key fits together, after any mix of mentions in
\* files and of calls.
NodesAreConsistent == TypesAgree /\ PublicTypeIsTrue /\ CountedIsUsed

\* The report of check_xref_table on a file says what is wrong with the keys
\* of that file.
ReportsAreRight == UndefinedIsReported /\ UnusedIsReported /\ NoFalseAlarmOfKnownTypes
=============================================================================
