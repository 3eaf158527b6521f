----------------------------- MODULE RoundTrip ------------------------------
(***************************************************************************)
(* One record on its way through the library: the lines that the grammar   *)
(* allows are read into the object model (gedcom.y, the start and end      *)
(* callbacks of gom/*.c), and the record is written again (gom_write_file, *)
(* write.c).  Lines have numbers instead of values; a struct of the object *)
(* model has the number of the line that it was made for.                  *)
(*                                                                         *)
(* Instead of being written, the record may be taken apart: the            *)
(* application removes a substructure, and deletes the record, or the      *)
(* whole model is cleaned (at exit, or before another file is read).       *)
(***************************************************************************)
EXTENDS Ownership, Bags, FiniteSets, SequencesExt

CONSTANTS Records,  \* the kinds of record
          MaxLines, \* lines of a record,
          MaxWide,  \* of which so many are just below its first
          Deep,     \* of these sections a record may have more:
          MaxDeep

ASSUME BoundsAssumption == {MaxLines, MaxWide, MaxDeep} \subseteq Nat
ASSUME RecordsAssumption == Records \subseteq Record

VARIABLES
  phase,      \* "read", "write", "done"; "edited", "deleted", "cleared", "gone"
  lines,      \* the lines read: [sect, up: the line above, level]
  open,       \* the open sections, from the record on
  struct,     \* the Gom_ctxt of each line: [type, of]
  held,       \* lines whose value the object model holds
  concat_buffer, \* lines whose values are in gedcom.y's concat_buffer
  text,       \* for each ended section: the lines in its concatenated value
  aborted,    \* safe_ctxt_cast has aborted the program
  todo,       \* lines still to write
  handle,     \* Gedcom_write_hndl
  out,        \* lines written: [line, level]
  linked,     \* lines that the model still leads to
  removed,    \* lines of the substructures that were removed from their list
  stale,      \* lines whose memory is freed, with a pointer to it left
  freed,      \* how often each piece of memory was freed: <<line, member>>
  given       \* how often each use of a key was given back: <<line, member>>

record == <<lines, open, struct, held, concat_buffer, text, aborted>>
writing == <<todo, handle, out>>
memory == <<linked, removed, stale, freed, given>>
vars == <<phase, record, writing, memory>>

Line == DOMAIN lines
Sect(l) == lines[l].sect
Children(l) == {c \in Line : lines[c].up = l}
Whole(l) == {d \in Line : d >= l /\ \A m \in (l + 1)..d : lines[m].level > lines[l].level}
OwnsStruct(l) == struct[l].of = l
Owner(l) == struct[lines[l].up].of \* the struct that gets the value of line l

Init ==
  /\ phase = "read" /\ lines = <<>> /\ open = <<>> /\ struct = <<>> /\ held = {}
  /\ concat_buffer = <<>> /\ text = <<>> /\ aborted = FALSE
  /\ todo = <<>> /\ handle = NewHandle /\ out = <<>>
  /\ linked = {} /\ removed = {} /\ stale = {} /\ freed = EmptyBag /\ given = EmptyBag

Room(p, s) ==
  \/ Len(lines) < MaxLines /\ (p = 1 => Cardinality(Children(p)) < MaxWide)
  \/ Len(lines) < MaxDeep /\ {Sect(l) : l \in Line \ {1}} \cup {s} \subseteq Deep

(***************************************************************************)
(* Reading.  Sections that end get the content of the buffer, whoever put  *)
(* it there; sections that start reset it or append to it.                 *)
(***************************************************************************)
Ended(closing) == [l \in {k \in closing : Sect(k) \in Concatenated} |-> concat_buffer]

\* (Variant: with the value of the line looked ahead to.)
BufferOfNextLine(s, l) == IF s \in Concatenated THEN <<l + 1>>
                          ELSE IF s \in Continues THEN Append(concat_buffer, l + 1)
                          ELSE concat_buffer
BufferAfter(s, l) == IF s \in Concatenated THEN <<l>>
                     ELSE IF s \in Continues THEN Append(concat_buffer, l)
                     ELSE concat_buffer

ReadRecord(r) ==
  /\ phase = "read" /\ lines = <<>>
  /\ lines' = <<[sect |-> r, up |-> 0, level |-> 0]>>
  /\ open' = <<1>>
  /\ struct' = <<[type |-> RecordStruct[r], of |-> 1]>>
  /\ held' = {1}
  /\ concat_buffer' = BufferAfter(r, 1)
  /\ UNCHANGED <<phase, text, aborted, writing, memory>>

\* What a new value of section s below line p replaces: the last one of the
\* same field of the same struct.
Replaced(s, p) ==
  IF s \in ListFields \/ ~(s \in DOMAIN StructOfField \/ s \in SingleAdded) THEN {}
  ELSE UNION {IF OwnsStruct(l) THEN Whole(l) ELSE {l} :
                l \in {k \in held \ {1} : Sect(k) = s /\ Owner(k) = struct[p].of
                                          /\ Sect(lines[k].up) = Sect(p)}}

\* A line below the open section number k ends the sections inside it.
ReadLine(k, s) ==
  LET p == open[k]
      l == Len(lines) + 1
      subs == Subs[Sect(p)]
      closing == {open[i] : i \in (k + 1)..Len(open)}
      cast == Cast(s, Elt(Sect(p)), struct[p].type)
  IN /\ phase = "read" /\ ~aborted /\ Room(p, s)
     /\ s \in DOMAIN subs
     /\ Cardinality({c \in Children(p) : Sect(c) = s}) < subs[s]
     /\ Cardinality(Children(p)) < MaxSubs(Sect(p))
     /\ lines' = Append(lines, [sect |-> s, up |-> p, level |-> lines[p].level + 1])
     /\ open' = Append(SubSeq(open, 1, k), l)
     /\ struct' = Append(struct, IF s \in DOMAIN NewStruct THEN [type |-> NewStruct[s], of |-> l]
                                 ELSE struct[p])
     /\ aborted' = (cast \notin {"none", struct[p].type})
     /\ held' = IF cast = struct[p].type /\ struct[p].of \in held
                THEN (held \ Replaced(s, p)) \cup {l} ELSE held
     /\ text' = Ended(closing) @@ text
     /\ concat_buffer' = BufferAfter(s, l)
     /\ UNCHANGED <<phase, writing, memory>>

EndRecord ==
  /\ phase = "read" /\ lines # <<>> /\ ~aborted
  /\ phase' = "write"
  /\ open' = <<>>
  /\ text' = Ended(Range(open)) @@ text
  /\ todo' = <<1>>
  /\ linked' = held
  /\ UNCHANGED <<lines, struct, held, concat_buffer, aborted, handle, out>>
  /\ UNCHANGED <<removed, stale, freed, given>>

(***************************************************************************)
(* Writing.                                                                *)
(***************************************************************************)
InOrder(S) == SetToSortSeq(S, <)

UserData(l) == InOrder({u \in held : Sect(u) = "USER" /\ Owner(u) = l})
Below(l) ==
  FlattenSeq([i \in DOMAIN Order(Sect(l)) |->
                InOrder({c \in Children(l) \cap held : Sect(c) \in Order(Sect(l))[i]})])
ToWriteAfter(l) ==
  IF Sect(l) = "USER" \/ ~WritesUserData(Sect(l)) THEN <<>>
  ELSE Below(l) \o (IF OwnsStruct(l) THEN UserData(l) ELSE <<>>)

\* The elements that line l may be written as, whatever its tag was.
EltsOf(s, up) ==
  CASE s \in DOMAIN EltsByTag -> EltsByTag[s]
    [] s \in {"SUB_INDIV_BIRT_FAMC", "SUB_INDIV_ADOP_FAMC"} ->
         {get_gedcom_fam_elt(e) : e \in EltsByTag[up]}
    [] OTHER -> {Elt(s)}
WrittenAs(l) == EltsOf(Sect(l), IF l = 1 THEN "none" ELSE Sect(lines[l].up))

\* The parent that the write_* functions name for line l: that of TYPE and
\* RELA is the parent of the association.
NamedParents(l) ==
  IF l = 1 THEN {"none"}
  ELSE IF Sect(l) \in {"SUB_ASSO_TYPE", "SUB_ASSO_RELA"} THEN {"REC_INDI"}
  ELSE WrittenAs(lines[l].up)

Hollow(l) == Sect(l) \in OnlyForItsContent /\ Below(l) = <<>>

\* User data keep the level they were read at, and do not touch the handle.
WriteUser(l) ==
  /\ out' = Append(out, [line |-> l, level |-> lines[l].level])
  /\ UNCHANGED handle

WriteElement(l) ==
  \E elt \in WrittenAs(l), parent \in NamedParents(l), type \in PassedTypes(Sect(l)) :
    IF CheckType(elt, type)
    THEN LET h == GetLevel(handle, elt, parent)
             found == l = 1 \/ FoundParent(handle, parent) # -1
         IN /\ handle' = h
            /\ out' = IF found THEN Append(out, [line |-> l, level |-> h.ctxt_level]) ELSE out
    ELSE UNCHANGED <<handle, out>>

WriteLine ==
  /\ phase = "write" /\ todo # <<>>
  /\ LET l == Head(todo)
     IN /\ IF Sect(l) \in {"USER", "REC_USER"} THEN WriteUser(l)
           ELSE IF Hollow(l) THEN UNCHANGED <<handle, out>>
           ELSE WriteElement(l)
        /\ todo' = ToWriteAfter(l) \o Tail(todo)
  /\ UNCHANGED <<phase, record, memory>>

EndWriting ==
  /\ phase = "write" /\ todo = <<>>
  /\ phase' = "done"
  /\ UNCHANGED <<record, writing, memory>>

(***************************************************************************)
(* Taking the record apart.  A line is a node if there is a struct for it, *)
(* and its value is in the struct; other values are in a member of the     *)
(* owner's struct.                                                         *)
(***************************************************************************)
NodeOf(l) == Node(Sect(l))
IsNode(l) == NodeOf(l) # "none"
SlotsOf(l) == Slots(struct[lines[l].up].type, Sect(l), Elt(Sect(lines[l].up)))
Holder(l) == IF IsNode(l) THEN l ELSE Owner(l)
HolderType(l) == IF IsNode(l) THEN NodeOf(l) ELSE struct[lines[l].up].type
Values(l) == IF IsNode(l) THEN {m \in DOMAIN Members[NodeOf(l)] : Sect(l) \in Members[NodeOf(l)][m]}
             ELSE IF l = 1 THEN {} ELSE SlotsOf(l)
Part(n) == LET in[l \in Line] == l = n \/ (l # 1 /\ in[Owner(l)])
           IN {l \in linked : in[l]}

\* The nodes that a walk from node n comes to, and the members it handles, if
\* a struct of type t makes it handle the members table[t].
Reached(table, n) ==
  LET in[l \in Line] ==
        \/ l = n
        \/ l # 1 /\ IsNode(l) /\ in[Owner(l)] /\ SlotsOf(l) \cap table[struct[lines[l].up].type] # {}
  IN {l \in linked : in[l]}
Handled(table, n) ==
  LET nodes == Reached(table, n)
  IN UNION {{l} \X (Values(l) \cap table[HolderType(l)]) : l \in {k \in linked : Holder(k) \in nodes}}

Frees(n) == Handled(Clean, n) \cup (Reached(Clean, n) \ {1}) \X {"struct"}
Uses(n) == Handled(Unref, n)
Untouched == todo = <<1>> /\ out = <<>>

\* gom_remove_XXX for a substructure in a list, gom_remove_xref for a key.
RemoveSub(l) ==
  /\ phase = "write" /\ Untouched
  /\ l \in linked \ {1} /\ IsNode(l) /\ NodeOf(l) \notin SingleStructs
  /\ phase' = "edited"
  /\ freed' = freed (+) SetToBag(Frees(l))
  /\ given' = IF NodeOf(l) = "xref_list" THEN given (+) SetToBag({<<l, "xref">>}) ELSE given
  /\ linked' = linked \ Part(l)
  /\ removed' = Part(l)
  /\ UNCHANGED <<record, writing, stale>>

\* gom_delete_address and the like: CLEANFUNC frees the struct, and the
\* function that called it frees it again.
DeleteSub(l) ==
  /\ phase = "write" /\ Untouched
  /\ l \in linked /\ NodeOf(l) \in SingleStructs
  /\ phase' = "edited"
  /\ given' = given (+) SetToBag(Uses(l))
  /\ freed' = freed (+) SetToBag(Frees(l)) (+) SetToBag({<<l, "struct">>})
  /\ linked' = linked \ Part(l)
  /\ UNCHANGED <<record, writing, removed, stale>>

\* gom_delete_XXX for a record that nothing refers to.
DeleteRecord ==
  /\ phase \in {"write", "edited"} /\ Untouched
  /\ Sect(1) # "REC_HEAD"
  /\ phase' = "deleted"
  /\ given' = given (+) SetToBag(Uses(1))
  /\ freed' = freed (+) SetToBag(Frees(1) \cup {<<1, "struct">>})
  /\ linked' = {}
  /\ UNCHANGED <<record, writing, removed, stale>>

\* gom_cleanup.  The header is not allocated, and some of its pointers stay.
Cleanup ==
  /\ phase \in {"write", "edited"} /\ Untouched
  /\ phase' = "cleared"
  /\ freed' = freed (+) SetToBag(Frees(1) \cup (IF Sect(1) = "REC_HEAD" THEN {} ELSE {<<1, "struct">>}))
  /\ linked' = {}
  /\ stale' = IF Sect(1) # "REC_HEAD" THEN {}
              ELSE {l \in linked \ {1} : SlotsOf(l) \cap KeptByHeader # {}}
  /\ UNCHANGED <<record, writing, removed, given>>

CleanupAgain ==
  /\ phase = "cleared"
  /\ phase' = "gone"
  /\ freed' = freed (+) SetToBag({l \in stale : SlotsOf(l) \cap HeaderClean # {}} \X {"struct"})
  /\ UNCHANGED <<record, writing, linked, removed, stale, given>>

Next ==
  \/ \E r \in Records : ReadRecord(r)
  \/ \E k \in DOMAIN open : \E s \in DOMAIN Subs[Sect(open[k])] : ReadLine(k, s)
  \/ EndRecord
  \/ WriteLine
  \/ EndWriting
  \/ \E l \in Line : RemoveSub(l) \/ DeleteSub(l)
  \/ DeleteRecord
  \/ Cleanup
  \/ CleanupAgain

Spec == Init /\ [][Next]_vars

-----------------------------------------------------------------------------
\* Every variable keeps its type.
TypeOK ==
  /\ phase \in {"read", "write", "done", "edited", "deleted", "cleared", "gone"}
  /\ lines \in Seq([sect : Section, up : 0..MaxDeep, level : 0..9])
  /\ open \in Seq(Line) /\ held \subseteq Line /\ DOMAIN struct = Line
  /\ \A l \in Line : struct[l].of \in Line
  /\ concat_buffer \in Seq(Line) /\ DOMAIN text \subseteq Line
  /\ todo \in Seq(Line) /\ handle.ctxt_level \in -1..9
  /\ \A j \in DOMAIN out : out[j].line \in Line /\ out[j].level \in 0..9
  /\ linked \subseteq held /\ removed \subseteq held /\ stale \subseteq held
  /\ DOMAIN freed \subseteq Line \X (AllMembers \cup {"struct"})
  /\ DOMAIN given \subseteq Line \X KeyMembers

(***************************************************************************)
(* Reading.                                                                *)
(***************************************************************************)
\* Lines that the object model gives up: a field of the model with room for
\* one value where the grammar allows several, ...
OnePlaceForMany == {"INDI_AFN", "SUB_PLAC"}
GivenUp(l) == \E k, j \in Line : /\ Sect(k) \in OnePlaceForMany /\ l \in Whole(k)
                                 /\ k < j /\ Sect(j) = Sect(k) /\ lines[j].up = lines[k].up
\* ... and callbacks that do not know a parent that the grammar allows.
NotExpected(l) ==
  \/ Sect(l) = "SUB_PHON" /\ Sect(lines[l].up) = "SUB_FAM_EVT_EVEN"
  \/ Sect(l) = "USER" /\ struct[l].type \in {"text", "pedigree"}

\* Every section that is open can still get the sub-sections that the rule
\* asks for at its end (CHECK): only ASSO cannot, which needs two and gets one.
SectionsCanBeCompleted ==
  \A i \in DOMAIN open :
    LET s == Sect(open[i])
        missing == Mandatory(s) \ {Sect(c) : c \in Children(open[i])}
    IN \/ s = "SUB_ASSO"
       \/ Cardinality(Children(open[i])) + Cardinality(missing) <= MaxSubs(s)

\* No line that the grammar accepts is lost on its way to the object model: the
\* callback of each section knows each parent that gedcom.y gives it and the
\* struct of that parent, and no later line replaces its value; with two
\* exceptions.
EveryLineIsHeld ==
  /\ ~aborted
  /\ \A l \in Line : l \in held \/ GivenUp(l) \/ NotExpected(l)
  /\ SectionsCanBeCompleted

\* The text of a section is its own value and that of its continuation lines,
\* unless another section with a text is inside it: both use the one
\* concat_buffer of the parser.
TextIsOwn ==
  \A l \in DOMAIN text :
    (\A d \in Whole(l) \ {l} : Sect(d) \notin Concatenated) =>
      text[l] = <<l>> \o InOrder({c \in Children(l) : Sect(c) \in Continues})

\* What the grammar accepts is in the model afterwards: every line, in the
\* struct that it belongs to, and with its own text.
RecordIsRead == EveryLineIsHeld /\ TextIsOwn

(***************************************************************************)
(* Writing.                                                                *)
(***************************************************************************)
Written(l) == \E j \in DOMAIN out : out[j].line = l

\* Continuation lines are written as part of the value they continue.
InText(l) == Sect(l) \in Continues

\* Lines of the model that are never written: the data of a multimedia record
\* (the library's own type table forbids the value), a line without content,
\* and the user data of a link to a multimedia record.
NeverWritten(l) ==
  \/ Sect(l) = "OBJE_BLOB"
  \/ Hollow(l)
  \/ Sect(l) = "USER" /\ Sect(struct[l].of) = "SUB_MULTIM_OBJE_LINK"

\* Every other line of the model is in the written file, and no line is in it
\* twice: the write_* functions go through every field that a callback sets.
EveryHeldLineIsWritten ==
  /\ \A i, j \in DOMAIN out : i # j => out[i].line # out[j].line
  /\ phase = "done" => \A l \in held : InText(l) \/ NeverWritten(l) \/ Written(l)

\* The line that line j of the written file is below, for a reader; 0 if the
\* reader refuses it: the level goes up by more than one.
ReadBelow(j) ==
  LET above == {i \in 1..(j - 1) : out[i].level < out[j].level}
      i == CHOOSE i \in above : \A k \in above : k <= i
  IN IF above # {} /\ out[i].level = out[j].level - 1 THEN out[i].line ELSE 0

\* Between line l and its parent there is another open line of the same
\* element: get_level takes the nearest.
NearerNamesake(l) ==
  LET p == lines[l].up
  IN \E m \in Whole(p) \ {p} : Elt(Sect(m)) = Elt(Sect(p))
MisNamedParent(l) == Sect(l) \in {"SUB_ASSO_TYPE", "SUB_ASSO_RELA"}

\* User lines below a line that only sets a field come after all lines of the
\* struct, at the level they had.
UserOfField(l) == LET p == lines[l].up
                  IN Sect(l) = "USER" /\ Sect(p) # "USER" /\ ~OwnsStruct(p)

\* A reader finds a written line below the same line as in the file it came
\* from; except for TYPE and RELA of an association, notes in citations in
\* notes (and the reverse), and the user lines of fields.
WrittenInPlace ==
  \A j \in DOMAIN out :
    LET l == out[j].line
    IN \/ l = 1
       \/ ReadBelow(j) = lines[l].up
       \/ MisNamedParent(l) \/ NearerNamesake(l) \/ UserOfField(l)

\* What was read is written: all of it, once, and below the right lines.
RecordIsWritten == EveryHeldLineIsWritten /\ WrittenInPlace

(***************************************************************************)
(* Taking apart.                                                           *)
(***************************************************************************)
Lost(l) == GivenUp(l) \/ NotExpected(l)

\* Memory of the model is freed once, by whatever takes the record apart: the
\* CLEANFUNCs go through every member that a callback fills, and a struct is
\* freed by its own function or by its owner's.  Except that the application
\* cannot delete an address, a place or a change date without freeing it
\* twice, that a second clean-up frees the address in the header again, and
\* that lines which the model has lost are never freed.
MemoryIsGivenBack ==
  /\ \A p \in DOMAIN freed :
       \/ freed[p] = 1
       \/ /\ freed[p] = 2 /\ p[2] = "struct" /\ NodeOf(p[1]) \in SingleStructs
          /\ IF p[1] \in stale THEN phase = "gone" ELSE p[1] \notin removed
  /\ phase \in {"deleted", "cleared", "gone"} =>
       \A l \in Line : Lost(l) \/
         /\ \A m \in Values(l) \ KeyMembers : <<l, m>> \in DOMAIN freed
         /\ IsNode(l) /\ Sect(l) # "REC_HEAD" => <<l, "struct">> \in DOMAIN freed

\* When a record is deleted each use of a key in it is given back, once; but
\* gom_remove_XXX forgets the uses in the substructures that it removes, so
\* that the records they name can never be deleted.
UsesAreGivenBack ==
  /\ \A p \in DOMAIN given : given[p] = 1 /\ (p[1] \in removed => p[2] = "xref")
  /\ phase = "deleted" =>
       \A l \in held \ removed : \A m \in Values(l) \cap KeyMembers : <<l, m>> \in DOMAIN given
=============================================================================
