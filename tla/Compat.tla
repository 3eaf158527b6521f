------------------------------- MODULE Compat -------------------------------
(***************************************************************************)
(* The compatibility mode (gedcom/compat.c) over a session of files: what  *)
(* a header says of the program that wrote the file selects the rules that *)
(* are bent, and some rules make the library generate elements and records *)
(* that the file does not have, from contexts and counters it has saved.   *)
(***************************************************************************)
EXTENDS Integers, Sequences, FiniteSets

CONSTANTS Versions,   \* the numbers that a version string can stand for
          MaxFiles, MaxRecords, MaxSections \* bounds: files, records, sections of a record

ASSUME CompatAssumption ==
  Versions \subseteq Nat /\ {MaxFiles, MaxRecords, MaxSections} \subseteq Nat

VARIABLES
  compat_enabled, \* gedcom_set_compat_handling
  compat_options, \* COMPAT_ALLOW_OUT_OF_CONTEXT
  compatibility_program, compatibility_version, compatibility,
  compat_state,   \* per rule: a counter or a saved context
  at,             \* where the parser is
  file,           \* the file: its number, what its header has, generated keys,
                  \* records and sections, the last submitter record; generated
                  \* links to a family in the first individual that has one, and
                  \* individuals ended since then, this one included (history)
  made            \* the elements that the last step generated

vars == <<compat_enabled, compat_options, compatibility_program, compatibility_version,
          compatibility, compat_state, at, file, made>>

None == "none"
NoVersion == -1
NULL == <<>>
Programs == {"ftree", "LIFELINES", "PAF", "FamilyOrigins", "EasyTree"}

compat_matrix ==
  [NO_SUBMITTER |-> {"FTREE", "LIFELINES", "PAF2", "EASYTREE"}, INDI_ADDR |-> {"FTREE"},
   NO_GEDC |-> {"LIFELINES", "PAF2"}, NO_CHAR |-> {"LIFELINES"}, HEAD_TIME |-> {"LIFELINES"},
   TAGS_551 |-> {"PAF5"}, NO_SLGC_FAMC |-> {"PAF5"}, SUBM_COMM |-> {"PAF2"},
   NO_GEDC_FORM |-> {"EASYTREE"}, SUBM_CTRY |-> {"PAF4"}, NONSTD_SOUR_TAGS |-> {"EASYTREE"},
   NO_REQUIRED_VALUES |-> {"LIFELINES", "PAF5", "EASYTREE"}]
compat_mode(rule) == compatibility \in compat_matrix[rule]

default_compat == [ftree |-> "FTREE", LIFELINES |-> "LIFELINES", FamilyOrigins |-> "FAMORIG",
                   EasyTree |-> "EASYTREE"]
PafCompat(v) == CASE v \in 20000..29999 -> "PAF2"
                  [] v \in 40000..49999 -> "PAF4"
                  [] v >= 50000 -> "PAF5"
                  [] OTHER -> None

NoState == [NO_SUBMITTER |-> 0, HEAD_TIME |-> NULL, SUBM_CTRY |-> NULL, NO_SLGC_FAMC |-> 0,
            SUBM_COMM |-> 0]
NewFile(n) == [number |-> n, program |-> None, version |-> NoVersion, sour |-> FALSE,
               has |-> {}, used |-> {}, defined |-> [k \in {"SUBM", "FAM"} |-> 0],
               records |-> 0, sections |-> 0, submitter |-> 0, links |-> 0, since |-> 0]

\* A context: the file and record it is in, and its element.
Context(elt) == <<file.number, file.records, elt>>
Element(elt, parent) == [elt |-> elt, parent |-> parent]

Defined(f, key) == [f EXCEPT !.defined[key] = @ + 1]
Section == file.sections < MaxSections /\ file' = [file EXCEPT !.sections = @ + 1]

-----------------------------------------------------------------------------
\* The program's settings never change between files.
Init ==
  /\ compat_enabled \in BOOLEAN /\ compat_options \in BOOLEAN
  /\ compatibility_program = None /\ compatibility_version = 0 /\ compatibility = None
  /\ compat_state = NoState
  /\ at = "between" /\ file = NewFile(0) /\ made = {}

Settings == <<compat_enabled, compat_options>>
Mode == <<compatibility_program, compatibility_version, compatibility>>
Quiet == UNCHANGED <<Settings, Mode, compat_state>> /\ made' = {}

StartFile ==
  /\ at = "between" /\ file.number < MaxFiles
  /\ at' = "HEAD" /\ file' = NewFile(file.number + 1)
  /\ Quiet

\* (Variant: another program's name does not forget the program.)
KeepProgram(p) == IF p \in Programs THEN p ELSE compatibility_program
ProgramOf(p) == IF p \in Programs THEN p ELSE None

\* HEAD.SOUR: a version may follow the name in "LIFELINES" and "PAF".
set_compatibility_program(p, v) ==
  /\ at = "HEAD" /\ ~file.sour /\ (v # NoVersion => p \in {"LIFELINES", "PAF"})
  /\ compatibility_program' = IF compat_enabled THEN ProgramOf(p) ELSE None
  /\ compatibility_version' = IF compat_enabled /\ v # NoVersion THEN v ELSE compatibility_version
  /\ at' = "HEAD.SOUR"
  /\ file' = [file EXCEPT !.program = p, !.version = v]
  /\ made' = {}
  /\ UNCHANGED <<Settings, compatibility, compat_state>>

\* HEAD.SOUR.VERS
set_compatibility_version(v) ==
  /\ at = "HEAD.SOUR"
  /\ compatibility_version' = IF compat_enabled THEN v ELSE compatibility_version
  /\ file' = [file EXCEPT !.version = v]
  /\ made' = {}
  /\ UNCHANGED <<Settings, compatibility_program, compatibility, compat_state, at>>

ResetState(state) == NoState

\* At the end of HEAD.SOUR.
compute_compatibility ==
  /\ at = "HEAD.SOUR"
  /\ compatibility' = CASE compatibility_program = "PAF" -> PafCompat(compatibility_version)
                        [] compatibility_program = None -> None
                        [] OTHER -> default_compat[compatibility_program]
  /\ compat_state' = ResetState(compat_state)
  /\ at' = "HEAD" /\ file' = [file EXCEPT !.sour = TRUE] /\ made' = {}
  /\ UNCHANGED <<Settings, compatibility_program, compatibility_version>>

\* HEAD.DATE, as far as its own element is concerned.
HeadDate ==
  /\ at = "HEAD" /\ "DATE" \notin file.has
  /\ file' = [file EXCEPT !.has = @ \cup {"DATE"}]
  /\ compat_state' = IF compat_mode("HEAD_TIME")
                     THEN [compat_state EXCEPT !.HEAD_TIME = Context("DATE")] ELSE compat_state
  /\ made' = {} /\ UNCHANGED <<Settings, Mode, at>>

\* HEAD.TIME becomes HEAD.DATE.TIME, out of the context of the date.
OutOfContext(elt, saved) ==
  made' = IF compat_options /\ saved # NULL THEN {Element(elt, saved)} ELSE {}
HeadTime ==
  /\ at = "HEAD" /\ "TIME" \notin file.has /\ compat_mode("HEAD_TIME")
  /\ OutOfContext("TIME", compat_state.HEAD_TIME)
  /\ file' = [file EXCEPT !.has = @ \cup {"TIME"}]
  /\ UNCHANGED <<Settings, Mode, compat_state, at>>

\* SUBM, CHAR, and GEDC, whose FORM may be missing.
HeadSection(s) ==
  LET elt == IF s = "GEDC without FORM" THEN "GEDC" ELSE s
      form == s # elt /\ compat_mode("NO_GEDC_FORM")
  IN /\ at = "HEAD" /\ elt \notin file.has
     /\ made' = IF form THEN {Element("GEDC.FORM", Context("GEDC"))} ELSE {}
     /\ file' = [file EXCEPT !.has = @ \cup {elt}]
     /\ UNCHANGED <<Settings, Mode, compat_state, at>>

\* (Variant: the link is not noted.)
LinkForgotten(linked) == compat_state.NO_SUBMITTER
compat_generate_submitter_link(linked) == IF linked THEN 1 ELSE compat_state.NO_SUBMITTER

\* The end of the header generates what is missing in it, and after it the
\* submitter record.  Under the two lenient mechanisms a header may also miss
\* what is not generated.
HeadRules == [SUBM |-> "NO_SUBMITTER", GEDC |-> "NO_GEDC", CHAR |-> "NO_CHAR"]
CloseHead ==
  LET generated == {s \in DOMAIN HeadRules \ file.has : compat_mode(HeadRules[s])}
      linked == compat_generate_submitter_link("SUBM" \in generated)
      submitter == compat_mode("NO_SUBMITTER") /\ linked = 1
      inBody == [file EXCEPT !.used = generated \cap {"SUBM"}, !.records = 1]
  IN /\ at = "HEAD"
     /\ made' = {Element(s, Context("HEAD")) : s \in generated}
     /\ file' = IF submitter THEN Defined(inBody, "SUBM") ELSE inBody
     /\ compat_state' = [compat_state EXCEPT !.NO_SUBMITTER = IF submitter THEN 0 ELSE linked]
     /\ at' = "records" /\ UNCHANGED <<Settings, Mode>>

-----------------------------------------------------------------------------
OpenRecord(tag) ==
  /\ at = "records" /\ file.records <= MaxRecords
  /\ at' = tag /\ file' = [file EXCEPT !.sections = 0]
  /\ Quiet

\* INDI.SLGC without a link to a family.
compat_generate_slgc_famc_link ==
  /\ at = "INDI" /\ compat_mode("NO_SLGC_FAMC")
  /\ file.sections < MaxSections
  /\ file' = [file EXCEPT !.sections = @ + 1, !.used = @ \cup {"FAM"},
                          !.links = IF file.since = 0 THEN @ + 1 ELSE @]
  /\ made' = {Element("FAMC", Context("SLGC"))}
  /\ compat_state' = [compat_state EXCEPT !.NO_SLGC_FAMC = @ + 1]
  /\ UNCHANGED <<Settings, Mode, at>>

\* INDI.ADDR becomes INDI.RESI.ADDR.
IndividualAddress ==
  /\ at = "INDI" /\ compat_mode("INDI_ADDR") /\ Section
  /\ made' = {Element("RESI", Context("INDI")), Element("ADDR", Context("RESI"))}
  /\ UNCHANGED <<Settings, Mode, compat_state, at>>

\* The address of an event, or of a submitter.
Address ==
  /\ at \in {"INDI", "SUBM"} /\ compat_mode("SUBM_CTRY") /\ Section
  /\ compat_state' = [compat_state EXCEPT !.SUBM_CTRY = Context("ADDR")]
  /\ made' = {} /\ UNCHANGED <<Settings, Mode, at>>

\* SUBM.CTRY becomes SUBM.ADDR.CTRY, out of the context of the address.
Country ==
  /\ at = "SUBM" /\ compat_mode("SUBM_CTRY") /\ Section
  /\ OutOfContext("CTRY", compat_state.SUBM_CTRY)
  /\ UNCHANGED <<Settings, Mode, compat_state, at>>

\* SUBM.COMM becomes a user section, and the CONT lines in it too.
OpenComment ==
  /\ at = "SUBM" /\ compat_mode("SUBM_COMM") /\ Section
  /\ compat_state' = [compat_state EXCEPT !.SUBM_COMM = 1]
  /\ at' = "COMM" /\ made' = {Element("_COMM", Context("SUBM"))}
  /\ UNCHANGED <<Settings, Mode>>
CommentLine ==
  /\ at = "COMM" /\ compat_state.SUBM_COMM # 0 /\ Section
  /\ made' = {Element("_CONT", Context("_COMM"))}
  /\ UNCHANGED <<Settings, Mode, compat_state, at>>
\* The end of every user section ends the comment: of one in it as well.
CloseUserSection(inner) ==
  /\ at = "COMM" /\ (inner => Section) /\ (~inner => UNCHANGED file)
  /\ compat_state' = IF compat_mode("SUBM_COMM") THEN [compat_state EXCEPT !.SUBM_COMM = 0]
                     ELSE compat_state
  /\ at' = IF inner THEN "COMM" ELSE "SUBM"
  /\ made' = {} /\ UNCHANGED <<Settings, Mode>>

\* (Variant: the context of the address is kept.)
AddressKept(state) == state
compat_free_ctry_parent_context(state) == [state EXCEPT !.SUBM_CTRY = NULL]

\* At the end of every individual a family is generated if one link has been,
\* in it or before it: the counter is left as it is.
CloseRecord ==
  LET family == /\ at = "INDI" /\ compat_mode("NO_SLGC_FAMC") /\ compat_state.NO_SLGC_FAMC = 1
      closed == [file EXCEPT !.records = @ + 1,
                             !.submitter = IF at = "SUBM" THEN file.records ELSE @,
                             !.since = IF at = "INDI" /\ "FAM" \in file.used THEN @ + 1 ELSE @]
  IN /\ at \in {"INDI", "SUBM"}
     /\ file' = IF family THEN Defined(closed, "FAM") ELSE closed
     /\ compat_state' = IF at = "SUBM" /\ compat_mode("SUBM_CTRY")
                        THEN compat_free_ctry_parent_context(compat_state) ELSE compat_state
     /\ at' = "records" /\ made' = {}
     /\ UNCHANGED <<Settings, Mode>>

\* A tag that is not of the standard and does not begin with "_" is taken for
\* a user tag: the lists of tags in is_551_tag and is_nonstd_sour_tag do not
\* matter, as every tag differs from one of them.
UndefinedTag ==
  /\ at \in {"INDI", "SUBM"} /\ Section
  /\ compat_mode("TAGS_551") \/ compat_mode("NONSTD_SOUR_TAGS")
  /\ made' = {Element("_TAG", Context(at))}
  /\ UNCHANGED <<Settings, Mode, compat_state, at>>

-----------------------------------------------------------------------------
\* compat_close.
EndFile ==
  /\ at = "records"
  /\ compatibility_program' = None /\ compatibility' = None
  /\ at' = "between" /\ made' = {}
  /\ UNCHANGED <<Settings, compatibility_version, compat_state, file>>

\* Under IMMED_FAIL, or where the file is cut off: nothing is reset.
AbortParse == at # "between" /\ at' = "between" /\ Quiet /\ UNCHANGED file

Next ==
  \/ StartFile \/ compute_compatibility \/ HeadDate \/ HeadTime \/ CloseHead
  \/ \E p \in Programs \cup {"other"}, v \in Versions \cup {NoVersion} : set_compatibility_program(p, v)
  \/ \E v \in Versions : set_compatibility_version(v)
  \/ \E s \in {"SUBM", "CHAR", "GEDC", "GEDC without FORM"} : HeadSection(s)
  \/ \E tag \in {"INDI", "SUBM"} : OpenRecord(tag)
  \/ compat_generate_slgc_famc_link \/ IndividualAddress \/ Address \/ Country
  \/ OpenComment \/ CommentLine \/ \E inner \in BOOLEAN : CloseUserSection(inner)
  \/ CloseRecord \/ UndefinedTag \/ EndFile \/ AbortParse

Spec == Init /\ [][Next]_vars

-----------------------------------------------------------------------------
\* A header whose program has been read, and the records after it.
Known == at # "between" /\ at # "HEAD.SOUR" /\ file.sour

\* The variables keep their types, and the state of a rule is only set while
\* the rule is on: a counter of links, a comment that is open.
TypeOK ==
  /\ compatibility_program \in Programs \cup {None}
  /\ compatibility_version \in Versions \cup {0}
  /\ compatibility \in (UNION {compat_matrix[r] : r \in DOMAIN compat_matrix}) \cup {None, "FAMORIG"}
  /\ compat_state.NO_SUBMITTER \in {0, 1}
  /\ Known => /\ compat_state.SUBM_COMM = 1 => at = "COMM"
              /\ compat_state.NO_SLGC_FAMC > 0 => compat_mode("NO_SLGC_FAMC")
              /\ compat_state.NO_SUBMITTER = 0

\* The rules that are bent for a file are those of the program, and the
\* version, that its own header names, whatever files came before and however
\* they ended; except that PAF without a version gets the version of an
\* earlier file.  Every variable keeps its type.
Wanted == IF ~compat_enabled \/ file.program \notin Programs THEN None
          ELSE IF file.program = "PAF" THEN PafCompat(file.version)
          ELSE default_compat[file.program]
CompatibilityOfTheFile ==
  /\ TypeOK
  /\ Known /\ (file.program = "PAF" => file.version # NoVersion) => compatibility = Wanted

\* A record is generated for the generated links to it, and only then: the
\* submitter once, and the family at the end of the first individual with a
\* link.  That it is then there for good ("if bigger than 1, then the FAM record
\* has already been generated", compat.c:590) has two exceptions: it is never
\* generated if that individual has several links, and if it has one, the
\* individuals after it can each generate the record once more.
LinksAreDefined ==
  /\ at \in {"records", "INDI", "SUBM", "COMM"} =>
       file.defined.SUBM = (IF "SUBM" \in file.used THEN 1 ELSE 0)
  /\ at = "records" /\ file.sour =>
       file.defined.FAM \in
         IF "FAM" \in file.used /\ file.links = 1 THEN 1 .. file.since ELSE {0}

\* What is generated out of context goes to an element of the same file, and
\* a country not to an address from before the last submitter record; except
\* that a header without a program uses what an aborted file has left.
ParentsAreOfTheFile ==
  Known => \A e \in made :
    /\ e.parent[1] = file.number
    /\ e.elt = "CTRY" => e.parent[2] > file.submitter
=============================================================================
