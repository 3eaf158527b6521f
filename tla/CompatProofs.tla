---------------------------- MODULE CompatProofs ----------------------------
(***************************************************************************)
(* Proofs about the compatibility mode, for any versions, any number of    *)
(* files, and files of any length that end or break off anywhere.          *)
(***************************************************************************)
EXTENDS Compat, TLAPS

USE CompatAssumption

-----------------------------------------------------------------------------
(* The inductive invariant, in parts.                                      *)

Place == {"between", "HEAD", "HEAD.SOUR", "records", "INDI", "SUBM", "COMM"}
Body == {"records", "INDI", "SUBM", "COMM"}
HeadElement == {"DATE", "TIME", "SUBM", "CHAR", "GEDC"}
Saved == {NULL} \cup (Nat \X Nat \X {"DATE", "ADDR"})

CompatType == {"FTREE", "LIFELINES", "FAMORIG", "EASYTREE", "PAF2", "PAF4", "PAF5", None}
StateType == [NO_SUBMITTER : {0}, HEAD_TIME : Saved, SUBM_CTRY : Saved,
              NO_SLGC_FAMC : Nat, SUBM_COMM : {0, 1}]
FileType == [number : Nat, program : Programs \cup {None, "other"},
             version : Versions \cup {NoVersion}, sour : BOOLEAN,
             has : SUBSET HeadElement, used : SUBSET {"SUBM", "FAM"},
             defined : [{"SUBM", "FAM"} -> Nat],
             records : Nat, sections : Nat, submitter : Nat,
             links : Nat, since : Nat]

\* The types; the link to a submitter is always used up (NO_SUBMITTER = 0).
Types ==
  /\ compat_enabled \in BOOLEAN /\ compat_options \in BOOLEAN
  /\ compatibility_program \in Programs \cup {None}
  /\ compatibility_version \in Versions \cup {0}
  /\ compatibility \in CompatType
  /\ compat_state \in StateType
  /\ at \in Place
  /\ file \in FileType

\* What the header has said is what its file says, until the rules are
\* computed from it; from then on they are those of the file.
ProgramWanted ==
  IF ~compat_enabled \/ file.program \notin Programs THEN None ELSE file.program

ModeInv ==
  /\ at = "HEAD.SOUR" =>
       /\ ~file.sour
       /\ compatibility_program = ProgramWanted
       /\ compat_enabled /\ file.version # NoVersion => compatibility_version = file.version
  /\ Known /\ (file.program = "PAF" => file.version # NoVersion) => compatibility = Wanted

\* The state of a rule is only set while the rule is on.
RuleInv ==
  /\ at = "COMM" => compat_mode("SUBM_COMM")
  /\ Known => /\ compat_state.SUBM_COMM = 1 => at = "COMM"
              /\ compat_state.NO_SLGC_FAMC > 0 => compat_mode("NO_SLGC_FAMC")
              /\ compat_state.SUBM_CTRY # NULL => compat_mode("SUBM_CTRY")

\* What a file uses and what is generated for it: nothing in its header.  The
\* counter of links to the family counts on, from the links in the first
\* individual that has one; with that individual the family is generated if the
\* counter is 1 then.
LinkInv ==
  /\ at \in {"HEAD", "HEAD.SOUR"} =>
       /\ file.used = {} /\ file.defined = [k \in {"SUBM", "FAM"} |-> 0]
       /\ file.records = 0 /\ file.submitter = 0 /\ file.links = 0 /\ file.since = 0
  /\ at \in Body =>
       file.defined["SUBM"] = (IF "SUBM" \in file.used THEN 1 ELSE 0)
  /\ Known =>
       /\ "FAM" \in file.used <=> file.links > 0
       /\ file.since = 0 => file.links = compat_state.NO_SLGC_FAMC /\ file.defined["FAM"] = 0
       /\ file.since > 0 =>
            /\ file.links > 0
            /\ file.links = 1 => file.defined["FAM"] \in 1 .. file.since
            /\ file.links > 1 => file.defined["FAM"] = 0 /\ compat_state.NO_SLGC_FAMC > 1
       /\ at # "INDI" /\ "FAM" \in file.used => file.since > 0

\* A saved context is one of this file, and that of an address one of a
\* record after the last submitter.
ContextInv ==
  /\ at \in Body => file.submitter < file.records
  /\ Known =>
       /\ compat_state.HEAD_TIME # NULL => compat_state.HEAD_TIME[1] = file.number
       /\ compat_state.SUBM_CTRY # NULL =>
            /\ compat_state.SUBM_CTRY[1] = file.number
            /\ compat_state.SUBM_CTRY[2] > file.submitter

Inv == Types /\ ModeInv /\ RuleInv /\ LinkInv /\ ContextInv

-----------------------------------------------------------------------------
(* Types.                                                                  *)

LEMMA ContextType ==
  ASSUME file \in FileType, NEW elt \in {"DATE", "ADDR"}
  PROVE  /\ Context(elt) \in Saved
         /\ Context(elt)[1] = file.number /\ Context(elt)[2] = file.records
  BY DEF Context, Saved, FileType

\* Each field of a file that a step sets.
LEMMA FileFields ==
  ASSUME NEW f \in FileType
  PROVE  /\ \A s \in HeadElement : [f EXCEPT !.has = @ \cup {s}] \in FileType
         /\ \A n \in Nat : [f EXCEPT !.sections = n] \in FileType
         /\ \A n, m \in Nat : [f EXCEPT !.sections = n, !.used = @ \cup {"FAM"}, !.links = m] \in FileType
         /\ \A n \in Nat, u \in SUBSET {"SUBM", "FAM"} : [f EXCEPT !.used = u, !.records = n] \in FileType
         /\ \A n, m, i \in Nat : [f EXCEPT !.records = n, !.submitter = m, !.since = i] \in FileType
<1>1. \A s \in HeadElement : f.has \cup {s} \in SUBSET HeadElement
  BY DEF FileType
<1>2. f.used \cup {"FAM"} \in SUBSET {"SUBM", "FAM"}
  BY DEF FileType
<1>3. QED
  BY <1>1, <1>2 DEF FileType

LEMMA DefinedType ==
  ASSUME NEW f \in FileType, NEW k \in {"SUBM", "FAM"}
  PROVE  /\ Defined(f, k) \in FileType
         /\ \A j \in {"SUBM", "FAM"} :
              Defined(f, k).defined[j] = IF j = k THEN f.defined[j] + 1 ELSE f.defined[j]
<1>1. [f.defined EXCEPT ![k] = @ + 1] \in [{"SUBM", "FAM"} -> Nat]
  BY DEF FileType
<1>2. QED
  BY <1>1 DEF Defined, FileType

LEMMA StateTypeKept ==
  ASSUME Types, [Next]_vars
  PROVE  compat_state' \in StateType
<1>1. CASE StartFile
  BY <1>1 DEF StartFile, NewFile, Types, Quiet, StateType
<1>2. CASE compute_compatibility
  BY <1>2 DEF compute_compatibility, Types, StateType, ResetState, NoState, Saved
<1>3. CASE HeadDate
  <2>1. Context("DATE") \in Saved
    <3>1. file \in FileType
      BY DEF Types
    <3>2. QED
      BY <3>1, ContextType
  <2>2. QED
    BY <1>3, <2>1 DEF HeadDate, Types, StateType
<1>4. CASE HeadTime
  BY <1>4 DEF HeadTime, Types, StateType
<1>5. CASE CloseHead
  BY <1>5 DEF CloseHead, Defined, compat_generate_submitter_link, HeadRules, Types, StateType,
      FileType
<1>6. ASSUME NEW p \in Programs \cup {"other"}, NEW v \in Versions \cup {NoVersion},
             set_compatibility_program(p, v)
      PROVE  compat_state' \in StateType
  BY <1>6 DEF set_compatibility_program, Types, StateType
<1>7. ASSUME NEW v \in Versions, set_compatibility_version(v)
      PROVE  compat_state' \in StateType
  BY <1>7 DEF set_compatibility_version, Types, StateType
<1>8. ASSUME NEW s \in {"SUBM", "CHAR", "GEDC", "GEDC without FORM"}, HeadSection(s)
      PROVE  compat_state' \in StateType
  BY <1>8 DEF HeadSection, Types, StateType
<1>9. ASSUME NEW tag \in {"INDI", "SUBM"}, OpenRecord(tag)
      PROVE  compat_state' \in StateType
  BY <1>9 DEF OpenRecord, Types, Quiet, StateType
<1>10. CASE compat_generate_slgc_famc_link
  BY <1>10 DEF compat_generate_slgc_famc_link, Types, StateType
<1>11. CASE IndividualAddress \/ Country \/ UndefinedTag \/ CommentLine
  BY <1>11 DEF IndividualAddress, Country, UndefinedTag, CommentLine, Section, Types, StateType
<1>12. CASE Address
  <2>1. Context("ADDR") \in Saved
    <3>1. file \in FileType
      BY DEF Types
    <3>2. QED
      BY <3>1, ContextType
  <2>2. QED
    BY <1>12, <2>1 DEF Address, Types, StateType
<1>13. CASE OpenComment
  BY <1>13 DEF OpenComment, Section, Types, StateType
<1>14. ASSUME NEW inner \in BOOLEAN, CloseUserSection(inner)
      PROVE  compat_state' \in StateType
  BY <1>14 DEF CloseUserSection, Section, Types, StateType
<1>15. CASE CloseRecord
  BY <1>15 DEF CloseRecord, Defined, Types, StateType, compat_free_ctry_parent_context, Saved
<1>16. CASE EndFile
  BY <1>16 DEF EndFile, Types, StateType
<1>17. CASE AbortParse
  BY <1>17 DEF AbortParse, Types, Quiet, StateType
<1>18. CASE UNCHANGED vars
  BY <1>18 DEF vars, Types, StateType
<1>19. QED
  BY <1>1, <1>2, <1>3, <1>4, <1>5, <1>6, <1>7, <1>8, <1>9, <1>10, <1>11, <1>12, <1>13, <1>14,
     <1>15, <1>16, <1>17, <1>18 DEF Next

LEMMA FileTypeKept ==
  ASSUME Types, [Next]_vars
  PROVE  file' \in FileType
<1>1. CASE StartFile
  BY <1>1 DEF StartFile, NewFile, Types, Quiet, FileType
<1>2. CASE compute_compatibility
  BY <1>2 DEF compute_compatibility, Types, FileType
<1>3. CASE HeadDate
  <2>1. file \in FileType /\ "DATE" \in HeadElement
    BY DEF Types, HeadElement
  <2>2. QED
    BY <1>3, <2>1, FileFields DEF HeadDate
<1>4. CASE HeadTime
  <2>1. file \in FileType /\ "TIME" \in HeadElement
    BY DEF Types, HeadElement
  <2>2. QED
    BY <1>4, <2>1, FileFields DEF HeadTime
<1>5. CASE CloseHead
  <2> DEFINE generated == {s \in DOMAIN HeadRules \ file.has : compat_mode(HeadRules[s])}
             inBody == [file EXCEPT !.used = generated \cap {"SUBM"}, !.records = 1]
  <2>1. inBody \in FileType
    BY FileFields DEF Types
  <2>2. file' \in {inBody, Defined(inBody, "SUBM")}
    BY <1>5 DEF CloseHead
  <2>3. QED
    BY <2>1, <2>2, DefinedType
<1>6. ASSUME NEW p \in Programs \cup {"other"}, NEW v \in Versions \cup {NoVersion},
             set_compatibility_program(p, v)
      PROVE  file' \in FileType
  BY <1>6 DEF set_compatibility_program, Types, FileType
<1>7. ASSUME NEW v \in Versions, set_compatibility_version(v)
      PROVE  file' \in FileType
  BY <1>7 DEF set_compatibility_version, Types, FileType
<1>8. ASSUME NEW s \in {"SUBM", "CHAR", "GEDC", "GEDC without FORM"}, HeadSection(s)
      PROVE  file' \in FileType
  <2>1. file \in FileType /\ \E e \in HeadElement : file' = [file EXCEPT !.has = @ \cup {e}]
    BY <1>8 DEF HeadSection, Types, HeadElement
  <2>2. QED
    BY <2>1, FileFields
<1>9. ASSUME NEW tag \in {"INDI", "SUBM"}, OpenRecord(tag)
      PROVE  file' \in FileType
  BY <1>9 DEF OpenRecord, Types, Quiet, FileType
<1>10. CASE compat_generate_slgc_famc_link
  <2> DEFINE links == IF file.since = 0 THEN file.links + 1 ELSE file.links
  <2>1. file.sections + 1 \in Nat /\ links \in Nat
    BY DEF Types, FileType
  <2>2. file' = [file EXCEPT !.sections = file.sections + 1, !.used = @ \cup {"FAM"}, !.links = links]
    BY <1>10 DEF compat_generate_slgc_famc_link, Types, FileType
  <2>3. QED
    BY <2>1, <2>2, FileFields DEF Types
<1>11. CASE IndividualAddress \/ Country \/ UndefinedTag \/ CommentLine
  BY <1>11 DEF IndividualAddress, Country, UndefinedTag, CommentLine, Section, Types, FileType
<1>12. CASE Address
  BY <1>12 DEF Address, Section, Types, FileType
<1>13. CASE OpenComment
  BY <1>13 DEF OpenComment, Section, Types, FileType
<1>14. ASSUME NEW inner \in BOOLEAN, CloseUserSection(inner)
      PROVE  file' \in FileType
  BY <1>14 DEF CloseUserSection, Section, Types, FileType
<1>15. CASE CloseRecord
  <2> DEFINE since == IF at = "INDI" /\ "FAM" \in file.used THEN file.since + 1 ELSE file.since
             closed == [file EXCEPT !.records = @ + 1,
                                    !.submitter = IF at = "SUBM" THEN file.records ELSE @,
                                    !.since = IF at = "INDI" /\ "FAM" \in file.used THEN @ + 1 ELSE @]
  <2>1. closed \in FileType
    <3>1. file \in FileType /\ file.records \in Nat /\ file.submitter \in Nat /\ since \in Nat
      BY DEF Types, FileType
    <3>2. closed = [file EXCEPT !.records = file.records + 1,
                                !.submitter = IF at = "SUBM" THEN file.records ELSE file.submitter,
                                !.since = since]
      BY <3>1 DEF FileType
    <3>3. QED
      <4>1. file.records + 1 \in Nat
            /\ (IF at = "SUBM" THEN file.records ELSE file.submitter) \in Nat
        BY <3>1
      <4>2. QED
        BY <3>1, <3>2, <4>1, FileFields
  <2>2. file' \in {closed, Defined(closed, "FAM")}
    BY <1>15 DEF CloseRecord
  <2>3. QED
    BY <2>1, <2>2, DefinedType
<1>16. CASE EndFile
  BY <1>16 DEF EndFile, Types, FileType
<1>17. CASE AbortParse
  BY <1>17 DEF AbortParse, Types, Quiet, FileType
<1>18. CASE UNCHANGED vars
  BY <1>18 DEF vars, Types, FileType
<1>19. QED
  BY <1>1, <1>2, <1>3, <1>4, <1>5, <1>6, <1>7, <1>8, <1>9, <1>10, <1>11, <1>12, <1>13, <1>14,
     <1>15, <1>16, <1>17, <1>18 DEF Next

LEMMA ComputedType ==
  ASSUME Types, compute_compatibility
  PROVE  compatibility' \in CompatType
<1>1. PafCompat(compatibility_version) \in {"PAF2", "PAF4", "PAF5", None}
  BY DEF PafCompat, Types
<1>2. \A p \in Programs \ {"PAF"} : default_compat[p] \in {"FTREE", "LIFELINES", "FAMORIG",
     "EASYTREE"}
  BY DEF Programs, default_compat
<1>3. QED
  BY <1>1, <1>2 DEF compute_compatibility, Types, CompatType

LEMMA TypesKept ==
  ASSUME Types, [Next]_vars
  PROVE  Types'
<1>1. CASE StartFile
  BY <1>1, StateTypeKept, FileTypeKept DEF StartFile, NewFile, Types, Quiet, Settings, Mode,
      Place
<1>2. CASE compute_compatibility
  BY <1>2, StateTypeKept, FileTypeKept, ComputedType DEF compute_compatibility, Types,
      Settings, Place
<1>3. CASE HeadDate
  BY <1>3, StateTypeKept, FileTypeKept DEF HeadDate, Types, Settings, Mode, Place
<1>4. CASE HeadTime
  BY <1>4, StateTypeKept, FileTypeKept DEF HeadTime, Types, Settings, Mode, Place
<1>5. CASE CloseHead
  BY <1>5, StateTypeKept, FileTypeKept DEF CloseHead, Defined, compat_generate_submitter_link,
      HeadRules, Types, Settings, Mode, Place
<1>6. ASSUME NEW p \in Programs \cup {"other"}, NEW v \in Versions \cup {NoVersion},
             set_compatibility_program(p, v)
      PROVE  Types'
  BY <1>6, StateTypeKept, FileTypeKept DEF set_compatibility_program, Types, Settings, Place,
      ProgramOf
<1>7. ASSUME NEW v \in Versions, set_compatibility_version(v)
      PROVE  Types'
  BY <1>7, StateTypeKept, FileTypeKept DEF set_compatibility_version, Types, Settings, Place
<1>8. ASSUME NEW s \in {"SUBM", "CHAR", "GEDC", "GEDC without FORM"}, HeadSection(s)
      PROVE  Types'
  BY <1>8, StateTypeKept, FileTypeKept DEF HeadSection, Types, Settings, Mode, Place
<1>9. ASSUME NEW tag \in {"INDI", "SUBM"}, OpenRecord(tag)
      PROVE  Types'
  BY <1>9, StateTypeKept, FileTypeKept DEF OpenRecord, Types, Quiet, Settings, Mode, Place
<1>10. CASE compat_generate_slgc_famc_link
  BY <1>10, StateTypeKept, FileTypeKept DEF compat_generate_slgc_famc_link, Types, Settings,
      Mode, Place
<1>11. CASE IndividualAddress \/ Country \/ UndefinedTag \/ CommentLine
  BY <1>11, StateTypeKept, FileTypeKept DEF IndividualAddress, Country, UndefinedTag,
      CommentLine, Section, Types, Settings, Mode, Place
<1>12. CASE Address
  BY <1>12, StateTypeKept, FileTypeKept DEF Address, Section, Types, Settings, Mode, Place
<1>13. CASE OpenComment
  BY <1>13, StateTypeKept, FileTypeKept DEF OpenComment, Section, Types, Settings, Mode, Place
<1>14. ASSUME NEW inner \in BOOLEAN, CloseUserSection(inner)
      PROVE  Types'
  BY <1>14, StateTypeKept, FileTypeKept DEF CloseUserSection, Section, Types, Settings, Mode,
      Place
<1>15. CASE CloseRecord
  BY <1>15, StateTypeKept, FileTypeKept DEF CloseRecord, Defined, Types, Settings, Mode, Place
<1>16. CASE EndFile
  BY <1>16, StateTypeKept, FileTypeKept DEF EndFile, Types, Settings, Place, CompatType
<1>17. CASE AbortParse
  BY <1>17, StateTypeKept, FileTypeKept DEF AbortParse, Types, Quiet, Settings, Mode, Place
<1>18. CASE UNCHANGED vars
  BY <1>18, StateTypeKept, FileTypeKept DEF vars, Types, Place
<1>19. QED
  BY <1>1, <1>2, <1>3, <1>4, <1>5, <1>6, <1>7, <1>8, <1>9, <1>10, <1>11, <1>12, <1>13, <1>14,
     <1>15, <1>16, <1>17, <1>18 DEF Next

-----------------------------------------------------------------------------
(* The ends of the header and of a record, which may generate records.     *)

LEMMA CloseHeadEffect ==
  ASSUME Types, CloseHead
  PROVE  /\ at = "HEAD" /\ at' = "records"
         /\ file'.sour = file.sour /\ file'.program = file.program
         /\ file'.version = file.version /\ file'.number = file.number
         /\ file'.records = 1 /\ file'.submitter = file.submitter
         /\ file'.links = file.links /\ file'.since = file.since
         /\ file'.used \subseteq {"SUBM"}
         /\ file'.defined["FAM"] = file.defined["FAM"]
         /\ file'.defined["SUBM"] = file.defined["SUBM"] + (IF "SUBM" \in file'.used THEN 1 ELSE 0)
         /\ UNCHANGED <<compat_enabled, compatibility, compat_state>>
<1> DEFINE generated == {s \in DOMAIN HeadRules \ file.has : compat_mode(HeadRules[s])}
           submitter == compat_mode("NO_SUBMITTER") /\ "SUBM" \in generated
           inBody == [file EXCEPT !.used = generated \cap {"SUBM"}, !.records = 1]
<1>1. file \in FileType /\ inBody \in FileType /\ compat_state \in StateType
  BY FileFields DEF Types
<1>2. compat_generate_submitter_link("SUBM" \in generated) = IF "SUBM" \in generated THEN 1
     ELSE 0
  BY <1>1 DEF compat_generate_submitter_link, StateType
<1>3. "SUBM" \in generated => compat_mode("NO_SUBMITTER")
  BY DEF HeadRules
<1>4. file' = IF "SUBM" \in generated THEN Defined(inBody, "SUBM") ELSE inBody
  BY <1>2, <1>3 DEF CloseHead
<1>5. compat_state' = compat_state
  <2>1. compat_state' = [compat_state EXCEPT !.NO_SUBMITTER = 0]
    BY <1>2, <1>3 DEF CloseHead
  <2>2. QED
    BY <1>1, <2>1 DEF StateType
<1>6. /\ inBody.sour = file.sour /\ inBody.program = file.program
      /\ inBody.version = file.version /\ inBody.number = file.number
      /\ inBody.records = 1 /\ inBody.submitter = file.submitter
      /\ inBody.links = file.links /\ inBody.since = file.since
      /\ inBody.used = generated \cap {"SUBM"} /\ inBody.defined = file.defined
  BY <1>1 DEF FileType
<1> HIDE DEF generated, inBody
<1>7. /\ file'.sour = inBody.sour /\ file'.program = inBody.program
      /\ file'.version = inBody.version /\ file'.number = inBody.number
      /\ file'.records = inBody.records /\ file'.submitter = inBody.submitter
      /\ file'.links = inBody.links /\ file'.since = inBody.since
      /\ file'.used = inBody.used
  BY <1>1, <1>4 DEF Defined, FileType
<1>8. /\ file'.defined["FAM"] = inBody.defined["FAM"]
      /\ file'.defined["SUBM"] = inBody.defined["SUBM"] + (IF "SUBM" \in generated THEN 1 ELSE 0)
  <2>1. inBody.defined["SUBM"] \in Nat
    BY <1>1 DEF FileType
  <2>2. QED
    BY <1>1, <1>4, <2>1, DefinedType
<1>9. QED
  BY <1>5, <1>6, <1>7, <1>8 DEF CloseHead, Settings, Mode

LEMMA CloseRecordEffect ==
  ASSUME Types, CloseRecord
  PROVE  /\ at \in {"INDI", "SUBM"} /\ at' = "records"
         /\ file'.sour = file.sour /\ file'.program = file.program
         /\ file'.version = file.version /\ file'.number = file.number /\ file'.used = file.used
         /\ file'.records = file.records + 1
         /\ file'.submitter = IF at = "SUBM" THEN file.records ELSE file.submitter
         /\ file'.links = file.links
         /\ file'.since = IF at = "INDI" /\ "FAM" \in file.used THEN file.since + 1 ELSE file.since
         /\ file'.defined["SUBM"] = file.defined["SUBM"]
         /\ file'.defined["FAM"] = file.defined["FAM"]
              + (IF at = "INDI" /\ compat_mode("NO_SLGC_FAMC") /\ compat_state.NO_SLGC_FAMC = 1
                 THEN 1 ELSE 0)
         /\ compat_state'.HEAD_TIME = compat_state.HEAD_TIME
         /\ compat_state'.NO_SLGC_FAMC = compat_state.NO_SLGC_FAMC
         /\ compat_state'.SUBM_COMM = compat_state.SUBM_COMM
         /\ compat_state'.SUBM_CTRY = IF at = "SUBM" /\ compat_mode("SUBM_CTRY")
                                      THEN NULL ELSE compat_state.SUBM_CTRY
         /\ UNCHANGED <<compat_enabled, compatibility>>
<1> DEFINE family == at = "INDI" /\ compat_mode("NO_SLGC_FAMC") /\ compat_state.NO_SLGC_FAMC = 1
           since == IF at = "INDI" /\ "FAM" \in file.used THEN file.since + 1 ELSE file.since
           closed == [file EXCEPT !.records = @ + 1,
                                  !.submitter = IF at = "SUBM" THEN file.records ELSE @,
                                  !.since = IF at = "INDI" /\ "FAM" \in file.used THEN @ + 1 ELSE @]
<1>1. file \in FileType /\ compat_state \in StateType
  BY DEF Types
<1>2. closed \in FileType
  <2>1. /\ file.records + 1 \in Nat /\ since \in Nat
        /\ (IF at = "SUBM" THEN file.records ELSE file.submitter) \in Nat
    BY <1>1 DEF FileType
  <2>2. closed = [file EXCEPT !.records = file.records + 1,
                              !.submitter = IF at = "SUBM" THEN file.records ELSE file.submitter,
                              !.since = since]
    BY <1>1 DEF FileType
  <2>3. QED
    BY <1>1, <2>1, <2>2, FileFields
<1>3. /\ closed.sour = file.sour /\ closed.program = file.program
      /\ closed.version = file.version /\ closed.number = file.number /\ closed.used = file.used
      /\ closed.records = file.records + 1
      /\ closed.submitter = IF at = "SUBM" THEN file.records ELSE file.submitter
      /\ closed.links = file.links /\ closed.since = since
      /\ closed.defined = file.defined
  BY <1>1 DEF FileType
<1>4. file' = IF family THEN Defined(closed, "FAM") ELSE closed
  BY DEF CloseRecord
<1> HIDE DEF closed
<1>5. /\ file'.sour = closed.sour /\ file'.program = closed.program
      /\ file'.version = closed.version /\ file'.number = closed.number /\ file'.used = closed.used
      /\ file'.records = closed.records /\ file'.submitter = closed.submitter
      /\ file'.links = closed.links /\ file'.since = closed.since
  BY <1>2, <1>4 DEF Defined, FileType
<1>6. /\ file'.defined["SUBM"] = closed.defined["SUBM"]
      /\ file'.defined["FAM"] = closed.defined["FAM"] + (IF family THEN 1 ELSE 0)
  <2>1. closed.defined["FAM"] \in Nat
    BY <1>2 DEF FileType
  <2>2. QED
    BY <1>2, <1>4, <2>1, DefinedType
<1>7. /\ compat_state'.HEAD_TIME = compat_state.HEAD_TIME
      /\ compat_state'.NO_SLGC_FAMC = compat_state.NO_SLGC_FAMC
      /\ compat_state'.SUBM_COMM = compat_state.SUBM_COMM
      /\ compat_state'.SUBM_CTRY = IF at = "SUBM" /\ compat_mode("SUBM_CTRY")
                                   THEN NULL ELSE compat_state.SUBM_CTRY
  BY <1>1 DEF CloseRecord, compat_free_ctry_parent_context, StateType
<1>8. QED
  BY <1>3, <1>5, <1>6, <1>7 DEF CloseRecord, Settings, Mode

-----------------------------------------------------------------------------
(* The rules are those of the file.                                        *)

LEMMA ModeKept ==
  ASSUME Types, ModeInv, [Next]_vars
  PROVE  ModeInv'
<1>1. CASE StartFile
  BY <1>1 DEF StartFile, NewFile, ModeInv, Known, Wanted, ProgramWanted, Types, Quiet,
      Settings, Mode, FileType
<1>2. CASE compute_compatibility
  BY <1>2 DEF compute_compatibility, ModeInv, Known, Wanted, ProgramWanted, Types, Settings,
      FileType, Programs, None
<1>3. CASE HeadDate
  BY <1>3 DEF HeadDate, ModeInv, Known, Wanted, ProgramWanted, Types, Settings, Mode, FileType
<1>4. CASE HeadTime
  BY <1>4 DEF HeadTime, ModeInv, Known, Wanted, ProgramWanted, Types, Settings, Mode, FileType
<1>5. CASE CloseHead
  BY <1>5, CloseHeadEffect DEF ModeInv, Known, Wanted
<1>6. ASSUME NEW p \in Programs \cup {"other"}, NEW v \in Versions \cup {NoVersion},
             set_compatibility_program(p, v)
      PROVE  ModeInv'
  BY <1>6 DEF set_compatibility_program, ModeInv, Known, Wanted, ProgramWanted, Types,
      Settings, FileType, ProgramOf
<1>7. ASSUME NEW v \in Versions, set_compatibility_version(v)
      PROVE  ModeInv'
  BY <1>7 DEF set_compatibility_version, ModeInv, Known, Wanted, ProgramWanted, Types,
      Settings, FileType
<1>8. ASSUME NEW s \in {"SUBM", "CHAR", "GEDC", "GEDC without FORM"}, HeadSection(s)
      PROVE  ModeInv'
  BY <1>8 DEF HeadSection, ModeInv, Known, Wanted, ProgramWanted, Types, Settings, Mode,
      FileType
<1>9. ASSUME NEW tag \in {"INDI", "SUBM"}, OpenRecord(tag)
      PROVE  ModeInv'
  BY <1>9 DEF OpenRecord, ModeInv, Known, Wanted, ProgramWanted, Types, Quiet, Settings, Mode,
      FileType
<1>10. CASE compat_generate_slgc_famc_link
  BY <1>10 DEF compat_generate_slgc_famc_link, ModeInv, Known, Wanted, ProgramWanted, Types,
      Settings, Mode, FileType
<1>11. CASE IndividualAddress \/ Country \/ UndefinedTag \/ CommentLine
  BY <1>11 DEF IndividualAddress, Country, UndefinedTag, CommentLine, Section, ModeInv, Known,
      Wanted, ProgramWanted, Types, Settings, Mode, FileType
<1>12. CASE Address
  BY <1>12 DEF Address, Section, ModeInv, Known, Wanted, ProgramWanted, Types, Settings, Mode,
      FileType
<1>13. CASE OpenComment
  BY <1>13 DEF OpenComment, Section, ModeInv, Known, Wanted, ProgramWanted, Types, Settings,
      Mode, FileType
<1>14. ASSUME NEW inner \in BOOLEAN, CloseUserSection(inner)
      PROVE  ModeInv'
  BY <1>14 DEF CloseUserSection, Section, ModeInv, Known, Wanted, ProgramWanted, Types,
      Settings, Mode, FileType
<1>15. CASE CloseRecord
  BY <1>15, CloseRecordEffect DEF ModeInv, Known, Wanted
<1>16. CASE EndFile
  BY <1>16 DEF EndFile, ModeInv, Known, Wanted, ProgramWanted, Types, Settings, FileType
<1>17. CASE AbortParse
  BY <1>17 DEF AbortParse, ModeInv, Known, Wanted, ProgramWanted, Types, Quiet, Settings, Mode,
      FileType
<1>18. CASE UNCHANGED vars
  BY <1>18 DEF vars, ModeInv, Known, Wanted, ProgramWanted, Types, FileType
<1>19. QED
  BY <1>1, <1>2, <1>3, <1>4, <1>5, <1>6, <1>7, <1>8, <1>9, <1>10, <1>11, <1>12, <1>13, <1>14,
     <1>15, <1>16, <1>17, <1>18 DEF Next

LEMMA RulesKept ==
  ASSUME Types, RuleInv, [Next]_vars
  PROVE  RuleInv'
<1>1. CASE StartFile
  BY <1>1 DEF StartFile, NewFile, RuleInv, Known, compat_mode, Types, Quiet, Settings, Mode,
      StateType, FileType
<1>2. CASE compute_compatibility
  BY <1>2 DEF compute_compatibility, RuleInv, Known, compat_mode, Types, Settings, StateType,
      FileType, ResetState, NoState
<1>3. CASE HeadDate
  BY <1>3 DEF HeadDate, RuleInv, Known, compat_mode, Types, Settings, Mode, StateType, FileType
<1>4. CASE HeadTime
  BY <1>4 DEF HeadTime, RuleInv, Known, compat_mode, Types, Settings, Mode, StateType, FileType
<1>5. CASE CloseHead
  BY <1>5, CloseHeadEffect DEF RuleInv, Known, compat_mode
<1>6. ASSUME NEW p \in Programs \cup {"other"}, NEW v \in Versions \cup {NoVersion},
             set_compatibility_program(p, v)
      PROVE  RuleInv'
  BY <1>6 DEF set_compatibility_program, RuleInv, Known, compat_mode, Types, Settings,
      StateType, FileType
<1>7. ASSUME NEW v \in Versions, set_compatibility_version(v)
      PROVE  RuleInv'
  BY <1>7 DEF set_compatibility_version, RuleInv, Known, compat_mode, Types, Settings,
      StateType, FileType
<1>8. ASSUME NEW s \in {"SUBM", "CHAR", "GEDC", "GEDC without FORM"}, HeadSection(s)
      PROVE  RuleInv'
  BY <1>8 DEF HeadSection, RuleInv, Known, compat_mode, Types, Settings, Mode, StateType,
      FileType
<1>9. ASSUME NEW tag \in {"INDI", "SUBM"}, OpenRecord(tag)
      PROVE  RuleInv'
  BY <1>9 DEF OpenRecord, RuleInv, Known, compat_mode, Types, Quiet, Settings, Mode, StateType,
      FileType
<1>10. CASE compat_generate_slgc_famc_link
  BY <1>10 DEF compat_generate_slgc_famc_link, RuleInv, Known, compat_mode, Types, Settings,
      Mode, StateType, FileType
<1>11. CASE IndividualAddress \/ Country \/ UndefinedTag \/ CommentLine
  BY <1>11 DEF IndividualAddress, Country, UndefinedTag, CommentLine, Section, RuleInv, Known,
      compat_mode, Types, Settings, Mode, StateType, FileType
<1>12. CASE Address
  BY <1>12 DEF Address, Section, RuleInv, Known, compat_mode, Types, Settings, Mode, StateType,
      FileType
<1>13. CASE OpenComment
  BY <1>13 DEF OpenComment, Section, RuleInv, Known, compat_mode, Types, Settings, Mode,
      StateType, FileType
<1>14. ASSUME NEW inner \in BOOLEAN, CloseUserSection(inner)
      PROVE  RuleInv'
  BY <1>14 DEF CloseUserSection, Section, RuleInv, Known, compat_mode, Types, Settings, Mode,
      StateType, FileType
<1>15. CASE CloseRecord
  BY <1>15, CloseRecordEffect DEF RuleInv, Known, compat_mode
<1>16. CASE EndFile
  BY <1>16 DEF EndFile, RuleInv, Known, compat_mode, Types, Settings, StateType, FileType
<1>17. CASE AbortParse
  BY <1>17 DEF AbortParse, RuleInv, Known, compat_mode, Types, Quiet, Settings, Mode,
      StateType, FileType
<1>18. CASE UNCHANGED vars
  BY <1>18 DEF vars, RuleInv, Known, compat_mode, Types, StateType, FileType
<1>19. QED
  BY <1>1, <1>2, <1>3, <1>4, <1>5, <1>6, <1>7, <1>8, <1>9, <1>10, <1>11, <1>12, <1>13, <1>14,
     <1>15, <1>16, <1>17, <1>18 DEF Next

-----------------------------------------------------------------------------
(* What is generated: records for links, and elements for contexts.        *)

LEMMA LinksKept ==
  ASSUME Types, RuleInv, LinkInv, [Next]_vars
  PROVE  LinkInv'
<1>1. CASE StartFile
  BY <1>1 DEF StartFile, NewFile, LinkInv, Known, Body, Types, Quiet, Settings, Mode,
      StateType, FileType, Place
<1>2. CASE compute_compatibility
  BY <1>2 DEF compute_compatibility, LinkInv, Known, Body, Types, Settings, StateType,
      FileType, ResetState, NoState
<1>3. CASE HeadDate
  BY <1>3 DEF HeadDate, LinkInv, Known, Body, Types, Settings, Mode, StateType, FileType
<1>4. CASE HeadTime
  BY <1>4 DEF HeadTime, LinkInv, Known, Body, Types, Settings, Mode, StateType, FileType
<1>5. CASE CloseHead
  <2>1. file'.defined["SUBM"] = IF "SUBM" \in file'.used THEN 1 ELSE 0
    BY <1>5, CloseHeadEffect DEF LinkInv
  <2>2. Known => compat_state.NO_SLGC_FAMC = 0 /\ file'.defined["FAM"] = 0
    <3>1. at = "HEAD" /\ file'.defined["FAM"] = file.defined["FAM"]
      BY <1>5, CloseHeadEffect
    <3>2. compat_state.NO_SLGC_FAMC \in Nat
      BY DEF Types, StateType
    <3>3. QED
      BY <3>1, <3>2 DEF LinkInv, Known
  <2>3. QED
    BY <1>5, <2>1, <2>2, CloseHeadEffect DEF LinkInv, Known, Body
<1>6. ASSUME NEW p \in Programs \cup {"other"}, NEW v \in Versions \cup {NoVersion},
             set_compatibility_program(p, v)
      PROVE  LinkInv'
  BY <1>6 DEF set_compatibility_program, LinkInv, Known, Body, Types, Settings, StateType,
      FileType
<1>7. ASSUME NEW v \in Versions, set_compatibility_version(v)
      PROVE  LinkInv'
  BY <1>7 DEF set_compatibility_version, LinkInv, Known, Body, Types, Settings, StateType,
      FileType
<1>8. ASSUME NEW s \in {"SUBM", "CHAR", "GEDC", "GEDC without FORM"}, HeadSection(s)
      PROVE  LinkInv'
  BY <1>8 DEF HeadSection, LinkInv, Known, Body, Types, Settings, Mode, StateType, FileType
<1>9. ASSUME NEW tag \in {"INDI", "SUBM"}, OpenRecord(tag)
      PROVE  LinkInv'
  BY <1>9 DEF OpenRecord, LinkInv, Known, Body, Types, Quiet, Settings, Mode, StateType,
      FileType
<1>10. CASE compat_generate_slgc_famc_link
  BY <1>10 DEF compat_generate_slgc_famc_link, LinkInv, Known, Body, Types, Settings, Mode,
      StateType, FileType
<1>11. CASE IndividualAddress \/ Country \/ UndefinedTag \/ CommentLine
  BY <1>11 DEF IndividualAddress, Country, UndefinedTag, CommentLine, Section, LinkInv, Known,
      Body, Types, Settings, Mode, StateType, FileType
<1>12. CASE Address
  BY <1>12 DEF Address, Section, LinkInv, Known, Body, Types, Settings, Mode, StateType,
      FileType
<1>13. CASE OpenComment
  BY <1>13 DEF OpenComment, Section, LinkInv, Known, Body, Types, Settings, Mode, StateType,
      FileType
<1>14. ASSUME NEW inner \in BOOLEAN, CloseUserSection(inner)
      PROVE  LinkInv'
  BY <1>14 DEF CloseUserSection, Section, LinkInv, Known, Body, Types, Settings, Mode,
      StateType, FileType
<1>15. CASE CloseRecord
  <2>1. /\ file.defined["FAM"] \in Nat /\ file.links \in Nat /\ file.since \in Nat
        /\ compat_state.NO_SLGC_FAMC \in Nat
    BY DEF Types, FileType, StateType
  <2>2. /\ at \in {"INDI", "SUBM"} /\ at' = "records" /\ (Known' <=> Known)
        /\ file'.used = file.used /\ file'.links = file.links
        /\ file'.since = IF at = "INDI" /\ "FAM" \in file.used THEN file.since + 1 ELSE file.since
        /\ compat_state'.NO_SLGC_FAMC = compat_state.NO_SLGC_FAMC
    BY <1>15, CloseRecordEffect DEF Known
  <2>3. /\ file'.defined["SUBM"] = file.defined["SUBM"]
        /\ file'.defined["FAM"] \in {file.defined["FAM"], file.defined["FAM"] + 1}
        /\ at = "SUBM" \/ compat_state.NO_SLGC_FAMC # 1 => file'.defined["FAM"] = file.defined["FAM"]
        /\ at = "INDI" /\ compat_mode("NO_SLGC_FAMC") /\ compat_state.NO_SLGC_FAMC = 1
             => file'.defined["FAM"] = file.defined["FAM"] + 1
    BY <1>15, <2>1, CloseRecordEffect
  <2>4. Known /\ compat_state.NO_SLGC_FAMC > 0 => compat_mode("NO_SLGC_FAMC")
    BY DEF RuleInv
  <2>5. ASSUME Known, "FAM" \in file.used, at = "INDI"
        PROVE  /\ file.links > 0 /\ file'.since > 0
               /\ file.links = 1 => file'.defined["FAM"] \in 1 .. file'.since
               /\ file.links > 1 => file'.defined["FAM"] = 0 /\ compat_state.NO_SLGC_FAMC > 1
    <3>1. CASE file.since = 0
      BY <2>1, <2>2, <2>3, <2>4, <2>5, <3>1 DEF LinkInv
    <3>2. CASE file.since > 0
      BY <2>1, <2>2, <2>3, <2>5, <3>2 DEF LinkInv
    <3>3. QED
      BY <2>1, <3>1, <3>2
  <2>6. CASE "FAM" \in file.used /\ at = "INDI"
    BY <2>1, <2>2, <2>3, <2>5, <2>6 DEF LinkInv, Body
  <2>7. CASE "FAM" \in file.used /\ at = "SUBM"
    BY <2>1, <2>2, <2>3, <2>7 DEF LinkInv, Body
  <2>8. CASE "FAM" \notin file.used
    <3>1. file'.since = file.since
      BY <2>2, <2>8
    <3>2. Known => compat_state.NO_SLGC_FAMC = 0 /\ file.since = 0 /\ file.links = 0
      BY <2>1, <2>8 DEF LinkInv
    <3>3. Known => file'.defined["FAM"] = file.defined["FAM"]
      BY <2>1, <2>3, <3>2
    <3>4. QED
      BY <2>1, <2>2, <2>3, <2>8, <3>1, <3>2, <3>3 DEF LinkInv, Body
  <2>9. QED
    BY <2>2, <2>6, <2>7, <2>8
<1>16. CASE EndFile
  BY <1>16 DEF EndFile, LinkInv, Known, Body, Types, Settings, StateType, FileType
<1>17. CASE AbortParse
  BY <1>17 DEF AbortParse, LinkInv, Known, Body, Types, Quiet, Settings, Mode, StateType,
      FileType
<1>18. CASE UNCHANGED vars
  BY <1>18 DEF vars, LinkInv, Known, Body, Types, StateType, FileType
<1>19. QED
  BY <1>1, <1>2, <1>3, <1>4, <1>5, <1>6, <1>7, <1>8, <1>9, <1>10, <1>11, <1>12, <1>13, <1>14,
     <1>15, <1>16, <1>17, <1>18 DEF Next

LEMMA ContextsKept ==
  ASSUME Types, RuleInv, LinkInv, ContextInv, [Next]_vars
  PROVE  ContextInv'
<1>1. CASE StartFile
  BY <1>1 DEF StartFile, NewFile, ContextInv, Known, Body, Types, Quiet, Settings, Mode,
      StateType, FileType, Place
<1>2. CASE compute_compatibility
  BY <1>2 DEF compute_compatibility, ContextInv, Known, Body, Types, Settings, StateType,
      FileType, ResetState, NoState
<1>3. CASE HeadDate
  <2>1. Context("DATE")[1] = file.number
    BY ContextType DEF Types
  <2>2. QED
    BY <1>3, <2>1 DEF HeadDate, ContextInv, Known, Body, Types, StateType, FileType
<1>4. CASE HeadTime
  BY <1>4 DEF HeadTime, ContextInv, Known, Body, Types, Settings, Mode, StateType, FileType
<1>5. CASE CloseHead
  BY <1>5, CloseHeadEffect DEF ContextInv, LinkInv, Known, Body
<1>6. ASSUME NEW p \in Programs \cup {"other"}, NEW v \in Versions \cup {NoVersion},
             set_compatibility_program(p, v)
      PROVE  ContextInv'
  BY <1>6 DEF set_compatibility_program, ContextInv, Known, Body, Types, Settings, StateType,
      FileType
<1>7. ASSUME NEW v \in Versions, set_compatibility_version(v)
      PROVE  ContextInv'
  BY <1>7 DEF set_compatibility_version, ContextInv, Known, Body, Types, Settings, StateType,
      FileType
<1>8. ASSUME NEW s \in {"SUBM", "CHAR", "GEDC", "GEDC without FORM"}, HeadSection(s)
      PROVE  ContextInv'
  BY <1>8 DEF HeadSection, ContextInv, Known, Body, Types, Settings, Mode, StateType, FileType
<1>9. ASSUME NEW tag \in {"INDI", "SUBM"}, OpenRecord(tag)
      PROVE  ContextInv'
  BY <1>9 DEF OpenRecord, ContextInv, Known, Body, Types, Quiet, Settings, Mode, StateType,
      FileType
<1>10. CASE compat_generate_slgc_famc_link
  BY <1>10 DEF compat_generate_slgc_famc_link, ContextInv, Known, Body, Types, Settings, Mode,
      StateType, FileType
<1>11. CASE IndividualAddress \/ Country \/ UndefinedTag \/ CommentLine
  BY <1>11 DEF IndividualAddress, Country, UndefinedTag, CommentLine, Section, ContextInv,
      Known, Body, Types, Settings, Mode, StateType, FileType
<1>12. CASE Address
  <2>1. Context("ADDR")[1] = file.number /\ Context("ADDR")[2] = file.records
    BY ContextType DEF Types
  <2>2. QED
    BY <1>12, <2>1 DEF Address, Section, ContextInv, Known, Body, Types, StateType, FileType
<1>13. CASE OpenComment
  BY <1>13 DEF OpenComment, Section, ContextInv, Known, Body, Types, Settings, Mode, StateType,
      FileType
<1>14. ASSUME NEW inner \in BOOLEAN, CloseUserSection(inner)
      PROVE  ContextInv'
  BY <1>14 DEF CloseUserSection, Section, ContextInv, Known, Body, Types, Settings, Mode,
      StateType, FileType
<1>15. CASE CloseRecord
  <2>1. file.records \in Nat /\ file.submitter \in Nat
    BY DEF Types, FileType
  <2>2. at \in Body
    BY <1>15, CloseRecordEffect DEF Body
  <2>3. QED
    BY <1>15, <2>1, <2>2, CloseRecordEffect DEF ContextInv, RuleInv, Known, Body
<1>16. CASE EndFile
  BY <1>16 DEF EndFile, ContextInv, Known, Body, Types, Settings, StateType, FileType
<1>17. CASE AbortParse
  BY <1>17 DEF AbortParse, ContextInv, Known, Body, Types, Quiet, Settings, Mode, StateType,
      FileType
<1>18. CASE UNCHANGED vars
  BY <1>18 DEF vars, ContextInv, Known, Body, Types, StateType, FileType
<1>19. QED
  BY <1>1, <1>2, <1>3, <1>4, <1>5, <1>6, <1>7, <1>8, <1>9, <1>10, <1>11, <1>12, <1>13, <1>14,
     <1>15, <1>16, <1>17, <1>18 DEF Next

\* An element that is generated in its own context.
LEMMA GeneratedHere ==
  ASSUME NEW n, NEW e
  PROVE  /\ Element(n, Context(e)).elt = n
         /\ Element(n, Context(e)).parent[1] = file.number
  BY DEF Element, Context

LEMMA ParentsKept ==
  ASSUME Types, RuleInv, ContextInv, ParentsAreOfTheFile, [Next]_vars
  PROVE  ParentsAreOfTheFile'
<1>1. ASSUME made' = {}
      PROVE  ParentsAreOfTheFile'
  BY <1>1 DEF ParentsAreOfTheFile
<1>2. CASE HeadTime
  <2>1. Known' => Known /\ file'.number = file.number
    BY <1>2 DEF HeadTime, Known, Types, FileType
  <2>2. made' \subseteq {Element("TIME", compat_state.HEAD_TIME)}
        /\ (made' # {} => compat_state.HEAD_TIME # NULL)
    BY <1>2 DEF HeadTime, OutOfContext
  <2>3. /\ Element("TIME", compat_state.HEAD_TIME).elt = "TIME"
        /\ Element("TIME", compat_state.HEAD_TIME).parent = compat_state.HEAD_TIME
    BY DEF Element
  <2>4. QED
    BY <2>1, <2>2, <2>3 DEF ParentsAreOfTheFile, ContextInv
<1>3. CASE Country
  <2>1. (Known' => Known) /\ file'.number = file.number /\ file'.submitter = file.submitter
    BY <1>3 DEF Country, Section, Known, Types, FileType
  <2>2. made' \subseteq {Element("CTRY", compat_state.SUBM_CTRY)}
        /\ (made' # {} => compat_state.SUBM_CTRY # NULL)
    BY <1>3 DEF Country, OutOfContext
  <2>3. Element("CTRY", compat_state.SUBM_CTRY).parent = compat_state.SUBM_CTRY
    BY DEF Element
  <2>4. QED
    BY <2>1, <2>2, <2>3 DEF ParentsAreOfTheFile, ContextInv
<1>4. ASSUME NEW s \in {"SUBM", "CHAR", "GEDC", "GEDC without FORM"}, HeadSection(s)
      PROVE  ParentsAreOfTheFile'
  <2>1. file'.number = file.number /\ made' \subseteq {Element("GEDC.FORM", Context("GEDC"))}
    BY <1>4 DEF HeadSection, Types, FileType
  <2>2. /\ Element("GEDC.FORM", Context("GEDC")).elt = "GEDC.FORM"
        /\ Element("GEDC.FORM", Context("GEDC")).parent[1] = file.number
    BY GeneratedHere
  <2>3. QED
    BY <2>1, <2>2 DEF ParentsAreOfTheFile
<1>5. CASE CloseHead
  <2>1. file'.number = file.number
    BY <1>5, CloseHeadEffect
  <2>2. \A e \in made' : \E s \in {"SUBM", "GEDC", "CHAR"} : e = Element(s, Context("HEAD"))
    BY <1>5 DEF CloseHead, HeadRules
  <2>3. QED
    BY <2>1, <2>2, GeneratedHere DEF ParentsAreOfTheFile
<1>6. CASE compat_generate_slgc_famc_link
  <2>1. file'.number = file.number /\ made' = {Element("FAMC", Context("SLGC"))}
    BY <1>6 DEF compat_generate_slgc_famc_link, Types, FileType
  <2>2. QED
    BY <2>1, GeneratedHere DEF ParentsAreOfTheFile
<1>7. CASE IndividualAddress
  <2>1. file'.number = file.number
        /\ made' = {Element("RESI", Context("INDI")), Element("ADDR", Context("RESI"))}
    BY <1>7 DEF IndividualAddress, Section, Types, FileType
  <2>2. /\ Element("RESI", Context("INDI")).elt = "RESI"
        /\ Element("RESI", Context("INDI")).parent[1] = file.number
        /\ Element("ADDR", Context("RESI")).elt = "ADDR"
        /\ Element("ADDR", Context("RESI")).parent[1] = file.number
    BY GeneratedHere
  <2>3. QED
    BY <2>1, <2>2 DEF ParentsAreOfTheFile
<1>8. CASE OpenComment \/ CommentLine \/ UndefinedTag
  <2>1. file'.number = file.number
    BY <1>8 DEF OpenComment, CommentLine, UndefinedTag, Section, Types, FileType
  <2>2. PICK n \in {"_COMM", "_CONT", "_TAG"}, e \in {"SUBM", "_COMM", at} :
          made' = {Element(n, Context(e))}
    BY <1>8 DEF OpenComment, CommentLine, UndefinedTag
  <2>3. Element(n, Context(e)).elt = n /\ Element(n, Context(e)).parent[1] = file.number
    BY GeneratedHere
  <2>4. QED
    BY <2>1, <2>2, <2>3 DEF ParentsAreOfTheFile
<1>9. CASE UNCHANGED vars
  BY <1>9 DEF vars, ParentsAreOfTheFile, Known
<1>10. QED
  BY <1>1, <1>2, <1>3, <1>4, <1>5, <1>6, <1>7, <1>8, <1>9
     DEF Next, Quiet, StartFile, compute_compatibility, HeadDate, set_compatibility_program,
         set_compatibility_version, OpenRecord, Address, CloseUserSection, CloseRecord, EndFile,
         AbortParse

-----------------------------------------------------------------------------
(* The theorems.                                                           *)

LEMMA InvInit == Init => Inv /\ ParentsAreOfTheFile
<1> SUFFICES ASSUME Init
             PROVE  Inv /\ ParentsAreOfTheFile
  OBVIOUS
<1>1. compat_state \in StateType /\ file \in FileType
  BY DEF Init, NoState, StateType, Saved, NewFile, FileType, HeadElement
<1>2. ~Known /\ at = "between"
  BY DEF Init, Known
<1>3. Types
  BY <1>1 DEF Init, Types, CompatType, Place
<1>4. QED
  BY <1>2, <1>3 DEF Inv, ModeInv, RuleInv, LinkInv, ContextInv, ParentsAreOfTheFile, Body

LEMMA InvAlways == Spec => [](Inv /\ ParentsAreOfTheFile)
<1>1. Inv /\ ParentsAreOfTheFile /\ [Next]_vars => (Inv /\ ParentsAreOfTheFile)'
  BY TypesKept, ModeKept, RulesKept, LinksKept, ContextsKept, ParentsKept DEF Inv
<1>2. QED
  BY <1>1, InvInit, PTL DEF Spec

\* The rules that are bent for a file are those of the program and version that
\* its own header names (compute_compatibility), for any session of files, and
\* the state of the rules is only set while they are on.
THEOREM CompatibilityOfTheFileAlways == Spec => []CompatibilityOfTheFile
<1>1. Inv => CompatibilityOfTheFile
  <2> SUFFICES ASSUME Inv
               PROVE  CompatibilityOfTheFile
    OBVIOUS
  <2>1. CompatType \subseteq (UNION {compat_matrix[r] : r \in DOMAIN compat_matrix}) \cup {None, "FAMORIG"}
    <3>1. {"FTREE", "LIFELINES", "PAF2", "EASYTREE"} = compat_matrix["NO_SUBMITTER"]
          /\ {"PAF5"} = compat_matrix["TAGS_551"] /\ {"PAF4"} = compat_matrix["SUBM_CTRY"]
          /\ {"NO_SUBMITTER", "TAGS_551", "SUBM_CTRY"} \subseteq DOMAIN compat_matrix
      BY DEF compat_matrix
    <3>2. \A r \in DOMAIN compat_matrix :
            compat_matrix[r] \subseteq UNION {compat_matrix[q] : q \in DOMAIN compat_matrix}
      OBVIOUS
    <3>3. {"FTREE", "LIFELINES", "PAF2", "EASYTREE", "PAF5", "PAF4"}
            \subseteq UNION {compat_matrix[r] : r \in DOMAIN compat_matrix}
      BY <3>1, <3>2
    <3>4. CompatType = {"FTREE", "LIFELINES", "PAF2", "EASYTREE", "PAF5", "PAF4"} \cup {None, "FAMORIG"}
      BY DEF CompatType
    <3>5. QED
      BY <3>3, <3>4
  <2>2. compat_state.NO_SUBMITTER = 0
    BY DEF Inv, Types, StateType
  <2>3. TypeOK
    BY <2>1, <2>2 DEF Inv, Types, RuleInv, TypeOK
  <2>4. QED
    BY <2>3 DEF Inv, ModeInv, CompatibilityOfTheFile
<1>2. QED
  BY <1>1, InvAlways, PTL

\* The submitter that a generated link refers to is generated once
\* (compat_generate_submitter), in files with any number of records and
\* sections; the family (compat_generate_slgc_famc_fam) is generated if the first
\* individual with a link has only one, then again at the end of individuals
\* after it, and never if that individual has several; without a link, never.
THEOREM LinksAreDefinedAlways == Spec => []LinksAreDefined
<1>1. Inv => LinksAreDefined
  <2>1. Inv => file.links \in Nat /\ file.since \in Nat
    BY DEF Inv, Types, FileType
  <2>2. QED
    BY <2>1 DEF Inv, LinkInv, LinksAreDefined, Known, Body
<1>2. QED
  BY <1>1, InvAlways, PTL

\* An element that is generated out of context goes to a parent of the same
\* file, and a country to an address after the last submitter record.
THEOREM ParentsAreOfTheFileAlways == Spec => []ParentsAreOfTheFile
  BY InvAlways, PTL
=============================================================================
