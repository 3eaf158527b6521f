------------------------------- MODULE Writer -------------------------------
(***************************************************************************)
(* How the object model writes its structs (the write_* functions of       *)
(* gom/*.c) and which level a line gets (gedcom/write.c).                  *)
(*                                                                         *)
(* A write_* function goes through the fields of its struct in an order of *)
(* its own; the user data of the struct come last.  The order is given     *)
(* here per section, as a sequence of sets of sections: those of one set   *)
(* are in one list of the model, which keeps the order of the file.        *)
(***************************************************************************)
EXTENDS Grammar, Sequences

NoteForms == {"SUB_NOTE", "SUB_NOTE_LINK"}
CitationForms == {"SUB_SOUR", "SUB_SOUR_LINK"}
ObjectForms == {"SUB_MULTIM_OBJE", "SUB_MULTIM_OBJE_LINK"}
Each(ss) == [i \in DOMAIN ss |-> {ss[i]}]
IdentsAndChange == Each(<<"SUB_IDENT_REFN", "SUB_IDENT_RIN", "SUB_CHAN">>)

HeaderOrder ==
  ("REC_HEAD" :> Each(<<"HEAD_CHAR", "HEAD_SOUR", "HEAD_DEST", "HEAD_DATE", "HEAD_SUBM",
                        "HEAD_SUBN", "HEAD_FILE", "HEAD_COPR", "HEAD_GEDC", "HEAD_LANG",
                        "HEAD_PLAC", "HEAD_NOTE">>))
  @@ ("HEAD_CHAR" :> Each(<<"HEAD_CHAR_VERS">>))
  @@ ("HEAD_SOUR" :> Each(<<"HEAD_SOUR_NAME", "HEAD_SOUR_VERS", "HEAD_SOUR_CORP",
                            "HEAD_SOUR_DATA">>))
  @@ ("HEAD_SOUR_CORP" :> Each(<<"SUB_ADDR", "SUB_PHON">>))
  @@ ("HEAD_SOUR_DATA" :> Each(<<"HEAD_SOUR_DATA_DATE", "HEAD_SOUR_DATA_COPR">>))
  @@ ("HEAD_DATE" :> Each(<<"HEAD_DATE_TIME">>))
  @@ ("HEAD_GEDC" :> Each(<<"HEAD_GEDC_VERS", "HEAD_GEDC_FORM">>))
  @@ ("HEAD_PLAC" :> Each(<<"HEAD_PLAC_FORM">>))
FamilyOrder ==
  "REC_FAM" :> <<FamilyEvent>>
    \o Each(<<"FAM_HUSB", "FAM_WIFE", "FAM_CHIL", "FAM_NCHI", "FAM_SUBM", "SUB_LSS_SLGS">>)
    \o <<CitationForms, ObjectForms, NoteForms>> \o IdentsAndChange
IndividualOrder ==
  "REC_INDI" :> Each(<<"INDI_RESN", "SUB_PERS_NAME", "INDI_SEX">>)
    \o <<IndivEvent, Attribute, Ordinance>>
    \o Each(<<"SUB_FAMC", "SUB_FAMS", "INDI_SUBM", "SUB_ASSO", "INDI_ALIA", "INDI_ANCI",
              "INDI_DESI">>)
    \o <<CitationForms, ObjectForms, NoteForms>>
    \o Each(<<"INDI_RFN", "INDI_AFN">>) \o IdentsAndChange
MultimediaOrder ==
  "REC_OBJE" :> Each(<<"OBJE_FORM", "OBJE_TITL">>) \o <<NoteForms>>
    \o Each(<<"OBJE_BLOB", "OBJE_OBJE">>) \o IdentsAndChange
NoteOrder == "REC_NOTE" :> <<CitationForms>> \o IdentsAndChange
RepositoryOrder ==
  "REC_REPO" :> Each(<<"REPO_NAME", "SUB_ADDR", "SUB_PHON">>) \o <<NoteForms>>
    \o IdentsAndChange
SourceOrder ==
  ("REC_SOUR" :> Each(<<"SOUR_DATA", "SOUR_AUTH", "SOUR_TITL", "SOUR_ABBR", "SOUR_PUBL",
                        "SOUR_TEXT", "SUB_REPO">>)
                 \o <<ObjectForms, NoteForms>> \o IdentsAndChange)
  @@ ("SOUR_DATA" :> Each(<<"SOUR_DATA_EVEN", "SOUR_DATA_AGNC">>) \o <<NoteForms>>)
  @@ ("SUB_REPO" :> <<NoteForms, {"SUB_REPO_CALN"}>>)
SubmissionOrder ==
  "REC_SUBN" :> Each(<<"SUBN_SUBM", "SUBN_FAMF", "SUBN_TEMP", "SUBN_ANCE", "SUBN_DESC",
                       "SUBN_ORDI", "SUBN_RIN">>)
SubmitterOrder ==
  "REC_SUBM" :> Each(<<"SUBM_NAME", "SUB_ADDR", "SUB_PHON">>) \o <<ObjectForms>>
    \o Each(<<"SUBM_LANG", "SUBM_RFN", "SUBM_RIN", "SUB_CHAN">>)

AddressOrder ==
  "SUB_ADDR" :> Each(<<"SUB_ADDR_ADR1", "SUB_ADDR_ADR2", "SUB_ADDR_CITY", "SUB_ADDR_STAE",
                       "SUB_ADDR_POST", "SUB_ADDR_CTRY">>)
AssociationOrder ==
  "SUB_ASSO" :> Each(<<"SUB_ASSO_TYPE", "SUB_ASSO_RELA">>) \o <<CitationForms, NoteForms>>
ChangeDateOrder ==
  ("SUB_CHAN" :> <<{"SUB_CHAN_DATE"}, NoteForms>>)
  @@ ("SUB_CHAN_DATE" :> Each(<<"SUB_CHAN_TIME">>))
EventOrder ==
  [s \in Event |->
     Each(<<"SUB_EVT_TYPE", "SUB_EVT_DATE", "SUB_PLAC", "SUB_ADDR", "SUB_PHON",
            "SUB_EVT_AGE", "SUB_EVT_AGNC", "SUB_EVT_CAUS">>)
       \o <<CitationForms, ObjectForms, NoteForms>>
       \o Each(<<"SUB_FAM_EVT_HUSB", "SUB_FAM_EVT_WIFE">>)
       \o <<{"SUB_INDIV_BIRT_FAMC", "SUB_INDIV_ADOP_FAMC"}>>]
  @@ [s \in {"SUB_FAM_EVT_HUSB", "SUB_FAM_EVT_WIFE"} |-> Each(<<"SUB_FAM_EVT_AGE">>)]
  @@ ("SUB_INDIV_ADOP_FAMC" :> Each(<<"SUB_INDIV_ADOP_FAMC_ADOP">>))
FamilyLinkOrder == [s \in {"SUB_FAMC", "SUB_FAMS"} |-> <<{"SUB_FAMC_PEDI"}, NoteForms>>]
LdsEventOrder ==
  ("SUB_LSS_SLGS" :> Each(<<"SUB_LSS_SLGS_STAT", "SUB_LSS_SLGS_DATE", "SUB_LSS_SLGS_TEMP",
                            "SUB_LSS_SLGS_PLAC">>) \o <<CitationForms, NoteForms>>)
  @@ [s \in Ordinance |->
        Each(<<"SUB_LIO_BAPL_STAT", "SUB_LIO_BAPL_DATE", "SUB_LIO_BAPL_TEMP",
               "SUB_LIO_BAPL_PLAC", "SUB_LIO_SLGC_FAMC">>) \o <<CitationForms, NoteForms>>]
ObjectOrder ==
  "SUB_MULTIM_OBJE" :> Each(<<"SUB_MULTIM_OBJE_FORM", "SUB_MULTIM_OBJE_TITL",
                              "SUB_MULTIM_OBJE_FILE">>) \o <<NoteForms>>
NoteSubOrder == [s \in NoteForms |-> <<CitationForms>>]
NameOrder ==
  "SUB_PERS_NAME" :> Each(<<"SUB_PERS_NAME_NPFX", "SUB_PERS_NAME_GIVN", "SUB_PERS_NAME_NICK",
                            "SUB_PERS_NAME_SPFX", "SUB_PERS_NAME_SURN", "SUB_PERS_NAME_NSFX">>)
                     \o <<CitationForms, NoteForms>>
PlaceOrder == "SUB_PLAC" :> <<{"SUB_PLAC_FORM"}, CitationForms, NoteForms>>
CitationOrderNoteless ==
  ("SUB_SOUR_LINK" :> Each(<<"SUB_SOUR_PAGE", "SUB_SOUR_EVEN", "SUB_SOUR_DATA", "SUB_SOUR_QUAY">>)
                      \o <<ObjectForms, NoteForms>>)
  @@ ("SUB_SOUR_EVEN" :> Each(<<"SUB_SOUR_EVEN_ROLE">>))
  @@ ("SUB_SOUR_DATA" :> Each(<<"SUB_SOUR_DATA_DATE", "SUB_SOUR_TEXT">>))
  @@ ("SUB_SOUR" :> <<{"SUB_SOUR_TEXT"}>>)
CitationOrder == ("SUB_SOUR" :> <<{"SUB_SOUR_TEXT"}, NoteForms>>) @@ CitationOrderNoteless
DescriptionOrder == "SUB_REPO_CALN" :> Each(<<"SUB_REPO_CALN_MEDI">>)
SourceEventOrder ==
  "SOUR_DATA_EVEN" :> Each(<<"SOUR_DATA_EVEN_DATE", "SOUR_DATA_EVEN_PLAC">>)
UserRefOrder == "SUB_IDENT_REFN" :> Each(<<"SUB_IDENT_REFN_TYPE">>)

WriteOrder ==
  HeaderOrder @@ FamilyOrder @@ IndividualOrder @@ MultimediaOrder @@ NoteOrder
    @@ RepositoryOrder @@ SourceOrder @@ SubmissionOrder @@ SubmitterOrder @@ AddressOrder
    @@ AssociationOrder @@ ChangeDateOrder @@ EventOrder @@ FamilyLinkOrder @@ LdsEventOrder
    @@ ObjectOrder @@ NoteSubOrder @@ NameOrder @@ PlaceOrder @@ CitationOrder
    @@ DescriptionOrder @@ SourceEventOrder @@ UserRefOrder
Order(s) == IF s \in DOMAIN WriteOrder THEN WriteOrder[s] ELSE <<>>

\* Lines that are only written for what is below them: sections without a
\* field of their own in the struct.
OnlyForItsContent == {"HEAD_PLAC", "SOUR_DATA", "SUB_SOUR_DATA", "SUB_FAM_EVT_HUSB",
                      "SUB_FAM_EVT_WIFE"}

\* write_multimedia_links: of a link only the line itself is written.
WritesUserData(s) == s # "SUB_MULTIM_OBJE_LINK"

(***************************************************************************)
(* gedcom/write.c.  A write handle has the elements of the line written    *)
(* last and of its parents: ctxt_stack[n] at level n, up to ctxt_level.    *)
(***************************************************************************)
\* The types of value that tag_data allows; a section that is not named here
\* has a string.
HeadTypes ==
  [s \in {"REC_HEAD", "REC_FAM", "REC_INDI", "REC_OBJE", "REC_REPO", "REC_SOUR", "REC_SUBN",
          "REC_SUBM", "HEAD_GEDC", "HEAD_PLAC", "OBJE_BLOB"} |-> {"null"}]
  @@ [s \in {"HEAD_SOUR_DATA_DATE", "HEAD_DATE"} |-> {"date"}]
  @@ [s \in {"HEAD_SUBM", "HEAD_SUBN", "FAM_HUSB", "FAM_WIFE", "FAM_CHIL", "FAM_SUBM",
             "INDI_SUBM", "INDI_ALIA", "INDI_ANCI", "INDI_DESI"} |-> {"pointer"}]
SourceTypes ==
  [s \in {"OBJE_OBJE", "SUBN_SUBM", "SUB_ASSO", "SUB_FAMC"} |-> {"pointer"}]
  @@ [s \in {"SOUR_DATA", "SUB_CHAN"} |-> {"null"}]
  @@ [s \in {"SOUR_DATA_EVEN_DATE", "SUB_CHAN_DATE", "SUB_EVT_DATE"} |-> {"date"}]
  @@ [SUB_EVT_AGE |-> {"age"}]
EventTypes ==
  [s \in {"SUB_FAM_EVT", "SUB_INDIV_BIRT", "SUB_INDIV_GEN", "SUB_INDIV_ADOP"} |->
     {"null", "string"}]
  @@ [s \in {"SUB_FAM_EVT_HUSB", "SUB_FAM_EVT_WIFE", "SUB_FAM_EVT_EVEN", "SUB_INDIV_RESI",
             "SUB_INDIV_EVEN", "SUB_LIO_BAPL", "SUB_LIO_SLGC", "SUB_LSS_SLGS", "SUB_SOUR_DATA"}
        |-> {"null"}]
  @@ [s \in {"SUB_INDIV_BIRT_FAMC", "SUB_INDIV_ADOP_FAMC", "SUB_LIO_SLGC_FAMC", "SUB_REPO",
             "SUB_FAMS"} |-> {"pointer"}]
  @@ [s \in {"SUB_LIO_BAPL_DATE", "SUB_LSS_SLGS_DATE", "SUB_SOUR_DATA_DATE"} |-> {"date"}]
  @@ [SUB_FAM_EVT_AGE |-> {"age"}, SUB_MULTIM_OBJE |-> {"null", "pointer"},
      SUB_NOTE |-> {"null", "string", "pointer"}, SUB_SOUR |-> {"string", "pointer"}]
AllowedTypes == HeadTypes @@ SourceTypes @@ EventTypes
CheckType(elt, type) ==
  type \in (IF elt \in DOMAIN AllowedTypes THEN AllowedTypes[elt] ELSE {"string"})

\* The types that the write_* functions pass for section s: they call
\* gedcom_write_element_xref, _date, _age and _str, or gedcom_write_record_str,
\* the last two with a string or with NULL.
Pointers == {"HEAD_SUBM", "HEAD_SUBN", "FAM_HUSB", "FAM_WIFE", "FAM_CHIL", "FAM_SUBM",
             "INDI_SUBM", "INDI_ALIA", "INDI_ANCI", "INDI_DESI", "OBJE_OBJE", "SUB_REPO",
             "SUBN_SUBM", "SUB_ASSO", "SUB_FAMC", "SUB_FAMS", "SUB_INDIV_BIRT_FAMC",
             "SUB_INDIV_ADOP_FAMC", "SUB_LIO_SLGC_FAMC", "SUB_MULTIM_OBJE_LINK",
             "SUB_NOTE_LINK", "SUB_SOUR_LINK"}
Dates == {"HEAD_SOUR_DATA_DATE", "HEAD_DATE", "SUB_CHAN_DATE", "SUB_EVT_DATE",
          "SUB_LSS_SLGS_DATE", "SUB_LIO_BAPL_DATE", "SUB_SOUR_DATA_DATE", "SOUR_DATA_EVEN_DATE"}
AgeValues == {"SUB_EVT_AGE", "SUB_FAM_EVT_AGE"}
RecordsWithoutValue == {"REC_HEAD", "REC_FAM", "REC_INDI", "REC_OBJE", "REC_REPO", "REC_SOUR",
                        "REC_SUBN", "REC_SUBM"}
WithoutValue == {"HEAD_GEDC", "HEAD_PLAC", "SOUR_DATA", "SUB_CHAN", "SUB_FAM_EVT_HUSB",
                 "SUB_FAM_EVT_WIFE", "SUB_FAM_EVT_EVEN", "SUB_INDIV_RESI", "SUB_INDIV_EVEN",
                 "SUB_LIO_BAPL", "SUB_LIO_SLGC", "SUB_LSS_SLGS", "SUB_MULTIM_OBJE",
                 "SUB_SOUR_DATA"}
MayHaveNone == {"SUB_FAM_EVT", "SUB_INDIV_BIRT", "SUB_INDIV_GEN", "SUB_INDIV_ADOP", "SUB_NOTE"}
PassedTypes(s) ==
  CASE s \in Pointers -> {"pointer"}
    [] s \in Dates -> {"date"}
    [] s \in AgeValues -> {"age"}
    [] s \in RecordsWithoutValue \cup WithoutValue -> {"null"}
    [] s \in MayHaveNone -> {"null", "string"}
    [] OTHER -> {"string"}

\* The list that an event is in, and the element that write_events takes for
\* it: it goes by the tag.  "none" stands for 0.
ListOf(s) == CASE s \in FamilyEvent -> "family" [] s \in Attribute -> "attribute" [] OTHER -> "event"
get_gedcom_elt(list, tag) ==
  CASE list = "family" -> IF tag = "EVEN" THEN "SUB_FAM_EVT_EVEN" ELSE "SUB_FAM_EVT"
    [] list = "attribute" -> IF tag = "RESI" THEN "SUB_INDIV_RESI" ELSE "SUB_INDIV_ATTR"
    [] tag \in {"BIRT", "CHR"} -> "SUB_INDIV_BIRT"
    [] tag \in {"DEAT", "BURI", "CREM", "BAPM", "BARM", "BASM", "BLES", "CHRA", "CONF", "FCOM",
               "ORDN", "NATU", "EMIG", "IMMI", "CENS", "PROB", "WILL", "GRAD", "RETI"} ->
         "SUB_INDIV_GEN"
    [] tag = "ADOP" -> "SUB_INDIV_ADOP"
    [] tag = "EVEN" -> "SUB_INDIV_EVEN"
    [] OTHER -> "none"
get_gedcom_fam_elt(elt) ==
  CASE elt = "SUB_INDIV_BIRT" -> "SUB_INDIV_BIRT_FAMC"
    [] elt = "SUB_INDIV_ADOP" -> "SUB_INDIV_ADOP_FAMC"
    [] OTHER -> "none"
\* The same for write_lds_events.
OrdinanceElt(tag) ==
  CASE tag \in {"BAPL", "CONL", "ENDL"} -> "SUB_LIO_BAPL"
    [] tag = "SLGC" -> "SUB_LIO_SLGC"
    [] tag = "SLGS" -> "SUB_LSS_SLGS"
    [] OTHER -> "none"
Tags == EventTags @@ AttributeTags @@ IndivEventTags @@ OrdinanceTags
EltsByTag ==
  [s \in DOMAIN Tags |->
     {IF s \in Event THEN get_gedcom_elt(ListOf(s), t) ELSE OrdinanceElt(t) : t \in Tags[s]}]

NewHandle == [ctxt_level |-> -1, ctxt_stack |-> [n \in 0..9 |-> "none"]]

\* The level where get_level stops, and -1 if the parent is on no level.
FoundParent(h, p) ==
  LET at == {n \in 0..h.ctxt_level : h.ctxt_stack[n] = p}
  IN IF at = {} THEN -1 ELSE CHOOSE n \in at : \A m \in at : m <= n

\* get_level for an element below element p (-1: none) of the handle h.  When
\* it does not find the parent it has gone down to level 0.
GetLevel(h, elt, p) ==
  IF p = "none" THEN [ctxt_level |-> 0, ctxt_stack |-> [h.ctxt_stack EXCEPT ![0] = elt]]
  ELSE IF FoundParent(h, p) = -1 THEN [h EXCEPT !.ctxt_level = 0]
  ELSE LET n == FoundParent(h, p) + 1
       IN [ctxt_level |-> n, ctxt_stack |-> [h.ctxt_stack EXCEPT ![n] = elt]]
=============================================================================
