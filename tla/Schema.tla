------------------------------- MODULE Schema -------------------------------
(***************************************************************************)
(* Where the object model (gom/*.c) puts what the parser reads.            *)
(*                                                                         *)
(* The start callback of a section gets the context of its parent: the     *)
(* element or record, and the struct that stands for it.  The callback     *)
(* casts the context to the struct that it expects (safe_ctxt_cast aborts  *)
(* the program if it is another one) and sets a field of it, or adds a     *)
(* struct of its own to it; in the second case it switches on the parent's *)
(* element, and in the default branch only warns, so that the new struct   *)
(* belongs to nothing.                                                     *)
(***************************************************************************)
EXTENDS Grammar

\* ELT_SUB_NOTE, ELT_SUB_SOUR and ELT_SUB_MULTIM_OBJE stand for both forms.
Elt(s) == CASE s = "SUB_NOTE_LINK" -> "SUB_NOTE"
            [] s = "SUB_SOUR_LINK" -> "SUB_SOUR"
            [] s = "SUB_MULTIM_OBJE_LINK" -> "SUB_MULTIM_OBJE"
            [] OTHER -> s

(***************************************************************************)
(* DEFINE_STRING_CB, DEFINE_DATE_CB, DEFINE_AGE_CB, DEFINE_XREF_CB,        *)
(* DEFINE_XREF_LIST_CB and DEFINE_NULL_CB: the sections that set a field   *)
(* of their parent's struct.                                               *)
(***************************************************************************)
HeaderFields ==
  {"HEAD_SOUR", "HEAD_SOUR_NAME", "HEAD_SOUR_VERS", "HEAD_SOUR_CORP", "HEAD_SOUR_DATA",
   "HEAD_SOUR_DATA_DATE", "HEAD_SOUR_DATA_COPR", "HEAD_DEST", "HEAD_SUBM", "HEAD_SUBN",
   "HEAD_DATE", "HEAD_DATE_TIME", "HEAD_FILE", "HEAD_COPR", "HEAD_GEDC", "HEAD_GEDC_VERS",
   "HEAD_GEDC_FORM", "HEAD_CHAR", "HEAD_CHAR_VERS", "HEAD_LANG", "HEAD_PLAC",
   "HEAD_PLAC_FORM", "HEAD_NOTE"}
FamilyFields == {"FAM_HUSB", "FAM_WIFE", "FAM_NCHI", "FAM_CHIL", "FAM_SUBM"}
IndividualFields == {"INDI_RESN", "INDI_SEX", "INDI_SUBM", "INDI_ALIA", "INDI_ANCI",
                     "INDI_DESI", "INDI_RFN", "INDI_AFN"}
MultimediaFields == {"OBJE_FORM", "OBJE_TITL", "OBJE_BLOB", "OBJE_OBJE"}
RepositoryFields == {"REPO_NAME"}
SourceFields == {"SOUR_DATA", "SOUR_DATA_AGNC", "SOUR_AUTH", "SOUR_TITL", "SOUR_ABBR",
                 "SOUR_PUBL", "SOUR_TEXT", "SUB_REPO"}
SubmissionFields == {"SUBN_SUBM", "SUBN_FAMF", "SUBN_TEMP", "SUBN_ANCE", "SUBN_DESC",
                     "SUBN_ORDI", "SUBN_RIN"}
SubmitterFields == {"SUBM_NAME", "SUBM_RFN", "SUBM_RIN"}
Languages == {"SUBM_LANG"}
AddressFields == {"SUB_ADDR_ADR1", "SUB_ADDR_ADR2", "SUB_ADDR_CITY", "SUB_ADDR_STAE",
                  "SUB_ADDR_POST", "SUB_ADDR_CTRY"}
AssociationFields == {"SUB_ASSO_RELA"}
AssociationType == {"SUB_ASSO_TYPE"}
ChangeDateFields == {"SUB_CHAN_DATE", "SUB_CHAN_TIME"}
EventFields == {"SUB_EVT_TYPE", "SUB_EVT_DATE", "SUB_EVT_AGE", "SUB_EVT_AGNC", "SUB_EVT_CAUS",
                "SUB_FAM_EVT_HUSB", "SUB_FAM_EVT_WIFE", "SUB_INDIV_BIRT_FAMC",
                "SUB_INDIV_ADOP_FAMC", "SUB_INDIV_ADOP_FAMC_ADOP"}
LdsEventFields == {"SUB_LSS_SLGS_STAT", "SUB_LSS_SLGS_DATE", "SUB_LSS_SLGS_TEMP",
                   "SUB_LSS_SLGS_PLAC", "SUB_LIO_BAPL_STAT", "SUB_LIO_BAPL_DATE",
                   "SUB_LIO_BAPL_TEMP", "SUB_LIO_BAPL_PLAC", "SUB_LIO_SLGC_FAMC"}
MultimediaLinkFields == {"SUB_MULTIM_OBJE_FORM", "SUB_MULTIM_OBJE_TITL",
                         "SUB_MULTIM_OBJE_FILE"}
NameFields == {"SUB_PERS_NAME_NPFX", "SUB_PERS_NAME_GIVN", "SUB_PERS_NAME_NICK",
               "SUB_PERS_NAME_SPFX", "SUB_PERS_NAME_SURN", "SUB_PERS_NAME_NSFX"}
PlaceFields == {"SUB_PLAC_FORM"}
CitationFields == {"SUB_SOUR_PAGE", "SUB_SOUR_EVEN", "SUB_SOUR_EVEN_ROLE", "SUB_SOUR_DATA",
                   "SUB_SOUR_DATA_DATE", "SUB_SOUR_QUAY"}
DescriptionFields == {"SUB_REPO_CALN_MEDI"}
SourceEventFields == {"SOUR_DATA_EVEN_DATE", "SOUR_DATA_EVEN_PLAC"}
UserRefFields == {"SUB_IDENT_REFN_TYPE"}

Fields ==
  [header |-> HeaderFields, family |-> FamilyFields, individual |-> IndividualFields,
   multimedia |-> MultimediaFields, repository |-> RepositoryFields,
   source |-> SourceFields, submission |-> SubmissionFields,
   submitter |-> SubmitterFields \cup Languages, address |-> AddressFields,
   association |-> AssociationFields \cup AssociationType,
   change_date |-> ChangeDateFields, event |-> EventFields, lds_event |-> LdsEventFields,
   multimedia_link |-> MultimediaLinkFields, personal_name |-> NameFields,
   place |-> PlaceFields, source_citation |-> CitationFields,
   source_description |-> DescriptionFields, source_event |-> SourceEventFields,
   user_ref_number |-> UserRefFields]

\* Lists, which keep every value; the other fields keep the last one.
ListFields == {"FAM_CHIL", "FAM_SUBM", "INDI_SUBM", "INDI_ALIA", "INDI_ANCI", "INDI_DESI",
               "SUBM_LANG"}

(***************************************************************************)
(* The sections with a struct of their own, and the switch of their start  *)
(* callback: from the parent's element to the struct they are added to.    *)
(***************************************************************************)
InEvents == [s \in Event |-> "event"]
InOrdinances == [s \in {"SUB_LSS_SLGS"} \cup Ordinance |-> "lds_event"]
InIndividuals == [REC_INDI |-> "individual"]

AddAddress == InEvents @@ [HEAD_SOUR_CORP |-> "header", REC_REPO |-> "repository",
                           REC_SUBM |-> "submitter"]
\* The same parents, but for ELT_SUB_FAM_EVT_EVEN, which is missing.
AddPhone == [s \in DOMAIN AddAddress \ {"SUB_FAM_EVT_EVEN"} |-> AddAddress[s]]
AddAssociation == InIndividuals
AddChangeDate == [REC_FAM |-> "family", REC_INDI |-> "individual", REC_OBJE |-> "multimedia",
                  REC_NOTE |-> "note", REC_REPO |-> "repository", REC_SOUR |-> "source",
                  REC_SUBM |-> "submitter"]
AddEvent == [REC_FAM |-> "family", REC_INDI |-> "individual"]
AddAttribute == InIndividuals
AddSpouseAge == [s \in {"SUB_FAM_EVT_HUSB", "SUB_FAM_EVT_WIFE"} |-> "event"]
AddFamilyLink == InIndividuals
AddPedigree == [SUB_FAMC |-> "family_link"]
AddLdsEvent == [REC_FAM |-> "family", REC_INDI |-> "individual"]
AddObject == InEvents @@
  [SUB_SOUR |-> "source_citation", REC_FAM |-> "family", REC_INDI |-> "individual",
   REC_SOUR |-> "source", REC_SUBM |-> "submitter"]
AddNote == InEvents @@ InOrdinances @@
  [SUB_PLAC |-> "place", SUB_SOUR |-> "source_citation", SUB_MULTIM_OBJE |-> "multimedia_link",
   REC_FAM |-> "family", SUB_CHAN |-> "change_date", SUB_PERS_NAME |-> "personal_name",
   SUB_FAMC |-> "family_link", SUB_FAMS |-> "family_link", SUB_ASSO |-> "association",
   REC_INDI |-> "individual", REC_OBJE |-> "multimedia", REC_REPO |-> "repository",
   SOUR_DATA |-> "source", SUB_REPO |-> "source", REC_SOUR |-> "source"]
AddName == InIndividuals
AddPlace == InEvents
AddCitationForgetsNotes == InEvents @@ InOrdinances @@
  [SUB_PLAC |-> "place", REC_FAM |-> "family", SUB_PERS_NAME |-> "personal_name",
   REC_INDI |-> "individual", SUB_ASSO |-> "association", REC_NOTE |-> "note"]
AddCitation == AddCitationForgetsNotes @@ [SUB_NOTE |-> "note_sub"]
AddText == [SUB_SOUR |-> "source_citation", SUB_SOUR_DATA |-> "source_citation"]
AddDescription == [SUB_REPO |-> "source"]
AddSourceEvent == [SOUR_DATA |-> "source"]
AddUserRef == [REC_FAM |-> "family", REC_INDI |-> "individual", REC_OBJE |-> "multimedia",
               REC_NOTE |-> "note", REC_REPO |-> "repository", REC_SOUR |-> "source"]

\* xxx_subscribe: which callback starts which section.
AddressSections == [SUB_ADDR |-> AddAddress, SUB_PHON |-> AddPhone]
AssociationSections == [SUB_ASSO |-> AddAssociation]
ChangeDateSections == [SUB_CHAN |-> AddChangeDate]
EventSections == [s \in FamilyEvent \cup IndivEvent |-> AddEvent]
                 @@ [s \in Attribute |-> AddAttribute] @@ [SUB_FAM_EVT_AGE |-> AddSpouseAge]
FamilyLinkSections == [SUB_FAMC |-> AddFamilyLink, SUB_FAMS |-> AddFamilyLink,
                       SUB_FAMC_PEDI |-> AddPedigree]
LdsEventSections == [s \in DOMAIN InOrdinances |-> AddLdsEvent]
MultimediaLinkSections == [SUB_MULTIM_OBJE |-> AddObject, SUB_MULTIM_OBJE_LINK |-> AddObject]
NoteSubSections == [SUB_NOTE |-> AddNote, SUB_NOTE_LINK |-> AddNote]
NameSections == [SUB_PERS_NAME |-> AddName]
PlaceSections == [SUB_PLAC |-> AddPlace]
CitationSections == [SUB_SOUR |-> AddCitation, SUB_SOUR_LINK |-> AddCitation,
                     SUB_SOUR_TEXT |-> AddText]
DescriptionSections == [SUB_REPO_CALN |-> AddDescription]
SourceEventSections == [SOUR_DATA_EVEN |-> AddSourceEvent]
UserRefSections == [SUB_IDENT_REFN |-> AddUserRef, SUB_IDENT_RIN |-> AddUserRef]

AddTo ==
  AddressSections @@ AssociationSections @@ ChangeDateSections @@ EventSections
  @@ FamilyLinkSections @@ LdsEventSections @@ MultimediaLinkSections @@ NoteSubSections
  @@ NameSections @@ PlaceSections @@ CitationSections @@ DescriptionSections
  @@ SourceEventSections @@ UserRefSections

\* DEFINE_ADDFUNC2_NOLIST and DEFINE_ADDFUNC2_STR: one value, the last one.
SingleAdded == {"SUB_PLAC", "SUB_ADDR", "SUB_CHAN", "SUB_IDENT_RIN", "SUB_FAM_EVT_AGE"}

\* user_elt_start: the structs that it adds user data to.
UserOwners == {"header", "submission", "submitter", "family", "individual", "multimedia",
               "note", "repository", "source", "user_rec", "address", "event", "place",
               "source_citation", "note_sub", "multimedia_link", "lds_event",
               "user_ref_number", "change_date", "personal_name", "family_link",
               "association", "source_event", "source_description"}

(***************************************************************************)
(* MAKE_GOM_CTXT in the start callbacks: the struct of a section's context.*)
(***************************************************************************)
RecordStruct ==
  [REC_HEAD |-> "header", REC_FAM |-> "family", REC_INDI |-> "individual",
   REC_OBJE |-> "multimedia", REC_NOTE |-> "note", REC_REPO |-> "repository",
   REC_SOUR |-> "source", REC_SUBN |-> "submission", REC_SUBM |-> "submitter",
   REC_USER |-> "user_rec"]
NewStruct ==
  [s \in Event |-> "event"] @@ InOrdinances
  @@ [s \in {"SUB_NOTE", "SUB_NOTE_LINK"} |-> "note_sub"]
  @@ [s \in {"SUB_SOUR", "SUB_SOUR_LINK"} |-> "source_citation"]
  @@ [s \in {"SUB_MULTIM_OBJE", "SUB_MULTIM_OBJE_LINK"} |-> "multimedia_link"]
  @@ [s \in {"SUB_FAMC", "SUB_FAMS"} |-> "family_link"]
  @@ [SUB_ADDR |-> "address", SUB_ASSO |-> "association",
      SUB_CHAN |-> "change_date", SUB_FAMC_PEDI |-> "pedigree",
      SUB_PERS_NAME |-> "personal_name", SUB_PLAC |-> "place",
      SUB_SOUR_TEXT |-> "text", SUB_REPO_CALN |-> "source_description",
      SOUR_DATA_EVEN |-> "source_event", SUB_IDENT_REFN |-> "user_ref_number"]

StructOfField == [s \in UNION {Fields[t] : t \in DOMAIN Fields} |->
                    CHOOSE t \in DOMAIN Fields : s \in Fields[t]]

\* What the start callback of section s casts the context of its parent
\* (element p, struct t) to, and "none" where it does not know the parent.
Cast(s, p, t) ==
  CASE s \in DOMAIN StructOfField -> StructOfField[s]
    [] s \in DOMAIN AddTo -> IF p \in DOMAIN AddTo[s] THEN AddTo[s][p] ELSE "none"
    [] s = "USER" -> IF t \in UserOwners THEN t ELSE "none"
    [] OTHER -> t \* sub_cont_conc_start and the like only duplicate the context
=============================================================================
