------------------------------ MODULE Ownership ------------------------------
(***************************************************************************)
(* What the structs of gom.h own: for each member the sections that fill   *)
(* it, whether the CLEANFUNC of the struct frees it, and whether its       *)
(* UNREFALLFUNC gives back the uses of keys that it holds.                 *)
(*                                                                         *)
(* A struct's own value (TEXT of a note, NAME of a person) is one of its   *)
(* members, filled by the section that makes the struct.  Members that     *)
(* share a section are filled together, or one of them (NOTE with a text   *)
(* or with a key), which the section tells apart; the value of a user line *)
(* is a string or a key, and both are followed here.                       *)
(***************************************************************************)
EXTENDS Schema, Writer

Extra == [extra |-> {"USER"}]
Noted == [note |-> NoteForms]
Cited == [citation |-> CitationForms]
Linked == [mm_link |-> ObjectForms]
Stamped == [ref |-> {"SUB_IDENT_REFN"}, record_id |-> {"SUB_IDENT_RIN"},
                  change_date |-> {"SUB_CHAN"}]

(***************************************************************************)
(* The members.                                                            *)
(***************************************************************************)
UserDataMembers == [tag |-> {"USER"}, str_value |-> {"USER"}, xref_value |-> {"USER"}]
AddressMembers ==
  [full_label |-> {"SUB_ADDR"}, line1 |-> {"SUB_ADDR_ADR1"}, line2 |-> {"SUB_ADDR_ADR2"},
   city |-> {"SUB_ADDR_CITY"}, state |-> {"SUB_ADDR_STAE"}, postal |-> {"SUB_ADDR_POST"},
   country |-> {"SUB_ADDR_CTRY"}] @@ Extra
TextMembers == [text |-> {"SUB_SOUR_TEXT"}] @@ Extra
SourceCitationMembers ==
  [description |-> {"SUB_SOUR"}, reference |-> {"SUB_SOUR_LINK"}, page |-> {"SUB_SOUR_PAGE"},
   event |-> {"SUB_SOUR_EVEN"}, role |-> {"SUB_SOUR_EVEN_ROLE"},
   date |-> {"SUB_SOUR_DATA_DATE"}, text |-> {"SUB_SOUR_TEXT"}, quality |-> {"SUB_SOUR_QUAY"}]
  @@ Linked @@ Noted @@ Extra
NoteSubMembers == [text |-> {"SUB_NOTE"}, reference |-> {"SUB_NOTE_LINK"}] @@ Cited @@ Extra
PlaceMembers == [value |-> {"SUB_PLAC"}, place_hierarchy |-> {"SUB_PLAC_FORM"}] @@ Cited @@ Noted @@ Extra
MultimediaLinkMembers ==
  [reference |-> {"SUB_MULTIM_OBJE_LINK"}, form |-> {"SUB_MULTIM_OBJE_FORM"},
   title |-> {"SUB_MULTIM_OBJE_TITL"}, file |-> {"SUB_MULTIM_OBJE_FILE"}] @@ Noted @@ Extra
LdsEventMembers ==
  [event_name |-> DOMAIN InOrdinances,
   date_status |-> {"SUB_LSS_SLGS_STAT", "SUB_LIO_BAPL_STAT"},
   date |-> {"SUB_LSS_SLGS_DATE", "SUB_LIO_BAPL_DATE"},
   temple_code |-> {"SUB_LSS_SLGS_TEMP", "SUB_LIO_BAPL_TEMP"},
   place_living_ordinance |-> {"SUB_LSS_SLGS_PLAC", "SUB_LIO_BAPL_PLAC"},
   family |-> {"SUB_LIO_SLGC_FAMC"}] @@ Cited @@ Noted @@ Extra
UserRefNumberMembers == [value |-> {"SUB_IDENT_REFN"}, type |-> {"SUB_IDENT_REFN_TYPE"}] @@ Extra
ChangeDateMembers == [date |-> {"SUB_CHAN_DATE"}, time |-> {"SUB_CHAN_TIME"}] @@ Noted @@ Extra
EventMembers ==
  [event_name |-> Event, val |-> Event, type |-> {"SUB_EVT_TYPE"}, date |-> {"SUB_EVT_DATE"},
   place |-> {"SUB_PLAC"}, address |-> {"SUB_ADDR"}, phone |-> {"SUB_PHON"},
   age |-> {"SUB_EVT_AGE"}, agency |-> {"SUB_EVT_AGNC"}, cause |-> {"SUB_EVT_CAUS"},
   husband_age |-> {"SUB_FAM_EVT_AGE"}, wife_age |-> {"SUB_FAM_EVT_AGE"},
   family |-> {"SUB_INDIV_BIRT_FAMC", "SUB_INDIV_ADOP_FAMC"},
   adoption_parent |-> {"SUB_INDIV_ADOP_FAMC_ADOP"}] @@ Cited @@ Linked @@ Noted @@ Extra
PersonalNameMembers ==
  [name |-> {"SUB_PERS_NAME"}, prefix |-> {"SUB_PERS_NAME_NPFX"},
   given |-> {"SUB_PERS_NAME_GIVN"}, nickname |-> {"SUB_PERS_NAME_NICK"},
   surname_prefix |-> {"SUB_PERS_NAME_SPFX"}, surname |-> {"SUB_PERS_NAME_SURN"},
   suffix |-> {"SUB_PERS_NAME_NSFX"}] @@ Cited @@ Noted @@ Extra
PedigreeMembers == [pedigree |-> {"SUB_FAMC_PEDI"}] @@ Extra
FamilyLinkMembers ==
  [family |-> {"SUB_FAMC", "SUB_FAMS"}, pedigree |-> {"SUB_FAMC_PEDI"}] @@ Noted @@ Extra
AssociationMembers ==
  [to |-> {"SUB_ASSO"}, type |-> {"SUB_ASSO_TYPE"}, relation |-> {"SUB_ASSO_RELA"}]
  @@ Cited @@ Noted @@ Extra
SourceEventMembers ==
  [recorded_events |-> {"SOUR_DATA_EVEN"}, date_period |-> {"SOUR_DATA_EVEN_DATE"},
   jurisdiction |-> {"SOUR_DATA_EVEN_PLAC"}] @@ Extra
SourceDescriptionMembers ==
  [call_number |-> {"SUB_REPO_CALN"}, media |-> {"SUB_REPO_CALN_MEDI"}] @@ Extra

HeaderMembers ==
  [id |-> {"HEAD_SOUR"}, name |-> {"HEAD_SOUR_NAME"}, version |-> {"HEAD_SOUR_VERS"},
   corporation_name |-> {"HEAD_SOUR_CORP"}, address |-> {"SUB_ADDR"}, phone |-> {"SUB_PHON"},
   data_name |-> {"HEAD_SOUR_DATA"}, data_date |-> {"HEAD_SOUR_DATA_DATE"},
   data_copyright |-> {"HEAD_SOUR_DATA_COPR"}, destination |-> {"HEAD_DEST"},
   date |-> {"HEAD_DATE"}, time |-> {"HEAD_DATE_TIME"}, submitter |-> {"HEAD_SUBM"},
   submission |-> {"HEAD_SUBN"}, filename |-> {"HEAD_FILE"}, copyright |-> {"HEAD_COPR"},
   gedcom_version |-> {"HEAD_GEDC_VERS"}, gedcom_form |-> {"HEAD_GEDC_FORM"},
   charset_name |-> {"HEAD_CHAR"}, charset_version |-> {"HEAD_CHAR_VERS"},
   language |-> {"HEAD_LANG"}, place_hierarchy |-> {"HEAD_PLAC_FORM"},
   note |-> {"HEAD_NOTE"}] @@ Extra
SubmissionMembers ==
  [xrefstr |-> {"REC_SUBN"}, submitter |-> {"SUBN_SUBM"}, family_file |-> {"SUBN_FAMF"},
   temple_code |-> {"SUBN_TEMP"}, nr_of_ancestor_gens |-> {"SUBN_ANCE"},
   nr_of_descendant_gens |-> {"SUBN_DESC"}, ordinance_process_flag |-> {"SUBN_ORDI"},
   record_id |-> {"SUBN_RIN"}] @@ Extra
FamilyMembers ==
  [xrefstr |-> {"REC_FAM"}, event |-> FamilyEvent, husband |-> {"FAM_HUSB"},
   wife |-> {"FAM_WIFE"}, children |-> {"FAM_CHIL"}, nr_of_children |-> {"FAM_NCHI"},
   submitters |-> {"FAM_SUBM"}, lds_spouse_sealing |-> {"SUB_LSS_SLGS"}]
  @@ Cited @@ Linked @@ Noted @@ Stamped @@ Extra
IndividualMembers ==
  [xrefstr |-> {"REC_INDI"}, restriction_notice |-> {"INDI_RESN"}, name |-> {"SUB_PERS_NAME"},
   sex |-> {"INDI_SEX"}, event |-> IndivEvent, attribute |-> Attribute,
   lds_individual_ordinance |-> Ordinance, child_to_family |-> {"SUB_FAMC"},
   spouse_to_family |-> {"SUB_FAMS"}, submitters |-> {"INDI_SUBM"},
   association |-> {"SUB_ASSO"}, alias |-> {"INDI_ALIA"},
   ancestor_interest |-> {"INDI_ANCI"}, descendant_interest |-> {"INDI_DESI"},
   record_file_nr |-> {"INDI_RFN"}, ancestral_file_nr |-> {"INDI_AFN"}]
  @@ Cited @@ Linked @@ Noted @@ Stamped @@ Extra
MultimediaMembers ==
  [xrefstr |-> {"REC_OBJE"}, form |-> {"OBJE_FORM"}, title |-> {"OBJE_TITL"},
   data |-> {"OBJE_BLOB"}, continued |-> {"OBJE_OBJE"}] @@ Noted @@ Stamped @@ Extra
NoteMembers == [xrefstr |-> {"REC_NOTE"}, text |-> {"REC_NOTE"}] @@ Cited @@ Stamped @@ Extra
RepositoryMembers ==
  [xrefstr |-> {"REC_REPO"}, name |-> {"REPO_NAME"}, address |-> {"SUB_ADDR"},
   phone |-> {"SUB_PHON"}] @@ Noted @@ Stamped @@ Extra
SourceMembers ==
  [xrefstr |-> {"REC_SOUR"}, data_event |-> {"SOUR_DATA_EVEN"},
   data_agency |-> {"SOUR_DATA_AGNC"}, data_note |-> NoteForms, author |-> {"SOUR_AUTH"},
   title |-> {"SOUR_TITL"}, abbreviation |-> {"SOUR_ABBR"}, publication |-> {"SOUR_PUBL"},
   text |-> {"SOUR_TEXT"}, repository_link |-> {"SUB_REPO"}, repository_note |-> NoteForms,
   repository_description |-> {"SUB_REPO_CALN"}] @@ Linked @@ Noted @@ Stamped @@ Extra
SubmitterMembers ==
  [xrefstr |-> {"REC_SUBM"}, name |-> {"SUBM_NAME"}, address |-> {"SUB_ADDR"},
   phone |-> {"SUB_PHON"}, language |-> {"SUBM_LANG"}, record_file_nr |-> {"SUBM_RFN"},
   record_id |-> {"SUBM_RIN"}, change_date |-> {"SUB_CHAN"}] @@ Linked @@ Extra
UserRecMembers ==
  [xrefstr |-> {"REC_USER"}, tag |-> {"REC_USER"}, str_value |-> {"REC_USER"},
   xref_value |-> {"REC_USER"}] @@ Extra

\* The lists of keys have nodes of their own.
XrefLists == {"FAM_CHIL", "FAM_SUBM", "INDI_SUBM", "INDI_ALIA", "INDI_ANCI", "INDI_DESI"}
XrefListMembers == [xref |-> XrefLists] @@ Extra

Members ==
  [user_data |-> UserDataMembers, address |-> AddressMembers, text |-> TextMembers,
   source_citation |-> SourceCitationMembers, note_sub |-> NoteSubMembers,
   place |-> PlaceMembers, multimedia_link |-> MultimediaLinkMembers,
   lds_event |-> LdsEventMembers, user_ref_number |-> UserRefNumberMembers,
   change_date |-> ChangeDateMembers, event |-> EventMembers, xref_list |-> XrefListMembers,
   personal_name |-> PersonalNameMembers, pedigree |-> PedigreeMembers,
   family_link |-> FamilyLinkMembers, association |-> AssociationMembers,
   source_event |-> SourceEventMembers, source_description |-> SourceDescriptionMembers,
   header |-> HeaderMembers, submission |-> SubmissionMembers, family |-> FamilyMembers,
   individual |-> IndividualMembers, multimedia |-> MultimediaMembers, note |-> NoteMembers,
   repository |-> RepositoryMembers, source |-> SourceMembers, submitter |-> SubmitterMembers,
   user_rec |-> UserRecMembers]

\* Members that hold the key of a record: a use of it, and no memory.
KeyMembers == {"xref_value", "reference", "family", "to", "submitter", "submission", "husband",
               "wife", "continued", "repository_link", "xref"}

\* Where the parent's element decides between members with the same section.
Inside == [data_note |-> "SOUR_DATA", repository_note |-> "SUB_REPO",
           husband_age |-> "SUB_FAM_EVT_HUSB", wife_age |-> "SUB_FAM_EVT_WIFE"]

\* The members of struct t that section s below element p fills.
Slots(t, s, p) ==
  LET fitting == {m \in DOMAIN Members[t] : s \in Members[t][m]}
      inside == {m \in fitting \cap DOMAIN Inside : Inside[m] = p}
  IN IF inside # {} THEN inside ELSE fitting \ DOMAIN Inside

\* The struct that the lines of a section are nodes of: their own, or one
\* that only the list knows of.
Node(s) == IF s \in DOMAIN NewStruct THEN NewStruct[s]
           ELSE IF s \in DOMAIN RecordStruct THEN RecordStruct[s]
           ELSE IF s = "USER" THEN "user_data"
           ELSE IF s \in XrefLists THEN "xref_list"
           ELSE "none"
AllMembers == UNION {DOMAIN Members[t] : t \in DOMAIN Members}

\* Structs that are the value of a member, and no list.
SingleStructs == {"address", "place", "change_date"}

\* header_cleanup leaves these pointers of the header as they are.
KeptByHeader == {"address", "submitter", "submission"}

(***************************************************************************)
(* CLEANFUNC: the members that are freed.                                  *)
(***************************************************************************)
UserDataClean == {"tag", "str_value"}
AddressClean == {"full_label", "line1", "line2", "city", "state", "postal", "country",
    "extra"}
TextClean == {"text"}
SourceCitationClean == {"description", "page", "event", "role", "date", "text", "quality",
    "mm_link", "note", "extra"}
NoteSubClean == {"text", "citation", "extra"}
\* (Variant: a member is forgotten.)
PlaceCleanForgetsForm == {"value", "citation", "note", "extra"}
PlaceClean == {"value", "place_hierarchy", "citation", "note", "extra"}
MultimediaLinkClean == {"form", "title", "file", "note", "extra"}
LdsEventClean == {"event_name", "date_status", "date", "temple_code",
    "place_living_ordinance", "citation", "note", "extra"}
UserRefNumberClean == {"value", "type", "extra"}
ChangeDateClean == {"date", "time", "note", "extra"}
EventClean == {"event_name", "val", "type", "date", "place", "address", "phone", "age",
    "agency", "cause", "citation", "mm_link", "note", "husband_age", "wife_age",
    "adoption_parent", "extra"}
XrefListClean == {"extra"}
PersonalNameClean == {"name", "prefix", "given", "nickname", "surname_prefix", "surname",
    "suffix", "citation", "note", "extra"}
PedigreeClean == {"pedigree"}
FamilyLinkClean == {"pedigree", "note", "extra"}
AssociationClean == {"type", "relation", "note", "citation", "extra"}
SourceEventClean == {"recorded_events", "date_period", "jurisdiction", "extra"}
SourceDescriptionClean == {"call_number", "media", "extra"}
HeaderClean == {"id", "name", "version", "corporation_name", "address", "phone", "data_name",
    "data_date", "data_copyright", "destination", "date", "time", "filename", "copyright",
    "gedcom_version", "gedcom_form", "charset_name", "charset_version", "language",
    "place_hierarchy", "note", "extra"}
SubmissionClean == {"xrefstr", "family_file", "temple_code", "nr_of_ancestor_gens",
    "nr_of_descendant_gens", "ordinance_process_flag", "record_id", "extra"}
FamilyClean == {"xrefstr", "event", "children", "nr_of_children", "submitters",
    "lds_spouse_sealing", "citation", "mm_link", "note", "ref", "record_id", "change_date",
    "extra"}
IndividualClean == {"xrefstr", "restriction_notice", "name", "sex", "event", "attribute",
    "lds_individual_ordinance", "child_to_family", "spouse_to_family", "submitters",
    "association", "alias", "ancestor_interest", "descendant_interest", "citation", "mm_link",
    "note", "record_file_nr", "ancestral_file_nr", "ref", "record_id", "change_date", "extra"}
MultimediaClean == {"xrefstr", "form", "title", "note", "data", "ref", "record_id",
    "change_date", "extra"}
NoteClean == {"xrefstr", "text", "citation", "ref", "record_id", "change_date", "extra"}
RepositoryClean == {"xrefstr", "name", "address", "phone", "note", "ref", "record_id",
    "change_date", "extra"}
SourceClean == {"xrefstr", "data_event", "data_agency", "data_note", "author", "title",
    "abbreviation", "publication", "text", "repository_note", "repository_description",
    "mm_link", "note", "ref", "record_id", "change_date", "extra"}
SubmitterClean == {"xrefstr", "name", "address", "phone", "mm_link", "language",
    "record_file_nr", "record_id", "change_date", "extra"}
UserRecClean == {"xrefstr", "tag", "str_value", "extra"}

(***************************************************************************)
(* UNREFALLFUNC: the members whose uses are given back.                    *)
(***************************************************************************)
UserDataUnref == {"xref_value"}
AddressUnref == {"extra"}
TextUnref == {"extra"}
SourceCitationUnref == {"reference", "text", "mm_link", "note", "extra"}
NoteSubUnref == {"reference", "citation", "extra"}
PlaceUnref == {"citation", "note", "extra"}
MultimediaLinkUnref == {"reference", "note", "extra"}
LdsEventUnref == {"family", "citation", "note", "extra"}
UserRefNumberUnref == {"extra"}
\* (Variant: a member is forgotten.)
ChangeDateUnrefForgetsNotes == {"extra"}
ChangeDateUnref == {"note", "extra"}
EventUnref == {"place", "address", "citation", "mm_link", "note", "family", "extra"}
XrefListUnref == {"xref", "extra"}
PersonalNameUnref == {"citation", "note", "extra"}
PedigreeUnref == {"extra"}
FamilyLinkUnref == {"family", "pedigree", "note", "extra"}
AssociationUnref == {"to", "citation", "note", "extra"}
SourceEventUnref == {"extra"}
SourceDescriptionUnref == {"extra"}
SubmissionUnref == {"submitter", "extra"}
FamilyUnref == {"event", "husband", "wife", "children", "submitters", "lds_spouse_sealing",
    "citation", "mm_link", "note", "ref", "change_date", "extra"}
IndividualUnref == {"name", "event", "attribute", "lds_individual_ordinance",
    "child_to_family", "spouse_to_family", "submitters", "association", "alias",
    "ancestor_interest", "descendant_interest", "citation", "mm_link", "note", "ref",
    "change_date", "extra"}
MultimediaUnref == {"note", "continued", "ref", "change_date", "extra"}
NoteUnref == {"citation", "ref", "change_date", "extra"}
RepositoryUnref == {"address", "note", "ref", "change_date", "extra"}
SourceUnref == {"data_event", "data_note", "repository_link", "repository_note",
    "repository_description", "mm_link", "note", "ref", "change_date", "extra"}
SubmitterUnref == {"address", "mm_link", "change_date", "extra"}
UserRecUnref == {"xref_value", "extra"}

Clean == [user_data |-> UserDataClean, address |-> AddressClean, text |-> TextClean,
   source_citation |-> SourceCitationClean, note_sub |-> NoteSubClean, place |-> PlaceClean,
   multimedia_link |-> MultimediaLinkClean, lds_event |-> LdsEventClean, user_ref_number |->
   UserRefNumberClean, change_date |-> ChangeDateClean, event |-> EventClean, xref_list |->
   XrefListClean, personal_name |-> PersonalNameClean, pedigree |-> PedigreeClean, family_link
   |-> FamilyLinkClean, association |-> AssociationClean, source_event |-> SourceEventClean,
   source_description |-> SourceDescriptionClean, header |-> HeaderClean, submission |->
   SubmissionClean, family |-> FamilyClean, individual |-> IndividualClean, multimedia |->
   MultimediaClean, note |-> NoteClean, repository |-> RepositoryClean, source |->
   SourceClean, submitter |-> SubmitterClean, user_rec |-> UserRecClean]
Unref == [user_data |-> UserDataUnref, address |-> AddressUnref, text |-> TextUnref,
   source_citation |-> SourceCitationUnref, note_sub |-> NoteSubUnref, place |-> PlaceUnref,
   multimedia_link |-> MultimediaLinkUnref, lds_event |-> LdsEventUnref, user_ref_number |->
   UserRefNumberUnref, change_date |-> ChangeDateUnref, event |-> EventUnref, xref_list |->
   XrefListUnref, personal_name |-> PersonalNameUnref, pedigree |-> PedigreeUnref, family_link
   |-> FamilyLinkUnref, association |-> AssociationUnref, source_event |-> SourceEventUnref,
   source_description |-> SourceDescriptionUnref, submission |-> SubmissionUnref, family |->
   FamilyUnref, individual |-> IndividualUnref, multimedia |-> MultimediaUnref, note |->
   NoteUnref, repository |-> RepositoryUnref, source |-> SourceUnref, submitter |->
   SubmitterUnref, user_rec |-> UserRecUnref]
=============================================================================
