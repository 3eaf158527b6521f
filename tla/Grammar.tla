------------------------------ MODULE Grammar -------------------------------
(***************************************************************************)
(* What the grammar of gedcom/gedcom.y allows in each section of a record, *)
(* and how often: its rules X_subs and X_sub with the OCCUR and CHECK      *)
(* macros in them.                                                         *)
(*                                                                         *)
(* A section has the name of the element or record that it is reported as, *)
(* without ELT_.  NOTE, SOUR and OBJE come in two forms, one that holds    *)
(* the text and one that points to a record: X_LINK is the second.  Tags   *)
(* that share an element (the events) share a section.  The sections that  *)
(* only a compatibility mode allows are left out.                          *)
(***************************************************************************)
EXTENDS Integers, TLC

Unbounded == 1000
UpTo(n, S) == [s \in S |-> n]
One(S) == UpTo(1, S)         \* 0:1 and 1:1
Many(S) == UpTo(Unbounded, S) \* 0:M

(***************************************************************************)
(* Parts that several sections have.                                       *)
(***************************************************************************)
Notes == Many({"SUB_NOTE", "SUB_NOTE_LINK"})
Citations == Many({"SUB_SOUR", "SUB_SOUR_LINK"})
Objects == Many({"SUB_MULTIM_OBJE", "SUB_MULTIM_OBJE_LINK"})
Idents == Many({"SUB_IDENT_REFN"}) @@ One({"SUB_IDENT_RIN"})
Change == One({"SUB_CHAN"})
Address == One({"SUB_ADDR"}) @@ UpTo(3, {"SUB_PHON"})
Continuation == Many({"SUB_CONT", "SUB_CONC"})
EventDetail ==
  One({"SUB_EVT_TYPE", "SUB_EVT_DATE", "SUB_EVT_AGE", "SUB_EVT_AGNC", "SUB_EVT_CAUS"})
    @@ Many({"SUB_PLAC"}) @@ Address @@ Citations @@ Objects @@ Notes

FamilyEvent == {"SUB_FAM_EVT", "SUB_FAM_EVT_EVEN"}
IndivEvent == {"SUB_INDIV_BIRT", "SUB_INDIV_GEN", "SUB_INDIV_ADOP", "SUB_INDIV_EVEN"}
Attribute == {"SUB_INDIV_ATTR", "SUB_INDIV_RESI"}
Event == FamilyEvent \cup IndivEvent \cup Attribute
Ordinance == {"SUB_LIO_BAPL", "SUB_LIO_SLGC"}

\* The tags of a section that stands for several of them.
EventTags ==
  [SUB_FAM_EVT |-> {"ANUL", "CENS", "DIV", "DIVF", "ENGA", "MARR", "MARB", "MARC", "MARL", "MARS"},
   SUB_FAM_EVT_EVEN |-> {"EVEN"}]
AttributeTags ==
  [SUB_INDIV_ATTR |-> {"CAST", "DSCR", "EDUC", "IDNO", "NATI", "NCHI", "NMR", "OCCU", "PROP",
                       "RELI", "SSN", "TITL"},
   SUB_INDIV_RESI |-> {"RESI"}]
IndivEventTags ==
  [SUB_INDIV_BIRT |-> {"BIRT", "CHR"},
   SUB_INDIV_GEN |-> {"DEAT", "BURI", "CREM", "BAPM", "BARM", "BASM", "BLES", "CHRA", "CONF",
                      "FCOM", "ORDN", "NATU", "EMIG", "IMMI", "CENS", "PROB", "WILL", "GRAD",
                      "RETI"},
   SUB_INDIV_ADOP |-> {"ADOP"},
   SUB_INDIV_EVEN |-> {"EVEN"}]
OrdinanceTags == [SUB_LIO_BAPL |-> {"BAPL", "CONL", "ENDL"}, SUB_LIO_SLGC |-> {"SLGC"},
                  SUB_LSS_SLGS |-> {"SLGS"}]

(***************************************************************************)
(* The records.                                                            *)
(***************************************************************************)
HeadSubs ==
  ("REC_HEAD" :> One({"HEAD_SOUR", "HEAD_DEST", "HEAD_DATE", "HEAD_SUBM",
                      "HEAD_SUBN", "HEAD_FILE", "HEAD_COPR", "HEAD_GEDC",
                      "HEAD_CHAR", "HEAD_LANG", "HEAD_PLAC", "HEAD_NOTE"}))
  @@ ("HEAD_SOUR" :> One({"HEAD_SOUR_VERS", "HEAD_SOUR_NAME", "HEAD_SOUR_CORP",
                          "HEAD_SOUR_DATA"}))
  @@ ("HEAD_SOUR_CORP" :> Address)
  @@ ("HEAD_SOUR_DATA" :> One({"HEAD_SOUR_DATA_DATE", "HEAD_SOUR_DATA_COPR"}))

HeadSubs2 ==
  ("HEAD_DATE" :> One({"HEAD_DATE_TIME"}))
  @@ ("HEAD_GEDC" :> One({"HEAD_GEDC_VERS", "HEAD_GEDC_FORM"}))
  @@ ("HEAD_CHAR" :> One({"HEAD_CHAR_VERS"}))
  @@ ("HEAD_PLAC" :> One({"HEAD_PLAC_FORM"}))

HeadSubs3 == "HEAD_NOTE" :> Continuation

FamSubs ==
  "REC_FAM" :> (Many({"SUB_FAM_EVT", "SUB_FAM_EVT_EVEN", "FAM_CHIL", "FAM_SUBM",
                     "SUB_LSS_SLGS"})
               @@ One({"FAM_HUSB", "FAM_WIFE", "FAM_NCHI"})
               @@ Citations @@ Objects @@ Notes @@ Idents @@ Change)

IndiSubs ==
  "REC_INDI" :> (Many({"SUB_PERS_NAME", "SUB_FAMC", "SUB_FAMS", "SUB_ASSO", "INDI_SUBM",
                      "INDI_ALIA", "INDI_ANCI", "INDI_DESI", "INDI_AFN"}
                     \cup IndivEvent \cup Attribute \cup Ordinance)
                @@ One({"INDI_RESN", "INDI_SEX", "INDI_RFN"})
                @@ Citations @@ Objects @@ Notes @@ Idents @@ Change)

ObjeSubs ==
  ("REC_OBJE" :> (One({"OBJE_FORM", "OBJE_TITL", "OBJE_BLOB", "OBJE_OBJE"})
                 @@ Notes @@ Idents @@ Change))
  @@ ("OBJE_BLOB" :> Many({"OBJE_BLOB_CONT"}))

NoteSubs == "REC_NOTE" :> (Continuation @@ Citations @@ Idents @@ Change)

RepoSubs == "REC_REPO" :> (One({"REPO_NAME"}) @@ Address @@ Notes @@ Idents @@ Change)

SourSubs ==
  ("REC_SOUR" :> (One({"SOUR_DATA", "SOUR_AUTH", "SOUR_TITL", "SOUR_ABBR", "SOUR_PUBL",
                      "SOUR_TEXT", "SUB_REPO"})
                 @@ Objects @@ Notes @@ Idents @@ Change))
  @@ ("SOUR_DATA" :> (Many({"SOUR_DATA_EVEN"}) @@ One({"SOUR_DATA_AGNC"}) @@ Notes))
  @@ ("SOUR_DATA_EVEN" :> One({"SOUR_DATA_EVEN_DATE", "SOUR_DATA_EVEN_PLAC"}))

SourTextSubs ==
  [s \in {"SOUR_AUTH", "SOUR_TITL", "SOUR_PUBL", "SOUR_TEXT"} |-> Continuation]

SubnSubs ==
  "REC_SUBN" :> One({"SUBN_SUBM", "SUBN_FAMF", "SUBN_TEMP", "SUBN_ANCE", "SUBN_DESC",
                     "SUBN_ORDI", "SUBN_RIN"})

SubmSubs ==
  "REC_SUBM" :> (One({"SUBM_NAME", "SUBM_RFN", "SUBM_RIN"}) @@ UpTo(3, {"SUBM_LANG"})
                @@ Address @@ Objects @@ Change)

(***************************************************************************)
(* The parts.                                                              *)
(***************************************************************************)
AddressSubs ==
  "SUB_ADDR" :> (Many({"SUB_ADDR_CONT"})
                @@ One({"SUB_ADDR_ADR1", "SUB_ADDR_ADR2", "SUB_ADDR_CITY",
                        "SUB_ADDR_STAE", "SUB_ADDR_POST", "SUB_ADDR_CTRY"}))

AssoSubs == "SUB_ASSO" :> (One({"SUB_ASSO_TYPE", "SUB_ASSO_RELA"}) @@ Notes @@ Citations)

ChangeSubs ==
  ("SUB_CHAN" :> (One({"SUB_CHAN_DATE"}) @@ Notes))
  @@ ("SUB_CHAN_DATE" :> One({"SUB_CHAN_TIME"}))

LinkSubs == "SUB_FAMC" :> (Many({"SUB_FAMC_PEDI"}) @@ Notes)

FamEventSubs ==
  [s \in FamilyEvent |-> EventDetail @@ One({"SUB_FAM_EVT_HUSB", "SUB_FAM_EVT_WIFE"})]
  @@ [s \in {"SUB_FAM_EVT_HUSB", "SUB_FAM_EVT_WIFE"} |-> One({"SUB_FAM_EVT_AGE"})]

IdentSubs == "SUB_IDENT_REFN" :> One({"SUB_IDENT_REFN_TYPE"})

IndivEventSubs ==
  [s \in Attribute \cup {"SUB_INDIV_GEN", "SUB_INDIV_EVEN"} |-> EventDetail]
  @@ ("SUB_INDIV_BIRT" :> (EventDetail @@ One({"SUB_INDIV_BIRT_FAMC"})))
  @@ ("SUB_INDIV_ADOP" :> (EventDetail @@ One({"SUB_INDIV_ADOP_FAMC"})))
  @@ ("SUB_INDIV_ADOP_FAMC" :> One({"SUB_INDIV_ADOP_FAMC_ADOP"}))

OrdinanceSubs ==
  [s \in Ordinance |->
     One({"SUB_LIO_BAPL_STAT", "SUB_LIO_BAPL_DATE", "SUB_LIO_BAPL_TEMP",
          "SUB_LIO_BAPL_PLAC"}
         \cup IF s = "SUB_LIO_SLGC" THEN {"SUB_LIO_SLGC_FAMC"} ELSE {})
       @@ Citations @@ Notes]

SealingSubs ==
  "SUB_LSS_SLGS" :> (One({"SUB_LSS_SLGS_STAT", "SUB_LSS_SLGS_DATE", "SUB_LSS_SLGS_TEMP",
                         "SUB_LSS_SLGS_PLAC"}) @@ Citations @@ Notes)

ObjectSubs ==
  "SUB_MULTIM_OBJE" :> (One({"SUB_MULTIM_OBJE_FORM", "SUB_MULTIM_OBJE_TITL",
                            "SUB_MULTIM_OBJE_FILE"}) @@ Notes)

NoteSubSubs ==
  ("SUB_NOTE_LINK" :> Citations) @@ ("SUB_NOTE" :> (Continuation @@ Citations))

NameSubs ==
  "SUB_PERS_NAME" :> (One({"SUB_PERS_NAME_NPFX", "SUB_PERS_NAME_GIVN", "SUB_PERS_NAME_NICK",
                          "SUB_PERS_NAME_SPFX", "SUB_PERS_NAME_SURN", "SUB_PERS_NAME_NSFX"})
                     @@ Citations @@ Notes)

PlaceSubs == "SUB_PLAC" :> (One({"SUB_PLAC_FORM"}) @@ Citations @@ Notes)

CitationSubs ==
  ("SUB_SOUR_LINK" :> (One({"SUB_SOUR_PAGE", "SUB_SOUR_EVEN", "SUB_SOUR_DATA",
                           "SUB_SOUR_QUAY"}) @@ Objects @@ Notes))
  @@ ("SUB_SOUR_EVEN" :> One({"SUB_SOUR_EVEN_ROLE"}))
  @@ ("SUB_SOUR_DATA" :> (One({"SUB_SOUR_DATA_DATE"}) @@ Many({"SUB_SOUR_TEXT"})))

CitationSubs2 ==
  ("SUB_SOUR_TEXT" :> Continuation)
  @@ ("SUB_SOUR" :> (Continuation @@ Many({"SUB_SOUR_TEXT"}) @@ Notes))

RepoLinkSubs ==
  ("SUB_REPO" :> (Notes @@ Many({"SUB_REPO_CALN"})))
  @@ ("SUB_REPO_CALN" :> One({"SUB_REPO_CALN_MEDI"}))

SpouseSubs == "SUB_FAMS" :> Notes

(***************************************************************************)
(* The whole grammar.                                                      *)
(***************************************************************************)
StandardSubs ==
  HeadSubs @@ HeadSubs2 @@ HeadSubs3 @@ FamSubs @@ IndiSubs @@ ObjeSubs @@ NoteSubs
    @@ RepoSubs @@ SourSubs @@ SourTextSubs @@ SubnSubs @@ SubmSubs @@ AddressSubs
    @@ AssoSubs @@ ChangeSubs @@ LinkSubs @@ FamEventSubs @@ IdentSubs @@ IndivEventSubs
    @@ OrdinanceSubs @@ SealingSubs @@ ObjectSubs @@ NoteSubSubs @@ NameSubs @@ PlaceSubs
    @@ CitationSubs @@ CitationSubs2 @@ RepoLinkSubs @@ SpouseSubs

Record == {"REC_HEAD", "REC_FAM", "REC_INDI", "REC_OBJE", "REC_NOTE", "REC_REPO",
           "REC_SOUR", "REC_SUBN", "REC_SUBM", "REC_USER"}
Section == DOMAIN StandardSubs \cup {"USER", "REC_USER"}
             \cup UNION {DOMAIN StandardSubs[s] : s \in DOMAIN StandardSubs}

\* no_std_sub: every section can hold user sections, and these nothing else.
Subs == [s \in Section |->
           (IF s \in DOMAIN StandardSubs THEN StandardSubs[s] ELSE One({}))
             @@ Many({"USER"})]

\* asso_subs is not recursive, as the other rules of its kind are: it
\* produces one section at most.
AssoSections == 1
MaxSubs(s) == IF s = "SUB_ASSO" THEN AssoSections ELSE Unbounded

\* CHECK1, CHECK2 and CHK
MandatoryTable ==
  ("REC_HEAD" :> {"HEAD_SOUR", "HEAD_SUBM", "HEAD_GEDC", "HEAD_CHAR"})
  @@ ("HEAD_GEDC" :> {"HEAD_GEDC_VERS", "HEAD_GEDC_FORM"})
  @@ ("HEAD_PLAC" :> {"HEAD_PLAC_FORM"})
  @@ ("REC_OBJE" :> {"OBJE_FORM", "OBJE_BLOB"})
  @@ ("OBJE_BLOB" :> {"OBJE_BLOB_CONT"})
  @@ ("REC_SUBM" :> {"SUBM_NAME"})
  @@ ("SUB_ASSO" :> {"SUB_ASSO_TYPE", "SUB_ASSO_RELA"})
  @@ ("SUB_CHAN" :> {"SUB_CHAN_DATE"})
  @@ [s \in {"SUB_FAM_EVT_HUSB", "SUB_FAM_EVT_WIFE"} |-> {"SUB_FAM_EVT_AGE"}]
  @@ ("SUB_LIO_SLGC" :> {"SUB_LIO_SLGC_FAMC"})
  @@ ("SUB_MULTIM_OBJE" :> {"SUB_MULTIM_OBJE_FORM", "SUB_MULTIM_OBJE_FILE"})
Mandatory(s) == IF s \in DOMAIN MandatoryTable THEN MandatoryTable[s] ELSE {}

\* Sections that reset concat_buffer to their own value and get its content
\* at their end, and those that append to it.
Concatenated == {"HEAD_NOTE", "OBJE_BLOB", "REC_NOTE", "SOUR_AUTH", "SOUR_TITL",
                 "SOUR_PUBL", "SOUR_TEXT", "SUB_ADDR", "SUB_NOTE", "SUB_SOUR",
                 "SUB_SOUR_TEXT"}
Continues == {"SUB_CONT", "SUB_CONC", "SUB_ADDR_CONT", "OBJE_BLOB_CONT"}
=============================================================================
