---------------------------- MODULE MCRoundTrip -----------------------------
(* RoundTrip for each kind of record, and deeper for notes and citations. *)
EXTENDS RoundTrip

MCRecords == Record
MCDeep == {"SUB_NOTE", "SUB_SOUR"}
=============================================================================
