------------------------------ MODULE MCParser -----------------------------
(***************************************************************************)
(* Sessions of any number of short files, by an application that           *)
(* subscribes any of their sections.                                       *)
(***************************************************************************)
EXTENDS Callbacks

\* A bound: the last line is read only after an error, and is one with a user
\* tag as deep as can be.
LastLine == Brackets(MaxLevel) \o <<"DELIM", "user">>
MCNext ==
  /\ CNext
  /\ lines' = MaxLines /\ lines # MaxLines => complained /\ pending' = LastLine
MCSpec == CInit /\ [][MCNext]_cvars /\ WF_cvars(CStep)
=============================================================================
