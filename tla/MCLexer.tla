------------------------------ MODULE MCLexer ------------------------------
(***************************************************************************)
(* Files of at most MaxLine lines of at most MaxColumn lexemes, one after  *)
(* the other, and keys checked between them.                               *)
(***************************************************************************)
EXTENDS Lexer
=============================================================================
