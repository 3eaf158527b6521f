------------------------------- MODULE Lexer --------------------------------
(***************************************************************************)
(* The lexer of gedcom/gedcom_lex_common.c (its actions) and               *)
(* gedcom_1byte.lex (its patterns): level numbers become opening and       *)
(* closing brackets, every line is checked for its length, and the same    *)
(* static variables serve gedcom_check_token, which the application        *)
(* reaches through every function that takes a cross-reference key.        *)
(*                                                                         *)
(* The file is a choice: any lexeme that the patterns of the current start *)
(* condition match may come next.  Every lexeme is one character long, and *)
(* the conversion of its text is left out (one that fails is junk).        *)
(***************************************************************************)
EXTENDS Integers, Sequences

CONSTANTS
  MaxLevel,      \* MAXGEDCLEVEL
  MaxLineLen,    \* MAXGEDCLINELEN
  MaxLine,       \* bound of the model: lines in a file
  MaxColumn      \* bound of the model: lexemes in a line

ASSUME LexerAssumption ==
  /\ MaxLevel \in Nat /\ MaxLevel > 2
  /\ MaxLineLen \in Nat /\ MaxLineLen > 2
  /\ MaxLine \in Nat /\ MaxColumn \in Nat

VARIABLES
  (* the static variables of the lexer *)
  start,          \* the start condition
  current_level,
  level_diff,
  line_len,       \* -1 for the (size_t)-1 of a line that was complained about
  tab_space,
  current_tag,    \* of the last line with a standard tag: "NOTE" or "other"
  line_no,
  compatibility,  \* of compat.c: the program that wrote the file
  (* where the lexer is *)
  parsing,        \* gedcom_parse runs
  scanning,       \* gedcom_lex runs, and has no token yet
  tok,            \* the last token it returned
  (* history *)
  line,           \* the line of the file that is being read
  column,         \* lexemes read of it
  eof,            \* the file is read
  depth,          \* OPEN tokens minus CLOSE tokens
  flaws,          \* what is wrong with the lines so far
  aborted,        \* the last parse ended before the end of its file
  verdict         \* of the last gedcom_check_token: "right", "lax" if it took
                  \* an invalid key, "strict" if it refused a valid one

history == <<tok, line, column, eof, depth, flaws>>
levelVars == <<current_level, level_diff>>
tagVars == <<current_tag, line_no>>
parseVars == <<compatibility, parsing, aborted, verdict>>
lexVars == <<start, current_level, level_diff, line_len, tab_space,
             current_tag, line_no, compatibility, parsing, scanning, tok, line,
             column, eof, depth, flaws, aborted, verdict>>

\* TOO_LONG is the BADTOKEN of CHECK_LINE_LEN.
Token == {"OPEN", "CLOSE", "TAG", "USERTAG", "DELIM", "ANYCHAR", "POINTER",
          "BADTOKEN", "TOO_LONG", "EOF", "none"}

\* "jump": a level more than one above the previous one; "line": a line that
\* is not a level and a tag, or that has too much in it.
FlawKind == {"jump", "line"}

\* The strings that gedcom_check_token gets, as their lexemes; they hold no
\* tab and no line end.
Key == {<<>>, <<"POINTER">>, <<"ANYCHAR">>, <<"POINTER", "ANYCHAR">>}

InitialLevelDiff == MaxLevel

\* compat_mode.  The lexer asks for three rules; PAF 5 has them all, most
\* programs have none.
Program == {"any", "PAF5"}
TabCharacter == compatibility = "PAF5"
LongNotes == compatibility = "PAF5"
NoDoubleAt == compatibility = "PAF5"

Init ==
  /\ start = "INITIAL"
  /\ current_level = -1
  /\ level_diff = InitialLevelDiff
  /\ line_len = 0
  /\ tab_space = 0
  /\ current_tag = "none"
  /\ line_no = 0
  /\ compatibility = "any"
  /\ parsing = FALSE
  /\ scanning = FALSE
  /\ tok = "none"
  /\ line = 1
  /\ column = 0
  /\ eof = FALSE
  /\ depth = 0
  /\ flaws = {}
  /\ aborted = FALSE
  /\ verdict = "none"

(***************************************************************************)
(* Tokens.                                                                 *)
(***************************************************************************)
\* The bracket that a level difference still asks for; level_diff is one more
\* after it.
BracketTooLate(diff) ==
  IF diff < 0 THEN "CLOSE" ELSE IF diff = 1 THEN "OPEN" ELSE "none"
Bracket(diff) ==
  IF diff < 1 THEN "CLOSE" ELSE IF diff = 1 THEN "OPEN" ELSE "none"

\* ACTION_BEFORE_REGEXPS: the token that is pending when yylex is entered, and
\* what is pending after it.  tab_space stops at -1 here; the code goes on
\* counting down.
EntryAt(diff, spaces) ==
  LET space == TabCharacter /\ spaces > 0
      bracket == ~space /\ Bracket(diff) # "none"
  IN [tok |-> IF space THEN "DELIM" ELSE Bracket(diff),
      level_diff |-> IF bracket THEN diff + 1 ELSE diff,
      tab_space |-> IF space THEN spaces - 2
                    ELSE IF TabCharacter THEN -1 ELSE spaces]

\* ACTION_EOF: the bracket of the last line is closed first.
AtEnd(diff) ==
  IF diff = 2 THEN [tok |-> "CLOSE", level_diff |-> 3]
              ELSE [tok |-> "EOF", level_diff |-> diff]

Emit(t) ==
  /\ tok' = t
  /\ depth' = depth + (IF t = "OPEN" THEN 1 ELSE IF t = "CLOSE" THEN -1 ELSE 0)

Return(t) == Emit(t) /\ scanning' = FALSE
Continue == UNCHANGED <<tok, depth, scanning>>
Met(f) == flaws' = flaws \cup f
Fine == UNCHANGED flaws

\* INIT_LINE_LEN
InitLineLenForgotten == UNCHANGED line_len
InitLineLen == line_len' = 0

\* compat_long_line
compat_long_line == LongNotes /\ current_level > 0 /\ current_tag = "NOTE"

\* CHECK_LINE_LEN, in front of A, the rest of an action.  A line that was
\* complained about is not checked again.
TooLong ==
  line_len # -1 /\ line_len + 1 > MaxLineLen /\ ~compat_long_line

CheckLineLen(A) ==
  \/ /\ TooLong
     /\ line_len' = -1
     /\ Return("TOO_LONG")
     /\ Met({"line"})
     /\ UNCHANGED <<start, levelVars, tagVars>>
  \/ /\ ~TooLong
     /\ line_len' = IF line_len = -1 THEN -1 ELSE line_len + 1
     /\ A

\* A lexeme that is not the end of its line.
Lexeme ==
  /\ scanning /\ ~eof
  /\ column < MaxColumn
  /\ column' = column + 1
  /\ UNCHANGED <<line, eof, parseVars>>

(***************************************************************************)
(* The files.                                                              *)
(***************************************************************************)
\* gedcom_parse_file up to gedcom_parse, with yymyinit: line_len, tab_space
\* and current_tag stay as they are.
StartFile ==
  /\ ~parsing
  /\ parsing' = TRUE
  /\ start' = "INITIAL"
  /\ current_level' = -1
  /\ level_diff' = InitialLevelDiff
  /\ verdict' = "none"
  /\ UNCHANGED <<line_len, tab_space, tagVars, compatibility, scanning, aborted,
                 history>>

\* The parser has read the SOUR of the header: compute_compatibility.
compute_compatibility(program) ==
  /\ parsing /\ ~scanning /\ tok = "CLOSE"
  /\ compatibility' = program
  /\ UNCHANGED <<start, levelVars, line_len, tab_space, tagVars, parsing,
                 scanning, aborted, verdict, history>>

\* gedcom_parse returns, at the end of the file or at an error before it; it
\* calls compat_close unless an error made it stop.  No file is refused for
\* its first bracket.
StopParse ==
  /\ parsing /\ ~scanning
  /\ tok # "none"
  /\ tok = "OPEN" => line > 1
  /\ parsing' = FALSE
  /\ aborted' = (tok # "EOF")
  /\ compatibility' \in {compatibility} \cup (IF tok = "EOF" THEN {"any"} ELSE {})
  /\ line_no' = 0
  /\ tok' = "none" /\ line' = 1 /\ column' = 0 /\ eof' = FALSE
  /\ depth' = 0 /\ flaws' = {}
  /\ UNCHANGED <<start, levelVars, line_len, tab_space, current_tag, scanning,
                 verdict>>

\* The parser calls gedcom_lex.
Call ==
  LET entry == EntryAt(level_diff, tab_space) IN
  /\ parsing /\ ~scanning /\ tok # "EOF"
  /\ level_diff' = entry.level_diff
  /\ tab_space' = entry.tab_space
  /\ \/ entry.tok = "none" /\ scanning' = TRUE /\ UNCHANGED <<tok, depth>>
     \/ entry.tok # "none" /\ Return(entry.tok)
  /\ UNCHANGED <<start, current_level, line_len, tagVars, line, column, eof,
                 flaws, parseVars>>

(***************************************************************************)
(* The lexemes of a line.                                                  *)
(***************************************************************************)
\* ACTION_INITIAL_WHITESPACE
InitialWhitespace ==
  /\ Lexeme
  /\ start = "INITIAL"
  /\ CheckLineLen(Continue /\ Fine /\ UNCHANGED <<start, levelVars, tagVars>>)
  /\ UNCHANGED tab_space

\* ACTION_DIGITS
Level(l) ==
  LET diff == l - current_level IN
  /\ Lexeme
  /\ start = "INITIAL"
  /\ CheckLineLen(
       /\ start' = "EXPECT_TAG"
       /\ current_level' = l
       /\ UNCHANGED current_tag
       /\ \/ /\ diff <= 1
             /\ level_diff' = diff + 1
             /\ Return(Bracket(diff))
             /\ Fine
             /\ UNCHANGED line_no
          \/ /\ diff > 1
             /\ level_diff' = diff
             /\ Return("BADTOKEN")
             /\ Met({"jump", "line"})
             /\ line_no' = line_no + 1)
  /\ UNCHANGED tab_space

\* ACTION_DIGITS, a level above MAXGEDCLEVEL
LevelUnchecked ==
  /\ Lexeme
  /\ start = "INITIAL"
  /\ CheckLineLen(
       /\ start' = "EXPECT_TAG"
       /\ current_level' = MaxLevel + 1
       /\ level_diff' = MaxLevel + 1 - current_level
       /\ Return("BADTOKEN")
       /\ Met({"jump", "line"})
       /\ UNCHANGED tagVars)
  /\ UNCHANGED tab_space
LevelOutOfRange ==
  /\ Lexeme
  /\ start = "INITIAL"
  /\ CheckLineLen(
       /\ Return("BADTOKEN")
       /\ Met({"line"})
       /\ line_no' = line_no + 1
       /\ UNCHANGED <<start, levelVars, current_tag>>)
  /\ UNCHANGED tab_space

\* ACTION_0_DIGITS
LeadingZero ==
  /\ Lexeme
  /\ start = "INITIAL"
  /\ Return("BADTOKEN")
  /\ Met({"line"})
  /\ UNCHANGED <<start, levelVars, tagVars, line_len, tab_space>>

\* MKTAGACTION for the standard tags, ACTION_ALPHANUM for "user"
Tag(t) ==
  /\ Lexeme
  /\ start = "EXPECT_TAG"
  /\ CheckLineLen(
       /\ start' = "NORMAL"
       /\ line_no' = line_no + 1
       /\ current_tag' = IF t = "user" THEN current_tag ELSE t
       /\ Return(IF t = "user" THEN "USERTAG" ELSE "TAG")
       /\ Fine
       /\ UNCHANGED levelVars)
  /\ UNCHANGED tab_space

\* ACTION_ALPHANUM, a tag of more than MAXGEDCTAGLEN characters
TagTooLong ==
  /\ Lexeme
  /\ start = "EXPECT_TAG"
  /\ Return("BADTOKEN")
  /\ Met({"line"})
  /\ line_no' = line_no + 1
  /\ UNCHANGED <<start, levelVars, current_tag, line_len, tab_space>>

\* ACTION_DELIM, and ACTION_ANY, ACTION_ESCAPE and ACTION_POINTER as one; a
\* lexeme that cannot be converted or a pointer that is too long is a BADTOKEN.
Value(t) ==
  /\ Lexeme
  /\ t = "DELIM" => start # "INITIAL"
  /\ CheckLineLen(Return(t) /\ Fine /\ UNCHANGED <<start, levelVars, tagVars>>)
  /\ UNCHANGED tab_space

\* ACTION_ANY on a byte that awaits the next one
HalfCharacter ==
  /\ Lexeme
  /\ CheckLineLen(Continue /\ Fine /\ UNCHANGED <<start, levelVars, tagVars>>)
  /\ UNCHANGED tab_space

\* ACTION_TAB
Tab ==
  /\ Lexeme
  /\ start # "INITIAL"
  /\ \/ TabCharacter /\ tab_space' = 7 /\ Return("DELIM")
     \/ ~TabCharacter /\ UNCHANGED tab_space /\ Return("BADTOKEN")
  /\ Fine
  /\ UNCHANGED <<start, levelVars, tagVars, line_len>>

\* ACTION_NORMAL_AT: the character is put back twice, and comes again as two
\* that are a value.
SingleAt ==
  /\ Lexeme
  /\ \/ NoDoubleAt /\ Continue
     \/ ~NoDoubleAt /\ Return("BADTOKEN")
  /\ Fine
  /\ UNCHANGED <<start, levelVars, tagVars, line_len, tab_space>>

\* ACTION_UNEXPECTED
Junk ==
  /\ Lexeme
  /\ Return("BADTOKEN")
  /\ Fine
  /\ UNCHANGED <<start, levelVars, tagVars, line_len, tab_space>>

\* ACTION_TERMINATOR.  A line that is too long by its end only is complained
\* about here, and what follows is read in the old start condition.
Terminator ==
  /\ scanning /\ ~eof
  /\ line < MaxLine
  /\ line' = line + 1 /\ column' = 0
  /\ \/ /\ TooLong
        /\ line_len' = -1
        /\ Return("TOO_LONG")
        /\ Met({"line"})
        /\ UNCHANGED start
     \/ /\ ~TooLong
        /\ InitLineLen
        /\ start' = "INITIAL"
        /\ Continue
        /\ flaws' = flaws \cup (IF start = "NORMAL" THEN {} ELSE {"line"})
  /\ UNCHANGED <<levelVars, tagVars, tab_space, eof, parseVars>>

\* <<EOF>>
EndOfFile ==
  LET end == AtEnd(level_diff) IN
  /\ scanning
  /\ eof' = TRUE
  /\ level_diff' = end.level_diff
  /\ Return(end.tok)
  /\ UNCHANGED <<start, current_level, line_len, tab_space, tagVars, line,
                 column, flaws, parseVars>>

(***************************************************************************)
(* gedcom_check_token(key, STATE_NORMAL, POINTER), which is what           *)
(* is_valid_pointer asks of a key of at most 22 characters.                *)
(***************************************************************************)
yylex(s) ==
  LET entry == EntryAt(s.level_diff, s.tab_space)
      end == AtEnd(entry.level_diff)
      Result(t, diff, left) == [tok |-> t, level_diff |-> diff,
                                tab_space |-> entry.tab_space, left |-> left]
  IN CASE entry.tok # "none" -> Result(entry.tok, entry.level_diff, s.left)
       [] entry.tok = "none" /\ s.left # <<>> ->
            Result(Head(s.left), entry.level_diff, Tail(s.left))
       [] OTHER -> Result(end.tok, end.level_diff, <<>>)

\* The verdict from the first token and the second, which is asked for unless
\* the first is the end of the string.
AcceptsPrefix(first, second) == first.tok = "POINTER"
Accepts(first, second) == first.tok = "POINTER" /\ second.tok = "EOF"

\* The keys are not checked while a file is parsed: a check from a callback
\* destroys the input buffer of the parse.
gedcom_check_token(key) ==
  LET first == yylex([level_diff |-> level_diff, tab_space |-> tab_space,
                      left |-> key])
      second == IF first.tok = "EOF" THEN first ELSE yylex(first)
  IN
  /\ ~parsing
  /\ level_diff' = second.level_diff
  /\ tab_space' = second.tab_space
  /\ line_len' = Len(key) - Len(second.left)
  /\ start' = "NORMAL"
  /\ verdict' = CASE Accepts(first, second) = (key = <<"POINTER">>) -> "right"
                  [] Accepts(first, second) /\ key # <<"POINTER">> -> "lax"
                  [] OTHER -> "strict"
  /\ UNCHANGED <<current_level, tagVars, compatibility, parsing, scanning,
                 aborted, history>>

Next ==
  \/ StartFile
  \/ StopParse
  \/ \E program \in Program : compute_compatibility(program)
  \/ Call
  \/ InitialWhitespace
  \/ \E l \in 0 .. MaxLevel : Level(l)
  \/ LevelOutOfRange
  \/ LeadingZero
  \/ \E t \in {"NOTE", "other", "user"} : Tag(t)
  \/ TagTooLong
  \/ \E t \in {"DELIM", "ANYCHAR", "BADTOKEN"} : Value(t)
  \/ HalfCharacter
  \/ Tab
  \/ SingleAt
  \/ Junk
  \/ Terminator
  \/ EndOfFile
  \/ \E key \in Key : gedcom_check_token(key)

Spec == Init /\ [][Next]_lexVars

(***************************************************************************)
(* Properties.                                                             *)
(***************************************************************************)
\* The lexer's variables have their types; the levels stay within
\* MAXGEDCLEVEL, so that level_diff never leaves its range.
TypeOK ==
  /\ start \in {"INITIAL", "EXPECT_TAG", "NORMAL"}
  /\ current_level \in -1 .. MaxLevel
  /\ level_diff \in -MaxLevel .. MaxLevel + 1
  /\ line_len \in Int /\ line_len >= -1
  /\ tab_space \in -1 .. 7
  /\ current_tag \in {"none", "NOTE", "other"}
  /\ line_no \in Nat
  /\ compatibility \in Program
  /\ parsing \in BOOLEAN /\ scanning \in BOOLEAN
  /\ tok \in Token
  /\ line \in Nat /\ column \in Nat
  /\ eof \in BOOLEAN
  /\ depth \in Int
  /\ flaws \subseteq FlawKind
  /\ aborted \in BOOLEAN
  /\ verdict \in {"none", "right", "lax", "strict"}

\* The brackets that the lexer has returned nest as the levels of the file
\* do: between two lines as many are open as the level says, and while the
\* brackets of a line are pending, level_diff says how many are missing
\* (gedcom_lex_common.c:192-222).  This does not depend on what else is wrong
\* with the lines, as long as no level jumps.
BracketsMatchLevels ==
  parsing /\ ~eof /\ "jump" \notin flaws =>
    depth = current_level + 1 - (IF level_diff <= 1 THEN level_diff ELSE 0)

\* A parser that has seen the end of the file has seen the end of every
\* record: one bracket is closed there, so the brackets balance in a file that
\* ends at level 0 (or is empty), and at level n there are n too few
\* (gedcom_lex_common.c:368-377).
BalancedAtEnd ==
  tok = "EOF" /\ "jump" \notin flaws =>
    depth = IF current_level > 0 THEN current_level ELSE 0

\* The line number of a message about a value is the number of the line that
\* holds it, whatever characters the lexer refused before (line_no, which
\* gedcom_message puts in front of a message).
LineNumberIsTrue ==
  [][scanning /\ ~scanning' /\ tok' \in {"TAG", "USERTAG"} /\ flaws = {} =>
       line_no' = line]_lexVars

\* A line is complained about once, and only if it is too long: what was
\* read, or complained about, before does not count for it.  In the first line
\* of a file it may: yymyinit leaves line_len alone.
OnlyLongLinesAreRefused ==
  [][scanning /\ ~scanning' /\ tok' = "TOO_LONG" =>
       line = 1 \/ column >= MaxLineLen]_lexVars

\* A cross-reference key is taken for valid exactly if it is a pointer and
\* nothing else, before any file is parsed, after a file that was read to its
\* end, and after any other keys (xref.c:252-256).
ValidKeysAfterWholeFiles ==
  ~aborted => verdict \in {"none", "right"}

\* No state of the lexer makes an invalid key valid.
InvalidKeysAreRefused == verdict # "lax"

\* Keys are judged alike in every state that a lexer can be left in; only
\* an aborted parse may make it refuse a valid one.
KeysAreJudged == ValidKeysAfterWholeFiles /\ InvalidKeysAreRefused

\* The brackets nest, to the end of the file.
BracketsBalance == BracketsMatchLevels /\ BalancedAtEnd

\* Messages name the right line, and lines are refused for their own length.
LinesAreCounted == LineNumberIsTrue /\ OnlyLongLinesAreRefused
=============================================================================
