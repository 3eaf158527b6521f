----------------------------- MODULE LexerProofs ----------------------------
(***************************************************************************)
(* Proofs about the lexer, for any number of levels, any length of lines   *)
(* and files, and any sequence of files and keys; and about the encodings  *)
(* of the files, for every configuration file whose entries fit, any files *)
(* of other programs, and any number of files read and written.            *)
(***************************************************************************)
EXTENDS Lexer, Encodings, WellFoundedInduction, TLAPS

USE LexerAssumption

-----------------------------------------------------------------------------
(* The inductive invariant, in parts.                                      *)

\* Between two files nothing is left of the last one but what it leaves to
\* gedcom_check_token.
SessionInv ==
  /\ scanning => parsing
  /\ parsing => verdict = "none"
  /\ ~parsing => /\ tok = "none" /\ depth = 0 /\ flaws = {} /\ ~eof
                 /\ line = 1 /\ line_no = 0

\* A lexer that reads characters has no token pending, and one that has read a
\* file to its end has not even the last bracket pending.
SpacePending == TabCharacter /\ tab_space > 0
PendingInv ==
  /\ scanning => tok # "EOF" /\ level_diff >= 2 /\ ~SpacePending
  /\ tok = "EOF" \/ (~parsing /\ ~aborted) => level_diff >= 3 /\ ~SpacePending

\* Brackets nest as the levels do; level_diff tells which are still pending.
NoJump == "jump" \notin flaws
DepthInv ==
  /\ parsing /\ ~eof /\ NoJump =>
       /\ depth = current_level + 1 - (IF level_diff <= 1 THEN level_diff ELSE 0)
       /\ current_level = -1 => level_diff = MaxLevel
       /\ current_level >= 0 => level_diff <= 2
  /\ eof /\ tok # "EOF" /\ NoJump =>
       depth = current_level /\ current_level >= 0 /\ level_diff = 3
  /\ BalancedAtEnd

\* line_no lags behind until the tag of a line is read.
LineInv ==
  /\ parsing /\ flaws = {} => line_no = (IF start = "NORMAL" THEN line ELSE line - 1)
  /\ line >= 1
  /\ parsing /\ line > 1 => line_len <= column

-----------------------------------------------------------------------------
(* Types.                                                                  *)

LEMMA EntryType ==
  ASSUME NEW diff \in -MaxLevel .. MaxLevel + 1, NEW spaces \in -1 .. 7
  PROVE  /\ EntryAt(diff, spaces).tok \in {"DELIM", "OPEN", "CLOSE", "none"}
         /\ EntryAt(diff, spaces).level_diff \in -MaxLevel .. MaxLevel + 1
         /\ EntryAt(diff, spaces).tab_space \in -1 .. 7
  BY DEF EntryAt, Bracket

TokenType == tok \in Token /\ depth \in Int
LevelType ==
  /\ current_level \in -1 .. MaxLevel
  /\ level_diff \in -MaxLevel .. MaxLevel + 1
  /\ tab_space \in -1 .. 7
LengthType == line_len \in Int /\ line_len >= -1
CountType == line_no \in Nat /\ line \in Nat /\ column \in Nat
FlawType == flaws \subseteq FlawKind
StateType ==
  /\ start \in {"INITIAL", "EXPECT_TAG", "NORMAL"}
  /\ current_tag \in {"none", "NOTE", "other"}
  /\ compatibility \in Program
  /\ parsing \in BOOLEAN /\ scanning \in BOOLEAN
  /\ eof \in BOOLEAN
  /\ aborted \in BOOLEAN
  /\ verdict \in {"none", "right", "lax", "strict"}

LEMMA ContinueEffect ==
  ASSUME Continue
  PROVE  tok' = tok /\ depth' = depth /\ scanning' = scanning
  BY DEF Continue

LEMMA YylexType ==
  ASSUME NEW s,
         s.level_diff \in -MaxLevel .. MaxLevel + 1,
         s.tab_space \in -1 .. 7,
         s.left \in Seq(Token)
  PROVE  /\ yylex(s).level_diff \in -MaxLevel .. MaxLevel + 1
         /\ yylex(s).tab_space \in -1 .. 7
         /\ yylex(s).left \in Seq(Token)
         /\ Len(yylex(s).left) <= Len(s.left)
<1> DEFINE entry == EntryAt(s.level_diff, s.tab_space)
           end == AtEnd(entry.level_diff)
<1>1. /\ entry.level_diff \in -MaxLevel .. MaxLevel + 1
      /\ entry.tab_space \in -1 .. 7
  BY EntryType
<1>2. end.level_diff \in -MaxLevel .. MaxLevel + 1
  BY <1>1 DEF AtEnd
<1>3. CASE entry.tok # "none"
  <2>1. /\ yylex(s).level_diff = entry.level_diff
        /\ yylex(s).tab_space = entry.tab_space
        /\ yylex(s).left = s.left
    BY <1>3 DEF yylex
  <2>2. QED
    BY <2>1, <1>1
<1>4. CASE entry.tok = "none" /\ s.left # <<>>
  <2>1. /\ yylex(s).level_diff = entry.level_diff
        /\ yylex(s).tab_space = entry.tab_space
        /\ yylex(s).left = Tail(s.left)
    BY <1>4 DEF yylex
  <2>2. Tail(s.left) \in Seq(Token) /\ Len(Tail(s.left)) <= Len(s.left)
    BY <1>4
  <2>3. QED
    BY <2>1, <2>2, <1>1
<1>5. CASE entry.tok = "none" /\ s.left = <<>>
  <2>1. /\ yylex(s).level_diff = end.level_diff
        /\ yylex(s).tab_space = entry.tab_space
        /\ yylex(s).left = <<>>
    BY <1>5 DEF yylex
  <2>2. QED
    BY <2>1, <1>1, <1>2, <1>5
<1>6. QED
  BY <1>3, <1>4, <1>5

\* The two calls of gedcom_check_token.
FirstOf(key) == yylex([level_diff |-> level_diff, tab_space |-> tab_space,
                       left |-> key])
SecondOf(key) == IF FirstOf(key).tok = "EOF" THEN FirstOf(key)
                 ELSE yylex(FirstOf(key))

LEMMA CheckType ==
  ASSUME TypeOK, NEW key \in Key
  PROVE  /\ SecondOf(key).level_diff \in -MaxLevel .. MaxLevel + 1
         /\ SecondOf(key).tab_space \in -1 .. 7
         /\ Len(key) - Len(SecondOf(key).left) \in Nat
<1> DEFINE s == [level_diff |-> level_diff, tab_space |-> tab_space, left |-> key]
           first == yylex(s)
<1>1. /\ s.level_diff \in -MaxLevel .. MaxLevel + 1
      /\ s.tab_space \in -1 .. 7
      /\ s.left = key
  BY DEF TypeOK
<1>2. key \in Seq(Token)
  <2>1. <<>> \in Seq(Token) /\ <<"POINTER">> \in Seq(Token)
        /\ <<"ANYCHAR">> \in Seq(Token) /\ <<"POINTER", "ANYCHAR">> \in Seq(Token)
    BY DEF Token
  <2>2. QED
    BY <2>1 DEF Key
<1> HIDE DEF s
<1>3. /\ first.level_diff \in -MaxLevel .. MaxLevel + 1
      /\ first.tab_space \in -1 .. 7
      /\ first.left \in Seq(Token)
      /\ Len(first.left) <= Len(key)
  BY <1>1, <1>2, YylexType
<1>4. FirstOf(key) = first
  BY DEF FirstOf, s
<1> HIDE DEF first
<1>5. CASE first.tok = "EOF"
  BY <1>2, <1>3, <1>4, <1>5 DEF SecondOf
<1>6. CASE first.tok # "EOF"
  <2>1. /\ yylex(first).level_diff \in -MaxLevel .. MaxLevel + 1
        /\ yylex(first).tab_space \in -1 .. 7
        /\ yylex(first).left \in Seq(Token)
        /\ Len(yylex(first).left) <= Len(first.left)
    BY <1>3, YylexType
  <2>2. QED
    BY <2>1, <1>2, <1>3, <1>4, <1>6 DEF SecondOf
<1>7. QED
  BY <1>5, <1>6

\* With nothing pending, yylex returns the lexemes of a string one by one, and
\* then its end, and leaves nothing pending.
LEMMA YylexReads ==
  ASSUME NEW s,
         s.level_diff \in 3 .. MaxLevel + 1,
         s.tab_space \in -1 .. 7,
         ~(TabCharacter /\ s.tab_space > 0)
  PROVE  /\ yylex(s).level_diff = s.level_diff
         /\ yylex(s).tab_space \in -1 .. 7
         /\ ~(TabCharacter /\ yylex(s).tab_space > 0)
         /\ yylex(s).tok = IF s.left = <<>> THEN "EOF" ELSE Head(s.left)
         /\ yylex(s).left = IF s.left = <<>> THEN <<>> ELSE Tail(s.left)
<1> DEFINE entry == EntryAt(s.level_diff, s.tab_space)
           end == AtEnd(entry.level_diff)
<1>1. /\ entry.tok = "none"
      /\ entry.level_diff = s.level_diff
      /\ entry.tab_space \in -1 .. 7
      /\ ~(TabCharacter /\ entry.tab_space > 0)
  BY DEF EntryAt, Bracket
<1>2. end.tok = "EOF" /\ end.level_diff = s.level_diff
  BY <1>1 DEF AtEnd
<1>3. CASE s.left # <<>>
  <2>1. /\ yylex(s).level_diff = entry.level_diff
        /\ yylex(s).tab_space = entry.tab_space
        /\ yylex(s).tok = Head(s.left)
        /\ yylex(s).left = Tail(s.left)
    BY <1>1, <1>3 DEF yylex
  <2>2. QED
    BY <2>1, <1>1, <1>3
<1>4. CASE s.left = <<>>
  <2>1. /\ yylex(s).level_diff = end.level_diff
        /\ yylex(s).tab_space = entry.tab_space
        /\ yylex(s).tok = end.tok
        /\ yylex(s).left = <<>>
    BY <1>1, <1>4 DEF yylex
  <2>2. QED
    BY <2>1, <1>1, <1>2, <1>4
<1>5. QED
  BY <1>3, <1>4

\* gedcom_check_token with nothing pending.
LEMMA CheckReads ==
  ASSUME TypeOK, level_diff >= 3, ~SpacePending, NEW key \in Key
  PROVE  /\ SecondOf(key).level_diff = level_diff
         /\ ~(TabCharacter /\ SecondOf(key).tab_space > 0)
         /\ Accepts(FirstOf(key), SecondOf(key)) = (key = <<"POINTER">>)
<1> DEFINE s == [level_diff |-> level_diff, tab_space |-> tab_space, left |-> key]
           first == yylex(s)
<1>1. /\ s.level_diff \in 3 .. MaxLevel + 1
      /\ s.tab_space \in -1 .. 7
      /\ s.level_diff = level_diff /\ s.tab_space = tab_space
      /\ s.left = key
  BY DEF TypeOK
<1> HIDE DEF s
<1>2. ~(TabCharacter /\ s.tab_space > 0)
  BY <1>1 DEF SpacePending
<1>3. /\ first.level_diff = level_diff
      /\ first.tab_space \in -1 .. 7
      /\ ~(TabCharacter /\ first.tab_space > 0)
      /\ first.tok = IF key = <<>> THEN "EOF" ELSE Head(key)
      /\ first.left = IF key = <<>> THEN <<>> ELSE Tail(key)
  BY <1>1, <1>2, YylexReads
<1>4. FirstOf(key) = first
  BY DEF FirstOf, s
<1> HIDE DEF first
<1>5. CASE key = <<>>
  <2>1. SecondOf(key) = first /\ first.tok = "EOF"
    BY <1>3, <1>4, <1>5 DEF SecondOf
  <2>2. key # <<"POINTER">>
    BY <1>5
  <2>3. QED
    BY <2>1, <2>2, <1>3, <1>4 DEF Accepts
<1>6. CASE key # <<>>
  <2>1. first.tok = Head(key) /\ first.left = Tail(key) /\ Head(key) # "EOF"
    BY <1>3, <1>6 DEF Key
  <2>2. SecondOf(key) = yylex(first)
    BY <2>1, <1>4 DEF SecondOf
  <2>3. first.level_diff \in 3 .. MaxLevel + 1
    BY <1>3, <1>1
  <2>4. /\ yylex(first).level_diff = level_diff
        /\ ~(TabCharacter /\ yylex(first).tab_space > 0)
        /\ yylex(first).tok = IF first.left = <<>> THEN "EOF" ELSE Head(first.left)
    BY <2>3, <1>3, YylexReads
  <2>5. (Head(key) = "POINTER" /\ yylex(first).tok = "EOF") = (key = <<"POINTER">>)
    <3>1. CASE key = <<"POINTER">>
      BY <3>1, <2>1, <2>4
    <3>2. CASE key = <<"ANYCHAR">>
      BY <3>2
    <3>3. CASE key = <<"POINTER", "ANYCHAR">>
      BY <3>3, <2>1, <2>4
    <3>4. QED
      BY <3>1, <3>2, <3>3, <1>6 DEF Key
  <2>6. QED
    BY <2>1, <2>2, <2>4, <2>5, <1>4 DEF Accepts
<1>7. QED
  BY <1>5, <1>6

\* Whatever is pending, gedcom_check_token accepts nothing but a pointer.
LEMMA YylexToken ==
  ASSUME NEW s
  PROVE  /\ yylex(s).tok = "POINTER" =>
              s.left # <<>> /\ Head(s.left) = "POINTER" /\ yylex(s).left = Tail(s.left)
         /\ yylex(s).tok = "EOF" => s.left = <<>> \/ Head(s.left) = "EOF"
<1> DEFINE entry == EntryAt(s.level_diff, s.tab_space)
           end == AtEnd(entry.level_diff)
<1>1. entry.tok \in {"DELIM", "OPEN", "CLOSE", "none"}
  BY DEF EntryAt, Bracket
<1>2. end.tok \in {"CLOSE", "EOF"}
  BY DEF AtEnd
<1>3. CASE entry.tok # "none"
  <2>1. yylex(s).tok = entry.tok
    BY <1>3 DEF yylex
  <2>2. QED
    BY <2>1, <1>1
<1>4. CASE entry.tok = "none" /\ s.left # <<>>
  <2>1. yylex(s).tok = Head(s.left) /\ yylex(s).left = Tail(s.left)
    BY <1>4 DEF yylex
  <2>2. QED
    BY <2>1, <1>4
<1>5. CASE entry.tok = "none" /\ s.left = <<>>
  <2>1. yylex(s).tok = end.tok
    BY <1>5 DEF yylex
  <2>2. QED
    BY <2>1, <1>2, <1>5
<1>6. QED
  BY <1>3, <1>4, <1>5

LEMMA AcceptsOnly ==
  ASSUME NEW key \in Key, Accepts(FirstOf(key), SecondOf(key))
  PROVE  key = <<"POINTER">>
<1> DEFINE s == [level_diff |-> level_diff, tab_space |-> tab_space, left |-> key]
           first == yylex(s)
<1>1. FirstOf(key) = first /\ s.left = key
  BY DEF FirstOf
<1> HIDE DEF s
<1>2. first.tok = "POINTER"
  BY <1>1 DEF Accepts
<1>3. key # <<>> /\ Head(key) = "POINTER" /\ first.left = Tail(key)
  BY <1>1, <1>2, YylexToken
<1> HIDE DEF first
<1>4. yylex(first).tok = "EOF"
  BY <1>1, <1>2 DEF Accepts, SecondOf
<1>5. Tail(key) = <<>> \/ Head(Tail(key)) = "EOF"
  BY <1>3, <1>4, YylexToken
<1>6. key # <<"ANYCHAR">> /\ key # <<"POINTER", "ANYCHAR">>
  <2>1. key # <<"ANYCHAR">>
    BY <1>3
  <2>2. ASSUME key = <<"POINTER", "ANYCHAR">> PROVE FALSE
    <3>1. Tail(key) = <<"ANYCHAR">>
      BY <2>2
    <3>2. <<"ANYCHAR">> # <<>> /\ Head(<<"ANYCHAR">>) = "ANYCHAR"
      OBVIOUS
    <3>3. QED
      BY <3>1, <3>2, <1>5
  <2>3. QED
    BY <2>1, <2>2
<1>7. QED
  BY <1>3, <1>6 DEF Key

LEMMA CheckEffect ==
  ASSUME NEW key \in Key, gedcom_check_token(key)
  PROVE  /\ ~parsing
         /\ level_diff' = SecondOf(key).level_diff
         /\ tab_space' = SecondOf(key).tab_space
         /\ line_len' = Len(key) - Len(SecondOf(key).left)
         /\ start' = "NORMAL"
         /\ UNCHANGED current_level
  BY DEF gedcom_check_token, FirstOf, SecondOf

\* The actions that may stay in gedcom_lex.
LEMMA QuietEffect ==
  ASSUME InitialWhitespace \/ HalfCharacter \/ SingleAt \/ Terminator
  PROVE  \/ tok' = tok /\ depth' = depth /\ scanning' = scanning
         \/ tok' \in {"TOO_LONG", "BADTOKEN"} /\ depth' = depth + 0 /\ ~scanning'
<1>1. Continue \/ Return("TOO_LONG") \/ Return("BADTOKEN")
  BY DEF InitialWhitespace, HalfCharacter, SingleAt, Terminator, CheckLineLen
<1>2. QED
  BY <1>1, ContinueEffect DEF Return, Emit

LEMMA QuietLeaves ==
  ASSUME InitialWhitespace \/ HalfCharacter \/ SingleAt \/ Terminator
  PROVE  /\ scanning /\ ~eof /\ ~eof'
         /\ parsing' = parsing
         /\ current_level' = current_level /\ level_diff' = level_diff
         /\ flaws' \in {flaws, flaws \cup {"line"}}
<1>1. CASE InitialWhitespace
  BY <1>1 DEF InitialWhitespace, Lexeme, CheckLineLen, Fine, Met, levelVars, parseVars
<1>2. CASE HalfCharacter
  BY <1>2 DEF HalfCharacter, Lexeme, CheckLineLen, Fine, Met, levelVars, parseVars
<1>3. CASE SingleAt
  BY <1>3 DEF SingleAt, Lexeme, Fine, levelVars, parseVars
<1>4. CASE Terminator
  BY <1>4 DEF Terminator, Met, levelVars, parseVars
<1>5. QED
  BY <1>1, <1>2, <1>3, <1>4

LEMMA QuietDepth ==
  ASSUME TypeOK, PendingInv, DepthInv,
         InitialWhitespace \/ HalfCharacter \/ SingleAt \/ Terminator
  PROVE  DepthInv'
<1>1. tok' # "EOF" /\ depth' = depth
  BY QuietEffect, QuietLeaves DEF TypeOK, PendingInv
<1>2. NoJump' = NoJump
  BY QuietLeaves DEF NoJump
<1>3. QED
  BY <1>1, <1>2, QuietLeaves DEF DepthInv, BalancedAtEnd, NoJump

LEMMA EmitType ==
  ASSUME NEW t \in Token, depth \in Int, Emit(t)
  PROVE  tok' \in Token /\ depth' \in Int
  BY DEF Emit

LEMMA TokenTypeKept ==
  ASSUME TypeOK, [Next]_lexVars
  PROVE  TokenType'
<1>1. CASE StartFile
  BY <1>1 DEF StartFile, tagVars, history, TokenType, TypeOK, Token
<1>2. CASE StopParse
  BY <1>2 DEF StopParse, levelVars, TokenType, TypeOK, Token
<1>3. ASSUME NEW program \in Program, compute_compatibility(program)
      PROVE  TokenType'
  BY <1>3 DEF compute_compatibility, levelVars, tagVars, history, TokenType, TypeOK, Token
<1>4. CASE Call
  BY <1>4 DEF Call, EntryAt, Bracket, Return, Emit, tagVars, parseVars, TokenType, TypeOK,
      Token
<1>5. CASE InitialWhitespace
  BY <1>5, QuietEffect DEF TokenType, TypeOK, Token
<1>6. ASSUME NEW l \in 0 .. MaxLevel, Level(l)
      PROVE  TokenType'
  BY <1>6 DEF Level, Bracket, Lexeme, CheckLineLen, TooLong, Return, Emit, Fine, Met,
      levelVars, tagVars, parseVars, TokenType, TypeOK, Token
<1>7. CASE LevelOutOfRange
  BY <1>7 DEF LevelOutOfRange, Lexeme, CheckLineLen, TooLong, Return, Emit, Met, levelVars,
      tagVars, parseVars, TokenType, TypeOK, Token
<1>8. CASE LeadingZero
  BY <1>8 DEF LeadingZero, Lexeme, Return, Emit, Met, levelVars, tagVars, parseVars,
      TokenType, TypeOK, Token
<1>9. ASSUME NEW t \in {"NOTE", "other", "user"}, Tag(t)
      PROVE  TokenType'
  BY <1>9 DEF Tag, Lexeme, CheckLineLen, TooLong, Return, Emit, Fine, Met, levelVars,
      tagVars, parseVars, TokenType, TypeOK, Token
<1>10. CASE TagTooLong
  BY <1>10 DEF TagTooLong, Lexeme, Return, Emit, Met, levelVars, parseVars, TokenType,
      TypeOK, Token
<1>11. ASSUME NEW t \in {"DELIM", "ANYCHAR", "BADTOKEN"}, Value(t)
      PROVE  TokenType'
  BY <1>11 DEF Value, Lexeme, CheckLineLen, TooLong, Return, Emit, Fine, Met, levelVars,
      tagVars, parseVars, TokenType, TypeOK, Token
<1>12. CASE HalfCharacter
  BY <1>12, QuietEffect DEF TokenType, TypeOK, Token
<1>13. CASE Tab
  BY <1>13 DEF Tab, Lexeme, Return, Emit, Fine, levelVars, tagVars, parseVars, TokenType,
      TypeOK, Token
<1>14. CASE SingleAt
  BY <1>14, QuietEffect DEF TokenType, TypeOK, Token
<1>15. CASE Junk
  BY <1>15 DEF Junk, Lexeme, Return, Emit, Fine, levelVars, tagVars, parseVars, TokenType,
      TypeOK, Token
<1>16. CASE Terminator
  BY <1>16, QuietEffect DEF TokenType, TypeOK, Token
<1>17. CASE EndOfFile
  BY <1>17 DEF EndOfFile, AtEnd, Return, Emit, tagVars, parseVars, TokenType, TypeOK, Token
<1>18. ASSUME NEW key \in Key, gedcom_check_token(key)
      PROVE  TokenType'
  BY <1>18 DEF gedcom_check_token, tagVars, history, TokenType, TypeOK, Token
<1>19. CASE UNCHANGED lexVars
  BY <1>19 DEF lexVars, TokenType, TypeOK, Token
<1>20. QED
  BY <1>1, <1>2, <1>3, <1>4, <1>5, <1>6, <1>7, <1>8, <1>9, <1>10, <1>11, <1>12, <1>13,
      <1>14, <1>15, <1>16, <1>17, <1>18, <1>19 DEF Next

LEMMA LevelTypeKept ==
  ASSUME TypeOK, [Next]_lexVars
  PROVE  LevelType'
<1>1. CASE StartFile
  BY <1>1 DEF StartFile, tagVars, history, LevelType, TypeOK, InitialLevelDiff
<1>2. CASE StopParse
  BY <1>2 DEF StopParse, levelVars, LevelType, TypeOK
<1>3. ASSUME NEW program \in Program, compute_compatibility(program)
      PROVE  LevelType'
  BY <1>3 DEF compute_compatibility, levelVars, tagVars, history, LevelType, TypeOK
<1>4. CASE Call
  BY <1>4 DEF Call, EntryAt, Bracket, Return, Emit, tagVars, parseVars, LevelType, TypeOK
<1>5. CASE InitialWhitespace
  BY <1>5, ContinueEffect DEF InitialWhitespace, Lexeme, CheckLineLen, TooLong, Return,
      Emit, Fine, Met, levelVars, tagVars, parseVars, LevelType, TypeOK
<1>6. ASSUME NEW l \in 0 .. MaxLevel, Level(l)
      PROVE  LevelType'
  BY <1>6 DEF Level, Bracket, Lexeme, CheckLineLen, TooLong, Return, Emit, Fine, Met,
      levelVars, tagVars, parseVars, LevelType, TypeOK
<1>7. CASE LevelOutOfRange
  BY <1>7 DEF LevelOutOfRange, Lexeme, CheckLineLen, TooLong, Return, Emit, Met, levelVars,
      tagVars, parseVars, LevelType, TypeOK
<1>8. CASE LeadingZero
  BY <1>8 DEF LeadingZero, Lexeme, Return, Emit, Met, levelVars, tagVars, parseVars,
      LevelType, TypeOK
<1>9. ASSUME NEW t \in {"NOTE", "other", "user"}, Tag(t)
      PROVE  LevelType'
  BY <1>9 DEF Tag, Lexeme, CheckLineLen, TooLong, Return, Emit, Fine, Met, levelVars,
      tagVars, parseVars, LevelType, TypeOK
<1>10. CASE TagTooLong
  BY <1>10 DEF TagTooLong, Lexeme, Return, Emit, Met, levelVars, parseVars, LevelType,
      TypeOK
<1>11. ASSUME NEW t \in {"DELIM", "ANYCHAR", "BADTOKEN"}, Value(t)
      PROVE  LevelType'
  BY <1>11 DEF Value, Lexeme, CheckLineLen, TooLong, Return, Emit, Fine, Met, levelVars,
      tagVars, parseVars, LevelType, TypeOK
<1>12. CASE HalfCharacter
  BY <1>12, ContinueEffect DEF HalfCharacter, Lexeme, CheckLineLen, TooLong, Return, Emit,
      Fine, Met, levelVars, tagVars, parseVars, LevelType, TypeOK
<1>13. CASE Tab
  BY <1>13 DEF Tab, Lexeme, Return, Emit, Fine, levelVars, tagVars, parseVars, LevelType,
      TypeOK
<1>14. CASE SingleAt
  BY <1>14, ContinueEffect DEF SingleAt, Lexeme, Return, Emit, Fine, levelVars, tagVars,
      parseVars, LevelType, TypeOK
<1>15. CASE Junk
  BY <1>15 DEF Junk, Lexeme, Return, Emit, Fine, levelVars, tagVars, parseVars, LevelType,
      TypeOK
<1>16. CASE Terminator
  BY <1>16, ContinueEffect DEF Terminator, InitLineLen, TooLong, Return, Emit, Met,
      levelVars, tagVars, parseVars, LevelType, TypeOK
<1>17. CASE EndOfFile
  BY <1>17 DEF EndOfFile, AtEnd, Return, Emit, tagVars, parseVars, LevelType, TypeOK
<1>18. ASSUME NEW key \in Key, gedcom_check_token(key)
      PROVE  LevelType'
  BY <1>18, CheckType, CheckEffect DEF LevelType, TypeOK
<1>19. CASE UNCHANGED lexVars
  BY <1>19 DEF lexVars, LevelType, TypeOK
<1>20. QED
  BY <1>1, <1>2, <1>3, <1>4, <1>5, <1>6, <1>7, <1>8, <1>9, <1>10, <1>11, <1>12, <1>13,
      <1>14, <1>15, <1>16, <1>17, <1>18, <1>19 DEF Next

LEMMA LengthTypeKept ==
  ASSUME TypeOK, [Next]_lexVars
  PROVE  LengthType'
<1>1. CASE StartFile
  BY <1>1 DEF StartFile, tagVars, history, LengthType, TypeOK
<1>2. CASE StopParse
  BY <1>2 DEF StopParse, levelVars, LengthType, TypeOK
<1>3. ASSUME NEW program \in Program, compute_compatibility(program)
      PROVE  LengthType'
  BY <1>3 DEF compute_compatibility, levelVars, tagVars, history, LengthType, TypeOK
<1>4. CASE Call
  BY <1>4 DEF Call, EntryAt, Bracket, Return, Emit, tagVars, parseVars, LengthType, TypeOK
<1>5. CASE InitialWhitespace
  BY <1>5, ContinueEffect DEF InitialWhitespace, Lexeme, CheckLineLen, TooLong, Return,
      Emit, Fine, Met, levelVars, tagVars, parseVars, LengthType, TypeOK
<1>6. ASSUME NEW l \in 0 .. MaxLevel, Level(l)
      PROVE  LengthType'
  BY <1>6 DEF Level, Bracket, Lexeme, CheckLineLen, TooLong, Return, Emit, Fine, Met,
      levelVars, tagVars, parseVars, LengthType, TypeOK
<1>7. CASE LevelOutOfRange
  BY <1>7 DEF LevelOutOfRange, Lexeme, CheckLineLen, TooLong, Return, Emit, Met, levelVars,
      tagVars, parseVars, LengthType, TypeOK
<1>8. CASE LeadingZero
  BY <1>8 DEF LeadingZero, Lexeme, Return, Emit, Met, levelVars, tagVars, parseVars,
      LengthType, TypeOK
<1>9. ASSUME NEW t \in {"NOTE", "other", "user"}, Tag(t)
      PROVE  LengthType'
  BY <1>9 DEF Tag, Lexeme, CheckLineLen, TooLong, Return, Emit, Fine, Met, levelVars,
      tagVars, parseVars, LengthType, TypeOK
<1>10. CASE TagTooLong
  BY <1>10 DEF TagTooLong, Lexeme, Return, Emit, Met, levelVars, parseVars, LengthType,
      TypeOK
<1>11. ASSUME NEW t \in {"DELIM", "ANYCHAR", "BADTOKEN"}, Value(t)
      PROVE  LengthType'
  BY <1>11 DEF Value, Lexeme, CheckLineLen, TooLong, Return, Emit, Fine, Met, levelVars,
      tagVars, parseVars, LengthType, TypeOK
<1>12. CASE HalfCharacter
  BY <1>12, ContinueEffect DEF HalfCharacter, Lexeme, CheckLineLen, TooLong, Return, Emit,
      Fine, Met, levelVars, tagVars, parseVars, LengthType, TypeOK
<1>13. CASE Tab
  BY <1>13 DEF Tab, Lexeme, Return, Emit, Fine, levelVars, tagVars, parseVars, LengthType,
      TypeOK
<1>14. CASE SingleAt
  BY <1>14, ContinueEffect DEF SingleAt, Lexeme, Return, Emit, Fine, levelVars, tagVars,
      parseVars, LengthType, TypeOK
<1>15. CASE Junk
  BY <1>15 DEF Junk, Lexeme, Return, Emit, Fine, levelVars, tagVars, parseVars, LengthType,
      TypeOK
<1>16. CASE Terminator
  BY <1>16, ContinueEffect DEF Terminator, InitLineLen, TooLong, Return, Emit, Met,
      levelVars, tagVars, parseVars, LengthType, TypeOK
<1>17. CASE EndOfFile
  BY <1>17 DEF EndOfFile, AtEnd, Return, Emit, tagVars, parseVars, LengthType, TypeOK
<1>18. ASSUME NEW key \in Key, gedcom_check_token(key)
      PROVE  LengthType'
  BY <1>18, CheckType, CheckEffect DEF LengthType, TypeOK
<1>19. CASE UNCHANGED lexVars
  BY <1>19 DEF lexVars, LengthType, TypeOK
<1>20. QED
  BY <1>1, <1>2, <1>3, <1>4, <1>5, <1>6, <1>7, <1>8, <1>9, <1>10, <1>11, <1>12, <1>13,
      <1>14, <1>15, <1>16, <1>17, <1>18, <1>19 DEF Next

LEMMA CountTypeKept ==
  ASSUME TypeOK, [Next]_lexVars
  PROVE  CountType'
<1>1. CASE StartFile
  BY <1>1 DEF StartFile, tagVars, history, CountType, TypeOK
<1>2. CASE StopParse
  BY <1>2 DEF StopParse, levelVars, CountType, TypeOK
<1>3. ASSUME NEW program \in Program, compute_compatibility(program)
      PROVE  CountType'
  BY <1>3 DEF compute_compatibility, levelVars, tagVars, history, CountType, TypeOK
<1>4. CASE Call
  BY <1>4 DEF Call, EntryAt, Bracket, Return, Emit, tagVars, parseVars, CountType, TypeOK
<1>5. CASE InitialWhitespace
  BY <1>5, ContinueEffect DEF InitialWhitespace, Lexeme, CheckLineLen, TooLong, Return,
      Emit, Fine, Met, levelVars, tagVars, parseVars, CountType, TypeOK
<1>6. ASSUME NEW l \in 0 .. MaxLevel, Level(l)
      PROVE  CountType'
  BY <1>6 DEF Level, Bracket, Lexeme, CheckLineLen, TooLong, Return, Emit, Fine, Met,
      levelVars, tagVars, parseVars, CountType, TypeOK
<1>7. CASE LevelOutOfRange
  BY <1>7 DEF LevelOutOfRange, Lexeme, CheckLineLen, TooLong, Return, Emit, Met, levelVars,
      tagVars, parseVars, CountType, TypeOK
<1>8. CASE LeadingZero
  BY <1>8 DEF LeadingZero, Lexeme, Return, Emit, Met, levelVars, tagVars, parseVars,
      CountType, TypeOK
<1>9. ASSUME NEW t \in {"NOTE", "other", "user"}, Tag(t)
      PROVE  CountType'
  BY <1>9 DEF Tag, Lexeme, CheckLineLen, TooLong, Return, Emit, Fine, Met, levelVars,
      tagVars, parseVars, CountType, TypeOK
<1>10. CASE TagTooLong
  BY <1>10 DEF TagTooLong, Lexeme, Return, Emit, Met, levelVars, parseVars, CountType,
      TypeOK
<1>11. ASSUME NEW t \in {"DELIM", "ANYCHAR", "BADTOKEN"}, Value(t)
      PROVE  CountType'
  BY <1>11 DEF Value, Lexeme, CheckLineLen, TooLong, Return, Emit, Fine, Met, levelVars,
      tagVars, parseVars, CountType, TypeOK
<1>12. CASE HalfCharacter
  BY <1>12, ContinueEffect DEF HalfCharacter, Lexeme, CheckLineLen, TooLong, Return, Emit,
      Fine, Met, levelVars, tagVars, parseVars, CountType, TypeOK
<1>13. CASE Tab
  BY <1>13 DEF Tab, Lexeme, Return, Emit, Fine, levelVars, tagVars, parseVars, CountType,
      TypeOK
<1>14. CASE SingleAt
  BY <1>14, ContinueEffect DEF SingleAt, Lexeme, Return, Emit, Fine, levelVars, tagVars,
      parseVars, CountType, TypeOK
<1>15. CASE Junk
  BY <1>15 DEF Junk, Lexeme, Return, Emit, Fine, levelVars, tagVars, parseVars, CountType,
      TypeOK
<1>16. CASE Terminator
  BY <1>16, ContinueEffect DEF Terminator, InitLineLen, TooLong, Return, Emit, Met,
      levelVars, tagVars, parseVars, CountType, TypeOK
<1>17. CASE EndOfFile
  BY <1>17 DEF EndOfFile, AtEnd, Return, Emit, tagVars, parseVars, CountType, TypeOK
<1>18. ASSUME NEW key \in Key, gedcom_check_token(key)
      PROVE  CountType'
  BY <1>18 DEF gedcom_check_token, tagVars, history, CountType, TypeOK
<1>19. CASE UNCHANGED lexVars
  BY <1>19 DEF lexVars, CountType, TypeOK
<1>20. QED
  BY <1>1, <1>2, <1>3, <1>4, <1>5, <1>6, <1>7, <1>8, <1>9, <1>10, <1>11, <1>12, <1>13,
      <1>14, <1>15, <1>16, <1>17, <1>18, <1>19 DEF Next

LEMMA FlawTypeKept ==
  ASSUME TypeOK, [Next]_lexVars
  PROVE  FlawType'
<1>1. CASE StartFile
  BY <1>1 DEF StartFile, tagVars, history, FlawType, TypeOK, FlawKind
<1>2. CASE StopParse
  BY <1>2 DEF StopParse, levelVars, FlawType, TypeOK, FlawKind
<1>3. ASSUME NEW program \in Program, compute_compatibility(program)
      PROVE  FlawType'
  BY <1>3 DEF compute_compatibility, levelVars, tagVars, history, FlawType, TypeOK, FlawKind
<1>4. CASE Call
  BY <1>4 DEF Call, EntryAt, Bracket, Return, Emit, tagVars, parseVars, FlawType, TypeOK,
      FlawKind
<1>5. CASE InitialWhitespace
  BY <1>5, ContinueEffect DEF InitialWhitespace, Lexeme, CheckLineLen, TooLong, Return,
      Emit, Fine, Met, levelVars, tagVars, parseVars, FlawType, TypeOK, FlawKind
<1>6. ASSUME NEW l \in 0 .. MaxLevel, Level(l)
      PROVE  FlawType'
  BY <1>6 DEF Level, Bracket, Lexeme, CheckLineLen, TooLong, Return, Emit, Fine, Met,
      levelVars, tagVars, parseVars, FlawType, TypeOK, FlawKind
<1>7. CASE LevelOutOfRange
  BY <1>7 DEF LevelOutOfRange, Lexeme, CheckLineLen, TooLong, Return, Emit, Met, levelVars,
      tagVars, parseVars, FlawType, TypeOK, FlawKind
<1>8. CASE LeadingZero
  BY <1>8 DEF LeadingZero, Lexeme, Return, Emit, Met, levelVars, tagVars, parseVars,
      FlawType, TypeOK, FlawKind
<1>9. ASSUME NEW t \in {"NOTE", "other", "user"}, Tag(t)
      PROVE  FlawType'
  BY <1>9 DEF Tag, Lexeme, CheckLineLen, TooLong, Return, Emit, Fine, Met, levelVars,
      tagVars, parseVars, FlawType, TypeOK, FlawKind
<1>10. CASE TagTooLong
  BY <1>10 DEF TagTooLong, Lexeme, Return, Emit, Met, levelVars, parseVars, FlawType,
      TypeOK, FlawKind
<1>11. ASSUME NEW t \in {"DELIM", "ANYCHAR", "BADTOKEN"}, Value(t)
      PROVE  FlawType'
  BY <1>11 DEF Value, Lexeme, CheckLineLen, TooLong, Return, Emit, Fine, Met, levelVars,
      tagVars, parseVars, FlawType, TypeOK, FlawKind
<1>12. CASE HalfCharacter
  BY <1>12, ContinueEffect DEF HalfCharacter, Lexeme, CheckLineLen, TooLong, Return, Emit,
      Fine, Met, levelVars, tagVars, parseVars, FlawType, TypeOK, FlawKind
<1>13. CASE Tab
  BY <1>13 DEF Tab, Lexeme, Return, Emit, Fine, levelVars, tagVars, parseVars, FlawType,
      TypeOK, FlawKind
<1>14. CASE SingleAt
  BY <1>14, ContinueEffect DEF SingleAt, Lexeme, Return, Emit, Fine, levelVars, tagVars,
      parseVars, FlawType, TypeOK, FlawKind
<1>15. CASE Junk
  BY <1>15 DEF Junk, Lexeme, Return, Emit, Fine, levelVars, tagVars, parseVars, FlawType,
      TypeOK, FlawKind
<1>16. CASE Terminator
  BY <1>16, ContinueEffect DEF Terminator, InitLineLen, TooLong, Return, Emit, Met,
      levelVars, tagVars, parseVars, FlawType, TypeOK, FlawKind
<1>17. CASE EndOfFile
  BY <1>17 DEF EndOfFile, AtEnd, Return, Emit, tagVars, parseVars, FlawType, TypeOK,
      FlawKind
<1>18. ASSUME NEW key \in Key, gedcom_check_token(key)
      PROVE  FlawType'
  BY <1>18 DEF gedcom_check_token, tagVars, history, FlawType, TypeOK, FlawKind
<1>19. CASE UNCHANGED lexVars
  BY <1>19 DEF lexVars, FlawType, TypeOK, FlawKind
<1>20. QED
  BY <1>1, <1>2, <1>3, <1>4, <1>5, <1>6, <1>7, <1>8, <1>9, <1>10, <1>11, <1>12, <1>13,
      <1>14, <1>15, <1>16, <1>17, <1>18, <1>19 DEF Next

LEMMA StateTypeKept ==
  ASSUME TypeOK, [Next]_lexVars
  PROVE  StateType'
<1>1. CASE StartFile
  BY <1>1 DEF StartFile, tagVars, history, StateType, TypeOK, Program
<1>2. CASE StopParse
  BY <1>2 DEF StopParse, levelVars, StateType, TypeOK, Program
<1>3. ASSUME NEW program \in Program, compute_compatibility(program)
      PROVE  StateType'
  BY <1>3 DEF compute_compatibility, levelVars, tagVars, history, StateType, TypeOK, Program
<1>4. CASE Call
  BY <1>4 DEF Call, EntryAt, Bracket, Return, Emit, tagVars, parseVars, StateType, TypeOK,
      Program
<1>5. CASE InitialWhitespace
  BY <1>5, ContinueEffect DEF InitialWhitespace, Lexeme, CheckLineLen, TooLong, Return,
      Emit, Fine, Met, levelVars, tagVars, parseVars, StateType, TypeOK, Program
<1>6. ASSUME NEW l \in 0 .. MaxLevel, Level(l)
      PROVE  StateType'
  BY <1>6 DEF Level, Bracket, Lexeme, CheckLineLen, TooLong, Return, Emit, Fine, Met,
      levelVars, tagVars, parseVars, StateType, TypeOK, Program
<1>7. CASE LevelOutOfRange
  BY <1>7 DEF LevelOutOfRange, Lexeme, CheckLineLen, TooLong, Return, Emit, Met, levelVars,
      tagVars, parseVars, StateType, TypeOK, Program
<1>8. CASE LeadingZero
  BY <1>8 DEF LeadingZero, Lexeme, Return, Emit, Met, levelVars, tagVars, parseVars,
      StateType, TypeOK, Program
<1>9. ASSUME NEW t \in {"NOTE", "other", "user"}, Tag(t)
      PROVE  StateType'
  BY <1>9 DEF Tag, Lexeme, CheckLineLen, TooLong, Return, Emit, Fine, Met, levelVars,
      tagVars, parseVars, StateType, TypeOK, Program
<1>10. CASE TagTooLong
  BY <1>10 DEF TagTooLong, Lexeme, Return, Emit, Met, levelVars, parseVars, StateType,
      TypeOK, Program
<1>11. ASSUME NEW t \in {"DELIM", "ANYCHAR", "BADTOKEN"}, Value(t)
      PROVE  StateType'
  BY <1>11 DEF Value, Lexeme, CheckLineLen, TooLong, Return, Emit, Fine, Met, levelVars,
      tagVars, parseVars, StateType, TypeOK, Program
<1>12. CASE HalfCharacter
  BY <1>12, ContinueEffect DEF HalfCharacter, Lexeme, CheckLineLen, TooLong, Return, Emit,
      Fine, Met, levelVars, tagVars, parseVars, StateType, TypeOK, Program
<1>13. CASE Tab
  BY <1>13 DEF Tab, Lexeme, Return, Emit, Fine, levelVars, tagVars, parseVars, StateType,
      TypeOK, Program
<1>14. CASE SingleAt
  BY <1>14, ContinueEffect DEF SingleAt, Lexeme, Return, Emit, Fine, levelVars, tagVars,
      parseVars, StateType, TypeOK, Program
<1>15. CASE Junk
  BY <1>15 DEF Junk, Lexeme, Return, Emit, Fine, levelVars, tagVars, parseVars, StateType,
      TypeOK, Program
<1>16. CASE Terminator
  BY <1>16, ContinueEffect DEF Terminator, InitLineLen, TooLong, Return, Emit, Met,
      levelVars, tagVars, parseVars, StateType, TypeOK, Program
<1>17. CASE EndOfFile
  BY <1>17 DEF EndOfFile, AtEnd, Return, Emit, tagVars, parseVars, StateType, TypeOK,
      Program
<1>18. ASSUME NEW key \in Key, gedcom_check_token(key)
      PROVE  StateType'
  BY <1>18 DEF gedcom_check_token, tagVars, history, StateType, TypeOK, Program
<1>19. CASE UNCHANGED lexVars
  BY <1>19 DEF lexVars, StateType, TypeOK, Program
<1>20. QED
  BY <1>1, <1>2, <1>3, <1>4, <1>5, <1>6, <1>7, <1>8, <1>9, <1>10, <1>11, <1>12, <1>13,
      <1>14, <1>15, <1>16, <1>17, <1>18, <1>19 DEF Next

LEMMA TypeKept ==
  ASSUME TypeOK, [Next]_lexVars
  PROVE  TypeOK'
<1>1. /\ TokenType' /\ LevelType' /\ LengthType'
      /\ CountType' /\ FlawType' /\ StateType'
  BY TokenTypeKept, LevelTypeKept, LengthTypeKept, CountTypeKept, FlawTypeKept, StateTypeKept
<1>2. QED
  BY <1>1 DEF TypeOK, TokenType, LevelType, LengthType, CountType, FlawType, StateType

LEMMA SessionKept ==
  ASSUME TypeOK, SessionInv, [Next]_lexVars
  PROVE  SessionInv'
<1>1. CASE StartFile
  BY <1>1 DEF StartFile, tagVars, history, SessionInv, TypeOK
<1>2. CASE StopParse
  BY <1>2 DEF StopParse, levelVars, SessionInv, TypeOK
<1>3. ASSUME NEW program \in Program, compute_compatibility(program)
      PROVE  SessionInv'
  BY <1>3 DEF compute_compatibility, levelVars, tagVars, history, SessionInv, TypeOK
<1>4. CASE Call
  BY <1>4 DEF Call, EntryAt, Bracket, Return, Emit, tagVars, parseVars, SessionInv, TypeOK
<1>5. CASE InitialWhitespace
  BY <1>5, QuietEffect DEF InitialWhitespace, Lexeme, CheckLineLen, TooLong, Return, Emit,
      Fine, Met, levelVars, tagVars, parseVars, SessionInv, TypeOK
<1>6. ASSUME NEW l \in 0 .. MaxLevel, Level(l)
      PROVE  SessionInv'
  BY <1>6 DEF Level, Bracket, Lexeme, CheckLineLen, TooLong, Return, Emit, Fine, Met,
      levelVars, tagVars, parseVars, SessionInv, TypeOK
<1>7. CASE LevelOutOfRange
  BY <1>7 DEF LevelOutOfRange, Lexeme, CheckLineLen, TooLong, Return, Emit, Met, levelVars,
      tagVars, parseVars, SessionInv, TypeOK
<1>8. CASE LeadingZero
  BY <1>8 DEF LeadingZero, Lexeme, Return, Emit, Met, levelVars, tagVars, parseVars,
      SessionInv, TypeOK
<1>9. ASSUME NEW t \in {"NOTE", "other", "user"}, Tag(t)
      PROVE  SessionInv'
  BY <1>9 DEF Tag, Lexeme, CheckLineLen, TooLong, Return, Emit, Fine, Met, levelVars,
      tagVars, parseVars, SessionInv, TypeOK
<1>10. CASE TagTooLong
  BY <1>10 DEF TagTooLong, Lexeme, Return, Emit, Met, levelVars, parseVars, SessionInv,
      TypeOK
<1>11. ASSUME NEW t \in {"DELIM", "ANYCHAR", "BADTOKEN"}, Value(t)
      PROVE  SessionInv'
  BY <1>11 DEF Value, Lexeme, CheckLineLen, TooLong, Return, Emit, Fine, Met, levelVars,
      tagVars, parseVars, SessionInv, TypeOK
<1>12. CASE HalfCharacter
  BY <1>12, QuietEffect DEF HalfCharacter, Lexeme, CheckLineLen, TooLong, Return, Emit,
      Fine, Met, levelVars, tagVars, parseVars, SessionInv, TypeOK
<1>13. CASE Tab
  BY <1>13 DEF Tab, Lexeme, Return, Emit, Fine, levelVars, tagVars, parseVars, SessionInv,
      TypeOK
<1>14. CASE SingleAt
  BY <1>14, QuietEffect DEF SingleAt, Lexeme, Return, Emit, Fine, levelVars, tagVars,
      parseVars, SessionInv, TypeOK
<1>15. CASE Junk
  BY <1>15 DEF Junk, Lexeme, Return, Emit, Fine, levelVars, tagVars, parseVars, SessionInv,
      TypeOK
<1>16. CASE Terminator
  BY <1>16, QuietEffect DEF Terminator, InitLineLen, TooLong, Return, Emit, Met, levelVars,
      tagVars, parseVars, SessionInv, TypeOK
<1>17. CASE EndOfFile
  BY <1>17 DEF EndOfFile, AtEnd, Return, Emit, tagVars, parseVars, SessionInv, TypeOK
<1>18. ASSUME NEW key \in Key, gedcom_check_token(key)
      PROVE  SessionInv'
  BY <1>18 DEF gedcom_check_token, tagVars, history, SessionInv, TypeOK
<1>19. CASE UNCHANGED lexVars
  BY <1>19 DEF lexVars, SessionInv, TypeOK
<1>20. QED
  BY <1>1, <1>2, <1>3, <1>4, <1>5, <1>6, <1>7, <1>8, <1>9, <1>10, <1>11, <1>12, <1>13,
      <1>14, <1>15, <1>16, <1>17, <1>18, <1>19 DEF Next

LEMMA PendingKept ==
  ASSUME TypeOK, SessionInv, PendingInv, [Next]_lexVars
  PROVE  PendingInv'
<1>1. CASE StartFile
  BY <1>1 DEF StartFile, tagVars, history, PendingInv, SpacePending, SessionInv, TypeOK,
      TabCharacter, Token, Program
<1>2. CASE StopParse
  BY <1>2 DEF StopParse, levelVars, PendingInv, SpacePending, SessionInv, TypeOK,
      TabCharacter, Token, Program
<1>3. ASSUME NEW program \in Program, compute_compatibility(program)
      PROVE  PendingInv'
  BY <1>3 DEF compute_compatibility, levelVars, tagVars, history, PendingInv, SpacePending,
      SessionInv, TypeOK, TabCharacter, Token, Program
<1>4. CASE Call
  BY <1>4 DEF Call, EntryAt, Bracket, Return, Emit, tagVars, parseVars, PendingInv,
      SpacePending, SessionInv, TypeOK, TabCharacter, Token, Program
<1>5. CASE InitialWhitespace
  BY <1>5, QuietEffect DEF InitialWhitespace, Lexeme, CheckLineLen, TooLong, Return, Emit,
      Fine, Met, levelVars, tagVars, parseVars, PendingInv, SpacePending, SessionInv,
      TypeOK, TabCharacter, Token, Program
<1>6. ASSUME NEW l \in 0 .. MaxLevel, Level(l)
      PROVE  PendingInv'
  BY <1>6 DEF Level, Bracket, Lexeme, CheckLineLen, TooLong, Return, Emit, Fine, Met,
      levelVars, tagVars, parseVars, PendingInv, SpacePending, SessionInv, TypeOK,
      TabCharacter, Token, Program
<1>7. CASE LevelOutOfRange
  BY <1>7 DEF LevelOutOfRange, Lexeme, CheckLineLen, TooLong, Return, Emit, Met, levelVars,
      tagVars, parseVars, PendingInv, SpacePending, SessionInv, TypeOK, TabCharacter,
      Token, Program
<1>8. CASE LeadingZero
  BY <1>8 DEF LeadingZero, Lexeme, Return, Emit, Met, levelVars, tagVars, parseVars,
      PendingInv, SpacePending, SessionInv, TypeOK, TabCharacter, Token, Program
<1>9. ASSUME NEW t \in {"NOTE", "other", "user"}, Tag(t)
      PROVE  PendingInv'
  BY <1>9 DEF Tag, Lexeme, CheckLineLen, TooLong, Return, Emit, Fine, Met, levelVars,
      tagVars, parseVars, PendingInv, SpacePending, SessionInv, TypeOK, TabCharacter,
      Token, Program
<1>10. CASE TagTooLong
  BY <1>10 DEF TagTooLong, Lexeme, Return, Emit, Met, levelVars, parseVars, PendingInv,
      SpacePending, SessionInv, TypeOK, TabCharacter, Token, Program
<1>11. ASSUME NEW t \in {"DELIM", "ANYCHAR", "BADTOKEN"}, Value(t)
      PROVE  PendingInv'
  BY <1>11 DEF Value, Lexeme, CheckLineLen, TooLong, Return, Emit, Fine, Met, levelVars,
      tagVars, parseVars, PendingInv, SpacePending, SessionInv, TypeOK, TabCharacter,
      Token, Program
<1>12. CASE HalfCharacter
  BY <1>12, QuietEffect DEF HalfCharacter, Lexeme, CheckLineLen, TooLong, Return, Emit,
      Fine, Met, levelVars, tagVars, parseVars, PendingInv, SpacePending, SessionInv,
      TypeOK, TabCharacter, Token, Program
<1>13. CASE Tab
  BY <1>13 DEF Tab, Lexeme, Return, Emit, Fine, levelVars, tagVars, parseVars, PendingInv,
      SpacePending, SessionInv, TypeOK, TabCharacter, Token, Program
<1>14. CASE SingleAt
  BY <1>14, QuietEffect DEF SingleAt, Lexeme, Return, Emit, Fine, levelVars, tagVars,
      parseVars, PendingInv, SpacePending, SessionInv, TypeOK, TabCharacter, Token, Program
<1>15. CASE Junk
  BY <1>15 DEF Junk, Lexeme, Return, Emit, Fine, levelVars, tagVars, parseVars, PendingInv,
      SpacePending, SessionInv, TypeOK, TabCharacter, Token, Program
<1>16. CASE Terminator
  BY <1>16, QuietEffect DEF Terminator, InitLineLen, TooLong, Return, Emit, Met, levelVars,
      tagVars, parseVars, PendingInv, SpacePending, SessionInv, TypeOK, TabCharacter,
      Token, Program
<1>17. CASE EndOfFile
  BY <1>17 DEF EndOfFile, AtEnd, Return, Emit, tagVars, parseVars, PendingInv,
      SpacePending, SessionInv, TypeOK, TabCharacter, Token, Program
<1>18. ASSUME NEW key \in Key, gedcom_check_token(key)
      PROVE  PendingInv'
  <2>1. /\ parsing' = FALSE /\ parsing = FALSE /\ scanning' = scanning
        /\ aborted' = aborted /\ compatibility' = compatibility /\ tok' = tok
    BY <1>18 DEF gedcom_check_token, history, TypeOK
  <2>2. ~aborted => level_diff' >= 3 /\ ~SpacePending'
    <3>1. SUFFICES ASSUME ~aborted
                   PROVE  level_diff' >= 3 /\ ~SpacePending'
      OBVIOUS
    <3>2. level_diff >= 3 /\ ~SpacePending
      BY <2>1, <3>1 DEF PendingInv, TypeOK
    <3>3. QED
      BY <3>2, <2>1, <1>18, CheckEffect, CheckReads DEF SpacePending, TabCharacter
  <2>3. tok' # "EOF" /\ ~scanning'
    BY <2>1 DEF SessionInv
  <2>4. QED
    BY <2>1, <2>2, <2>3 DEF PendingInv, TypeOK
<1>19. CASE UNCHANGED lexVars
  BY <1>19 DEF lexVars, PendingInv, SpacePending, SessionInv, TypeOK, TabCharacter, Token,
      Program
<1>20. QED
  BY <1>1, <1>2, <1>3, <1>4, <1>5, <1>6, <1>7, <1>8, <1>9, <1>10, <1>11, <1>12, <1>13,
      <1>14, <1>15, <1>16, <1>17, <1>18, <1>19 DEF Next

LEMMA DepthKept ==
  ASSUME TypeOK, SessionInv, PendingInv, DepthInv, [Next]_lexVars
  PROVE  DepthInv'
<1>1. CASE StartFile
  <2>1. depth = 0 /\ eof = FALSE /\ tok = "none"
    BY <1>1 DEF StartFile, SessionInv
  <2>2. /\ current_level' = -1 /\ level_diff' = MaxLevel
        /\ depth' = depth /\ eof' = eof /\ tok' = tok
    BY <1>1 DEF StartFile, InitialLevelDiff, history
  <2>3. depth' = 0 /\ eof' = FALSE /\ tok' # "EOF" /\ ~(MaxLevel <= 1)
    BY <2>1, <2>2
  <2>4. depth' = current_level' + 1 - (IF level_diff' <= 1 THEN level_diff' ELSE 0)
    <3>1. (IF level_diff' <= 1 THEN level_diff' ELSE 0) = 0
      BY <2>2, <2>3
    <3>2. current_level' + 1 - 0 = 0
      BY <2>2
    <3>3. QED
      BY <2>3, <3>1, <3>2
  <2>5. ~(current_level' >= 0)
    BY <2>2
  <2>6. QED
    BY <2>2, <2>3, <2>4, <2>5 DEF DepthInv, BalancedAtEnd
<1>2. CASE StopParse
  BY <1>2 DEF StopParse, levelVars, DepthInv, BalancedAtEnd, NoJump, PendingInv,
      SpacePending, SessionInv, TypeOK
<1>3. ASSUME NEW program \in Program, compute_compatibility(program)
      PROVE  DepthInv'
  BY <1>3 DEF compute_compatibility, levelVars, tagVars, history, DepthInv, BalancedAtEnd,
      NoJump, PendingInv, SpacePending, SessionInv, TypeOK
<1>4. CASE Call
  BY <1>4 DEF Call, EntryAt, Bracket, Return, Emit, tagVars, parseVars, DepthInv,
      BalancedAtEnd, NoJump, PendingInv, SpacePending, SessionInv, TypeOK
<1>5. CASE InitialWhitespace
  BY <1>5, QuietDepth
<1>6. ASSUME NEW l \in 0 .. MaxLevel, Level(l)
      PROVE  DepthInv'
  BY <1>6 DEF Level, Bracket, Lexeme, CheckLineLen, TooLong, Return, Emit, Fine, Met,
      levelVars, tagVars, parseVars, DepthInv, BalancedAtEnd, NoJump, PendingInv,
      SpacePending, SessionInv, TypeOK
<1>7. CASE LevelOutOfRange
  BY <1>7 DEF LevelOutOfRange, Lexeme, CheckLineLen, TooLong, Return, Emit, Met, levelVars,
      tagVars, parseVars, DepthInv, BalancedAtEnd, NoJump, PendingInv, SpacePending,
      SessionInv, TypeOK
<1>8. CASE LeadingZero
  BY <1>8 DEF LeadingZero, Lexeme, Return, Emit, Met, levelVars, tagVars, parseVars,
      DepthInv, BalancedAtEnd, NoJump, PendingInv, SpacePending, SessionInv, TypeOK
<1>9. ASSUME NEW t \in {"NOTE", "other", "user"}, Tag(t)
      PROVE  DepthInv'
  BY <1>9 DEF Tag, Lexeme, CheckLineLen, TooLong, Return, Emit, Fine, Met, levelVars,
      tagVars, parseVars, DepthInv, BalancedAtEnd, NoJump, PendingInv, SpacePending,
      SessionInv, TypeOK
<1>10. CASE TagTooLong
  BY <1>10 DEF TagTooLong, Lexeme, Return, Emit, Met, levelVars, parseVars, DepthInv,
      BalancedAtEnd, NoJump, PendingInv, SpacePending, SessionInv, TypeOK
<1>11. ASSUME NEW t \in {"DELIM", "ANYCHAR", "BADTOKEN"}, Value(t)
      PROVE  DepthInv'
  BY <1>11 DEF Value, Lexeme, CheckLineLen, TooLong, Return, Emit, Fine, Met, levelVars,
      tagVars, parseVars, DepthInv, BalancedAtEnd, NoJump, PendingInv, SpacePending,
      SessionInv, TypeOK
<1>12. CASE HalfCharacter
  BY <1>12, QuietDepth
<1>13. CASE Tab
  BY <1>13 DEF Tab, Lexeme, Return, Emit, Fine, levelVars, tagVars, parseVars, DepthInv,
      BalancedAtEnd, NoJump, PendingInv, SpacePending, SessionInv, TypeOK
<1>14. CASE SingleAt
  BY <1>14, QuietDepth
<1>15. CASE Junk
  BY <1>15 DEF Junk, Lexeme, Return, Emit, Fine, levelVars, tagVars, parseVars, DepthInv,
      BalancedAtEnd, NoJump, PendingInv, SpacePending, SessionInv, TypeOK
<1>16. CASE Terminator
  BY <1>16, QuietDepth
<1>17. CASE EndOfFile
  BY <1>17 DEF EndOfFile, AtEnd, Return, Emit, tagVars, parseVars, DepthInv, BalancedAtEnd,
      NoJump, PendingInv, SpacePending, SessionInv, TypeOK
<1>18. ASSUME NEW key \in Key, gedcom_check_token(key)
      PROVE  DepthInv'
  BY <1>18 DEF gedcom_check_token, tagVars, history, DepthInv, BalancedAtEnd, NoJump,
      PendingInv, SpacePending, SessionInv, TypeOK
<1>19. CASE UNCHANGED lexVars
  BY <1>19 DEF lexVars, DepthInv, BalancedAtEnd, NoJump, PendingInv, SpacePending,
      SessionInv, TypeOK
<1>20. QED
  BY <1>1, <1>2, <1>3, <1>4, <1>5, <1>6, <1>7, <1>8, <1>9, <1>10, <1>11, <1>12, <1>13,
      <1>14, <1>15, <1>16, <1>17, <1>18, <1>19 DEF Next

LEMMA LineKept ==
  ASSUME TypeOK, SessionInv, LineInv, [Next]_lexVars
  PROVE  LineInv'
<1>1. CASE StartFile
  BY <1>1 DEF StartFile, tagVars, history, LineInv, SessionInv, TypeOK
<1>2. CASE StopParse
  BY <1>2 DEF StopParse, levelVars, LineInv, SessionInv, TypeOK
<1>3. ASSUME NEW program \in Program, compute_compatibility(program)
      PROVE  LineInv'
  BY <1>3 DEF compute_compatibility, levelVars, tagVars, history, LineInv, SessionInv,
      TypeOK
<1>4. CASE Call
  BY <1>4 DEF Call, EntryAt, Bracket, Return, Emit, tagVars, parseVars, LineInv,
      SessionInv, TypeOK
<1>5. CASE InitialWhitespace
  BY <1>5, QuietEffect DEF InitialWhitespace, Lexeme, CheckLineLen, TooLong, Return, Emit,
      Fine, Met, levelVars, tagVars, parseVars, LineInv, SessionInv, TypeOK
<1>6. ASSUME NEW l \in 0 .. MaxLevel, Level(l)
      PROVE  LineInv'
  BY <1>6 DEF Level, Bracket, Lexeme, CheckLineLen, TooLong, Return, Emit, Fine, Met,
      levelVars, tagVars, parseVars, LineInv, SessionInv, TypeOK
<1>7. CASE LevelOutOfRange
  BY <1>7 DEF LevelOutOfRange, Lexeme, CheckLineLen, TooLong, Return, Emit, Met, levelVars,
      tagVars, parseVars, LineInv, SessionInv, TypeOK
<1>8. CASE LeadingZero
  BY <1>8 DEF LeadingZero, Lexeme, Return, Emit, Met, levelVars, tagVars, parseVars,
      LineInv, SessionInv, TypeOK
<1>9. ASSUME NEW t \in {"NOTE", "other", "user"}, Tag(t)
      PROVE  LineInv'
  BY <1>9 DEF Tag, Lexeme, CheckLineLen, TooLong, Return, Emit, Fine, Met, levelVars,
      tagVars, parseVars, LineInv, SessionInv, TypeOK
<1>10. CASE TagTooLong
  BY <1>10 DEF TagTooLong, Lexeme, Return, Emit, Met, levelVars, parseVars, LineInv,
      SessionInv, TypeOK
<1>11. ASSUME NEW t \in {"DELIM", "ANYCHAR", "BADTOKEN"}, Value(t)
      PROVE  LineInv'
  BY <1>11 DEF Value, Lexeme, CheckLineLen, TooLong, Return, Emit, Fine, Met, levelVars,
      tagVars, parseVars, LineInv, SessionInv, TypeOK
<1>12. CASE HalfCharacter
  BY <1>12, QuietEffect DEF HalfCharacter, Lexeme, CheckLineLen, TooLong, Return, Emit,
      Fine, Met, levelVars, tagVars, parseVars, LineInv, SessionInv, TypeOK
<1>13. CASE Tab
  BY <1>13 DEF Tab, Lexeme, Return, Emit, Fine, levelVars, tagVars, parseVars, LineInv,
      SessionInv, TypeOK
<1>14. CASE SingleAt
  BY <1>14, QuietEffect DEF SingleAt, Lexeme, Return, Emit, Fine, levelVars, tagVars,
      parseVars, LineInv, SessionInv, TypeOK
<1>15. CASE Junk
  BY <1>15 DEF Junk, Lexeme, Return, Emit, Fine, levelVars, tagVars, parseVars, LineInv,
      SessionInv, TypeOK
<1>16. CASE Terminator
  BY <1>16, QuietEffect DEF Terminator, InitLineLen, TooLong, Return, Emit, Met, levelVars,
      tagVars, parseVars, LineInv, SessionInv, TypeOK
<1>17. CASE EndOfFile
  BY <1>17 DEF EndOfFile, AtEnd, Return, Emit, tagVars, parseVars, LineInv, SessionInv,
      TypeOK
<1>18. ASSUME NEW key \in Key, gedcom_check_token(key)
      PROVE  LineInv'
  BY <1>18 DEF gedcom_check_token, tagVars, history, LineInv, SessionInv, TypeOK
<1>19. CASE UNCHANGED lexVars
  BY <1>19 DEF lexVars, LineInv, SessionInv, TypeOK
<1>20. QED
  BY <1>1, <1>2, <1>3, <1>4, <1>5, <1>6, <1>7, <1>8, <1>9, <1>10, <1>11, <1>12, <1>13,
      <1>14, <1>15, <1>16, <1>17, <1>18, <1>19 DEF Next

-----------------------------------------------------------------------------
(* The invariant, and what follows from it.                                *)

Inv == TypeOK /\ SessionInv /\ PendingInv /\ DepthInv /\ LineInv

\* Every step keeps the invariant, whatever the file and the keys are.
LEMMA InvAlways == Spec => []Inv
<1>1. Init => Inv
  <2> SUFFICES ASSUME Init PROVE Inv
    OBVIOUS
  <2>1. TypeOK
    <3>1. LevelType /\ LengthType /\ CountType
      BY DEF Init, LevelType, LengthType, CountType, InitialLevelDiff
    <3>2. TokenType
      BY DEF Init, TokenType, Token
    <3>3. StateType
      BY DEF Init, StateType, Program
    <3>4. FlawType
      BY DEF Init, FlawType
    <3>5. QED
      BY <3>1, <3>2, <3>3, <3>4
      DEF TypeOK, TokenType, LevelType, LengthType, CountType, FlawType, StateType
  <2>2. SessionInv /\ LineInv
    BY DEF Init, SessionInv, LineInv
  <2>3. PendingInv
    BY DEF Init, PendingInv, SpacePending, InitialLevelDiff
  <2>4. DepthInv
    BY DEF Init, DepthInv, BalancedAtEnd
  <2>5. QED
    BY <2>1, <2>2, <2>3, <2>4 DEF Inv
<1>2. Inv /\ [Next]_lexVars => Inv'
  BY TypeKept, SessionKept, PendingKept, DepthKept, LineKept DEF Inv
<1>3. QED
  BY <1>1, <1>2, PTL DEF Spec

\* The lexer's variables have their types in files of any shape: a level that
\* jumps, a line that ends early or a key that is refused never takes
\* level_diff out of the range that ACTION_BEFORE_REGEXPS counts it back in.
THEOREM TypeCorrect == Spec => []TypeOK
  BY InvAlways, PTL DEF Inv

\* The brackets that the parser gets nest as the levels of the file do, and
\* are all closed at the end of a file that ends at level 0
\* (gedcom_lex_common.c:192-222, :368-377).
THEOREM BracketsBalanceAlways == Spec => []BracketsBalance
<1>1. Inv => BracketsBalance
  BY DEF Inv, DepthInv, NoJump, BracketsBalance, BracketsMatchLevels
<1>2. QED
  BY <1>1, InvAlways, PTL

LEMMA KeysStep ==
  ASSUME TypeOK, SessionInv, PendingInv, KeysAreJudged, [Next]_lexVars
  PROVE  KeysAreJudged'
<1>1. CASE StartFile
  BY <1>1 DEF StartFile, tagVars, history, KeysAreJudged, ValidKeysAfterWholeFiles,
      InvalidKeysAreRefused, SessionInv
<1>2. CASE StopParse
  BY <1>2 DEF StopParse, levelVars, KeysAreJudged, ValidKeysAfterWholeFiles,
      InvalidKeysAreRefused, SessionInv
<1>3. ASSUME NEW program \in Program, compute_compatibility(program)
      PROVE  KeysAreJudged'
  BY <1>3 DEF compute_compatibility, levelVars, tagVars, history, KeysAreJudged,
      ValidKeysAfterWholeFiles, InvalidKeysAreRefused, SessionInv
<1>4. CASE Call
  BY <1>4 DEF Call, EntryAt, Bracket, Return, Emit, tagVars, parseVars, KeysAreJudged,
      ValidKeysAfterWholeFiles, InvalidKeysAreRefused, SessionInv
<1>5. CASE InitialWhitespace
  BY <1>5 DEF InitialWhitespace, Lexeme, CheckLineLen, TooLong, Return, Emit, Fine, Met,
      levelVars, tagVars, parseVars, KeysAreJudged, ValidKeysAfterWholeFiles,
      InvalidKeysAreRefused, SessionInv
<1>6. ASSUME NEW l \in 0 .. MaxLevel, Level(l)
      PROVE  KeysAreJudged'
  BY <1>6 DEF Level, Bracket, Lexeme, CheckLineLen, TooLong, Return, Emit, Fine, Met,
      levelVars, tagVars, parseVars, KeysAreJudged, ValidKeysAfterWholeFiles,
      InvalidKeysAreRefused, SessionInv
<1>7. CASE LevelOutOfRange
  BY <1>7 DEF LevelOutOfRange, Lexeme, CheckLineLen, TooLong, Return, Emit, Met, levelVars,
      tagVars, parseVars, KeysAreJudged, ValidKeysAfterWholeFiles, InvalidKeysAreRefused,
      SessionInv
<1>8. CASE LeadingZero
  BY <1>8 DEF LeadingZero, Lexeme, Return, Emit, Met, levelVars, tagVars, parseVars,
      KeysAreJudged, ValidKeysAfterWholeFiles, InvalidKeysAreRefused, SessionInv
<1>9. ASSUME NEW t \in {"NOTE", "other", "user"}, Tag(t)
      PROVE  KeysAreJudged'
  BY <1>9 DEF Tag, Lexeme, CheckLineLen, TooLong, Return, Emit, Fine, Met, levelVars,
      tagVars, parseVars, KeysAreJudged, ValidKeysAfterWholeFiles, InvalidKeysAreRefused,
      SessionInv
<1>10. CASE TagTooLong
  BY <1>10 DEF TagTooLong, Lexeme, Return, Emit, Met, levelVars, parseVars, KeysAreJudged,
      ValidKeysAfterWholeFiles, InvalidKeysAreRefused, SessionInv
<1>11. ASSUME NEW t \in {"DELIM", "ANYCHAR", "BADTOKEN"}, Value(t)
      PROVE  KeysAreJudged'
  BY <1>11 DEF Value, Lexeme, CheckLineLen, TooLong, Return, Emit, Fine, Met, levelVars,
      tagVars, parseVars, KeysAreJudged, ValidKeysAfterWholeFiles, InvalidKeysAreRefused,
      SessionInv
<1>12. CASE HalfCharacter
  BY <1>12 DEF HalfCharacter, Lexeme, CheckLineLen, TooLong, Return, Emit, Fine, Met,
      levelVars, tagVars, parseVars, KeysAreJudged, ValidKeysAfterWholeFiles,
      InvalidKeysAreRefused, SessionInv
<1>13. CASE Tab
  BY <1>13 DEF Tab, Lexeme, Return, Emit, Fine, levelVars, tagVars, parseVars,
      KeysAreJudged, ValidKeysAfterWholeFiles, InvalidKeysAreRefused, SessionInv
<1>14. CASE SingleAt
  BY <1>14 DEF SingleAt, Lexeme, Return, Emit, Fine, levelVars, tagVars, parseVars,
      KeysAreJudged, ValidKeysAfterWholeFiles, InvalidKeysAreRefused, SessionInv
<1>15. CASE Junk
  BY <1>15 DEF Junk, Lexeme, Return, Emit, Fine, levelVars, tagVars, parseVars,
      KeysAreJudged, ValidKeysAfterWholeFiles, InvalidKeysAreRefused, SessionInv
<1>16. CASE Terminator
  BY <1>16 DEF Terminator, InitLineLen, TooLong, Return, Emit, Met, levelVars, tagVars,
      parseVars, KeysAreJudged, ValidKeysAfterWholeFiles, InvalidKeysAreRefused, SessionInv
<1>17. CASE EndOfFile
  BY <1>17 DEF EndOfFile, AtEnd, Return, Emit, tagVars, parseVars, KeysAreJudged,
      ValidKeysAfterWholeFiles, InvalidKeysAreRefused, SessionInv
<1>18. ASSUME NEW key \in Key, gedcom_check_token(key)
      PROVE  KeysAreJudged'
  <2>1. /\ aborted' = aborted
        /\ verdict' = CASE Accepts(FirstOf(key), SecondOf(key)) = (key = <<"POINTER">>) -> "right"
                     [] Accepts(FirstOf(key), SecondOf(key)) /\ key # <<"POINTER">> -> "lax"
                     [] OTHER -> "strict"
    BY <1>18 DEF gedcom_check_token, FirstOf, SecondOf
  <2>2. ~(Accepts(FirstOf(key), SecondOf(key)) /\ key # <<"POINTER">>)
    BY AcceptsOnly
  <2>3. ~aborted => Accepts(FirstOf(key), SecondOf(key)) = (key = <<"POINTER">>)
    BY <1>18, CheckEffect, CheckReads DEF PendingInv
  <2>4. verdict' # "lax"
    BY <2>1, <2>2
  <2>5. ~aborted => verdict' = "right"
    BY <2>1, <2>3
  <2>6. QED
    BY <2>1, <2>4, <2>5
    DEF KeysAreJudged, ValidKeysAfterWholeFiles, InvalidKeysAreRefused
<1>19. CASE UNCHANGED lexVars
  BY <1>19 DEF lexVars, KeysAreJudged, ValidKeysAfterWholeFiles, InvalidKeysAreRefused,
      SessionInv
<1>20. QED
  BY <1>1, <1>2, <1>3, <1>4, <1>5, <1>6, <1>7, <1>8, <1>9, <1>10, <1>11, <1>12, <1>13,
      <1>14, <1>15, <1>16, <1>17, <1>18, <1>19 DEF Next

\* A cross-reference key is judged by what it is: not by the keys that were
\* judged before it, nor by a file that was read to its end.  A parse that was
\* aborted may make a valid key be refused, and makes no invalid key valid
\* (gedcom_check_token, gedcom_lex_common.c).
THEOREM KeysAreJudgedAlways == Spec => []KeysAreJudged
<1>1. Init => KeysAreJudged
  BY DEF Init, KeysAreJudged, ValidKeysAfterWholeFiles, InvalidKeysAreRefused
<1>2. Inv /\ KeysAreJudged /\ [Next]_lexVars => KeysAreJudged'
  BY KeysStep DEF Inv
<1>3. QED
  BY <1>1, <1>2, InvAlways, PTL DEF Spec

\* The two halves of LinesAreCounted, of one step.
LineNumberStep ==
  scanning /\ ~scanning' /\ tok' \in {"TAG", "USERTAG"} /\ flaws = {} =>
    line_no' = line
LongLineStep ==
  scanning /\ ~scanning' /\ tok' = "TOO_LONG" =>
    line = 1 \/ column >= MaxLineLen

\* column counts every lexeme that line_len counts.
LEMMA TooLongLine ==
  ASSUME TypeOK, SessionInv, LineInv, scanning, TooLong
  PROVE  line = 1 \/ column >= MaxLineLen
  BY DEF TypeOK, SessionInv, LineInv, TooLong

LEMMA LineStep ==
  ASSUME TypeOK, SessionInv, LineInv, [Next]_lexVars
  PROVE  LineNumberStep /\ LongLineStep
<1>1. CASE StartFile
  BY <1>1 DEF StartFile, tagVars, history, LineNumberStep, LongLineStep, LineInv,
      SessionInv, TypeOK
<1>2. CASE StopParse
  BY <1>2 DEF StopParse, levelVars, LineNumberStep, LongLineStep, LineInv, SessionInv,
      TypeOK
<1>3. ASSUME NEW program \in Program, compute_compatibility(program)
      PROVE  LineNumberStep /\ LongLineStep
  BY <1>3 DEF compute_compatibility, levelVars, tagVars, history, LineNumberStep,
      LongLineStep, LineInv, SessionInv, TypeOK
<1>4. CASE Call
  BY <1>4 DEF Call, EntryAt, Bracket, Return, Emit, tagVars, parseVars, LineNumberStep,
      LongLineStep, LineInv, SessionInv, TypeOK
<1>5. CASE InitialWhitespace
  BY <1>5, ContinueEffect, TooLongLine DEF InitialWhitespace, Lexeme, CheckLineLen, Return,
      Emit, Fine, Met, levelVars, tagVars, parseVars, LineNumberStep, LongLineStep,
      LineInv, SessionInv, TypeOK
<1>6. ASSUME NEW l \in 0 .. MaxLevel, Level(l)
      PROVE  LineNumberStep /\ LongLineStep
  BY <1>6, TooLongLine DEF Level, Bracket, Lexeme, CheckLineLen, Return, Emit, Fine, Met,
      levelVars, tagVars, parseVars, LineNumberStep, LongLineStep, LineInv, SessionInv,
      TypeOK
<1>7. CASE LevelOutOfRange
  BY <1>7, TooLongLine DEF LevelOutOfRange, Lexeme, CheckLineLen, Return, Emit, Met,
      levelVars, tagVars, parseVars, LineNumberStep, LongLineStep, LineInv, SessionInv,
      TypeOK
<1>8. CASE LeadingZero
  BY <1>8 DEF LeadingZero, Lexeme, Return, Emit, Met, levelVars, tagVars, parseVars,
      LineNumberStep, LongLineStep, LineInv, SessionInv, TypeOK
<1>9. ASSUME NEW t \in {"NOTE", "other", "user"}, Tag(t)
      PROVE  LineNumberStep /\ LongLineStep
  BY <1>9, TooLongLine DEF Tag, Lexeme, CheckLineLen, Return, Emit, Fine, Met, levelVars,
      tagVars, parseVars, LineNumberStep, LongLineStep, LineInv, SessionInv, TypeOK
<1>10. CASE TagTooLong
  BY <1>10 DEF TagTooLong, Lexeme, Return, Emit, Met, levelVars, parseVars, LineNumberStep,
      LongLineStep, LineInv, SessionInv, TypeOK
<1>11. ASSUME NEW t \in {"DELIM", "ANYCHAR", "BADTOKEN"}, Value(t)
      PROVE  LineNumberStep /\ LongLineStep
  BY <1>11, TooLongLine DEF Value, Lexeme, CheckLineLen, Return, Emit, Fine, Met,
      levelVars, tagVars, parseVars, LineNumberStep, LongLineStep, LineInv, SessionInv,
      TypeOK
<1>12. CASE HalfCharacter
  BY <1>12, ContinueEffect, TooLongLine DEF HalfCharacter, Lexeme, CheckLineLen, Return,
      Emit, Fine, Met, levelVars, tagVars, parseVars, LineNumberStep, LongLineStep,
      LineInv, SessionInv, TypeOK
<1>13. CASE Tab
  BY <1>13 DEF Tab, Lexeme, Return, Emit, Fine, levelVars, tagVars, parseVars,
      LineNumberStep, LongLineStep, LineInv, SessionInv, TypeOK
<1>14. CASE SingleAt
  BY <1>14, ContinueEffect, TooLongLine DEF SingleAt, Lexeme, Return, Emit, Fine,
      levelVars, tagVars, parseVars, LineNumberStep, LongLineStep, LineInv, SessionInv,
      TypeOK
<1>15. CASE Junk
  BY <1>15 DEF Junk, Lexeme, Return, Emit, Fine, levelVars, tagVars, parseVars,
      LineNumberStep, LongLineStep, LineInv, SessionInv, TypeOK
<1>16. CASE Terminator
  BY <1>16, ContinueEffect, TooLongLine DEF Terminator, Return, Emit, Met, levelVars,
      tagVars, parseVars, LineNumberStep, LongLineStep, LineInv, SessionInv, TypeOK
<1>17. CASE EndOfFile
  BY <1>17 DEF EndOfFile, AtEnd, Return, Emit, tagVars, parseVars, LineNumberStep,
      LongLineStep, LineInv, SessionInv, TypeOK
<1>18. ASSUME NEW key \in Key, gedcom_check_token(key)
      PROVE  LineNumberStep /\ LongLineStep
  BY <1>18 DEF gedcom_check_token, tagVars, history, LineNumberStep, LongLineStep, LineInv,
      SessionInv, TypeOK
<1>19. CASE UNCHANGED lexVars
  BY <1>19 DEF lexVars, LineNumberStep, LongLineStep, LineInv, SessionInv, TypeOK
<1>20. QED
  BY <1>1, <1>2, <1>3, <1>4, <1>5, <1>6, <1>7, <1>8, <1>9, <1>10, <1>11, <1>12, <1>13,
      <1>14, <1>15, <1>16, <1>17, <1>18, <1>19 DEF Next

\* A message about a tag or a value names the line that the file has it in,
\* and only a line that is itself too long is complained about, the first one
\* excepted (CHECK_LINE_LEN and line_no, gedcom_lex_common.c).
THEOREM LinesAreCountedAlways == Spec => LinesAreCounted
<1>1. Inv /\ [Next]_lexVars => [LineNumberStep]_lexVars /\ [LongLineStep]_lexVars
  BY LineStep DEF Inv
<1>2. QED
  BY <1>1, InvAlways, PTL
  DEF Spec, LinesAreCounted, LineNumberIsTrue, OnlyLongLinesAreRefused,
      LineNumberStep, LongLineStep

-----------------------------------------------------------------------------
(* The encodings of files: the inductive invariant, in parts.             *)

\* struct encoding, all of it.
IsEncoding(r) ==
  r = [charset |-> r.charset, encoding |-> r.encoding, width |-> r.width, bom |-> r.bom,
       terminator |-> r.terminator]
\* What get_encoding finds, or what the library starts with.
InTable(charset, width, encoding) ==
  <<charset, width>> \in DOMAIN encodings /\ encodings[<<charset, width>>] = encoding
Known(charset, width, encoding) ==
  \/ charset = "ASCII" /\ width = "ONE_BYTE" /\ encoding = "ASCII"
  \/ InTable(charset, width, encoding)
ShortEnd(t) == t \in Seq(BlankOrEnd) /\ Len(t) <= 2

\* The table is read once, before any file.
TableInv ==
  /\ config \in Tables
  /\ encodings = NoTable \/ encodings = TableOf(config)
  /\ encodings = NoTable => reading = NotReading /\ read_encoding.charset = ""
\* What is known of the last file is of one file, unless it is torn; what will
\* be written is in the table, unless it was taken from a torn one.
ReadInv ==
  /\ IsEncoding(read_encoding) /\ ShortEnd(read_encoding.terminator)
  /\ read_encoding.charset # "" =>
       /\ read_encoding.encoding # NULL
       /\ Underscored(read_encoding.charset) = read_encoding.charset
       /\ "read" \notin torn =>
            InTable(read_encoding.charset, read_encoding.width, read_encoding.encoding)
WriteInv ==
  /\ IsEncoding(write_encoding) /\ ShortEnd(write_encoding.terminator)
  /\ write_encoding.charset # ""
  /\ Underscored(write_encoding.charset) = write_encoding.charset
  /\ "write" \notin torn => Known(write_encoding.charset, write_encoding.width, write_encoding.encoding)
\* What is known of a file that is being read, by how far it is read.
FirstCharset(width) == IF width = "ONE_BYTE" THEN "ASCII" ELSE "UNICODE"
Blanks(n) == [i \in 1..n |-> "blank"]
FirstTwo(text) == SubSeq(text, 1, IF Len(text) < 2 THEN Len(text) ELSE 2)
CharsetOf(f) == CHOOSE c \in (IF f.charset # {} THEN f.charset ELSE f.default) : TRUE
IsReadFile(f) ==
  f.terminator \in Seq(BlankOrEnd) /\ f.blanks \in Nat /\ f # NoFile
ReadingInv ==
  \/ reading = NotReading /\ to_int = NULL
  \/ /\ reading = [at |-> reading.at, file |-> reading.file]
     /\ reading.at \in {"first line", "header", "rest", "failed"}
     /\ IsReadFile(reading.file)
     /\ read_encoding.width = reading.file.width
     /\ to_int = read_encoding.encoding /\ to_int # NULL
     /\ <<FirstCharset(reading.file.width), reading.file.width>> \in DOMAIN encodings
     /\ reading.at # "first line" =>
          read_encoding.terminator = FirstTwo(Blanks(reading.file.blanks) \o reading.file.terminator)
     /\ reading.at = "rest" =>
          /\ read_encoding.charset = Underscored(CharsetOf(reading.file))
          /\ read_encoding.encoding = get_encoding(CharsetOf(reading.file), reading.file.width)
     /\ reading.at = "failed" =>
          ~CanConvert(get_encoding(CharsetOf(reading.file), reading.file.width))
\* An open handle is what was configured, unless something was set since.
HandleInv ==
  hndl # NoHandle =>
    /\ hndl = [conv |-> hndl.conv, mark |-> hndl.mark, charset |-> hndl.charset,
               refused |-> hndl.refused, torn |-> hndl.torn]
    /\ CanConvert(hndl.conv)
    /\ settled => /\ hndl.conv = write_encoding.encoding /\ hndl.mark = Mark(write_encoding)
                  /\ hndl.charset \in {"", write_encoding.charset}
                  /\ ~hndl.torn => "write" \notin torn
\* What is true of a file that was written.
Written(f) ==
  /\ IsReadFile(f) /\ f.blanks = 0 /\ Len(f.terminator) <= 2
  /\ \E c : f.charset = {c}
  /\ f.settled =>
       \E c : /\ f.charset = {c} /\ Underscored(c) = c
              /\ CanConvert(f.encoding) /\ Known(c, f.width, f.encoding)
FileInv == file = NoFile \/ Written(file)
OutcomeInv ==
  /\ outcome \in {"none", "right", "wrong"}
  /\ outcome = "wrong" => file # NoFile /\ ~file.settled
EncodingsInv ==
  TableInv /\ ReadInv /\ WriteInv /\ ReadingInv /\ HandleInv /\ FileInv /\ OutcomeInv

-----------------------------------------------------------------------------
(* The table.                                                              *)

LEMMA ConstantFacts ==
  /\ \A t \in Tables : /\ Len(t) \in Nat /\ DOMAIN t = 1 .. Len(t)
                       /\ \A i \in DOMAIN t : t[i] # BadLine =>
                            /\ WidthOf(t[i].encoding) = t[i].width
                            /\ t[i].charset = "ASCII" => t[i].encoding = "ASCII"
  /\ \A f \in Inputs : IsReadFile(f)
  /\ SysNewline \in Terminators
  BY EncodingsAssumption DEF IsReadFile, NoFile

LEMMA LeastNumber ==
  ASSUME NEW S, S \subseteq Nat, S # {}
  PROVE  \E m \in S : \A i \in S : ~(i < m)
<1> DEFINE R == OpToRel(<, Nat)
<1>1. IsWellFoundedOn(R, Nat)
  BY NatLessThanWellFounded
<1>2. \A k, l \in Nat : l < k => <<l, k>> \in R
  BY DEF OpToRel
<1> HIDE DEF R
<1>3. PICK m \in S : \A i \in S : ~ (<<i, m>> \in R)
  BY <1>1, WFMin
<1>4. QED
  BY <1>2, <1>3

LEMMA TableFacts ==
  ASSUME NEW t \in Tables, NEW c, NEW w, <<c, w>> \in DOMAIN TableOf(t)
  PROVE  /\ WidthOf(TableOf(t)[<<c, w>>]) = w
         /\ c = "ASCII" => TableOf(t)[<<c, w>>] = "ASCII"
<1> DEFINE good == {i \in DOMAIN t : \A j \in 1 .. i : t[j] # BadLine}
           keys == {<<t[i].charset, t[i].width>> : i \in good}
           IsFirst(i, k) == /\ <<t[i].charset, t[i].width>> = k
                            /\ \A j \in good : j < i => <<t[j].charset, t[j].width>> # k
           First(k) == CHOOSE i \in good : IsFirst(i, k)
           k == <<c, w>>
<1>1. TableOf(t) = [l \in keys |-> t[First(l)].encoding]
  BY DEF TableOf
<1>2. k \in keys
  BY <1>1
<1>3. \E i \in good : IsFirst(i, k)
  <2> DEFINE S == {i \in good : <<t[i].charset, t[i].width>> = k}
  <2>1. S # {}
    BY <1>2
  <2>2. S \subseteq Nat
    BY ConstantFacts
  <2> HIDE DEF S
  <2>3. PICK m \in S : \A i \in S : ~(i < m)
    BY <2>1, <2>2, LeastNumber
  <2>4. m \in good /\ IsFirst(m, k)
    BY <2>3 DEF S
  <2>5. QED
    BY <2>4
<1>4. First(k) \in good /\ IsFirst(First(k), k)
  BY <1>3
<1>5. TableOf(t)[k] = t[First(k)].encoding
  BY <1>1, <1>2
<1> HIDE DEF First
<1>6. First(k) \in DOMAIN t /\ t[First(k)] # BadLine
  <2>1. First(k) \in 1 .. Len(t)
    BY <1>4, ConstantFacts
  <2>2. First(k) \in 1 .. First(k)
    BY <2>1
  <2>3. QED
    BY <2>2, <1>4
<1>7. t[First(k)].charset = c /\ t[First(k)].width = w
  BY <1>4
<1>8. QED
  BY <1>5, <1>6, <1>7, ConstantFacts

LEMMA KnownWidth ==
  ASSUME TableInv, NEW c, NEW w, NEW e, Known(c, w, e)
  PROVE  WidthOf(e) = w /\ (InTable(c, w, e) /\ c = "ASCII" => e = "ASCII")
<1>1. CASE InTable(c, w, e)
  <2>1. <<c, w>> \in DOMAIN encodings /\ encodings[<<c, w>>] = e
    BY <1>1 DEF InTable
  <2>2. encodings # NoTable
    BY <2>1 DEF NoTable
  <2>3. config \in Tables /\ encodings = TableOf(config)
    BY <2>2 DEF TableInv
  <2>4. <<c, w>> \in DOMAIN TableOf(config) /\ TableOf(config)[<<c, w>>] = e
    BY <2>1, <2>3
  <2> HIDE <1>1
  <2>5. WidthOf(TableOf(config)[<<c, w>>]) = w /\ (c = "ASCII" => TableOf(config)[<<c, w>>] = "ASCII")
    BY <2>3, <2>4, TableFacts
  <2>6. QED
    BY <2>4, <2>5
<1>2. CASE ~InTable(c, w, e)
  BY <1>2 DEF Known, WidthOf
<1>3. QED
  BY <1>1, <1>2

LEMMA GetEncoding ==
  ASSUME NEW c, NEW w
  PROVE  /\ Underscored(Underscored(c)) = Underscored(c)
         /\ get_encoding(Underscored(c), w) = get_encoding(c, w)
         /\ get_encoding(c, w) # NULL => InTable(Underscored(c), w, get_encoding(c, w))
         /\ c # "" => Underscored(c) # ""
         /\ InTable(Underscored(c), w, get_encoding(c, w)) \/ get_encoding(c, w) = NULL
<1>1. Underscored(Underscored(c)) = Underscored(c) /\ (c # "" => Underscored(c) # "")
  BY DEF Underscored
<1>2. QED
  BY <1>1 DEF get_encoding, InTable

LEMMA InTableIs ==
  ASSUME NEW c, NEW w, NEW e, InTable(c, w, e), Underscored(c) = c
  PROVE  get_encoding(c, w) = e
  BY DEF InTable, get_encoding

-----------------------------------------------------------------------------
(* The ends of lines.                                                      *)

LEMMA EndsAreShort ==
  /\ \A e \in Terminators : ShortEnd(e)
  /\ ShortEnd(<<>>)
  BY DEF Terminators, ShortEnd, BlankOrEnd

LEMMA FirstTwoFacts ==
  ASSUME NEW s \in Seq(BlankOrEnd)
  PROVE  ShortEnd(FirstTwo(s)) /\ (Len(s) <= 2 => FirstTwo(s) = s)
<1> DEFINE m == IF Len(s) < 2 THEN Len(s) ELSE 2
<1>1. Len(s) \in Nat /\ m \in Nat /\ m <= Len(s) /\ m <= 2
  OBVIOUS
<1>2. FirstTwo(s) = SubSeq(s, 1, m)
  BY DEF FirstTwo
<1>3. Len(s) <= 2 => m = Len(s)
  <2>1. PICK n \in Nat : n = Len(s)
    BY <1>1
  <2>2. n <= 2 => (IF n < 2 THEN n ELSE 2) = n
    BY ONLY n \in Nat
  <2>3. QED
    BY <2>1, <2>2
<1> HIDE DEF m
<1>4. SubSeq(s, 1, m) \in Seq(BlankOrEnd) /\ Len(SubSeq(s, 1, m)) = m
  BY <1>1
<1>5. SubSeq(s, 1, Len(s)) = s
  OBVIOUS
<1>6. QED
  BY <1>1, <1>2, <1>3, <1>4, <1>5 DEF ShortEnd

LEMMA LineEndText ==
  ASSUME NEW n \in Nat, NEW s \in Seq(BlankOrEnd)
  PROVE  Blanks(n) \o s \in Seq(BlankOrEnd) /\ (n = 0 => Blanks(n) \o s = s)
<1>1. Blanks(n) \in Seq(BlankOrEnd) /\ Len(Blanks(n)) = n
  <2>1. "blank" \in BlankOrEnd
    BY DEF BlankOrEnd
  <2>2. Blanks(n) \in [1 .. n -> BlankOrEnd]
    BY <2>1 DEF Blanks
  <2>3. QED
    BY <2>2
<1>2. n = 0 => Blanks(n) = <<>>
  BY <1>1
<1>3. QED
  BY <1>1, <1>2

-----------------------------------------------------------------------------
(* What every step keeps.                                                  *)

\* A part of the invariant holds after a step that leaves alone what it is about.
LEMMA Untouched ==
  ASSUME EncodingsInv, UNCHANGED encVars
  PROVE  /\ UNCHANGED <<reading, read_encoding>> => TableInv'
         /\ UNCHANGED read_encoding /\ ("read" \in torn' <=> "read" \in torn) => ReadInv'
         /\ UNCHANGED write_encoding /\ ("write" \in torn' <=> "write" \in torn) => WriteInv'
         /\ UNCHANGED <<reading, read_encoding, to_int>> => ReadingInv'
         /\ UNCHANGED <<hndl, settled, write_encoding>> /\ ("write" \in torn' <=> "write" \in torn)
              => HandleInv'
         /\ UNCHANGED file => FileInv'
         /\ UNCHANGED <<file, outcome>> => OutcomeInv'
         /\ \A c, w, e : Known(c, w, e) => Known(c, w, e)'
         /\ \A c, w, e : InTable(c, w, e) => InTable(c, w, e)'
<1> USE DEF encVars
<1>1. \A c, w, e : /\ InTable(c, w, e) <=> InTable(c, w, e)'
                   /\ Known(c, w, e) <=> Known(c, w, e)'
  BY DEF Known, InTable
<1>2. UNCHANGED <<reading, read_encoding>> => TableInv'
  BY DEF EncodingsInv, TableInv
<1>3. UNCHANGED read_encoding /\ ("read" \in torn' <=> "read" \in torn) => ReadInv'
  BY <1>1 DEF EncodingsInv, ReadInv
<1>4. UNCHANGED write_encoding /\ ("write" \in torn' <=> "write" \in torn) => WriteInv'
  BY <1>1 DEF EncodingsInv, WriteInv
<1>5. UNCHANGED <<reading, read_encoding, to_int>> => ReadingInv'
  BY DEF EncodingsInv, ReadingInv, get_encoding
<1>6. UNCHANGED <<hndl, settled, write_encoding>> /\ ("write" \in torn' <=> "write" \in torn)
        => HandleInv'
  <2> SUFFICES ASSUME UNCHANGED <<hndl, settled, write_encoding>>,
                      "write" \in torn' <=> "write" \in torn
               PROVE  HandleInv'
    OBVIOUS
  <2>1. HandleInv
    BY DEF EncodingsInv
  <2>2. hndl' = hndl /\ settled' = settled /\ write_encoding' = write_encoding
    OBVIOUS
  <2>3. Mark(write_encoding') = Mark(write_encoding)
    BY <2>2
  <2>4. ASSUME hndl # NoHandle
        PROVE  /\ hndl' = [conv |-> hndl'.conv, mark |-> hndl'.mark, charset |-> hndl'.charset,
                           refused |-> hndl'.refused, torn |-> hndl'.torn]
               /\ CanConvert(hndl'.conv)
    BY <2>1, <2>2, <2>4 DEF HandleInv
  <2>5. ASSUME hndl # NoHandle, settled
        PROVE  /\ hndl'.conv = write_encoding'.encoding /\ hndl'.mark = Mark(write_encoding')
               /\ hndl'.charset \in {"", write_encoding'.charset}
               /\ ~hndl'.torn => "write" \notin torn'
    BY <2>1, <2>2, <2>3, <2>5 DEF HandleInv
  <2>6. ASSUME hndl' # NoHandle
        PROVE  /\ (hndl = [conv |-> hndl.conv, mark |-> hndl.mark, charset |-> hndl.charset,
                           refused |-> hndl.refused, torn |-> hndl.torn])'
               /\ CanConvert(hndl.conv)'
    BY <2>2, <2>4, <2>6
  <2>7. ASSUME hndl' # NoHandle, settled'
        PROVE  (/\ hndl.conv = write_encoding.encoding /\ hndl.mark = Mark(write_encoding)
               /\ hndl.charset \in {"", write_encoding.charset}
               /\ (~hndl.torn => "write" \notin torn))'
    <3>1. hndl # NoHandle /\ settled
      BY <2>2, <2>7
    <3>2. (hndl.conv = write_encoding.encoding)' /\ (hndl.charset \in {"", write_encoding.charset})'
      BY <2>5, <3>1
    <3>3. (hndl.mark = Mark(write_encoding))'
      BY <2>5, <3>1
    <3>4. (~hndl.torn => "write" \notin torn)'
      BY <2>5, <3>1
    <3>5. QED
      BY <3>2, <3>3, <3>4
  <2>8. QED
    BY <2>6, <2>7 DEF HandleInv
<1>7. UNCHANGED file => FileInv'
  BY <1>1 DEF EncodingsInv, FileInv, Written
<1>8. UNCHANGED <<file, outcome>> => OutcomeInv'
  BY DEF EncodingsInv, OutcomeInv
<1>9. QED
  BY <1>1, <1>2, <1>3, <1>4, <1>5, <1>6, <1>7, <1>8

LEMMA Initially ==
  ASSUME EInit
  PROVE  EncodingsInv
<1>1. TableInv
  BY DEF EInit, TableInv
<1>2. ReadInv
  BY EndsAreShort DEF EInit, ReadInv, IsEncoding
<1>3. WriteInv
  BY EndsAreShort, ConstantFacts DEF EInit, WriteInv, IsEncoding, Known, Underscored
<1>4. ReadingInv /\ HandleInv /\ FileInv /\ OutcomeInv
  BY DEF EInit, ReadingInv, HandleInv, FileInv, OutcomeInv
<1>5. QED
  BY <1>1, <1>2, <1>3, <1>4 DEF EncodingsInv

LEMMA InitKeeps ==
  ASSUME EncodingsInv, gedcom_init
  PROVE  EncodingsInv'
<1> USE DEF gedcom_init, stateVars, fromVars
<1>1. \A c, w, e : Known(c, w, e) => Known(c, w, e)'
  BY DEF Known, InTable, NoTable
<1>2. reading = NotReading /\ read_encoding.charset = ""
  BY DEF EncodingsInv, TableInv
<1>3. TableInv' /\ ReadInv'
  BY <1>2 DEF EncodingsInv, TableInv, ReadInv
<1>4. WriteInv'
  BY <1>1 DEF EncodingsInv, WriteInv
<1>5. ReadingInv' /\ HandleInv' /\ OutcomeInv'
  BY <1>2 DEF EncodingsInv, ReadingInv, HandleInv, OutcomeInv, NotReading
<1>6. FileInv'
  BY <1>1 DEF EncodingsInv, FileInv, Written
<1>7. QED
  BY <1>3, <1>4, <1>5, <1>6 DEF EncodingsInv

-----------------------------------------------------------------------------
(* A file is read.                                                         *)

LEMMA StartParseKeeps ==
  ASSUME EncodingsInv, NEW f, IsReadFile(f), StartParse(f)
  PROVE  EncodingsInv'
<1> DEFINE charset == FirstCharset(f.width)
           encoding == get_encoding(charset, f.width)
           opened == CanConvert(encoding)
<1> USE DEF fromVars
<1>1. /\ reading = NotReading /\ encodings # NoTable
      /\ read_encoding' = [read_encoding EXCEPT
             !.bom = f.bom, !.width = f.width,
             !.charset = IF opened THEN charset ELSE @,
             !.encoding = IF opened THEN encoding ELSE @]
      /\ to_int' = IF opened THEN encoding ELSE NULL
      /\ reading' = IF opened THEN [at |-> "first line", file |-> f] ELSE NotReading
      /\ torn' = IF opened THEN torn \ {"read"} ELSE torn \cup {"read"}
      /\ outcome' = "none"
      /\ UNCHANGED <<encVars, write_encoding, hndl, file, settled>>
  BY DEF StartParse, FirstCharset
<1>2. IsEncoding(read_encoding) /\ ReadInv
  BY DEF EncodingsInv, ReadInv
<1>3. /\ IsEncoding(read_encoding')
      /\ read_encoding'.bom = f.bom /\ read_encoding'.width = f.width
      /\ read_encoding'.terminator = read_encoding.terminator
      /\ read_encoding'.charset = IF opened THEN charset ELSE read_encoding.charset
      /\ read_encoding'.encoding = IF opened THEN encoding ELSE read_encoding.encoding
  <2> HIDE DEF opened, encoding, charset
  <2> QED
    BY <1>1, <1>2 DEF IsEncoding
<1>4. charset # "" /\ Underscored(charset) = charset
  BY DEF FirstCharset, Underscored
<1>5. opened => encoding # NULL /\ InTable(charset, f.width, encoding)
  <2> HIDE DEF charset
  <2> QED
    BY <1>4, GetEncoding DEF CanConvert
<1>6. UNCHANGED encVars /\ UNCHANGED encodings
  BY <1>1 DEF encVars
<1>7. /\ "write" \in torn' <=> "write" \in torn
      /\ "read" \in torn' <=> ~opened
  BY <1>1
<1>8. WriteInv' /\ HandleInv' /\ FileInv'
  BY <1>1, <1>6, <1>7, Untouched
<1>9. TableInv'
  BY <1>1, <1>6 DEF EncodingsInv, TableInv, encVars
<1>10. OutcomeInv'
  BY <1>1 DEF OutcomeInv
<1> HIDE DEF opened, encoding
<1>11. ReadInv'
  <2>1. ShortEnd(read_encoding'.terminator)
    BY <1>2, <1>3 DEF ReadInv
  <2>2. CASE opened
    <3> HIDE DEF charset
    <3>1. <<charset, f.width>> \in DOMAIN encodings' /\ encodings'[<<charset, f.width>>] = encoding
      BY <1>5, <1>6, <2>2 DEF InTable
    <3>2. QED
      BY <1>3, <1>4, <1>5, <2>1, <2>2, <3>1 DEF ReadInv, InTable
  <2>3. CASE ~opened
    <3> HIDE DEF charset
    <3> QED
      BY <1>2, <1>3, <1>7, <2>1, <2>3 DEF ReadInv
  <2>4. QED
    BY <2>2, <2>3
<1>12. ReadingInv'
  <2>1. CASE opened
    <3>1. reading' = [at |-> "first line", file |-> f] /\ to_int' = encoding
      BY <1>1, <2>1
    <3>2. <<charset, f.width>> \in DOMAIN encodings'
      BY <1>5, <1>6, <2>1 DEF InTable
    <3>3. reading'.at = "first line" /\ reading'.file = f
      BY <3>1
    <3>4. read_encoding'.width = f.width /\ read_encoding'.encoding = encoding /\ encoding # NULL
      BY <1>3, <1>5, <2>1
    <3>5. QED
      BY <3>1, <3>2, <3>3, <3>4 DEF ReadingInv
  <2>2. CASE ~opened
    BY <1>1, <2>2 DEF ReadingInv
  <2>3. QED
    BY <2>1, <2>2
<1>13. QED
  BY <1>8, <1>9, <1>10, <1>11, <1>12 DEF EncodingsInv

\* While a file is being read, the table is there.
LEMMA ReadingFacts ==
  ASSUME EncodingsInv, reading # NotReading
  PROVE  /\ reading = [at |-> reading.at, file |-> reading.file]
         /\ reading.at \in {"first line", "header", "rest", "failed"}
         /\ IsReadFile(reading.file)
         /\ read_encoding.width = reading.file.width
         /\ to_int = read_encoding.encoding /\ to_int # NULL
         /\ <<FirstCharset(reading.file.width), reading.file.width>> \in DOMAIN encodings
         /\ encodings # NoTable
         /\ reading.at # "first line" => read_encoding.terminator
              = FirstTwo(Blanks(reading.file.blanks) \o reading.file.terminator)
  BY DEF EncodingsInv, ReadingInv, TableInv

LEMMA NotReadingAt == NotReading.at = "no"
  BY DEF NotReading

LEMMA FirstLineEndsKeeps ==
  ASSUME EncodingsInv, FirstLineEnds
  PROVE  EncodingsInv'
<1> DEFINE text == Blanks(reading.file.blanks) \o reading.file.terminator
<1> USE DEF fromVars
<1>1. /\ reading.at = "first line"
      /\ read_encoding' = [read_encoding EXCEPT !.terminator = FirstTwo(text)]
      /\ reading' = [reading EXCEPT !.at = "header"]
      /\ UNCHANGED <<encVars, write_encoding, to_int, hndl, file, settled, torn, outcome>>
  BY DEF FirstLineEnds, FirstTwo, Blanks
<1>2. reading # NotReading
  BY <1>1, NotReadingAt
<1>3. UNCHANGED encVars /\ UNCHANGED encodings
  BY <1>1 DEF encVars
<1>4. ShortEnd(FirstTwo(text))
  BY <1>2, ReadingFacts, LineEndText, FirstTwoFacts DEF IsReadFile
<1>5. /\ IsEncoding(read_encoding')
      /\ read_encoding'.terminator = FirstTwo(text)
      /\ read_encoding'.charset = read_encoding.charset
      /\ read_encoding'.encoding = read_encoding.encoding
      /\ read_encoding'.width = read_encoding.width
  <2>1. IsEncoding(read_encoding)
    BY DEF EncodingsInv, ReadInv
  <2> HIDE DEF text
  <2>2. QED
    BY <1>1, <2>1 DEF IsEncoding
<1>6. reading' = [at |-> "header", file |-> reading.file]
  BY <1>1, <1>2, ReadingFacts
<1>7. WriteInv' /\ HandleInv' /\ FileInv' /\ OutcomeInv'
  BY <1>1, <1>3, Untouched
<1>8. TableInv'
  BY <1>2, <1>3, ReadingFacts DEF EncodingsInv, TableInv, encVars
<1>9. ReadInv'
  BY <1>1, <1>3, <1>4, <1>5 DEF EncodingsInv, ReadInv, InTable
<1>10. ReadingInv'
  <2>1. reading'.at = "header" /\ reading'.file = reading.file
    BY <1>6
  <2>2. read_encoding'.terminator = FirstTwo(Blanks(reading'.file.blanks) \o reading'.file.terminator)
    BY <1>5, <2>1
  <2> HIDE DEF text
  <2>3. /\ IsReadFile(reading'.file) /\ read_encoding'.width = reading'.file.width
        /\ to_int' = read_encoding'.encoding /\ to_int' # NULL
        /\ <<FirstCharset(reading'.file.width), reading'.file.width>> \in DOMAIN encodings'
    BY <1>1, <1>2, <1>3, <1>5, <2>1, ReadingFacts
  <2>4. QED
    BY <1>6, <2>1, <2>2, <2>3 DEF ReadingInv
<1>11. QED
  BY <1>7, <1>8, <1>9, <1>10 DEF EncodingsInv

LEMMA HeadCharKeeps ==
  ASSUME EncodingsInv, HeadChar
  PROVE  EncodingsInv'
<1> DEFINE charset == CharsetOf(reading.file)
           encoding == get_encoding(charset, read_encoding.width)
           opened == CanConvert(encoding)
<1> USE DEF fromVars
<1>1. /\ reading.at = "header"
      /\ to_int' = IF opened THEN encoding ELSE to_int
      /\ read_encoding' = IF opened
                          THEN [read_encoding EXCEPT !.charset = Underscored(charset),
                                                     !.encoding = encoding]
                          ELSE read_encoding
      /\ reading' = [reading EXCEPT !.at = IF opened THEN "rest" ELSE "failed"]
      /\ UNCHANGED <<encVars, write_encoding, hndl, file, settled, torn, outcome>>
  BY DEF HeadChar, CharsetOf, EncodingFor
<1>2. reading # NotReading
  BY <1>1, NotReadingAt
<1>3. UNCHANGED encVars /\ UNCHANGED encodings
  BY <1>1 DEF encVars
<1>4. read_encoding.width = reading.file.width
  BY <1>2, ReadingFacts
<1>5. encoding = get_encoding(charset, reading.file.width)
  BY <1>4
<1>6. /\ opened => encoding # NULL /\ InTable(Underscored(charset), read_encoding.width, encoding)
      /\ Underscored(Underscored(charset)) = Underscored(charset)
  <2> HIDE DEF charset
  <2> QED
    BY GetEncoding DEF CanConvert
<1>7. /\ IsEncoding(read_encoding')
      /\ read_encoding'.terminator = read_encoding.terminator
      /\ read_encoding'.width = read_encoding.width
      /\ opened => /\ read_encoding'.charset = Underscored(charset)
                   /\ read_encoding'.encoding = encoding
      /\ ~opened => read_encoding' = read_encoding
  <2>1. IsEncoding(read_encoding)
    BY DEF EncodingsInv, ReadInv
  <2> HIDE DEF charset, encoding, opened
  <2>2. QED
    BY <1>1, <2>1 DEF IsEncoding
<1>8. reading' = [at |-> IF opened THEN "rest" ELSE "failed", file |-> reading.file]
  <2> HIDE DEF opened
  <2> QED
    BY <1>1, <1>2, ReadingFacts
<1>9. WriteInv' /\ HandleInv' /\ FileInv' /\ OutcomeInv'
  BY <1>1, <1>3, Untouched
<1>10. TableInv'
  BY <1>2, <1>3, ReadingFacts DEF EncodingsInv, TableInv, encVars
<1>11. ReadInv'
  <2>1. ReadInv
    BY DEF EncodingsInv
  <2>2. CASE opened
    <3> HIDE DEF charset, encoding, opened
    <3>2. <<Underscored(charset), read_encoding.width>> \in DOMAIN encodings'
          /\ encodings'[<<Underscored(charset), read_encoding.width>>] = encoding
      BY <1>3, <1>6, <2>2 DEF InTable
    <3>3. QED
      BY <1>6, <1>7, <2>1, <2>2, <3>2 DEF ReadInv, InTable
  <2>3. CASE ~opened
    <3> HIDE DEF charset, encoding, opened
    <3> QED
      BY <1>1, <1>3, <1>7, <2>1, <2>3 DEF ReadInv, InTable
  <2>4. QED
    BY <2>2, <2>3
<1>12. ReadingInv'
  <2>1. reading'.file = reading.file /\ reading'.at = IF opened THEN "rest" ELSE "failed"
    BY <1>8
  <2> DEFINE now == get_encoding(CharsetOf(reading'.file), reading'.file.width)
  <2>2. now = encoding
    BY <1>5, <2>1
  <2>3. get_encoding(CharsetOf(reading.file), reading.file.width)' = now
    BY <1>3 DEF get_encoding
  <2>4. /\ IsReadFile(reading'.file) /\ read_encoding'.width = reading'.file.width
        /\ to_int' = read_encoding'.encoding /\ to_int' # NULL
        /\ <<FirstCharset(reading'.file.width), reading'.file.width>> \in DOMAIN encodings'
        /\ read_encoding'.terminator = FirstTwo(Blanks(reading'.file.blanks) \o reading'.file.terminator)
    <3> HIDE DEF charset, encoding, opened
    <3>1. /\ IsReadFile(reading'.file) /\ read_encoding'.width = reading'.file.width
          /\ read_encoding'.terminator
               = FirstTwo(Blanks(reading'.file.blanks) \o reading'.file.terminator)
          /\ <<FirstCharset(reading'.file.width), reading'.file.width>> \in DOMAIN encodings'
      BY <1>1, <1>2, <1>3, <1>7, <2>1, ReadingFacts
    <3>2. to_int' = read_encoding'.encoding /\ to_int' # NULL
      BY <1>1, <1>2, <1>6, <1>7, ReadingFacts
    <3>3. QED
      BY <3>1, <3>2
  <2>5. reading'.at = "rest" =>
          /\ read_encoding'.charset = Underscored(CharsetOf(reading'.file))
          /\ read_encoding'.encoding = now
    BY <1>7, <2>1, <2>2
  <2>6. reading'.at = "failed" => ~CanConvert(now)
    BY <2>1, <2>2
  <2> HIDE DEF charset, encoding, opened, now
  <2>7. reading' = [at |-> reading'.at, file |-> reading'.file]
        /\ reading'.at \in {"first line", "header", "rest", "failed"}
    BY <1>8, <2>1
  <2>8. QED
    BY <2>3, <2>4, <2>5, <2>6, <2>7 DEF ReadingInv
<1>13. QED
  BY <1>9, <1>10, <1>11, <1>12 DEF EncodingsInv

\* What was written is read with the line end and, unless something was set,
\* in the encoding it was written with.
LEMMA WhatWasWritten ==
  ASSUME EncodingsInv, reading # NotReading, reading.file = file,
         reading.at \in {"rest", "failed"}, file.settled
  PROVE  /\ read_encoding.encoding = file.encoding
         /\ {read_encoding.charset} = file.charset
         /\ read_encoding.width = file.width
         /\ read_encoding.terminator = file.terminator
<1>1. Written(file) /\ IsReadFile(file)
  BY ReadingFacts DEF EncodingsInv, FileInv, IsReadFile
<1>2. PICK c : /\ file.charset = {c} /\ Underscored(c) = c
               /\ CanConvert(file.encoding) /\ Known(c, file.width, file.encoding)
  BY <1>1 DEF Written
<1>3. CharsetOf(file) = c
  BY <1>2 DEF CharsetOf
<1>4. get_encoding(c, file.width) = file.encoding
  <2>1. CASE InTable(c, file.width, file.encoding)
    BY <1>2, <2>1, InTableIs
  <2>2. CASE c = "ASCII" /\ file.width = "ONE_BYTE" /\ file.encoding = "ASCII"
    <3>1. <<"ASCII", "ONE_BYTE">> \in DOMAIN encodings
      BY <2>2, ReadingFacts DEF FirstCharset
    <3>2. InTable("ASCII", "ONE_BYTE", encodings[<<"ASCII", "ONE_BYTE">>])
      BY <3>1 DEF InTable
    <3>3. encodings[<<"ASCII", "ONE_BYTE">>] = "ASCII"
      BY <3>2, KnownWidth DEF EncodingsInv, Known
    <3>4. Underscored("ASCII") = "ASCII"
      BY DEF Underscored
    <3>5. QED
      BY <2>2, <3>2, <3>3, <3>4, InTableIs
  <2>3. QED
    BY <1>2, <2>1, <2>2 DEF Known
<1>5. reading.at = "rest"
  BY <1>2, <1>3, <1>4 DEF EncodingsInv, ReadingInv
<1>6. read_encoding.charset = c /\ read_encoding.encoding = file.encoding
  BY <1>2, <1>3, <1>4, <1>5 DEF EncodingsInv, ReadingInv
<1>7. read_encoding.terminator = file.terminator
  <2>1. read_encoding.terminator = FirstTwo(Blanks(file.blanks) \o file.terminator)
    BY ReadingFacts
  <2>2. file.blanks = 0 /\ Len(file.terminator) <= 2 /\ file.terminator \in Seq(BlankOrEnd)
    BY <1>1 DEF Written, IsReadFile
  <2>3. Blanks(file.blanks) \o file.terminator = file.terminator
    <3>1. \A n \in Nat : n = 0 => Blanks(n) \o file.terminator = file.terminator
      BY <2>2, LineEndText
    <3>2. file.blanks \in Nat
      BY <2>2
    <3>3. QED
      BY <2>2, <3>1, <3>2
  <2>4. QED
    BY <2>1, <2>2, <2>3, FirstTwoFacts
<1>8. QED
  BY <1>2, <1>6, <1>7, ReadingFacts

LEMMA EndParseKeeps ==
  ASSUME EncodingsInv, EndParse
  PROVE  EncodingsInv'
<1> USE DEF stateVars, fromVars
<1>1. /\ reading # NotReading /\ reading' = NotReading /\ to_int' = NULL
      /\ UNCHANGED <<encVars, read_encoding, write_encoding, hndl, file, settled, torn>>
  BY DEF EndParse
<1>2. UNCHANGED encVars /\ UNCHANGED encodings
  BY <1>1 DEF encVars
<1>3. ReadInv' /\ WriteInv' /\ HandleInv' /\ FileInv'
  BY <1>1, <1>2, Untouched
<1>4. TableInv' /\ ReadingInv'
  BY <1>1, <1>2 DEF EncodingsInv, TableInv, ReadingInv, encVars
<1>5. OutcomeInv'
  <2>1. outcome' \in {"none", "right", "wrong"}
    BY DEF EndParse
  <2>2. ASSUME outcome' = "wrong"
        PROVE  file # NoFile /\ ~file.settled
    <3>1. /\ reading.file = file /\ reading.at \in {"rest", "failed"}
          /\ ~ /\ read_encoding.encoding = file.encoding
               /\ {read_encoding.charset} = file.charset
               /\ read_encoding.width = file.width
               /\ read_encoding.terminator = file.terminator
      BY <2>2 DEF EndParse
    <3>2. ~file.settled
      BY <1>1, <3>1, WhatWasWritten
    <3>3. file # NoFile
      BY <1>1, <3>1, ReadingFacts DEF IsReadFile
    <3>4. QED
      BY <3>2, <3>3
  <2>3. QED
    BY <1>1, <2>1, <2>2 DEF OutcomeInv
<1>6. QED
  BY <1>3, <1>4, <1>5 DEF EncodingsInv

-----------------------------------------------------------------------------
(* What is configured.                                                     *)

LEMMA SetEncodingKeeps ==
  ASSUME EncodingsInv, NEW from, NEW charset, NEW width, NEW bom, charset # "" \/ from # "MANUAL",
         gedcom_write_set_encoding(from, charset, width, bom)
  PROVE  EncodingsInv'
<1> DEFINE oneByteOr == IF charset = "UNICODE" THEN width ELSE "ONE_BYTE"
           encoding == get_encoding(charset, oneByteOr)
           refused == encoding = NULL \/ (charset = "UNICODE" /\ width = "ONE_BYTE")
<1>1. /\ settled' = (hndl = NoHandle)
      /\ write_encoding' = IF from # "MANUAL" \/ refused THEN write_encoding
                           ELSE [write_encoding EXCEPT !.charset = Underscored(charset),
                                                       !.encoding = encoding,
                                                       !.width = oneByteOr, !.bom = bom]
      /\ torn' = IF write_encoding' = write_encoding THEN torn ELSE torn \ {"write"}
      /\ UNCHANGED <<encVars, read_encoding, to_int, reading, hndl, file, outcome>>
  BY DEF gedcom_write_set_encoding, Setting
<1>2. UNCHANGED encVars /\ UNCHANGED encodings /\ ("read" \in torn' <=> "read" \in torn)
  BY <1>1 DEF encVars
<1>3. TableInv' /\ ReadInv' /\ ReadingInv' /\ FileInv' /\ OutcomeInv'
  BY <1>1, <1>2, Untouched
<1>4. HandleInv'
  <2>1. hndl' # NoHandle => ~settled'
    BY <1>1
  <2>2. HandleInv /\ hndl' = hndl
    BY <1>1 DEF EncodingsInv
  <2>3. QED
    BY <2>1, <2>2 DEF HandleInv
<1>5. WriteInv'
  <2>1. CASE write_encoding' = write_encoding
    BY <1>1, <1>2, <2>1, Untouched
  <2>2. CASE write_encoding' # write_encoding
    <3>1. IsEncoding(write_encoding) /\ ShortEnd(write_encoding.terminator)
      BY DEF EncodingsInv, WriteInv
    <3>2. from = "MANUAL" /\ ~refused /\ charset # ""
      BY <1>1, <2>2
    <3>3. encoding # NULL
      BY <3>2
    <3> HIDE DEF refused, encoding, oneByteOr
    <3>4. write_encoding' = [write_encoding EXCEPT !.charset = Underscored(charset),
                                                   !.encoding = encoding,
                                                   !.width = oneByteOr, !.bom = bom]
      BY <1>1, <3>2
    <3>5. /\ IsEncoding(write_encoding') /\ write_encoding'.terminator = write_encoding.terminator
          /\ write_encoding'.charset = Underscored(charset) /\ write_encoding'.encoding = encoding
          /\ write_encoding'.width = oneByteOr
      BY <3>1, <3>4 DEF IsEncoding
    <3>6. /\ Underscored(Underscored(charset)) = Underscored(charset) /\ Underscored(charset) # ""
          /\ InTable(Underscored(charset), oneByteOr, encoding)
      BY <3>2, <3>3, GetEncoding DEF encoding
    <3>8. /\ <<Underscored(charset), oneByteOr>> \in DOMAIN encodings'
          /\ encodings'[<<Underscored(charset), oneByteOr>>] = encoding
      BY <3>6, <1>2 DEF InTable
    <3>9. QED
      BY <3>1, <3>5, <3>6, <3>8 DEF WriteInv, Known, InTable
  <2>3. QED
    BY <2>1, <2>2
<1>6. QED
  BY <1>3, <1>4, <1>5 DEF EncodingsInv

LEMMA SetTerminatorKeeps ==
  ASSUME EncodingsInv, NEW from, NEW end, from = "MANUAL" => end \in Terminators,
         gedcom_write_set_line_terminator(from, end)
  PROVE  EncodingsInv'
<1>1. /\ settled' = (hndl = NoHandle)
      /\ write_encoding' = CASE from = "SYS" -> [write_encoding EXCEPT !.terminator = SysNewline]
                         [] from = "MANUAL" -> [write_encoding EXCEPT !.terminator = end]
                         [] OTHER -> write_encoding
      /\ UNCHANGED <<encVars, read_encoding, to_int, reading, hndl, file, torn, outcome>>
  BY DEF gedcom_write_set_line_terminator, Setting
<1>2. UNCHANGED encVars /\ UNCHANGED encodings
  BY <1>1 DEF encVars
<1>3. TableInv' /\ ReadInv' /\ ReadingInv' /\ FileInv' /\ OutcomeInv'
  BY <1>1, <1>2, Untouched
<1>4. HandleInv'
  <2>1. hndl' # NoHandle => ~settled'
    BY <1>1
  <2>2. HandleInv /\ hndl' = hndl
    BY <1>1 DEF EncodingsInv
  <2>3. QED
    BY <2>1, <2>2 DEF HandleInv
<1>5. IsEncoding(write_encoding) /\ ShortEnd(write_encoding.terminator)
  BY DEF EncodingsInv, WriteInv
<1>6. \/ write_encoding' = write_encoding
      \/ \E e \in Terminators : write_encoding' = [write_encoding EXCEPT !.terminator = e]
  BY <1>1, ConstantFacts
<1>7. WriteInv'
  <2>1. CASE write_encoding' = write_encoding
    BY <1>1, <1>2, <2>1, Untouched
  <2>2. ASSUME NEW e \in Terminators, write_encoding' = [write_encoding EXCEPT !.terminator = e]
        PROVE  WriteInv'
    <3>1. /\ IsEncoding(write_encoding') /\ write_encoding'.terminator = e
          /\ write_encoding'.charset = write_encoding.charset
          /\ write_encoding'.encoding = write_encoding.encoding
          /\ write_encoding'.width = write_encoding.width
      BY <1>5, <2>2 DEF IsEncoding
    <3>2. ShortEnd(e)
      BY EndsAreShort
    <3>3. WriteInv /\ torn' = torn
      BY <1>1 DEF EncodingsInv
    <3>4. QED
      BY <1>2, <3>1, <3>2, <3>3 DEF WriteInv, Known, InTable
  <2>3. QED
    BY <1>6, <2>1, <2>2
<1>8. QED
  BY <1>3, <1>4, <1>7 DEF EncodingsInv

-----------------------------------------------------------------------------
(* A file is written.                                                      *)

\* What a file is opened with: what was configured or, whole, what is known
\* of the last file that was read.
LEMMA OpenedWith ==
  ASSUME EncodingsInv, NEW w, w = init_write_terminator(init_write_encoding(write_encoding))
  PROVE  /\ IsEncoding(w) /\ ShortEnd(w.terminator)
         /\ w.charset # "" /\ Underscored(w.charset) = w.charset
         /\ w = init_write_terminator(write_encoding) =>
              /\ w.charset = write_encoding.charset /\ w.width = write_encoding.width
              /\ w.encoding = write_encoding.encoding
         /\ w # init_write_terminator(write_encoding) =>
              /\ read_encoding.charset # "" /\ w.charset = read_encoding.charset
              /\ w.width = read_encoding.width /\ w.encoding = read_encoding.encoding
<1> DEFINE e == init_write_encoding(write_encoding)
<1>1. IsEncoding(write_encoding) /\ WriteInv /\ ReadInv
  BY DEF EncodingsInv, WriteInv
<1>2. /\ IsEncoding(e) /\ e.terminator = write_encoding.terminator
      /\ \/ e = write_encoding
         \/ /\ read_encoding.charset # "" /\ e.charset = read_encoding.charset
            /\ e.width = read_encoding.width /\ e.encoding = read_encoding.encoding
  BY <1>1 DEF init_write_encoding, FromFile, IsEncoding
<1>3. ASSUME NEW v, IsEncoding(v), ShortEnd(v.terminator)
      PROVE  /\ IsEncoding(init_write_terminator(v)) /\ ShortEnd(init_write_terminator(v).terminator)
             /\ init_write_terminator(v).charset = v.charset
             /\ init_write_terminator(v).width = v.width
             /\ init_write_terminator(v).encoding = v.encoding
  <2>1. ShortEnd(read_encoding.terminator)
    BY <1>1 DEF ReadInv
  <2>2. CASE init_write_terminator(v) = v
    BY <1>3, <2>2
  <2>3. CASE init_write_terminator(v) # v
    <3>1. init_write_terminator(v) = [v EXCEPT !.terminator = read_encoding.terminator]
      BY <2>3 DEF init_write_terminator
    <3>2. QED
      BY <1>3, <2>1, <3>1 DEF IsEncoding
  <2>4. QED
    BY <2>2, <2>3
<1>4. /\ e.charset # "" /\ Underscored(e.charset) = e.charset /\ ShortEnd(e.terminator)
      /\ ShortEnd(write_encoding.terminator)
  BY <1>1, <1>2 DEF WriteInv, ReadInv
<1>5. w = init_write_terminator(e)
  OBVIOUS
<1> HIDE DEF e
<1>6. IsEncoding(w) /\ ShortEnd(w.terminator) /\ w.charset = e.charset /\ w.width = e.width
      /\ w.encoding = e.encoding
  BY <1>2, <1>3, <1>4, <1>5
<1>7. w # init_write_terminator(write_encoding) => e # write_encoding
  BY <1>5
<1>8. /\ init_write_terminator(write_encoding).charset = write_encoding.charset
      /\ init_write_terminator(write_encoding).width = write_encoding.width
      /\ init_write_terminator(write_encoding).encoding = write_encoding.encoding
  BY <1>1, <1>3, <1>4
<1>9. QED
  BY <1>2, <1>4, <1>6, <1>7, <1>8

LEMMA OpenKeeps ==
  ASSUME EncodingsInv, NEW refused, gedcom_write_open(refused)
  PROVE  EncodingsInv'
<1> DEFINE w == init_write_terminator(init_write_encoding(write_encoding))
           kept == w = init_write_terminator(write_encoding)
<1> USE DEF fromVars
<1>1. /\ settled' = TRUE /\ write_encoding' = w
      /\ torn' = CASE kept -> torn
                   [] ~kept /\ "read" \in torn -> torn \cup {"write"}
                   [] OTHER -> torn \ {"write"}
      /\ hndl' = IF ~CanConvert(w.encoding) THEN NoHandle
                 ELSE [conv |-> w.encoding, mark |-> Mark(w), charset |-> "", refused |-> refused,
                       torn |-> "write" \in torn']
      /\ UNCHANGED <<encVars, read_encoding, to_int, reading, file, outcome>>
  BY DEF gedcom_write_open
<1>2. /\ IsEncoding(w) /\ ShortEnd(w.terminator)
      /\ w.charset # "" /\ Underscored(w.charset) = w.charset
      /\ kept => /\ w.charset = write_encoding.charset /\ w.width = write_encoding.width
                 /\ w.encoding = write_encoding.encoding
      /\ ~kept => /\ read_encoding.charset # "" /\ w.charset = read_encoding.charset
                  /\ w.width = read_encoding.width /\ w.encoding = read_encoding.encoding
  BY OpenedWith
<1> HIDE DEF w, kept
<1>3. UNCHANGED encVars /\ UNCHANGED encodings /\ ("read" \in torn' <=> "read" \in torn)
  BY <1>1 DEF encVars
<1>4. TableInv' /\ ReadInv' /\ ReadingInv' /\ FileInv' /\ OutcomeInv'
  BY <1>1, <1>3, Untouched
<1>5. "write" \notin torn' => Known(w.charset, w.width, w.encoding)
  <2>1. CASE kept
    BY <1>1, <1>2, <2>1 DEF EncodingsInv, WriteInv
  <2>2. CASE ~kept
    BY <1>1, <1>2, <2>2 DEF EncodingsInv, ReadInv, Known
  <2>3. QED
    BY <2>1, <2>2
<1>6. WriteInv'
  <2>1. write_encoding' = w
    BY <1>1
  <2>2. "write" \notin torn' =>
          \/ w.charset = "ASCII" /\ w.width = "ONE_BYTE" /\ w.encoding = "ASCII"
          \/ /\ <<w.charset, w.width>> \in DOMAIN encodings'
             /\ encodings'[<<w.charset, w.width>>] = w.encoding
    BY <1>3, <1>5 DEF Known, InTable
  <2>3. QED
    BY <1>2, <2>1, <2>2 DEF WriteInv, Known, InTable
<1>7. HandleInv'
  <2>1. CASE hndl' = NoHandle
    BY <2>1 DEF HandleInv
  <2>2. CASE hndl' # NoHandle
    <3>1. /\ CanConvert(w.encoding)
          /\ hndl' = [conv |-> w.encoding, mark |-> Mark(w), charset |-> "", refused |-> refused,
                      torn |-> "write" \in torn']
      BY <1>1, <2>2
    <3>2. /\ hndl'.conv = w.encoding /\ hndl'.mark = Mark(w) /\ hndl'.charset = ""
          /\ hndl'.refused = refused /\ hndl'.torn = ("write" \in torn')
      BY <3>1
    <3>3. (hndl = [conv |-> hndl.conv, mark |-> hndl.mark, charset |-> hndl.charset,
                   refused |-> hndl.refused, torn |-> hndl.torn])'
      BY <3>1, <3>2
    <3>4. CanConvert(hndl.conv)'
      BY <3>1, <3>2
    <3>5. (hndl.conv = write_encoding.encoding)'
      BY <1>1, <3>2
    <3>6. (hndl.mark = Mark(write_encoding))'
      BY <1>1, <3>2
    <3>7. (hndl.charset \in {"", write_encoding.charset})'
      BY <3>2
    <3>8. (~hndl.torn => "write" \notin torn)'
      BY <3>2
    <3>9. QED
      BY <3>3, <3>4, <3>5, <3>6, <3>7, <3>8 DEF HandleInv
  <2>3. QED
    BY <2>1, <2>2
<1>8. QED
  BY <1>4, <1>6, <1>7 DEF EncodingsInv

LEMMA HandleFacts ==
  ASSUME EncodingsInv, hndl # NoHandle
  PROVE  /\ hndl = [conv |-> hndl.conv, mark |-> hndl.mark, charset |-> hndl.charset,
                    refused |-> hndl.refused, torn |-> hndl.torn]
         /\ CanConvert(hndl.conv)
         /\ settled => /\ hndl.conv = write_encoding.encoding /\ hndl.mark = Mark(write_encoding)
                       /\ hndl.charset \in {"", write_encoding.charset}
                       /\ ~hndl.torn => "write" \notin torn
  BY DEF EncodingsInv, HandleInv

LEMMA ValueKeeps ==
  ASSUME EncodingsInv, write_encoding_value
  PROVE  EncodingsInv'
<1> USE DEF stateVars, fromVars
<1>1. /\ hndl # NoHandle
      /\ hndl' = [hndl EXCEPT !.charset = write_encoding.charset]
      /\ UNCHANGED <<encVars, read_encoding, write_encoding, to_int, reading, file, settled, torn,
                     outcome>>
  BY DEF write_encoding_value
<1>2. UNCHANGED encVars
  BY <1>1
<1>3. TableInv' /\ ReadInv' /\ WriteInv' /\ ReadingInv' /\ FileInv' /\ OutcomeInv'
  BY <1>1, <1>2, Untouched
<1>4. HandleInv'
  <2>1. /\ (hndl = [conv |-> hndl.conv, mark |-> hndl.mark, charset |-> hndl.charset,
                    refused |-> hndl.refused, torn |-> hndl.torn])'
        /\ hndl'.conv = hndl.conv /\ hndl'.mark = hndl.mark /\ hndl'.torn = hndl.torn
        /\ hndl'.charset = write_encoding.charset
    BY <1>1, HandleFacts
  <2>2. CanConvert(hndl.conv)'
    BY <1>1, <2>1, HandleFacts
  <2>3. settled' = settled /\ write_encoding' = write_encoding /\ torn' = torn
    BY <1>1
  <2>4. ASSUME settled'
        PROVE  /\ (hndl.conv = write_encoding.encoding)'
               /\ (hndl.charset \in {"", write_encoding.charset})'
               /\ (~hndl.torn => "write" \notin torn)'
    <3>1. settled
      BY <2>3, <2>4
    <3>2. QED
      BY <1>1, <2>1, <2>3, <3>1, HandleFacts
  <2>5. ASSUME settled'
        PROVE  (hndl.mark = Mark(write_encoding))'
    <3>1. settled
      BY <2>3, <2>5
    <3>2. QED
      BY <1>1, <2>1, <2>3, <3>1, HandleFacts
  <2>6. QED
    BY <2>1, <2>2, <2>4, <2>5 DEF HandleInv
<1>5. QED
  BY <1>3, <1>4 DEF EncodingsInv

LEMMA CloseKeeps ==
  ASSUME EncodingsInv, gedcom_write_close
  PROVE  EncodingsInv'
<1> DEFINE width == IF hndl.mark \in Widths THEN hndl.mark ELSE WidthOf(hndl.conv)
           written == [charset |-> {hndl.charset}, default |-> {}, encoding |-> hndl.conv,
                       width |-> width, bom |-> hndl.mark # "none",
                       terminator |-> write_encoding.terminator, blanks |-> 0,
                       settled |-> settled /\ ~hndl.torn]
<1> USE DEF stateVars, fromVars
<1>1. /\ hndl # NoHandle /\ hndl.charset # "" /\ hndl' = NoHandle
      /\ file' = IF hndl.refused THEN NoFile ELSE written
      /\ settled' = TRUE /\ outcome' = "none"
      /\ UNCHANGED <<encVars, read_encoding, write_encoding, to_int, reading, torn>>
  BY DEF gedcom_write_close
<1>2. UNCHANGED encVars
  BY <1>1
<1>3. TableInv' /\ ReadInv' /\ WriteInv' /\ ReadingInv'
  BY <1>1, <1>2, Untouched
<1>4. HandleInv' /\ OutcomeInv'
  BY <1>1 DEF HandleInv, OutcomeInv
<1>5. ShortEnd(write_encoding.terminator)
  BY DEF EncodingsInv, WriteInv
<1>6. Written(written)
  <2>1. /\ written.terminator = write_encoding.terminator /\ written.blanks = 0
        /\ written.charset = {hndl.charset} /\ written.encoding = hndl.conv
        /\ written.width = width /\ written.settled = (settled /\ ~hndl.torn)
    OBVIOUS
  <2>2. written # NoFile
    <3>1. "blanks" \in DOMAIN written /\ "blanks" \notin DOMAIN NoFile
      BY DEF NoFile
    <3>2. QED
      BY <3>1
  <2>3. ASSUME settled, ~hndl.torn
        PROVE  /\ Underscored(hndl.charset) = hndl.charset /\ CanConvert(hndl.conv)
               /\ Known(hndl.charset, width, hndl.conv)
    <3>1. /\ hndl.conv = write_encoding.encoding /\ hndl.mark = Mark(write_encoding)
          /\ hndl.charset = write_encoding.charset /\ "write" \notin torn /\ CanConvert(hndl.conv)
      BY <1>1, <2>3, HandleFacts
    <3>2. Known(write_encoding.charset, write_encoding.width, write_encoding.encoding)
          /\ Underscored(write_encoding.charset) = write_encoding.charset
      BY <3>1 DEF EncodingsInv, WriteInv
    <3>3. WidthOf(write_encoding.encoding) = write_encoding.width
      BY <3>2, KnownWidth DEF EncodingsInv
    <3>4. Mark(write_encoding) \in Widths => Mark(write_encoding) = write_encoding.width
      BY DEF Mark, Widths
    <3>5. width = write_encoding.width
      BY <3>1, <3>3, <3>4
    <3>6. QED
      BY <3>1, <3>2, <3>5
  <2> HIDE DEF written, width
  <2>4. IsReadFile(written)
    <3>1. written.blanks \in Nat
      BY <2>1
    <3>2. QED
      BY <1>5, <2>1, <2>2, <3>1 DEF IsReadFile, ShortEnd
  <2>5. Len(written.terminator) <= 2
    BY <1>5, <2>1 DEF ShortEnd
  <2>6. written.settled =>
          /\ Underscored(hndl.charset) = hndl.charset /\ CanConvert(written.encoding)
          /\ Known(hndl.charset, written.width, written.encoding)
    BY <2>1, <2>3
  <2>7. QED
    BY <2>1, <2>4, <2>5, <2>6 DEF Written
<1>7. FileInv'
  <2>1. CASE hndl.refused
    BY <1>1, <2>1 DEF FileInv
  <2>2. CASE ~hndl.refused
    <3>1. file' = written /\ encodings' = encodings
      BY <1>1, <2>2 DEF encVars
    <3> HIDE DEF written
    <3>2. QED
      BY <1>6, <3>1 DEF FileInv, Written, Known, InTable
  <2>3. QED
    BY <2>1, <2>2
<1>8. QED
  BY <1>3, <1>4, <1>7 DEF EncodingsInv

-----------------------------------------------------------------------------
(* The theorem.                                                            *)

LEMMA NextKeeps ==
  ASSUME EncodingsInv, [ENext]_evars
  PROVE  EncodingsInv'
<1>1. CASE gedcom_init
  BY <1>1, InitKeeps
<1>2. ASSUME NEW f \in Inputs, StartParse(f)
      PROVE  EncodingsInv'
  BY <1>2, ConstantFacts, StartParseKeeps
<1>3. CASE file # NoFile /\ StartParse(file)
  <2>1. IsReadFile(file)
    BY <1>3 DEF EncodingsInv, FileInv, Written
  <2>2. QED
    BY <1>3, <2>1, StartParseKeeps
<1>4. CASE FirstLineEnds
  BY <1>4, FirstLineEndsKeeps
<1>5. CASE HeadChar
  BY <1>5, HeadCharKeeps
<1>6. CASE EndParse
  BY <1>6, EndParseKeeps
<1>7. ASSUME NEW charset \in {"UNICODE", "ASCII", "UTF-8", "IBM WINDOWS"}, NEW width \in Widths,
             NEW bom \in BOOLEAN, gedcom_write_set_encoding("MANUAL", charset, width, bom)
      PROVE  EncodingsInv'
  BY <1>7, SetEncodingKeeps
<1>8. ASSUME NEW from \in {"FILE", "SYS"}, gedcom_write_set_encoding(from, "", "ONE_BYTE", FALSE)
      PROVE  EncodingsInv'
  BY <1>8, SetEncodingKeeps
<1>9. ASSUME NEW end \in Terminators, gedcom_write_set_line_terminator("MANUAL", end)
      PROVE  EncodingsInv'
  BY <1>9, SetTerminatorKeeps
<1>10. ASSUME NEW from \in {"FILE", "SYS"}, gedcom_write_set_line_terminator(from, <<>>)
       PROVE  EncodingsInv'
  BY <1>10, SetTerminatorKeeps
<1>11. ASSUME NEW refused \in BOOLEAN, gedcom_write_open(refused)
       PROVE  EncodingsInv'
  BY <1>11, OpenKeeps
<1>12. CASE write_encoding_value
  BY <1>12, ValueKeeps
<1>13. CASE gedcom_write_close
  BY <1>13, CloseKeeps
<1>14. CASE UNCHANGED evars
  <2>1. /\ UNCHANGED encVars
        /\ UNCHANGED <<reading, read_encoding, write_encoding, torn, to_int, hndl, settled, file,
                       outcome>>
    BY <1>14 DEF evars, stateVars
  <2>2. QED
    BY <2>1, Untouched DEF EncodingsInv
<1>15. QED
  BY <1>1, <1>2, <1>3, <1>4, <1>5, <1>6, <1>7, <1>8, <1>9, <1>10, <1>11, <1>12, <1>13, <1>14
  DEF ENext

LEMMA InvariantAgrees ==
  ASSUME EncodingsInv
  PROVE  EncodingsAgree
<1>1. ASSUME read_encoding.charset # "", "read" \notin torn
      PROVE  read_encoding.encoding = get_encoding(read_encoding.charset, read_encoding.width)
  <2>1. /\ InTable(read_encoding.charset, read_encoding.width, read_encoding.encoding)
        /\ Underscored(read_encoding.charset) = read_encoding.charset
    BY <1>1 DEF EncodingsInv, ReadInv
  <2>2. QED
    BY <2>1, InTableIs
<1>2. ASSUME "write" \notin torn
      PROVE  write_encoding.width = WidthOf(write_encoding.encoding)
  <2>1. Known(write_encoding.charset, write_encoding.width, write_encoding.encoding)
    BY <1>2 DEF EncodingsInv, WriteInv
  <2>2. QED
    BY <2>1, KnownWidth DEF EncodingsInv
<1>3. to_int = IF reading = NotReading THEN NULL ELSE read_encoding.encoding
  <2>1. reading = NotReading => to_int = NULL
    <3>1. ASSUME reading = NotReading, reading.at \in {"first line", "header", "rest", "failed"}
          PROVE  FALSE
      BY <3>1, NotReadingAt
    <3>2. QED
      BY <3>1 DEF EncodingsInv, ReadingInv
  <2>2. QED
    BY <2>1, ReadingFacts
<1>4. ReadAsWritten
  BY DEF EncodingsInv, OutcomeInv, ReadAsWritten
<1>5. QED
  BY <1>1, <1>2, <1>3, <1>4 DEF EncodingsAgree, StatesAgree

\* Whatever is read, set and written, in any order: what is known of a file
\* and what is configured fit together unless a first conversion failed, the
\* lexer has the converter of the file that it reads, and a file that was
\* written while nothing was set is read in the encoding it was written in,
\* with its width and its line ends.
THEOREM EncodingsAgreeAlways == ESpec => []EncodingsAgree
<1>1. EInit => EncodingsInv
  BY Initially
<1>2. EncodingsInv /\ [ENext]_evars => EncodingsInv'
  BY NextKeeps
<1>3. EncodingsInv => EncodingsAgree
  BY InvariantAgrees
<1>4. QED
  BY <1>1, <1>2, <1>3, PTL DEF ESpec
=============================================================================
