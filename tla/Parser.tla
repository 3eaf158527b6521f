------------------------------- MODULE Parser -------------------------------
(***************************************************************************)
(* The parser of gedcom/gedcom.y over a session of files: the sections it  *)
(* opens and closes, its recovery from errors under the three error        *)
(* mechanisms, and the static variables that survive a parse (count_level, *)
(* fail).                                                                  *)
(*                                                                         *)
(* The LALR automaton is modelled by its stack of open sections, with the  *)
(* line that is being read on top; the recovery is the one of the parsers  *)
(* that Bison generates.  Tags are classes: what matters is whether a      *)
(* standard tag is allowed where it stands, needs a value, or is a user    *)
(* tag.  Cross-reference pointers in front of a tag are left out.          *)
(***************************************************************************)
EXTENDS Integers, Sequences, FiniteSetsExt, SequencesExt

CONSTANTS
  MaxGedcLevel,  \* MAXGEDCLEVEL
  Modes,         \* the error mechanisms that the application uses
  MaxLevel,      \* bound of the model: levels in a file
  MaxLines       \* bound of the model: lines in a file

ASSUME ParserAssumption ==
  /\ MaxGedcLevel \in Nat
  /\ Modes \subseteq {"IMMED_FAIL", "DEFER_FAIL", "IGNORE_ERRORS"}
  /\ MaxLevel \in Nat /\ MaxLevel <= MaxGedcLevel
  /\ MaxLines \in Nat

VARIABLES
  (* static variables of gedcom.y *)
  error_mechanism,
  fail,
  count_level,
  (* the parse *)
  parsing,
  stack,          \* the sections that are open, and the line on top of them
  tag,            \* the tag of that line
  level,          \* its level, until the section is started
  recovering,     \* yyerrstatus
  result,         \* of the last parse
  exited,         \* the process has called exit(1)
  (* the lexer *)
  pending,        \* tokens of the line that is being read
  current_level,
  lines,          \* lines read
  (* history *)
  complained,     \* this parse has reported an error
  inside,         \* ... after the HEAD tag and before the end of the trailer
  past            \* what happened in this process before, see Past

lexVars == <<pending, current_level, lines>>
lineVars == <<tag, level>>
pastVars == <<complained, inside, past>>
parserVars == <<error_mechanism, fail, count_level, parsing, stack, tag, level,
                recovering, result, exited, pending, current_level, lines,
                complained, inside, past>>

Past == {"deferred",  \* an error under DEFER_FAIL
         "ignored",   \* an error under IGNORE_ERRORS
         "cut"}       \* a file that ended in the middle of a record

(***************************************************************************)
(* Tokens and lines.                                                       *)
(***************************************************************************)
Tag == {"HEAD", "TRLR",
        "std",       \* a standard tag that is allowed here
        "mandatory", \* one that needs a value, too
        "invalid",   \* a standard tag that is not allowed here
        "user",      \* a user tag
        "undefined"} \* a tag that is neither

Value == {<<>>,                        \* none
          <<"DELIM", "CHAR">>,
          <<"DELIM", "CHAR", "BAD">>,  \* junk at its end
          <<"BAD">>}                   \* junk after a complete line

Closes(n) == [i \in 1 .. n |-> "CLOSE"]

\* The tokens of a line of level l; the brackets are those of Lexer.  A level
\* that is too high gives a bad token instead.
Brackets(l) ==
  IF l > current_level + 1 THEN <<"BAD">>
                           ELSE Closes(current_level + 1 - l) \o <<"OPEN">>

Init ==
  /\ error_mechanism \in Modes
  /\ fail = 0
  /\ count_level = 0
  /\ parsing = FALSE
  /\ stack = <<>>
  /\ tag = "none"
  /\ level = 0
  /\ recovering = 0
  /\ result = 0
  /\ exited = FALSE
  /\ pending = <<>>
  /\ current_level = -1
  /\ lines = 0
  /\ complained = FALSE
  /\ inside = FALSE
  /\ past = {}

\* The lexer reads a line, or comes to the end of the file.
ReadLine(l, t, v) ==
  /\ parsing /\ pending = <<>>
  /\ lines < MaxLines
  /\ l <= current_level + 2
  /\ pending' = Brackets(l) \o (IF t = "none" THEN <<>> ELSE <<"DELIM", t>> \o v)
  /\ current_level' = l
  /\ lines' = lines + 1
  /\ UNCHANGED <<error_mechanism, fail, count_level, parsing, stack, lineVars,
                 recovering, result, exited, pastVars>>

ReadEnd ==
  /\ parsing /\ pending = <<>>
  /\ pending' = (IF lines = 0 THEN <<>> ELSE <<"CLOSE">>) \o <<"EOF">>
  /\ UNCHANGED <<error_mechanism, fail, count_level, parsing, stack, lineVars,
                 recovering, result, exited, current_level, lines, pastVars>>

(***************************************************************************)
(* The stack.                                                              *)
(***************************************************************************)
\* Sections that can hold sections: "subs" and "records" allow an error among
\* these, "user_subs" (user_sects), "invalid_subs" (opt_sects), "error"
\* (error_subs after an error) and "error_subs" (those of an error_sect) do
\* not.
Section == {"records", "subs", "user_subs", "invalid_subs", "error",
            "error_subs"}
Recoverable == {"records", "subs"}
Counted == {"subs", "user_subs"}

Top == IF stack = <<>> THEN "empty" ELSE Last(stack)
Below == IF Len(stack) < 2 THEN "empty" ELSE stack[Len(stack) - 1]
Replaced(s) == Append(Front(stack), s)

Started(s) == Cardinality({i \in DOMAIN s : s[i] \in Counted})

\* yyerrlab1: states are popped until one shifts the error token.  At the
\* bottom that is "file : error".
ErrorShifted ==
  LET at == {0} \cup {i \in DOMAIN stack : stack[i] \in Recoverable} IN
  IF Top \in {"line", "line_error"} THEN Replaced("line_error")
  ELSE IF Max(at) = 0 THEN <<"file">>
  ELSE Append(SubSeq(stack, 1, Max(at)), "error")

(***************************************************************************)
(* Steps of the parser.                                                    *)
(***************************************************************************)
Token == Head(pending)
NextIs(tokens) == parsing /\ pending # <<>> /\ Token \in tokens

Shift ==
  /\ pending' = Tail(pending)
  /\ recovering' = IF recovering = 0 THEN 0 ELSE recovering - 1
  /\ UNCHANGED <<current_level, lines>>

Keep == UNCHANGED <<lexVars, recovering>>
Quietly == UNCHANGED <<error_mechanism, fail, parsing, result, exited, pastVars>>

Inside == stack # <<>> /\ Head(stack) \in {"records", "subs"}
Report ==
  /\ complained' = TRUE
  /\ inside' = (inside \/ Inside)

\* gedcom_parse returns r.
End(r) ==
  /\ parsing' = FALSE
  /\ result' = r
  /\ stack' = <<>> /\ tag' = "none" /\ level' = 0
  /\ recovering' = 0
  /\ pending' = <<>> /\ current_level' = -1 /\ lines' = 0

\* clean_up: what is left of count_level
CleanUpForgotten == count_level
CleanUp == 0

\* What an error leaves behind under the error mechanism.
PassedOver ==
  CASE error_mechanism = "IMMED_FAIL" -> {}
    [] error_mechanism = "DEFER_FAIL" -> {"deferred"}
    [] error_mechanism = "IGNORE_ERRORS" -> {"ignored"}

Immediate == error_mechanism = "IMMED_FAIL"

\* HANDLE_ERROR, which goes on with the stack s, the tag t
\* and the count c.
Fail == IF error_mechanism = "DEFER_FAIL" THEN 1 ELSE fail
HandleError(s, t, c) ==
  /\ Report
  /\ \/ /\ Immediate
        /\ End(1)
        /\ count_level' = CleanUp
        /\ UNCHANGED <<fail, past>>
     \/ /\ ~Immediate
        /\ fail' = Fail
        /\ past' = past \cup PassedOver
        /\ stack' = s /\ tag' = t /\ count_level' = c
        /\ recovering' = 0
        /\ pending' = Tail(pending)
        /\ UNCHANGED <<parsing, result, level, current_level, lines>>
  /\ UNCHANGED <<error_mechanism, exited>>

\* YYERROR, and what the recovery does after it with the tokens p.
Raise(p) ==
  /\ Report
  /\ stack' = ErrorShifted /\ tag' = "none"
  /\ recovering' = 3
  /\ pending' = p
  /\ UNCHANGED <<error_mechanism, fail, count_level, parsing, result, exited,
                 level, current_level, lines, past>>

\* OPEN
OpenLine ==
  /\ NextIs({"OPEN"})
  /\ Top \in Section \cup {"empty"}
  /\ stack' = Append(stack, "open")
  /\ level' = current_level
  /\ tag' = "none"
  /\ Shift /\ Quietly
  /\ UNCHANGED count_level

\* OPEN DELIM, and TAG DELIM if a value may follow
Delimiter ==
  /\ NextIs({"DELIM"})
  /\ \/ Top = "open" /\ stack' = Replaced("delim")
     \/ Top = "tag" /\ tag \notin {"HEAD", "TRLR"} /\ stack' = Replaced("value")
  /\ Shift /\ Quietly
  /\ UNCHANGED <<count_level, lineVars>>

\* What a tag is in the section below it; "none" if the grammar has no place
\* for it.
Kind(t) ==
  LET user == t \in {"user", "undefined"} IN
  CASE Below = "empty" -> IF t = "HEAD" THEN "HEAD" ELSE "none"
    [] Below \in {"error", "error_subs"} -> "any"
    [] Below = "invalid_subs" -> IF user THEN "none" ELSE "invalid"
    [] Below = "user_subs" -> IF user THEN t ELSE "invalid"
    [] Below = "records" /\ t = "TRLR" -> "TRLR"
    [] OTHER -> IF t \in {"HEAD", "TRLR"} THEN "invalid" ELSE t

ReadTag ==
  /\ NextIs(Tag) /\ Top = "delim"
  /\ Kind(Token) \notin {"none", "invalid", "undefined"}
  /\ tag' = Kind(Token)
  /\ stack' = Replaced("tag")
  /\ Shift /\ Quietly
  /\ UNCHANGED <<count_level, level>>

\* INVALID_TAG and INVALID_TOP_TAG (gen_sect, gen_rec_norm)
InvalidTag ==
  /\ NextIs(Tag) /\ Top = "delim"
  /\ Kind(Token) = "invalid"
  /\ HandleError(Replaced("tag"), "invalid", count_level)

\* user_rec and user_sect refuse the tag.
UndefinedTag ==
  /\ NextIs(Tag) /\ Top = "delim"
  /\ Kind(Token) = "undefined"
  /\ Raise(Tail(pending))

\* line_item
Characters ==
  /\ NextIs({"CHAR", "DELIM"})
  /\ Top \in {"value", "line"}
  /\ stack' = Replaced("line")
  /\ Shift /\ Quietly
  /\ UNCHANGED <<count_level, lineVars>>

\* Mutation: "line_item error" would do, without anychar.
ResumesAnywhere ==
  /\ parsing /\ pending # <<>>
  /\ Top = "line_error"
  /\ \/ /\ Immediate
        /\ HandleError(Replaced("line"), tag, count_level)
     \/ /\ ~Immediate
        /\ Report
        /\ fail' = Fail
        /\ past' = past \cup PassedOver
        /\ stack' = Replaced("line")
        /\ recovering' = 0
        /\ UNCHANGED <<error_mechanism, count_level, parsing, result, exited,
                       lexVars, lineVars>>

\* line_item error anychar
CharactersAfterError ==
  /\ NextIs({"CHAR", "DELIM"})
  /\ Top = "line_error"
  /\ HandleError(Replaced("line"), tag, count_level)

\* The line is complete when the next token cannot belong to it.
LineComplete ==
  \/ Top = "line" /\ NextIs({"OPEN", "CLOSE"})
  \/ /\ Top = "tag" /\ parsing /\ pending # <<>>
     /\ tag = "HEAD" \/ (tag # "TRLR" /\ Token # "DELIM")

\* START, of a section with a count array: push_countarray exits if the
\* number of open sections is not the one of the level.
StartSection ==
  /\ LineComplete
  /\ tag \in {"HEAD", "std", "user"} \/ (tag = "mandatory" /\ Top = "line")
  /\ count_level' = count_level + 1
  /\ stack' = Replaced(IF tag = "user" THEN "user_subs" ELSE "subs")
  /\ exited' = (count_level' # level + 1 \/ count_level' > MaxGedcLevel)
  /\ parsing' = ~exited'
  /\ tag' = "none" /\ level' = 0
  /\ Keep
  /\ UNCHANGED <<error_mechanism, fail, result, pastVars>>

\* opt_sects of a gen_sect, error_subs of an error_sect
StartUncounted ==
  /\ LineComplete
  /\ tag \in {"invalid", "any"}
  /\ stack' = Replaced(IF tag = "any" THEN "error_subs" ELSE "invalid_subs")
  /\ tag' = "none" /\ level' = 0
  /\ Keep /\ Quietly
  /\ UNCHANGED count_level

\* mand_line_item, mand_pointer
MissingValue ==
  /\ LineComplete
  /\ tag = "mandatory" /\ Top = "tag"
  /\ Raise(pending)

\* CHECKn and OCCURn: POP, and the end of the section
PopForgotten == count_level
PopTwice == count_level - 2
Pop == count_level - 1
AfterClose == IF Len(stack) = 1 THEN <<"records">> ELSE Front(stack)

CloseSection ==
  /\ NextIs({"CLOSE"})
  /\ Top \in Counted
  /\ stack' = AfterClose
  /\ count_level' = Pop
  /\ Shift /\ Quietly
  /\ UNCHANGED lineVars

\* ... with a mandatory tag missing, or one section too many (OCCUR2 comes
\* after the rule of the section, the end callback between the two: see
\* Callbacks).
CloseSectionWithError ==
  /\ NextIs({"CLOSE"})
  /\ Top = "subs"
  /\ HandleError(AfterClose, "none", Pop)

\* The end of a gen_sect; in a user section it is an error once more.
CloseInvalid ==
  /\ NextIs({"CLOSE"})
  /\ Top = "invalid_subs"
  /\ \/ /\ Below = "user_subs"
        /\ Raise(Tail(pending))
     \/ /\ Below # "user_subs"
        /\ stack' = Front(stack)
        /\ Shift /\ Quietly
        /\ UNCHANGED <<count_level, lineVars>>

\* error error_subs CLOSE
CloseError ==
  /\ NextIs({"CLOSE"})
  /\ Top = "error"
  /\ HandleError(Front(stack), "none", count_level)

CloseErrorSection ==
  /\ NextIs({"CLOSE"})
  /\ Top = "error_subs"
  /\ stack' = Front(stack)
  /\ Shift /\ Quietly
  /\ UNCHANGED <<count_level, lineVars>>

\* The trailer, and with it the file: an error that was deferred is returned
\* now.
CloseTrailer ==
  /\ NextIs({"CLOSE"})
  /\ Top = "tag" /\ tag = "TRLR"
  /\ \/ /\ fail = 1
        /\ End(1)
        /\ UNCHANGED <<error_mechanism, fail, count_level, exited, pastVars>>
     \/ /\ fail # 1
        /\ stack' = <<"file">> /\ tag' = "none"
        /\ Shift /\ Quietly
        /\ UNCHANGED <<count_level, level>>

Accept ==
  /\ NextIs({"EOF"})
  /\ Top = "file"
  /\ End(0)
  /\ UNCHANGED <<error_mechanism, fail, count_level, exited, pastVars>>

(***************************************************************************)
(* Syntax errors.                                                          *)
(***************************************************************************)
\* The automaton can go on with the next token.
Acceptable ==
  \/ Top = "empty" /\ Token = "OPEN"
  \/ Top = "records" /\ Token = "OPEN"
  \/ Top \in Section \ {"records"} /\ Token \in {"OPEN", "CLOSE"}
  \/ Top = "open" /\ Token = "DELIM"
  \/ Top = "delim" /\ Token \in Tag /\ Kind(Token) # "none"
  \/ Top = "tag" /\ (tag = "TRLR" => Token = "CLOSE")
  \/ Top = "value" /\ Token \in {"CHAR", "DELIM"}
  \/ Top = "line" /\ Token \in {"CHAR", "DELIM", "OPEN", "CLOSE"}
  \/ Top = "line_error" /\ Token \in {"CHAR", "DELIM"}
  \/ Top = "file" /\ Token = "EOF"

\* "file : error" ends in clean_up.  CHECK0 of a user section is a default
\* reduction: it comes before the error is seen (the states that can shift the
\* error token have none).
AfterError ==
  IF ErrorShifted = <<"file">> THEN CleanUp
  ELSE IF Top = "user_subs" THEN Pop ELSE count_level

\* yyerrlab: a message, unless the last error is less than three tokens ago,
\* then the recovery.
SyntaxError ==
  /\ parsing /\ pending # <<>> /\ ~Acceptable
  /\ recovering < 3
  /\ IF recovering = 0 THEN Report ELSE UNCHANGED <<complained, inside>>
  /\ stack' = ErrorShifted
  /\ tag' = IF Last(ErrorShifted) = "line_error" THEN tag ELSE "none"
  /\ count_level' = AfterError
  /\ recovering' = 3
  /\ UNCHANGED <<error_mechanism, fail, parsing, result, exited, level, past,
                 lexVars>>

\* No token was good since the last error: this one is dropped.
DropToken == Tail(pending)
Discard ==
  /\ parsing /\ pending # <<>> /\ ~Acceptable
  /\ recovering = 3 /\ Token # "EOF"
  /\ pending' = DropToken
  /\ stack' = ErrorShifted
  /\ tag' = IF Last(ErrorShifted) = "line_error" THEN tag ELSE "none"
  /\ count_level' = AfterError
  /\ UNCHANGED <<recovering, level, current_level, lines>>
  /\ Quietly

\* ... and at the end of the file the parser gives up (YYABORT), without
\* clean_up and whatever the mechanism.
CannotRecover ==
  pending # <<>> /\ ~Acceptable /\ recovering = 3 /\ Token = "EOF"

GiveUp ==
  /\ parsing /\ CannotRecover
  /\ End(1)
  /\ past' = IF count_level > 0 THEN past \cup {"cut"} ELSE past
  /\ UNCHANGED <<error_mechanism, fail, count_level, exited, complained, inside>>

(***************************************************************************)
(* The session.                                                            *)
(***************************************************************************)
\* gedcom_set_error_handling
SetErrorHandling(mechanism) ==
  /\ ~parsing /\ ~exited
  /\ error_mechanism' = mechanism
  /\ UNCHANGED <<fail, count_level, parsing, stack, lineVars, result, exited,
                 lexVars, recovering, pastVars>>

\* gedcom_parse_file, with a file that can be opened
ParseFile ==
  /\ ~parsing /\ ~exited
  /\ parsing' = TRUE
  /\ result' = 1
  /\ complained' = FALSE /\ inside' = FALSE
  /\ UNCHANGED <<error_mechanism, fail, count_level, stack, lineVars, exited,
                 lexVars, recovering, past>>

\* The application is started again after exit(1).
Restart ==
  /\ exited
  /\ fail' = 0 /\ count_level' = 0
  /\ End(0)
  /\ parsing' = FALSE /\ exited' = FALSE
  /\ complained' = FALSE /\ inside' = FALSE /\ past' = {}
  /\ UNCHANGED error_mechanism

\* The steps in which no callback is called.
QuietStep ==
  \/ /\ pending = <<>>
     /\ \E l \in 0 .. MaxLevel, t \in Tag \cup {"none"}, v \in Value : ReadLine(l, t, v)
  \/ ReadEnd
  \/ OpenLine
  \/ Delimiter
  \/ ReadTag
  \/ InvalidTag
  \/ UndefinedTag
  \/ Characters
  \/ CharactersAfterError
  \/ StartUncounted
  \/ MissingValue
  \/ CloseInvalid
  \/ CloseError
  \/ CloseErrorSection
  \/ CloseTrailer
  \/ Accept
  \/ SyntaxError
  \/ Discard
  \/ GiveUp

Step ==
  \/ StartSection
  \/ CloseSection
  \/ CloseSectionWithError
  \/ QuietStep

Next ==
  \/ Step
  \/ \E mechanism \in Modes : SetErrorHandling(mechanism)
  \/ ParseFile
  \/ Restart

\* Once it is called, gedcom_parse runs until it returns.
Spec == Init /\ [][Next]_parserVars /\ WF_parserVars(Step)
(***************************************************************************)
(* Properties.                                                             *)
(***************************************************************************)
Phase == {"open", "delim", "tag", "value", "line", "line_error"}

\* The stack of the automaton holds sections and at most one line, on top of
\* them; the variables have their types.
TypeOK ==
  /\ error_mechanism \in {"IMMED_FAIL", "DEFER_FAIL", "IGNORE_ERRORS"}
  /\ fail \in {0, 1}
  /\ count_level \in Nat
  /\ parsing \in BOOLEAN /\ exited \in BOOLEAN
  /\ complained \in BOOLEAN /\ inside \in BOOLEAN
  /\ \A i \in DOMAIN stack :
       stack[i] \in IF i < Len(stack) THEN Section ELSE Section \cup Phase \cup {"file"}
  /\ tag \in Tag \cup {"any", "none"}
  /\ level \in 0 .. MaxLevel
  /\ current_level \in -1 .. MaxLevel
  /\ recovering \in 0 .. 3
  /\ result \in {0, 1}
  /\ lines \in 0 .. MaxLines
  /\ past \subseteq Past

\* The count arrays are those of the sections that are open (OCCUR and CHECK
\* count the tags of the innermost one, PARENT is its context), as long as no
\* error was passed over and no file was cut off before.  In between, while
\* the parser recovers, sections may be off the stack that are still counted.
CountsMatchSections ==
  parsing /\ past = {} =>
    /\ count_level >= Started(stack)
    /\ ~complained => count_level = Started(stack)

\* Under IMMED_FAIL no section starts or ends after an error, although the
\* parser goes on to read until it can return (HANDLE_ERROR): the application
\* gets no callback.
ImmediateFailure ==
  [][parsing /\ complained /\ error_mechanism = "IMMED_FAIL" /\ past = {}
       => count_level' = count_level \/ ~parsing']_parserVars

\* The library calls exit(1) only after an error that the application told it
\* to pass over, or after a file that was cut off: never in the first file
\* with an error, and not after errors under IMMED_FAIL.
ExitHasReason == [][exited' => past' # {}]_parserVars

\* What gedcom.h.in:267-271 says of the three mechanisms, as far as it is true.
\* An error between the HEAD tag and the end of the trailer makes the parse
\* fail, at once or in the end, unless it is to be ignored.  A parse fails only
\* for an error that it reports and that is not to be ignored, with two
\* exceptions, both against "IGNORE_ERRORS: return success always": the file
\* ends while the parser recovers from an error (it has no trailer, for
\* example); and an earlier file deferred an error, for fail is never reset
\* (gedcom.y:155, 426) and a file without any error fails too.
ResultIsTrue ==
  [][parsing /\ ~parsing' /\ ~exited' =>
       /\ inside' /\ error_mechanism # "IGNORE_ERRORS" => result' = 1
       /\ result' = 1 =>
            \/ complained' /\ error_mechanism # "IGNORE_ERRORS"
            \/ complained' /\ CannotRecover
            \/ "deferred" \in past]_parserVars

\* gedcom_parse returns, whatever the file holds: the recovery from an error
\* always gets further in the file.
ParseReturns == parsing ~> ~parsing

\* Errors decide on the result of a parse, on the callbacks that follow and on
\* the end of the process, and nothing else does.
ErrorsAreHandled == ExitHasReason /\ ResultIsTrue /\ ImmediateFailure
=============================================================================
