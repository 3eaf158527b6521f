----------------------------- MODULE LongValues -----------------------------
(***************************************************************************)
(* Values that do not fit in a line: write_long of gedcom/write.c, which   *)
(* spreads them over CONT and CONC lines, the grammar and the lexer as far *)
(* as they join such lines again, and the compatibility rule that takes a  *)
(* long note apart.  A string is a sequence of bytes; "2" and "3" are the  *)
(* first bytes of characters of two and three bytes, "+" the bytes after   *)
(* them.  The length is counted as in the code: utf8_strlen.               *)
(***************************************************************************)
EXTENDS Integers, Sequences, FiniteSets, SequencesExt

CONSTANTS Values,         \* the strings that the application sets and writes
          Handles,        \* levels of elements and lengths of terminators
          MAXGEDCLINELEN

ASSUME LongValuesAssumption ==
  MAXGEDCLINELEN \in Nat /\ MAXGEDCLINELEN > 7

VARIABLES
  lat,       \* "idle", "writing", "written", "reading", "read", or "lost" after
             \* what C does not define
  elt,       \* the element, its level and the length of the terminator
  string,    \* the value
  val,       \* the value with its @ doubled
  ptr,       \* value_ptr, an index in val
  value_len, \* what is left, in characters that were counted
  tag,       \* of the next line: "first", "CONT" or "CONC"
  lines      \* the lines written, or the parts of a note read

lvars == <<lat, elt, string, val, ptr, value_len, tag, lines>>

Elements == {"NOTE", "TEXT", "ADDR", "PAGE"}
tag_data == [NOTE |-> {"CONT", "CONC"}, TEXT |-> {"CONT", "CONC"}, ADDR |-> {"CONT"}, PAGE |-> {}]
ValueRequired == {"TEXT", "ADDR", "PAGE"}

-----------------------------------------------------------------------------
\* utf8/utf8.c.  The ones that a byte starts with:
Ones(byte) == CASE byte = "2" -> 2 [] byte = "3" -> 3 [] byte = "+" -> 1 [] OTHER -> 0

\* A byte that does not start a longer character counts: a character of three
\* bytes counts twice.
utf8_strlen(str) == Cardinality({i \in DOMAIN str : Ones(str[i]) < 2})

\* The byte after a string is its end.
next_utf8_char(str, i) ==
  IF i > Len(str) THEN i
  ELSE CHOOSE j \in i + 1..Len(str) + 1 :
         /\ j <= Len(str) => Ones(str[j]) # 1
         /\ \A k \in i + 1..j - 1 : Ones(str[k]) = 1
nth_utf8_char(str, i, n) ==
  LET Is(j) == j \in i + 1..Len(str) /\ Cardinality({k \in i + 1..j : Ones(str[k]) # 1}) = n
  IN IF i > Len(str) THEN i
     ELSE CHOOSE j \in i + 1..Len(str) + 1 : /\ Is(j) \/ j = Len(str) + 1
                                            /\ \A k \in i + 1..j - 1 : ~Is(k)

\* A byte that can only follow is taken for a character.
is_utf8_string(str) ==
  \A i \in DOMAIN str : \A k \in i + 1..i + Ones(str[i]) - 1 : k <= Len(str) /\ Ones(str[k]) = 1

\* What iconv makes of it: such a byte belongs to a longer character.
IsUtf8(str) ==
  /\ is_utf8_string(str)
  /\ \A i \in DOMAIN str : Ones(str[i]) = 1 => \E j \in 1..i - 1 : Ones(str[j]) > i - j

\* convert_at.
convert_at(str) ==
  FlattenSeq([i \in DOMAIN str |-> IF str[i] = "@" THEN <<"@", "@">> ELSE <<str[i]>>])

-----------------------------------------------------------------------------
\* What precedes the value: the level, the tag, always of four characters,
\* and two spaces.
PrefixLen(level) == 7 + (IF level > 9 THEN 1 ELSE 0)

\* A line that is too long or cannot be converted is left out, and nobody is
\* told: write_simple returns 0.
write_simple(level, text) ==
  IF PrefixLen(level) + utf8_strlen(text) + elt.term > MAXGEDCLINELEN \/ ~IsUtf8(text)
  THEN lines
  ELSE Append(lines, [tag |-> tag, level |-> level, text |-> text])

LInit ==
  /\ lat = "idle" /\ elt = [name |-> "none"] /\ string = <<>> /\ val = <<>>
  /\ ptr = 1 /\ value_len = 0 /\ tag = "first" /\ lines = <<>>

\* gom_set_string, then the function that writes the element.
SetAndWrite(name, handle, str) ==
  /\ lat = "idle" /\ is_utf8_string(str)
  /\ lat' = "writing"
  /\ elt' = [name |-> name, level |-> handle.level, term |-> handle.term]
  /\ string' = str /\ val' = convert_at(str)
  /\ value_len' = utf8_strlen(val')
  /\ UNCHANGED <<ptr, tag, lines>>

HasNewline(i) == \E j \in i..Len(val) : val[j] = "nl"
NewlineAfter(i) == CHOOSE j \in i..Len(val) : val[j] = "nl" /\ \A k \in i..j - 1 : val[k] # "nl"
Fits(level, n) == PrefixLen(level) + n + elt.term <= MAXGEDCLINELEN

\* An element without continuation lines, or a value that fits in its line.
WriteSimple ==
  /\ lat = "writing" /\ tag = "first"
  /\ tag_data[elt.name] = {} \/ (~HasNewline(1) /\ Fits(elt.level, value_len))
  /\ lines' = write_simple(elt.level, val)
  /\ lat' = "written"
  /\ UNCHANGED <<elt, string, val, ptr, value_len, tag>>

Level == IF tag = "first" THEN elt.level ELSE elt.level + 1
Room == MAXGEDCLINELEN - PrefixLen(Level) - elt.term
At(i) == IF i \in DOMAIN val THEN val[i] ELSE "end"

\* Back from the end of the line over spaces: no space may end a line or
\* start the next one.
\* (Variant: only the space that starts the next line is seen.)
BackOverOne(n) ==
  CHOOSE m \in 0..n : /\ m > 0 => At(ptr + m) # " "
                      /\ \A k \in m + 1..n : At(ptr + k) = " "
\* (Variant: lines are cut only before a space.)
BackToASpace(n) ==
  CHOOSE m \in 0..n : /\ m > 0 => At(ptr + m) = " "
                      /\ \A k \in m + 1..n : At(ptr + k) # " "
BackOverSpaces(n) ==
  CHOOSE m \in 0..n : /\ m > 0 => At(ptr + m) # " " /\ At(ptr + m - 1) # " "
                      /\ \A k \in m + 1..n : At(ptr + k) = " " \/ At(ptr + k - 1) = " "

\* A turn of the loop.  A line is cut in bytes although its length is counted
\* in characters.  When there is nowhere to cut, the length gets 0, and the
\* same turn follows, with an empty CONC line each time (the model keeps one),
\* or negative, if the value starts with a space or the byte before it, which
\* is not ours to know, is one.
AfterNewline(i) == IF At(i) = "nl" THEN [ptr |-> i + 1, skipped |-> 1] ELSE [ptr |-> i, skipped |-> 0]

WriteLine ==
  /\ lat = "writing" /\ tag_data[elt.name] # {}
  /\ tag = "first" => HasNewline(1) \/ ~Fits(elt.level, value_len)
  /\ LET wanted == IF HasNewline(ptr) THEN NewlineAfter(ptr) - ptr ELSE value_len
         cut == wanted > Room
         line_len == IF cut THEN BackOverSpaces(Room) ELSE wanted
         end == IF ptr + line_len > Len(val) THEN Len(val) ELSE ptr + line_len - 1
         next == AfterNewline(ptr + line_len)
         stuck == cut /\ line_len = 0
     IN /\ lines' = IF stuck /\ tag = "CONC" THEN lines
                    ELSE write_simple(Level, SubSeq(val, ptr, end))
        /\ ptr' = next.ptr /\ value_len' = value_len - line_len - next.skipped
        /\ tag' = IF cut THEN "CONC" ELSE "CONT"
        /\ lat' \in CASE stuck /\ At(ptr) = " " -> {"lost"}
                      [] stuck /\ At(ptr) # " " -> IF ptr = 1 THEN {"writing", "lost"} ELSE {"writing"}
                      [] OTHER -> {IF line_len < value_len THEN "writing" ELSE "written"}
  /\ UNCHANGED <<elt, string, val>>

-----------------------------------------------------------------------------
\* How such lines are read: blanks at the end of a line belong to its
\* terminator, @@ is an @, a single @ and a newline inside a line are errors,
\* and a CONC line needs a value.
Trimmed(text) ==
  LET last == CHOOSE n \in 0..Len(text) : /\ n > 0 => text[n] # " "
                                          /\ \A k \in n + 1..Len(text) : text[k] = " "
  IN SubSeq(text, 1, last)
ReadItem(text) ==
  LET ats == {i \in DOMAIN text : text[i] = "@"}
      Second(i) == Cardinality({k \in ats : k < i /\ \A j \in k..i : j \in ats}) % 2 = 1
      single == \E i \in ats : ~Second(i) /\ i + 1 \notin ats
  IN IF single \/ "nl" \in {text[i] : i \in DOMAIN text} THEN <<"error">>
     ELSE FlattenSeq([i \in DOMAIN text |-> IF i \in ats /\ Second(i) THEN <<>> ELSE <<text[i]>>])

IsAccepted(line, item) ==
  CASE line.tag = "first" -> elt.name \in ValueRequired => item # <<>>
    [] line.tag = "CONT" -> "CONT" \in tag_data[elt.name] /\ (elt.name = "ADDR" => item # <<>>)
    [] line.tag = "CONC" -> "CONC" \in tag_data[elt.name] /\ item # <<>>
Joined(line) ==
  LET item == ReadItem(Trimmed(line.text))
  IN IF ~IsAccepted(line, item) THEN <<"error">>
     ELSE (IF line.tag = "CONT" THEN <<"nl">> ELSE <<>>) \o item
ReadBack == FlattenSeq([i \in DOMAIN lines |-> Joined(lines[i])])

-----------------------------------------------------------------------------
\* A long line of a NOTE, as a program that knows no limit writes it:
\* compat_long_line_get_prefix and compat_long_line_finish.  val is the line,
\* ptr what is left of it (0 for NULL).
Limit == MAXGEDCLINELEN - 7

\* The end of the prefix that is taken from i: the start of the rest.
RestOf(i) ==
  LET Start(len) == nth_utf8_char(val, i, len - 1)
      Next(len) == IF len = Limit THEN next_utf8_char(val, Start(len)) ELSE Start(len + 1)
      Stops(len) == len = 1 \/ (At(Start(len)) # " " /\ At(Next(len)) # " ")
  IN Next(CHOOSE len \in 1..Limit : Stops(len) /\ \A more \in len + 1..Limit : ~Stops(more))

GetPrefix(i) ==
  LET rest == RestOf(i)
      long == utf8_strlen(SubSeq(val, i, Len(val))) > Limit
      part == IF long THEN SubSeq(val, i, rest - 1) ELSE SubSeq(val, i, Len(val))
  IN /\ lines' = Append(lines, [tag |-> tag, level |-> Len(lines), text |-> part])
     /\ ptr' = IF long THEN rest ELSE 0
     /\ lat' = IF long /\ Len(part) >= MAXGEDCLINELEN THEN "lost" ELSE IF long THEN "reading" ELSE "read"
     /\ tag' = "CONC"

ReadLongNote(str) ==
  /\ lat = "idle" /\ str # <<>> /\ IsUtf8(str) /\ ~\E i \in DOMAIN str : str[i] \in {"nl", "@"}
  /\ lat' = "reading" /\ elt' = [name |-> "NOTE"] /\ string' = str /\ val' = str
  /\ UNCHANGED <<ptr, value_len, tag, lines>>

compat_long_line ==
  /\ lat = "reading" /\ GetPrefix(ptr)
  /\ UNCHANGED <<elt, string, val, value_len>>

LNext ==
  \/ /\ lat = "idle"
     /\ \/ \E name \in Elements, handle \in Handles, str \in Values : SetAndWrite(name, handle, str)
        \/ \E str \in Values : ReadLongNote(str)
  \/ WriteSimple \/ WriteLine
  \/ compat_long_line
\* A function that writes runs until it returns, and so does the parser.
LFairness == WF_lvars(WriteSimple) /\ WF_lvars(WriteLine) /\ WF_lvars(compat_long_line)

-----------------------------------------------------------------------------
ShortestRoom == MAXGEDCLINELEN - PrefixLen(elt.level + 1) - elt.term
Stretches == {i \in 1..Len(val) - ShortestRoom : \A k \in i..i + ShortestRoom : val[k] # "nl"}
\* Every stretch that does not fit in a line has a place to cut it.
CanBeCut == \A i \in Stretches : \E k \in i..i + ShortestRoom - 1 : At(k) # " " /\ At(k + 1) # " "
\* No line ends in a space, and none lacks a value that it must have.
CanBeRead ==
  /\ \A i \in DOMAIN val : At(i) = " " => At(i + 1) \notin {"nl", "end"}
  /\ elt.name \in ValueRequired => At(1) \notin {"nl", "end"}
  /\ elt.name = "ADDR" => (\A i \in DOMAIN val : At(i) = "nl" => At(i + 1) \notin {"nl", "end"})
OneLine == ~HasNewline(1) /\ Fits(elt.level, utf8_strlen(val))
\* The lines that the element needs are allowed in it.
CanBeContinued ==
  /\ HasNewline(1) => "CONT" \in tag_data[elt.name]
  /\ Stretches # {} => "CONC" \in tag_data[elt.name] \/ OneLine
IsSafe == \/ OneLine /\ IsUtf8(string)
          \/ /\ \A i \in DOMAIN val : Ones(val[i]) = 0
             /\ Stretches # {} => "@" \notin {val[i] : i \in DOMAIN val}

\* A value that can be cut, continued and read is read as it was set, if it
\* fits in a line or its characters have one byte and none of those that must
\* be cut is an @; and a long note that is taken apart is the note again,
\* and its parts fit in lines and end between characters.
TextIsKept ==
  /\ lat = "written" /\ CanBeCut /\ CanBeRead /\ CanBeContinued /\ IsSafe => ReadBack = string
  /\ lat = "read" =>
       /\ FlattenSeq([i \in DOMAIN lines |-> lines[i].text]) = string
       /\ \A i \in DOMAIN lines : IsUtf8(lines[i].text) /\ utf8_strlen(lines[i].text) <= MAXGEDCLINELEN

\* A value that can be cut is written in the end, and a note is taken apart
\* in the end.
WritingEnds ==
  /\ (lat = "writing" /\ CanBeCut) ~> (lat = "written")
  /\ (lat = "reading") ~> (lat \in {"read", "lost"})

\* The CONT and CONC lines of an element that allows them are taken care of:
\* any such value of UTF-8 characters without an @ is read as it was set.
ValuesAreWhole ==
  lat = "written" /\ CanBeCut /\ CanBeRead /\ elt.name \in {"NOTE", "TEXT"} /\ IsUtf8(string)
    /\ "@" \notin {val[i] : i \in DOMAIN val} => ReadBack = string
=============================================================================
