-------------------------------- MODULE Ansel --------------------------------
(***************************************************************************)
(* Lines in ANSEL: convert_from_utf8 and convert_to_utf8_incremental of    *)
(* utf8/utf8-convert.c around the two converters of the repository, the    *)
(* one for libiconv (iconv/libiconv/ansi_z39_47.h) and the one for glibc   *)
(* (iconv/glibc/ANSI_Z39.47.c).  A diacritical mark comes after its letter *)
(* in Unicode and before it in ANSEL, so that a converter has to hold back *)
(* a character; the output buffer can become full between the two, and the *)
(* lexer converts what it reads byte by byte.                              *)
(*                                                                         *)
(* Characters and bytes have names; an ASCII character and a mark have the *)
(* same name on both sides.                                                *)
(***************************************************************************)
EXTENDS Integers, Sequences, FiniteSets, SequencesExt, TLC

CONSTANTS Texts,  \* the lines written, without their end
          Sizes   \* the sizes of the output buffer

ASSUME AnselAssumption == Sizes \subseteq Nat \ {0}

VARIABLES
  lib,        \* "libiconv" or "glibc"
  step,       \* "idle", "writing", "failed", "reading" or "read"
  linebuf,       \* the line, with its end
  input,      \* what is left of it
  output, room,  \* the output buffer: its contents and what is free
  held,       \* ostate: the letter that libiconv's converter holds back
  conv_fails,
  spoilt,     \* a byte of the line before is in the converter, or the buffer was
              \* full when a part of a character was in it
  bytes,      \* what is left of the line in the file
  inbuf,      \* the bytes that iconv has not taken
  istate,     \* the mark that libiconv's converter holds back
  read        \* the characters read

nvars == <<lib, step, linebuf, input, output, room, held, conv_fails, spoilt, bytes, inbuf, istate, read>>

Nothing == "nothing"

-----------------------------------------------------------------------------
(***************************************************************************)
(* iconv/ANSI_Z39.47-tables.h: the entries that differ in kind.  Capital E *)
(* with breve is written with a small letter, eth as D with stroke, and a  *)
(* space and a mark make the accent, which is another character than the   *)
(* two.                                                                    *)
(***************************************************************************)
Letters == {"a", "e", "q", "space", "backquote"}
Marks == {"acute", "grave", "breve"}
Page030 == [m \in Marks |-> <<m>>]
Grave == [a |-> "a_grave", e |-> "e_grave", space |-> "backquote"]
Acute == [a |-> "a_acute", e |-> "e_acute", space |-> "acute_accent"]
Breve == [a |-> "a_breve", space |-> "breve_accent"]
Combining == [grave |-> Grave, acute |-> Acute, breve |-> Breve]
ToUcs4 == [b \in Marks \cup {"l_stroke", "D_stroke"} |-> b]
FromUcs4 == Page030 @@
  [a_grave |-> <<"grave", "a">>, e_grave |-> <<"grave", "e">>, a_acute |-> <<"acute", "a">>,
   e_acute |-> <<"acute", "e">>, a_breve |-> <<"breve", "a">>, E_breve |-> <<"breve", "e">>,
   breve_accent |-> <<"breve", "space">>, l_stroke |-> <<"l_stroke">>, eth |-> <<"D_stroke">>, D_stroke |-> <<"D_stroke">>]

-----------------------------------------------------------------------------
(***************************************************************************)
(* One character of libiconv's output (ansi_z39_47_wctomb): the bytes, the *)
(* letter that is held afterwards and the one that is held if the bytes do *)
(* not fit.  OUTPUT forgets the held letter as soon as it is written.      *)
(***************************************************************************)
HeldBytes == IF held = Nothing THEN <<>> ELSE <<held>>
Illegal == [ok |-> FALSE]
Bytes(bs, holds, holdsIfFull) == [ok |-> TRUE, bytes |-> bs, holds |-> holds, ifFull |-> holdsIfFull]
ForgetHeld(bs) == Bytes(HeldBytes \o bs, Nothing, IF room > 0 THEN Nothing ELSE held)
\* (Variant: the letter before the mark.)
LetterAndMark(mark) == <<held, mark>>
MarkAndLetter(mark) == <<mark, held>>
wctomb(c) ==
  CASE c \in Letters -> Bytes(HeldBytes, c, held)
    [] c = "nl" -> ForgetHeld(<<c>>)
    [] c \in Marks -> IF held = Nothing THEN Illegal ELSE Bytes(MarkAndLetter(c), Nothing, held)
    [] c \in DOMAIN FromUcs4 \ Marks -> ForgetHeld(FromUcs4[c])
    [] OTHER -> Illegal

(***************************************************************************)
(* What glibc's converter does with the next character: it looks at the    *)
(* one after it.  The last character of a line is its end, so that there   *)
(* is one.  A letter and its mark are written without a look at the room.  *)
(***************************************************************************)
WithMark == Len(input) > 1 /\ input[1] \in Letters /\ input[2] \in Marks
to_ansi_z39_47 ==
  CASE WithMark -> [ok |-> TRUE, bytes |-> <<input[2], input[1]>>, taken |-> 2]
    [] ~WithMark /\ input[1] \in Letters \cup {"nl"} -> [ok |-> TRUE, bytes |-> <<input[1]>>, taken |-> 1]
    [] input[1] \in DOMAIN FromUcs4 -> [ok |-> TRUE, bytes |-> FromUcs4[input[1]], taken |-> 1]
    [] OTHER -> Illegal

NInit ==
  /\ lib \in {"libiconv", "glibc"} /\ step = "idle" /\ linebuf = <<>> /\ input = <<>>
  /\ output = <<>> /\ room = 0 /\ held = Nothing /\ conv_fails = 0 /\ spoilt = FALSE
  /\ bytes = <<>> /\ inbuf = <<>> /\ istate = Nothing /\ read = <<>>

readVars == <<bytes, inbuf, istate, read>>

\* convert_from_utf8, called for a line by write_simple.
Write(text, size) ==
  /\ step = "idle"
  /\ step' = "writing" /\ linebuf' = Append(text, "nl") /\ input' = Append(text, "nl")
  /\ output' = <<>> /\ room' = size /\ held' = Nothing /\ conv_fails' = 0
  /\ spoilt' = (inbuf # <<>> \/ istate # Nothing)
  /\ UNCHANGED <<lib, bytes, inbuf, istate, read>>

Put(bs, n) ==
  /\ output' = output \o bs /\ room' = room - Len(bs)
  /\ input' = SubSeq(input, n + 1, Len(input))

LibiconvFits == room > 0 /\ wctomb(input[1]).ok /\ Len(wctomb(input[1]).bytes) <= room
WriteByLibiconv ==
  /\ step = "writing" /\ input # <<>> /\ lib = "libiconv" /\ LibiconvFits
  /\ Put(wctomb(input[1]).bytes, 1) /\ held' = wctomb(input[1]).holds
  /\ UNCHANGED <<lib, step, linebuf, conv_fails, spoilt, readVars>>

GlibcFits == room > 0 /\ to_ansi_z39_47.ok /\ (WithMark \/ Len(to_ansi_z39_47.bytes) <= room)
WriteByGlibc ==
  /\ step = "writing" /\ input # <<>> /\ lib = "glibc" /\ GlibcFits
  /\ Put(to_ansi_z39_47.bytes, to_ansi_z39_47.taken)
  /\ spoilt' = (spoilt \/ Len(to_ansi_z39_47.bytes) > room)
  /\ UNCHANGED <<lib, step, linebuf, held, conv_fails, readVars>>

\* E2BIG.  What was written behind the buffer is not copied by realloc.
IsLegal == IF lib = "libiconv" THEN wctomb(input[1]).ok ELSE to_ansi_z39_47.ok
Kept == IF room >= 0 THEN output ELSE SubSeq(output, 1, Len(output) + room)
grow_conv_buffer ==
  /\ step = "writing" /\ input # <<>>
  /\ room <= 0 \/ (IsLegal /\ ~(IF lib = "libiconv" THEN LibiconvFits ELSE GlibcFits))
  /\ IF lib = "libiconv" /\ room > 0
     THEN held' = wctomb(input[1]).ifFull /\ spoilt' = (spoilt \/ held' # held)
     ELSE UNCHANGED <<held, spoilt>>
  /\ \E stale \in [1..Len(output) - Len(Kept) -> {Nothing, "q"}] : output' = Kept \o stale
  /\ room' = 2 * (Len(output) + room) - Len(output)
  /\ UNCHANGED <<lib, step, linebuf, input, conv_fails, readVars>>

\* EILSEQ: the character is skipped and conv->unknown takes its place.
SkipCharacter ==
  /\ step = "writing" /\ input # <<>> /\ room > 0 /\ ~IsLegal
  /\ Put(<<"unknown">>, 1) /\ conv_fails' = conv_fails + 1
  /\ UNCHANGED <<lib, step, linebuf, held, spoilt, readVars>>

\* The rest of write_simple: a line is written if every character was legal.
EndOfLine ==
  /\ step = "writing" /\ input = <<>>
  /\ IF conv_fails = 0 THEN step' = "reading" /\ bytes' = output ELSE step' = "failed" /\ UNCHANGED bytes
  /\ UNCHANGED <<lib, linebuf, input, output, room, held, conv_fails, spoilt, inbuf, istate, read>>

-----------------------------------------------------------------------------
(***************************************************************************)
(* The lexer takes the line byte by byte and gives each byte to            *)
(* convert_to_utf8_incremental.  A decoder's answer: the characters, the   *)
(* bytes that it leaves and the mark that it holds.                        *)
(***************************************************************************)
Answer(chars, left, mark) == [chars |-> chars, left |-> left, mark |-> mark]
ComposedOf(mark, b) ==
  IF b \in DOMAIN Combining[mark] THEN <<Combining[mark][b]>> ELSE <<b, ToUcs4[mark]>>
IsPlain(b) == b \in Letters \cup (DOMAIN ToUcs4 \ Marks)
Plain(b) == IF b \in Letters THEN <<b>> ELSE <<ToUcs4[b]>>

\* The mark after a letter that it does not combine with takes a second turn
\* of the loop of iconv; a mark after a mark takes its place.
mbtowc(b) ==
  CASE b \in Marks -> Answer(<<>>, <<>>, b)
    [] b \in Letters /\ istate # Nothing -> Answer(ComposedOf(istate, b), <<>>, Nothing)
    [] b \in DOMAIN ToUcs4 \ Marks /\ istate # Nothing ->
         Answer(<<ToUcs4[b], ToUcs4[istate]>>, <<>>, Nothing)
    [] IsPlain(b) /\ istate = Nothing -> Answer(Plain(b), <<>>, Nothing)
    [] OTHER -> Answer(<<>>, <<>>, istate)

\* A mark without the byte after it is incomplete input and stays in inbuf;
\* before something else than a letter it is illegal and is dropped, and the
\* other byte stays in inbuf and is converted with the next one.
from_ansi_z39_47(bs) ==
  CASE bs[1] \in Marks /\ Len(bs) = 1 -> Answer(<<>>, bs, Nothing)
    [] bs[1] \in Marks /\ Len(bs) > 1 ->
         IF bs[2] \in Letters THEN Answer(ComposedOf(bs[1], bs[2]), <<>>, Nothing)
                              ELSE Answer(<<>>, Tail(bs), Nothing)
    [] OTHER -> Answer(FlattenSeq([i \in DOMAIN bs |-> IF IsPlain(bs[i]) THEN Plain(bs[i]) ELSE <<>>]),
                       SelectSeq(bs, LAMBDA b : b \in Marks), Nothing)

convert_to_utf8_incremental ==
  LET answer == IF lib = "libiconv" THEN mbtowc(Head(bytes))
                ELSE from_ansi_z39_47(Append(inbuf, Head(bytes)))
  IN /\ step = "reading" /\ bytes # <<>> /\ Head(bytes) # "nl"
     /\ read' = read \o answer.chars /\ inbuf' = answer.left /\ istate' = answer.mark
     /\ bytes' = Tail(bytes)
     /\ UNCHANGED <<lib, step, linebuf, input, output, room, held, conv_fails, spoilt>>

\* The end of a line is not converted: a mark that is still held stays.
ReadEnd ==
  /\ step = "reading" /\ bytes # <<>> /\ Head(bytes) = "nl"
  /\ step' = "read" /\ bytes' = <<>>
  /\ UNCHANGED <<lib, linebuf, input, output, room, held, conv_fails, spoilt, inbuf, istate, read>>

\* What the buffers held is of no use to the next line.
NextLine ==
  /\ step \in {"failed", "read"} /\ step' = "idle"
  /\ linebuf' = <<>> /\ input' = <<>> /\ output' = <<>> /\ room' = 0
  /\ conv_fails' = 0 /\ spoilt' = FALSE /\ read' = <<>>
  /\ UNCHANGED <<lib, held, bytes, inbuf, istate>>

NNext ==
  \/ \E t \in Texts, n \in Sizes : Write(t, n)
  \/ WriteByLibiconv \/ WriteByGlibc \/ grow_conv_buffer \/ SkipCharacter \/ EndOfLine
  \/ convert_to_utf8_incremental \/ ReadEnd \/ NextLine

-----------------------------------------------------------------------------
\* A character with a mark, as the two of them.
Composed ==
  [c \in {"a_grave", "e_grave", "a_acute", "e_acute", "a_breve", "breve_accent"} |->
     <<FromUcs4[c][2], FromUcs4[c][1]>>]
Decomposed(text) ==
  FlattenSeq([i \in DOMAIN text |-> IF text[i] \in DOMAIN Composed THEN Composed[text[i]] ELSE <<text[i]>>])

\* What the tables do not keep.
IsMisspelt ==
  \/ \E i \in DOMAIN linebuf : linebuf[i] \in {"E_breve", "eth"}
  \/ \E i \in DOMAIN linebuf : linebuf[i] \in Marks /\ i > 1 /\ linebuf[i - 1] = "space"
HasLooseMark ==
  \E i \in DOMAIN linebuf : linebuf[i] \in Marks /\ (i = 1 \/ linebuf[i - 1] \notin Letters)

(***************************************************************************)
(* A line in ANSEL is read as it was written, or it is not written and the *)
(* failure is counted: no letter loses its mark or gets that of another    *)
(* one, whatever the size of the buffer and however the line is cut when   *)
(* it is read.  This is so unless                                          *)
(*   - the buffer got full inside a character: libiconv's converter then   *)
(*     has forgotten the letter before it, and glibc's has written behind  *)
(*     the buffer;                                                         *)
(*   - it is a character that the tables misspell;                         *)
(*   - a mark follows something else than a letter, and glibc's converter  *)
(*     gives it to the character after it.                                 *)
(* After such a line no byte is left in a converter.  A line with legal    *)
(* characters only is always written.  Code: utf8/utf8-convert.c,          *)
(* ansi_z39_47.h and ANSI_Z39.47.c.                                        *)
(***************************************************************************)
AnselIsKept ==
  ~spoilt =>
    /\ (step = "read" /\ ~IsMisspelt /\ ~(lib = "glibc" /\ HasLooseMark)) =>
         /\ Append(Decomposed(read), "nl") = Decomposed(linebuf)
         /\ inbuf = <<>> /\ istate = Nothing
    /\ conv_fails > 0 =>
         HasLooseMark \/ ~(ToSet(linebuf) \subseteq Letters \cup DOMAIN FromUcs4 \cup {"nl"})
=============================================================================
