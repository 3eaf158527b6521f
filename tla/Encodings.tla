----------------------------- MODULE Encodings ------------------------------
(***************************************************************************)
(* The encodings of files (gedcom/encoding.c, encoding_state.c, multilex.c *)
(* and the open and close functions of write.c): what is known of the last *)
(* file read, what the next file will be written in, the converter of the  *)
(* lexer and the handle of the file that is being written.                 *)
(***************************************************************************)
EXTENDS Integers, Sequences, FiniteSets

CONSTANTS Tables,     \* the encoding configuration files: entries, or a line that is wrong
          Supported,  \* the encodings that iconv_open knows
          Inputs,     \* the files that other programs wrote
          SysNewline, \* SYS_NEWLINE
          MaxParses, MaxSettings, MaxFiles \* bounds: files read, settings, files written

VARIABLES
  config,        \* the encoding configuration file
  encodings,     \* the hash table: [charset, width] to an encoding
  read_encoding, write_encoding,
  write_encoding_from, write_terminator_from,
  to_int,        \* the encoding of the lexer's converter, or NULL
  reading,       \* the file that is being parsed, how far
  hndl,          \* the handle, or NoHandle
  file,          \* the last file written, or NoFile
  settled,       \* nothing was set and nothing opened since the handle was opened
  torn,          \* which of the two states mix two files: the first conversion of
                 \* a file could not be opened
  outcome,       \* whether the last file written was read as it was written
  parses, settings, files

encVars == <<encodings, config>>
stateVars == <<read_encoding, write_encoding>>
fromVars == <<write_encoding_from, write_terminator_from>>
evars == <<encVars, stateVars, fromVars, to_int, reading, hndl, file, settled, torn, outcome,
           parses, settings, files>>

NULL == "NULL"
Widths == {"ONE_BYTE", "TWO_BYTE_HILO", "TWO_BYTE_LOHI"}
Terminators == {<<"CR">>, <<"LF">>, <<"CR", "LF">>, <<"LF", "CR">>}
BlankOrEnd == {"blank", "CR", "LF"}
BadLine == [charset |-> ""]

WidthOf(encoding) == CASE encoding = "UCS-2BE" -> "TWO_BYTE_HILO"
                       [] encoding = "UCS-2LE" -> "TWO_BYTE_LOHI"
                       [] OTHER -> "ONE_BYTE"

\* The entries of a configuration file name encodings of their width, and
\* ASCII for itself, as data/gedcom.enc does.
ASSUME EncodingsAssumption ==
  /\ {MaxParses, MaxSettings, MaxFiles} \subseteq Nat
  /\ \A t \in Tables : /\ Len(t) \in Nat /\ DOMAIN t = 1..Len(t)
                       /\ \A i \in DOMAIN t : t[i] # BadLine =>
                            /\ WidthOf(t[i].encoding) = t[i].width
                            /\ t[i].charset = "ASCII" => t[i].encoding = "ASCII"
  /\ \A f \in Inputs : f.terminator \in Seq(BlankOrEnd) /\ f.blanks \in Nat /\ f # [charset |-> {}]
  /\ SysNewline \in Terminators

NoTable == <<>>
NoHandle == [conv |-> NULL]
NoFile == [charset |-> {}]
NotReading == [at |-> "no"]

\* init_encodings: entries up to a line that is wrong; of two entries for a
\* character set and a width, the first one counts.
TableOf(lines) ==
  LET good == {i \in DOMAIN lines : \A j \in 1..i : lines[j] # BadLine}
      keys == {<<lines[i].charset, lines[i].width>> : i \in good}
      First(k) == CHOOSE i \in good : /\ <<lines[i].charset, lines[i].width>> = k
                                      /\ \A j \in good : j < i =>
                                           <<lines[j].charset, lines[j].width>> # k
  IN [k \in keys |-> lines[First(k)].encoding]

\* Spaces of a character set become underscores, in the caller's string.
Underscored(charset) == IF charset = "IBM WINDOWS" THEN "IBM_WINDOWS" ELSE charset
get_encoding(charset, width) ==
  LET key == <<Underscored(charset), width>>
  IN IF key \notin DOMAIN encodings THEN NULL ELSE encodings[key]
CanConvert(encoding) == encoding # NULL /\ encoding \in Supported

\* (Variant: the encoding of the last file without its width.)
FromFileForgetsWidth(w, r) ==
  [w EXCEPT !.charset = r.charset, !.encoding = r.encoding, !.bom = r.bom]
FromFile(w, r) ==
  [w EXCEPT !.charset = r.charset, !.encoding = r.encoding, !.width = r.width, !.bom = r.bom]
init_write_encoding(w) ==
  IF write_encoding_from = "FILE" /\ read_encoding.charset # "" THEN FromFile(w, read_encoding)
  ELSE w
init_write_terminator(w) ==
  IF write_terminator_from = "FILE" /\ read_encoding.terminator # <<>>
  THEN [w EXCEPT !.terminator = read_encoding.terminator] ELSE w

-----------------------------------------------------------------------------
EInit ==
  /\ config \in Tables /\ encodings = NoTable
  /\ read_encoding = [charset |-> "", encoding |-> NULL, width |-> "ONE_BYTE", bom |-> FALSE,
                      terminator |-> <<>>]
  /\ write_encoding = [charset |-> "ASCII", encoding |-> "ASCII", width |-> "ONE_BYTE",
                       bom |-> FALSE, terminator |-> SysNewline]
  /\ write_encoding_from = "FILE" /\ write_terminator_from = "SYS"
  /\ to_int = NULL /\ reading = NotReading
  /\ hndl = NoHandle /\ file = NoFile /\ settled = TRUE /\ torn = {} /\ outcome = "none"
  /\ parses = 0 /\ settings = 0 /\ files = 0

gedcom_init ==
  /\ encodings = NoTable
  /\ encodings' = TableOf(config)
  /\ UNCHANGED <<config, stateVars, fromVars, to_int, reading, hndl, file, settled, torn, outcome,
                 parses, settings, files>>

\* determine_encoding and lexer_init, before anything is parsed; what is
\* learnt of the file stays when the converter cannot be opened.
StartParse(f) ==
  /\ reading = NotReading /\ encodings # NoTable /\ parses < MaxParses
  /\ parses' = parses + 1
  /\ LET charset == IF f.width = "ONE_BYTE" THEN "ASCII" ELSE "UNICODE"
         encoding == get_encoding(charset, f.width)
         opened == CanConvert(encoding)
     IN /\ read_encoding' = [read_encoding EXCEPT
             !.bom = f.bom, !.width = f.width,
             !.charset = IF opened THEN charset ELSE @,
             !.encoding = IF opened THEN encoding ELSE @]
        /\ to_int' = IF opened THEN encoding ELSE NULL
        /\ reading' = IF opened THEN [at |-> "first line", file |-> f] ELSE NotReading
        /\ torn' = IF opened THEN torn \ {"read"} ELSE torn \cup {"read"}
  /\ outcome' = "none"
  /\ UNCHANGED <<encVars, write_encoding, fromVars, hndl, file, settled, settings, files>>

EndsLines(terminator) == \E i \in DOMAIN terminator : terminator[i] # "blank"

\* The end of the first line; blanks before the terminator belong to it, and
\* two characters of it are kept.
FirstLineEnds ==
  /\ reading.at = "first line" /\ EndsLines(reading.file.terminator)
  /\ read_encoding' = [read_encoding EXCEPT
       !.terminator = LET text == [i \in 1..reading.file.blanks |-> "blank"]
                                  \o reading.file.terminator
                      IN SubSeq(text, 1, IF Len(text) < 2 THEN Len(text) ELSE 2)]
  /\ reading' = [reading EXCEPT !.at = "header"]
  /\ UNCHANGED <<encVars, write_encoding, fromVars, to_int, hndl, file, settled, torn, outcome,
                 parses, settings, files>>

EncodingFor(charset, width) == get_encoding(charset, width)

\* HEAD.CHAR, or the character set that the compatibility mode puts there:
\* open_conv_to_internal keeps everything when it fails.
HeadChar ==
  /\ reading.at = "header" /\ reading.file.charset \cup reading.file.default # {}
  /\ LET charset == CHOOSE c \in (IF reading.file.charset # {} THEN reading.file.charset
                                 ELSE reading.file.default) : TRUE
         encoding == EncodingFor(charset, read_encoding.width)
         opened == CanConvert(encoding)
     IN /\ to_int' = IF opened THEN encoding ELSE to_int
        /\ read_encoding' = IF opened
                            THEN [read_encoding EXCEPT !.charset = Underscored(charset),
                                                       !.encoding = encoding]
                            ELSE read_encoding
        /\ reading' = [reading EXCEPT !.at = IF opened THEN "rest" ELSE "failed"]
  /\ UNCHANGED <<encVars, write_encoding, fromVars, hndl, file, settled, torn, outcome,
                 parses, settings, files>>

\* lexer_close, wherever the parser stopped.
EndParse ==
  /\ reading # NotReading
  /\ reading' = NotReading /\ to_int' = NULL
  /\ outcome' = IF reading.file = file /\ reading.at \in {"rest", "failed"}
                THEN IF /\ read_encoding.encoding = file.encoding
                        /\ {read_encoding.charset} = file.charset
                        /\ read_encoding.width = file.width
                        /\ read_encoding.terminator = file.terminator
                     THEN "right" ELSE "wrong"
                ELSE "none"
  /\ UNCHANGED <<encVars, stateVars, fromVars, hndl, file, settled, torn,
                 parses, settings, files>>

-----------------------------------------------------------------------------
Setting == settings < MaxSettings /\ settings' = settings + 1 /\ settled' = (hndl = NoHandle)

\* The source of the encoding is set even if the encoding is refused.
gedcom_write_set_encoding(from, charset, width, bom) ==
  /\ Setting
  /\ LET oneByteOr == IF charset = "UNICODE" THEN width ELSE "ONE_BYTE"
         encoding == get_encoding(charset, oneByteOr)
         refused == encoding = NULL \/ (charset = "UNICODE" /\ width = "ONE_BYTE")
     IN write_encoding' = IF from # "MANUAL" \/ refused THEN write_encoding
                          ELSE [write_encoding EXCEPT !.charset = Underscored(charset),
                                                      !.encoding = encoding,
                                                      !.width = oneByteOr, !.bom = bom]
  /\ write_encoding_from' = IF from = "SYS" THEN write_encoding_from ELSE from
  /\ torn' = IF write_encoding' = write_encoding THEN torn ELSE torn \ {"write"}
  /\ UNCHANGED <<encVars, read_encoding, write_terminator_from, to_int, reading, hndl, file,
                 outcome, parses, files>>

gedcom_write_set_line_terminator(from, end) ==
  /\ Setting
  /\ write_terminator_from' = from
  /\ write_encoding' = CASE from = "SYS" -> [write_encoding EXCEPT !.terminator = SysNewline]
                         [] from = "MANUAL" -> [write_encoding EXCEPT !.terminator = end]
                         [] OTHER -> write_encoding
  /\ UNCHANGED <<encVars, read_encoding, write_encoding_from, to_int, reading, hndl, file, torn,
                 outcome, parses, files>>

\* The byte order mark that is written: it depends on the width that was set.
Mark(w) ==
  CASE ~w.bom -> "none"
    [] w.bom /\ w.width # "ONE_BYTE" -> w.width
    [] w.bom /\ w.width = "ONE_BYTE" /\ w.encoding = "UTF-8" -> "UTF-8"
    [] OTHER -> "none"

\* A file that open() refuses has a handle all the same: its descriptor, -1,
\* is not 0.
gedcom_write_open(refused) ==
  /\ hndl = NoHandle /\ files < MaxFiles
  /\ files' = files + 1 /\ settled' = TRUE
  /\ LET w == init_write_terminator(init_write_encoding(write_encoding))
     IN /\ write_encoding' = w
        /\ torn' = CASE w = init_write_terminator(write_encoding) -> torn
                     [] w # init_write_terminator(write_encoding) /\ "read" \in torn ->
                          torn \cup {"write"}
                     [] OTHER -> torn \ {"write"}
        /\ hndl' = IF ~CanConvert(w.encoding) THEN NoHandle
                   ELSE [conv |-> w.encoding, mark |-> Mark(w), charset |-> "", refused |-> refused,
                         torn |-> "write" \in torn']
  /\ UNCHANGED <<encVars, read_encoding, fromVars, to_int, reading, file, outcome,
                 parses, settings>>

\* The header's CHAR is forced to the character set that is configured when
\* it is written.
write_encoding_value ==
  /\ hndl # NoHandle /\ hndl.charset = ""
  /\ hndl' = [hndl EXCEPT !.charset = write_encoding.charset]
  /\ UNCHANGED <<encVars, stateVars, fromVars, to_int, reading, file, settled, torn, outcome,
                 parses, settings, files>>

\* The terminator of the lines is that of write_encoding, not the handle's own.
gedcom_write_close ==
  /\ hndl # NoHandle /\ hndl.charset # ""
  /\ hndl' = NoHandle
  /\ file' = IF hndl.refused THEN NoFile
             ELSE [charset |-> {hndl.charset}, default |-> {}, encoding |-> hndl.conv,
                   width |-> IF hndl.mark \in Widths THEN hndl.mark ELSE WidthOf(hndl.conv),
                   bom |-> hndl.mark # "none",
                   terminator |-> write_encoding.terminator, blanks |-> 0,
                   settled |-> settled /\ ~hndl.torn]
  /\ settled' = TRUE /\ outcome' = "none"
  /\ UNCHANGED <<encVars, stateVars, fromVars, to_int, reading, torn, parses, settings, files>>

ENext ==
  \/ gedcom_init
  \/ \E f \in Inputs : StartParse(f)
  \/ file # NoFile /\ StartParse(file)
  \/ FirstLineEnds \/ HeadChar \/ EndParse
  \/ \E charset \in {"UNICODE", "ASCII", "UTF-8", "IBM WINDOWS"}, width \in Widths, bom \in BOOLEAN :
       gedcom_write_set_encoding("MANUAL", charset, width, bom)
  \/ \E from \in {"FILE", "SYS"} : gedcom_write_set_encoding(from, "", "ONE_BYTE", FALSE)
  \/ \E end \in Terminators : gedcom_write_set_line_terminator("MANUAL", end)
  \/ \E from \in {"FILE", "SYS"} : gedcom_write_set_line_terminator(from, <<>>)
  \/ \E refused \in BOOLEAN : gedcom_write_open(refused)
  \/ write_encoding_value \/ gedcom_write_close

ESpec == EInit /\ [][ENext]_evars

-----------------------------------------------------------------------------
\* Unless the first conversion of a file could not be opened, what is known
\* of a file is of one file, and what is configured fits together: the
\* encoding is that of its character set and width.  The lexer has its
\* converter while a file is parsed.
StatesAgree ==
  /\ read_encoding.charset # "" /\ "read" \notin torn =>
       read_encoding.encoding = get_encoding(read_encoding.charset, read_encoding.width)
  /\ "write" \notin torn => write_encoding.width = WidthOf(write_encoding.encoding)
  /\ to_int = IF reading = NotReading THEN NULL ELSE read_encoding.encoding

\* A file that was written while nothing was set is read in the encoding it
\* was written in, with its width and its line ends.
ReadAsWritten == outcome = "wrong" => ~file.settled

EncodingsAgree == StatesAgree /\ ReadAsWritten
=============================================================================
