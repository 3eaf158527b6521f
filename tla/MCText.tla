------------------------------- MODULE MCText -------------------------------
(***************************************************************************)
(* Small instances of four parts of the library that share no state: the   *)
(* encodings of files, values longer than a line, ages, and lines in       *)
(* ANSEL.  Each runs while the others are where they started.              *)
(***************************************************************************)
EXTENDS Encodings, LongValues, Ages, Ansel

\* Files of other programs.
MCFile(charset, width, bom, term, blanks) ==
  [charset |-> charset, default |-> {}, width |-> width, bom |-> bom, terminator |-> term,
   blanks |-> blanks]
MCInputs ==
  { MCFile({"ANSI"}, "ONE_BYTE", FALSE, <<"LF">>, 0),
    MCFile({"UNICODE"}, "TWO_BYTE_HILO", TRUE, <<"CR", "LF">>, 0),
    MCFile({"UNICODE"}, "TWO_BYTE_LOHI", FALSE, <<"LF">>, 1),
    MCFile({"UTF-8"}, "ONE_BYTE", TRUE, <<"LF">>, 0),
    MCFile({"IBM WINDOWS"}, "ONE_BYTE", FALSE, <<"LF">>, 0),
    MCFile({"UTF-8"}, "TWO_BYTE_HILO", FALSE, <<"LF">>, 0),
    MCFile({"ANSEL"}, "ONE_BYTE", FALSE, <<"LF">>, 2),
    MCFile({}, "ONE_BYTE", FALSE, <<"LF">>, 0),
    [MCFile({}, "ONE_BYTE", FALSE, <<"LF">>, 0) EXCEPT !.default = {"ANSI"}] }

\* The configuration of the library, whole and with a line that is wrong.
MCEntry(c, w, e) == [charset |-> c, width |-> w, encoding |-> e]
MCUnicode == << MCEntry("UNICODE", "TWO_BYTE_LOHI", "UCS-2LE"),
                MCEntry("UNICODE", "TWO_BYTE_HILO", "UCS-2BE") >>
MCOneByte == << MCEntry("ASCII", "ONE_BYTE", "ASCII"), MCEntry("ANSEL", "ONE_BYTE", "ANSEL"),
                MCEntry("ANSI", "ONE_BYTE", "CP1252"), MCEntry("IBM_WINDOWS", "ONE_BYTE", "CP1252"),
                MCEntry("UTF-8", "ONE_BYTE", "UTF-8") >>
MCWholeTable == MCUnicode \o MCOneByte
MCTables == {MCWholeTable, Append(MCOneByte, BadLine) \o MCUnicode}
MCSupported == {"UCS-2LE", "UCS-2BE", "ASCII", "CP1252", "UTF-8"}
MCSysNewline == <<"LF">>

\* The lines hold two to four bytes of a value.
MCStrings(chars, lengths) ==
  {FlattenSeq(s) : s \in UNION {[1..n -> chars] : n \in lengths}}
MCValues ==
  MCStrings({<<"a">>, <<" ">>, <<"nl">>, <<"@">>, <<"2", "+">>}, 0..3)
  \cup MCStrings({<<"a">>, <<" ">>}, 4..6)
  \cup MCStrings({<<"a">>, <<"nl">>}, {6})
  \cup MCStrings({<<"3", "+", "+">>, <<"a">>}, {5})
  \cup {<<"+">>, <<"2">>}
MCHandles == {[level |-> 1, term |-> 1], [level |-> 9, term |-> 2]}

MCParts == [n : {-1, 0, 3, INT_MAX, INT_MAX + 1, LONG_MAX + 1, -LONG_MAX - 2}, unit : {"Y", "M", "D", "other"}]
             \cup [n : {3}, unit : {"end"}]
MCAgeLines ==
  [mod : {"", "<"}, word : {"CHILD", "other"}, parts : {<<>>}]
  \cup {[mod |-> m, word |-> "", parts |-> <<p>>] : m \in {"", "<"}, p \in {r \in MCParts : r.n >= 0}}
  \cup {[mod |-> "", word |-> "", parts |-> <<p, q>>] : p \in {r \in MCParts : r.n = 3 /\ r.unit # "end"},
                                                       q \in MCParts}

MCTexts == UNION {[1..n -> {"a", "q", "space", "acute", "grave", "a_acute", "eth", "l_stroke", "snowman"}] : n \in 0..3}
MCSizes == {1, 3}

MCEncodingsRest == encodings = NoTable /\ config = MCWholeTable /\ settings = 0 /\ files = 0
MCLongRest == lat = "idle"
MCAgesRest == ages = 0
MCAnselRest == step = "idle" /\ inbuf = <<>> /\ lib = "libiconv"
MCInit == EInit /\ LInit /\ AInit /\ NInit
MCNext ==
  \/ MCLongRest /\ MCAgesRest /\ MCAnselRest /\ ENext /\ UNCHANGED <<lvars, avars, nvars>>
  \/ MCEncodingsRest /\ MCAgesRest /\ MCAnselRest /\ LNext /\ UNCHANGED <<evars, avars, nvars>>
  \/ MCEncodingsRest /\ MCLongRest /\ MCAnselRest /\ ANext /\ UNCHANGED <<evars, lvars, nvars>>
  \/ MCEncodingsRest /\ MCLongRest /\ MCAgesRest /\ NNext /\ UNCHANGED <<evars, lvars, avars>>
MCSpec == MCInit /\ [][MCNext]_<<evars, lvars, avars, nvars>> /\ LFairness
=============================================================================
