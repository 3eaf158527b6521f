------------------------------ MODULE MCDates -------------------------------
(* Dates at the edges of the four calendars. *)
EXTENDS Dates

N(cal, y, m, d) == [cal |-> cal, year |-> y, month |-> m, day |-> d, year_type |-> "SINGLE"]
MCNumbers ==
  {N(c, y, m, d) : c \in {"GREGORIAN", "JULIAN"}, y \in {-4713, -1, 1900, 2000},
                   m \in {-1, 2, 12, 13}, d \in {-1, 1, 29, 31}}
  \cup {N("HEBREW", y, m, d) : y \in {5762, 5763}, m \in {-1, 2, 6, 7, 13, 14}, d \in {-1, 1, 30}}
  \cup {N("FRENCH_REV", y, m, d) : y \in {3, 14, 15}, m \in {-1, 12, 13}, d \in {-1, 5, 6}}
  \cup {[N("GREGORIAN", y, 3, 20) EXCEPT !.year_type = "DOUBLE"] : y \in {1678, 1704}}

MCYears == {<<>>, <<1990>>, <<12345678>>, <<1677, 78, 2>>, <<1677, 79, 2>>}
MCSpans == {<<n, -1>> : n \in {0, 347998, 1721420, 2375839, 2380900, 2415000, 2451545}}
             \cup {<<2451545, n>> : n \in {2451545, 2451560, 2451600, 2452000}}
MCLastSdns == {90, 348500, 1721800, 2376500, 2381000, 2415600, 2453200}

W(cal, d, m, y) == [cal |-> cal, day |-> d, month |-> m, year |-> y]
G(d, m, y) == W("GREGORIAN", d, IF m = 0 THEN <<>> ELSE <<"GREGORIAN", m>>, y)
L(mod, dates, phrase) == [mod |-> mod, dates |-> dates, phrase |-> phrase, junk |-> FALSE]
MCDatesRead ==
  {G(-1, 0, <<1900>>), G(-1, 3, <<1900>>), G(3, 3, <<1900>>), G(31, 2, <<1900>>), G(3, 0, <<1900>>),
   G(-1, 0, <<1815, 1816, 4>>), G(-1, 3, <<1815, 1816, 4>>), G(3, 3, <<1677, 78, 2>>),
   G(100, 3, <<1900>>), G(3, 3, <<>>), W("HEBREW", -1, <<"HEBREW", 6>>, <<5763>>),
   W("HEBREW", 1, <<"HEBREW", 5>>, <<4>>), W("JULIAN", 3, <<"GREGORIAN", 3>>, <<1500>>),
   W("FRENCH_REV", 6, <<"FRENCH_REV", 13>>, <<3>>), W("UNKNOWN", -1, <<>>, <<5>>)}
MCFirst == {d \in MCDatesRead : d.day < 31 /\ d.year # <<>> /\ d.cal # "UNKNOWN"
                              /\ (d.day # -1 => d.month # <<>>)}
MCLines ==
  {L(mod, <<d>>, "none") : mod \in {"NO_MODIFIER", "ABOUT"}, d \in MCDatesRead}
  \cup {L("FROM_TO", <<d, e>>, "none") : d \in MCFirst, e \in MCFirst}
  \cup {L("BETWEEN", <<d, d>>, "none") : d \in MCFirst}
  \cup {L("INTERPRETED", <<G(3, 3, <<1900>>)>>, p) : p \in {"none", "closed", "open", "empty", "broken"}}
  \cup {L("PHRASE", <<>>, p) : p \in {"closed", "open", "empty", "broken"}}
  \cup {L("ABOUT", <<G(3, 3, <<1900>>)>>, "closed"), L("NO_MODIFIER", <<>>, "none")}
  \cup {[L("BEFORE", <<G(3, 3, <<1900>>)>>, "none") EXCEPT !.junk = TRUE]}
=============================================================================
