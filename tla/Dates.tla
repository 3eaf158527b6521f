------------------------------- MODULE Dates --------------------------------
(***************************************************************************)
(* Dates (gedcom/date.c, gedcom_date.y, gedcom_date.lex): a program reads  *)
(* date lines into a date_value, changes fields of it, and lets            *)
(* gedcom_normalize_date bring the others in line.  Numbers stand for      *)
(* their digits: a day string is a number, a month string the position in  *)
(* the month names, a year string one year or two around a slash.          *)
(***************************************************************************)
EXTENDS Calendar, Almanac

CONSTANTS Numbers, \* the [cal, year, month, day, year_type] a program sets
          Years,   \* the year strings a program sets
          Spans,   \* the <<first, last>> serial day numbers a program sets
          Lines,   \* the date lines read
          LastSdns, \* the days up to which a program walks
          MaxCalls  \* calls, the walk not counted

VARIABLES
  val,    \* the program's date_value
  start,  \* the start condition of the date lexer, INITIAL or PHRASE
  double, \* compat_mode(C_DOUBLE_DATES_4)
  calls,  \* the number of calls
  last    \* the last call: [op, result, dates of the line]

vars == <<val, start, double, calls, last>>

None == -1
NoText == <<>>
NamesOf(cal) == IF cal = "JULIAN" THEN "GREGORIAN" ELSE cal
TwoDates == {"BETWEEN", "FROM_TO"}
DateValueTypes == {"NO_MODIFIER", "BEFORE", "AFTER", "BETWEEN", "FROM", "TO", "FROM_TO", "ABOUT",
                   "CALCULATED", "ESTIMATED", "INTERPRETED", "PHRASE"}

MonthTexts == {NoText} \cup (Calendars \X (1..13))
YearTexts == {y \in Seq(Int) : Len(y) \in {0, 1, 3}}
YearTypes == {"SINGLE", "DOUBLE"}
DateTexts == [cal : Calendars \cup {"UNKNOWN"}, day : Int, month : MonthTexts, year : YearTexts]
DateLines == [mod : DateValueTypes, dates : Seq(DateTexts),
              phrase : {"none", "closed", "open", "empty", "broken"}, junk : BOOLEAN]

ASSUME CallsAssumption == MaxCalls \in Nat
ASSUME ValuesAssumption ==
  /\ Numbers \subseteq [cal : Calendars, year : Int, month : Int, day : Int, year_type : YearTypes]
  /\ Years \subseteq YearTexts
  /\ Spans \subseteq Int \X Int
ASSUME LinesAssumption == Lines \subseteq DateLines /\ \A l \in Lines : l.phrase # "none" => ~l.junk

init_date == [cal |-> "UNKNOWN", day_str |-> None, month_str |-> NoText, year_str |-> NoText,
              day |-> None, month |-> None, year |-> None, year_type |-> "SINGLE",
              type |-> "UNRECOGNIZED", sdn1 |-> None, sdn2 |-> None]

\* gedcom_new_date_value(NULL)
NewDateValue == [type |-> "NO_MODIFIER", date1 |-> init_date, date2 |-> init_date, phrase |-> ""]

Refused(d) == [result |-> 1, date |-> d]

(***************************************************************************)
(* numbers_to_sdn: a date without day or month stands for all its days, up *)
(* to the day before the first day after them.                             *)
(***************************************************************************)
FirstDay(d) == <<d.year, IF d.month = None THEN 1 ELSE d.month,
                 IF d.month = None \/ d.day = None THEN 1 ELSE d.day>>
DayAfter(d) == IF d.month = None THEN <<d.year + 1, 1, 1>>
               ELSE IF d.day # None THEN <<d.year, d.month, d.day>>
               ELSE IF d.month + 1 > max_month[d.cal] THEN <<d.year + 1, 1, 1>>
               ELSE <<d.year, d.month + 1, 1>>
Sdn(cal, date) == checkedCalToSdn(cal, date[1], date[2], date[3])

\* (Variant: the end is the first day after.)
FirstDayAfter(d) == Sdn(d.cal, DayAfter(d))
LastDay(d) == LET sdn == Sdn(d.cal, DayAfter(d)) IN IF sdn = -1 THEN -1 ELSE sdn - 1

WithSdns(d, sdn1, sdn2) ==
  LET bounded == d.day = None \/ d.month = None \/ d.year = None
      typed == [d EXCEPT !.type = IF bounded THEN "BOUNDED" ELSE "EXACT", !.sdn1 = sdn1]
      noYear == bounded /\ d.month # None /\ d.day # None
  IN IF sdn1 = -1 THEN Refused(typed)
     ELSE IF ~bounded THEN [result |-> 0, date |-> typed]
     ELSE [result |-> IF sdn2 = -1 \/ noYear THEN 1 ELSE 0,
           date |-> [typed EXCEPT !.sdn2 = sdn2]]

numbers_to_sdn(d) ==
  IF d.cal = "UNKNOWN" THEN Refused([d EXCEPT !.type = "UNRECOGNIZED"])
  ELSE WithSdns(d, Sdn(d.cal, FirstDay(d)), LastDay(d))

(***************************************************************************)
(* sdn_to_numbers: keeps what the first and the last day have in common.   *)
(***************************************************************************)
WithNumbers(d, begin, end) ==
  LET With(date) == [d EXCEPT !.year = date[1], !.month = date[2], !.day = date[3]]
      common == IF begin = end THEN begin
                ELSE IF begin[2] = end[2] THEN <<begin[1], begin[2], None>>
                ELSE <<begin[1], None, None>>
  IN IF ~SdnIsInCalendar(begin) THEN Refused(With(begin))
     ELSE IF d.type = "EXACT" /\ d.sdn2 # -1 THEN Refused(With(begin))
     ELSE IF d.type # "BOUNDED" THEN [result |-> 0, date |-> With(begin)]
     ELSE IF d.sdn2 <= 0 \/ d.sdn2 <= d.sdn1 THEN Refused(With(begin))
     ELSE IF ~SdnIsInCalendar(end) \/ begin[1] # end[1] THEN Refused(With(begin))
     ELSE [result |-> 0, date |-> With(common)]

sdn_to_numbers(d) ==
  IF d.cal = "UNKNOWN" \/ d.sdn1 <= 0 THEN Refused(d)
  ELSE WithNumbers(d, from_sdn_func(d.cal, d.sdn1), from_sdn_func(d.cal, d.sdn2))

(***************************************************************************)
(* Strings.  In the PHRASE condition the lexer takes any number for TEXT;  *)
(* the rules of the months come before that one and match as they always   *)
(* do.                                                                     *)
(***************************************************************************)
_get_year_num(y) ==
  IF Len(y) = 1 THEN IF y[1] <= 9999999 THEN y[1] ELSE -1
  ELSE IF y[3] = 2 /\ y[1] <= 9999 /\ (y[1] + 1) % 100 = y[2] THEN y[1] + 1 ELSE -1
YearType(y) == IF Len(y) = 1 THEN "SINGLE" ELSE "DOUBLE"
IsYear(y) == start = "INITIAL" /\ y # NoText /\ \A i \in DOMAIN y : y[i] >= 0
get_year_num(y) == IF IsYear(y) THEN _get_year_num(y) ELSE -1
_get_day_num(s) == IF s <= 99 THEN s ELSE -1
get_day_num(s) == IF start = "INITIAL" /\ s >= 0 THEN _get_day_num(s) ELSE -1
get_month_num(cal, s) == IF s[1] = NamesOf(cal) THEN s[2] ELSE -1

strings_to_numbers(d) ==
  LET n == [day |-> IF d.day_str = None THEN -1 ELSE get_day_num(d.day_str),
            month |-> IF d.month_str = NoText THEN -1 ELSE get_month_num(d.cal, d.month_str),
            year |-> get_year_num(d.year_str)]
      bad == \/ d.day_str # None /\ n.day = -1
             \/ d.month_str # NoText /\ n.month = -1
             \/ n.year = -1
      type == IF IsYear(d.year_str) THEN YearType(d.year_str) ELSE d.year_type
  IN IF d.cal = "UNKNOWN" THEN Refused(d)
     ELSE [result |-> IF bad THEN 1 ELSE 0,
           date |-> [d EXCEPT !.day = n.day, !.month = n.month, !.year = n.year,
                              !.year_type = type]]

Digits(n) == IF n < 10 THEN 1 ELSE 2

month_name(d) == IF d.month \in 1..max_month[d.cal] THEN <<NamesOf(d.cal), d.month>>
                 ELSE d.month_str
\* (Variant: a double year is written with the second year first.)
SecondYearFirst(d) == IF d.year_type = "SINGLE" THEN <<d.year>>
                      ELSE <<d.year, d.year % 100, Digits(d.year % 100)>>
YearString(d) == IF d.year_type = "SINGLE" THEN <<d.year>>
                 ELSE <<d.year - 1, d.year % 100, Digits(d.year % 100)>>

numbers_to_strings(d) ==
  IF d.cal = "UNKNOWN" THEN Refused(d)
  ELSE [result |-> 0, date |-> [d EXCEPT !.day_str = IF d.day # None THEN d.day ELSE @,
                                         !.month_str = month_name(d), !.year_str = YearString(d)]]

(***************************************************************************)
(* gedcom_normalize_date: both conversions run, whatever the first one     *)
(* returned.                                                               *)
(***************************************************************************)
Result(one, two) == IF one.result + two.result > 0 THEN 1 ELSE 0
Both(one, two) == [result |-> Result(one, two), date |-> two.date]

NormalizedDate(from, d) ==
  CASE from = "STRINGS" -> LET one == strings_to_numbers(d) IN Both(one, numbers_to_sdn(one.date))
    [] from = "NUMBERS" -> LET one == numbers_to_strings(d) IN Both(one, numbers_to_sdn(one.date))
    [] from = "SDN" -> LET one == sdn_to_numbers(d) IN Both(one, numbers_to_strings(one.date))

Normalized(v, one, two) ==
  IF v.type = "PHRASE" THEN [result |-> 0, val |-> v]
  ELSE [result |-> Result(one, two), val |-> [v EXCEPT !.date1 = one.date, !.date2 = two.date]]
gedcom_normalize_date(from, v) ==
  Normalized(v, NormalizedDate(from, v.date1),
             IF v.type \in TwoDates THEN NormalizedDate(from, v.date2)
             ELSE [result |-> 0, date |-> v.date2])

(***************************************************************************)
(* gedcom_parse_date.  A line is [mod, dates, phrase, junk]: its modifier, *)
(* the dates in it as [cal, day, month, year] of strings, what its         *)
(* brackets are ("none", "closed", "open"), and whether there is a token   *)
(* that belongs to no date.                                                *)
(***************************************************************************)
TextOf(line) == \* what the phrase of the line is when all of it is the phrase
  CASE line.phrase \in {"closed", "empty", "broken"} -> "brackets"
    [] line.dates = <<>> /\ line.mod = "NO_MODIFIER" /\ ~line.junk /\ line.phrase = "none" -> ""
    [] OTHER -> "words"

\* compat_double_date_check: "1815/1816", in the first of the two passes.
IsPair(w, pass) == /\ double /\ pass = 1 /\ w.cal = "GREGORIAN"
                   /\ Len(w.year) = 3 /\ w.year[3] = 4
WellFormed(w, pass) ==
  /\ w.cal \in Calendars
  /\ w.day # None => w.month # NoText /\ _get_day_num(w.day) # -1
  /\ w.month # NoText => w.month[1] = NamesOf(w.cal)
  /\ w.year # NoText /\ (Len(w.year) = 3 => w.cal = "GREGORIAN")
  /\ IsPair(w, pass) \/ _get_year_num(w.year) # -1

\* The grammar's actions write into date_s, which gedcom_parse_date
\* initialises once: a date keeps what it does not set from the one before.
ReadDate(s, w, pass) ==
  LET day == IF w.day = None THEN s ELSE [s EXCEPT !.day_str = w.day, !.day = w.day]
      month == IF w.month = NoText THEN day
               ELSE [day EXCEPT !.month_str = w.month, !.month = w.month[2]]
      year == IF IsPair(w, pass) THEN month
              ELSE [month EXCEPT !.year_str = w.year, !.year = _get_year_num(w.year),
                                 !.year_type = YearType(w.year)]
  IN [year EXCEPT !.cal = w.cal]

DatesOf(mod) == IF mod = "PHRASE" THEN 0 ELSE IF mod \in TwoDates THEN 2 ELSE 1
PhraseFits(line) == line.phrase = (IF line.mod \in {"INTERPRETED", "PHRASE"} THEN "closed" ELSE "none")

\* One pass of gedcom_date_parse, from lexer condition st and date_s s.
Parse(line, st, s, pass) ==
  LET ok == /\ st = "INITIAL" /\ ~line.junk /\ PhraseFits(line)
            /\ Len(line.dates) = DatesOf(line.mod)
            /\ \A i \in DOMAIN line.dates : WellFormed(line.dates[i], pass)
      one == ReadDate(s, line.dates[1], pass)
      two == ReadDate(one, line.dates[2], pass)
      phrase == IF line.phrase = "closed" THEN "words" ELSE ""
  IN IF ~ok THEN [val |-> [NewDateValue EXCEPT !.type = "PHRASE", !.phrase = TextOf(line)], s |-> s]
     ELSE CASE DatesOf(line.mod) = 0 ->
                 [val |-> [NewDateValue EXCEPT !.type = "PHRASE", !.phrase = phrase], s |-> s]
            [] DatesOf(line.mod) = 1 ->
                 [val |-> [NewDateValue EXCEPT !.type = line.mod, !.date1 = one, !.phrase = phrase],
                  s |-> one]
            [] DatesOf(line.mod) = 2 ->
                 [val |-> [NewDateValue EXCEPT !.type = line.mod, !.date1 = one, !.date2 = two],
                  s |-> two]

\* An opening bracket switches the condition; only the closing bracket of a
\* phrase in its place is still read.
StartAfter(line, st) ==
  LET expected == Len(line.dates) = DatesOf(line.mod) /\ line.mod \in {"INTERPRETED", "PHRASE"}
  IN IF line.phrase = "none" THEN st
     ELSE IF st = "INITIAL" /\ expected /\ line.phrase # "open" THEN "INITIAL"
     ELSE "PHRASE"

\* compat_double_date_final: "1815/1816" becomes "BET 1815 AND 1816".
Converted(line, v) ==
  LET w == line.dates[1]
      Year(y) == [cal |-> "GREGORIAN", day |-> None, month |-> NoText, year |-> <<y>>]
  IN IF /\ v.type \in {"NO_MODIFIER", "ABOUT"} /\ IsPair(w, 1)
        /\ v.date1.day = None /\ v.date1.month = None
     THEN [mod |-> "BETWEEN", dates |-> <<Year(w.year[1]), Year(w.year[2])>>, phrase |-> "none",
           junk |-> FALSE]
     ELSE line

Dated(v, one, two, line) ==
  LET dated == [v EXCEPT !.date1 = one.date, !.date2 = two.date]
  IN IF one.result + two.result = 0 THEN dated
     ELSE [dated EXCEPT !.type = "PHRASE", !.phrase = TextOf(line)]
DatesFound(v, line) ==
  LET Found(d) == IF d.cal = "UNKNOWN" THEN [result |-> 0, date |-> d] ELSE numbers_to_sdn(d)
  IN Dated(v, Found(v.date1), Found(v.date2), line)

gedcom_parse_date(line, st) ==
  LET first == Parse(line, st, init_date, 1)
      again == IF first.val.type = "PHRASE" THEN line ELSE Converted(line, first.val)
  IN DatesFound(IF double THEN Parse(again, StartAfter(line, st), first.s, 2).val ELSE first.val,
                again)

(***************************************************************************)
(* gedcom_date_to_string; a date that is not normalized is left out.       *)
(***************************************************************************)
write_date(d) ==
  IF d.year_str = NoText \/ d.year <= 0 \/ d.sdn1 <= 0 THEN <<>>
  ELSE <<[cal |-> d.cal, day |-> d.day_str, month |-> d.month_str, year |-> d.year_str]>>
gedcom_date_to_string(v) ==
  [mod |-> v.type,
   dates |-> CASE DatesOf(v.type) = 0 -> <<>>
               [] DatesOf(v.type) = 1 -> write_date(v.date1)
               [] DatesOf(v.type) = 2 -> write_date(v.date1) \o write_date(v.date2),
   phrase |-> IF v.type \notin {"INTERPRETED", "PHRASE"} THEN "none"
              ELSE CASE v.phrase = "" -> "empty" [] v.phrase = "words" -> "closed"
                     [] v.phrase = "brackets" -> "broken",
   junk |-> FALSE]

-----------------------------------------------------------------------------
Init ==
  /\ val = NewDateValue
  /\ start = "INITIAL"
  /\ double \in BOOLEAN
  /\ calls = 0
  /\ last = [op |-> "new", result |-> 0, dates |-> <<>>]

Call == calls < MaxCalls /\ calls' = calls + 1

ParseDate(line) ==
  /\ Call
  /\ val' = gedcom_parse_date(line, start)
  /\ start' = StartAfter(line, start)
  /\ last' = [op |-> "parse", result |-> 0, dates |-> line.dates]
  /\ UNCHANGED double

\* The program sets fields of v and normalizes it.
Normalize(from, v, op) ==
  \E n \in {gedcom_normalize_date(from, v)} :
    /\ val' = n.val
    /\ last' = [op |-> op, result |-> n.result, dates |-> <<>>]
    /\ UNCHANGED <<start, double>>

\* A value with one date, which keeps the strings and sdn2 that d has.
OneDate(d) == [NewDateValue EXCEPT !.date1 = d]
SetNumbers(n) ==
  Call /\ Normalize("NUMBERS", OneDate([val.date1 EXCEPT !.cal = n.cal, !.year = n.year, !.month = n.month,
                                                 !.day = n.day, !.year_type = n.year_type]),
            "numbers")
SetYearText(y) == Call /\ Normalize("STRINGS", [val EXCEPT !.date1.year_str = y], "strings")
SetSpan(cal, span) ==
  Call /\ Normalize("SDN", OneDate([init_date EXCEPT !.cal = cal, !.sdn1 = span[1], !.sdn2 = span[2],
                                             !.type = IF span[2] = None THEN "EXACT" ELSE "BOUNDED"]),
            "sdn")
ChangeCalendar(cal) == Call /\ Normalize("SDN", [val EXCEPT !.date1.cal = cal], "calendar")
\* A walk through the days, after which the program makes no other call.
NextDay ==
  /\ last.op \in {"sdn", "next"}
  /\ val.date1.type = "EXACT" /\ val.date1.sdn1 \notin LastSdns
  /\ Normalize("SDN", [val EXCEPT !.date1.sdn1 = val.date1.sdn1 + 1], "next")
  /\ calls' = MaxCalls

Next ==
  \/ \E line \in Lines : ParseDate(line)
  \/ \E n \in Numbers : SetNumbers(n)
  \/ \E y \in Years : SetYearText(y)
  \/ \E cal \in Calendars, span \in Spans : SetSpan(cal, span)
  \/ \E cal \in Calendars : ChangeCalendar(cal)
  \/ NextDay

Spec == Init /\ [][Next]_vars

-----------------------------------------------------------------------------
\* Every variable keeps its type.
DateStructs == [cal : Calendars \cup {"UNKNOWN"}, day_str : Int, month_str : MonthTexts,
                year_str : YearTexts, day : Int, month : Int, year : Int, year_type : YearTypes,
                type : {"UNRECOGNIZED", "EXACT", "BOUNDED"}, sdn1 : Int, sdn2 : Int]
DateValues == [type : DateValueTypes, date1 : DateStructs, date2 : DateStructs,
               phrase : {"", "words", "brackets"}]
TypeOK ==
  /\ val \in DateValues
  /\ start \in {"INITIAL", "PHRASE"} /\ double \in BOOLEAN /\ calls \in 0..MaxCalls
  /\ last \in [op : {"new", "parse", "numbers", "strings", "sdn", "calendar", "next"},
               result : {0, 1}, dates : Seq(DateTexts)]

Converts == last.op \in {"numbers", "strings", "parse"} /\ last.result = 0 /\ val.type # "PHRASE"
Used == IF val.type \in TwoDates THEN {val.date1, val.date2} ELSE {val.date1}
Numbered(d) == <<d.year, d.month, d.day>>

\* A date without day or month is the whole month or year: its first and last
\* serial day numbers are in it, and the days around them are not.  Every
\* variable keeps its type.
InDate(d, sdn) ==
  LET date == from_sdn_func(d.cal, sdn)
  IN date[1] = d.year /\ (d.month = None \/ date[2] = d.month)
BoundsAreTight ==
  TypeOK /\ (Converts => \A d \in Used : d.type = "BOUNDED" =>
    /\ d.sdn1 <= d.sdn2 /\ InDate(d, d.sdn1) /\ InDate(d, d.sdn2)
    /\ ~InDate(d, d.sdn1 - 1) /\ ~InDate(d, d.sdn2 + 1))

\* Months and years whose end the library cannot compute: Adar of a common
\* Hebrew year (it looks for a second Adar), the end of the last French year,
\* and the year 1 B.C., which is also the sign of an unknown year.
NoEnd(d) ==
  \/ d.cal = "HEBREW" /\ d.month = 6 /\ ~LeapYear("HEBREW", d.year)
  \/ d.cal = "FRENCH_REV" /\ d.year = 14 /\ d.month \in {None, 13}
  \/ d.year = -1

\* Numbers convert to a serial day number if the day exists, and not if its
\* month is too short for it.
DatesConvert ==
  last.op = "numbers" =>
    LET d == val.date1
        first == FirstDay(d)
    IN /\ Exists(d.cal, first[1], first[2], first[3]) /\ (d.type = "EXACT" \/ ~NoEnd(d))
            => last.result = 0
       /\ last.result = 0 /\ d.type = "EXACT"
            => /\ HasMonth(d.cal, d.year, d.month)
               /\ \E n \in Lengths(d.cal, d.year, d.month) : d.day <= n

\* The day with the next serial day number is the next day of the calendar;
\* in the Hebrew calendar the year does not begin on a Sunday, Wednesday or
\* Friday, and Kislev is not the shorter one of it and Heshvan.
DaysFollow ==
  [][last'.op = "next" =>
       LET d == val'.date1
           date == Numbered(d)
       IN \/ 0 \in {val.date1.year, d.year} \/ val.date1.sdn1 <= 0 \* outside the calendar
          \/ /\ Follows(d.cal, Numbered(val.date1), date)
             /\ d.cal = "HEBREW" /\ d.month = 1 /\ d.day = 1
                  => DayOfWeek(d.sdn1) \notin {0, 3, 5}
             /\ d.cal = "HEBREW" /\ d.month = 4 /\ d.day = 1 /\ val.date1.day = 29
                  => SdnToJewish(d.sdn1 - 30)[3] = 29]_vars

\* A date that was read, or normalized, is written so that the library reads
\* the same date again.  Not so: a second year of one digit ("1804/5"), or
\* one in another calendar than the Gregorian; a day
\* or month that the program has taken away, whose string stays; a day of no
\* month, which the normalization lets pass; years before year 1, and years of
\* more digits than are read; and a date that takes the month of the date
\* before it, which is in another calendar.
Faithful(d) == /\ d.day = None => d.day_str = None
               /\ IF d.month = None THEN d.month_str = NoText
                  ELSE d.month_str # NoText /\ d.month_str[1] = NamesOf(d.cal)
               /\ d.day # None => d.month # None
               /\ d.year > 0 /\ d.year <= 9999999
               /\ Len(d.year_str) = 3 => d.year_str[3] = 2 /\ d.cal = "GREGORIAN" /\ d.year <= 10000
Same(a, b) == a.cal = b.cal /\ Numbered(a) = Numbered(b) /\ a.year_type = b.year_type
              /\ (last.op \in {"numbers", "strings", "parse"} /\ a.type = "EXACT" => a.sdn1 = b.sdn1)
SameValue(v) == /\ v.type = val.type /\ Same(val.date1, v.date1)
                /\ (val.type \in TwoDates => Same(val.date2, v.date2))
TakesNothing == \* date2 has all that date1 has
  val.type \in TwoDates => /\ val.date1.day # None => val.date2.day # None
                           /\ val.date1.month # None => val.date2.month # None
WrittenIsRead ==
  Converts /\ ~double /\ (\A d \in Used : Faithful(d)) /\ TakesNothing =>
    SameValue(gedcom_parse_date(gedcom_date_to_string(val), "INITIAL"))
=============================================================================
