------------------------------ MODULE Calendar ------------------------------
(***************************************************************************)
(* The conversions between serial day numbers (SDN) and the dates of four  *)
(* calendars (gedcom/calendar/*.c), and the checks that date.c puts around *)
(* them.  A date is <<year, month, day>>; there is no year 0.  The values  *)
(* stay below 2^31, the largest being the 32 bits that the molad is        *)
(* computed in.                                                            *)
(***************************************************************************)
EXTENDS Integers, Sequences

NoDate == <<0, 0, 0>> \* of an SDN outside the calendar

-----------------------------------------------------------------------------
(* Gregorian and Julian: years from March on, then counted from 1 January. *)

DaysPer5Months == 153
DaysPer4Years == 1461
DaysPer400Years == 146097

FromMarch(year, dayOfYear) ==
  LET temp == dayOfYear * 5 - 3
      month == temp \div DaysPer5Months
      day == (temp % DaysPer5Months) \div 5 + 1
      y == (IF month < 10 THEN year ELSE year + 1) - 4800
  IN <<IF y <= 0 THEN y - 1 ELSE y, IF month < 10 THEN month + 3 ELSE month - 9, day>>

\* The years since 1 March 4801 B.C., and the months since March.
YearFromMarch(year, month) == year + (IF year < 0 THEN 4801 ELSE 4800)
                                   - (IF month > 2 THEN 0 ELSE 1)
MonthFromMarch(month) == IF month > 2 THEN month - 3 ELSE month + 9
DaysBefore(month) == (MonthFromMarch(month) * DaysPer5Months + 2) \div 5

SdnToGregorian(sdn) ==
  LET temp == (sdn + 32045) * 4 - 1
      rest == ((temp % DaysPer400Years) \div 4) * 4 + 3
  IN IF sdn <= 0 THEN NoDate
     ELSE FromMarch((temp \div DaysPer400Years) * 100 + rest \div DaysPer4Years,
                    (rest % DaysPer4Years) \div 4 + 1)

GregorianToSdn(year, month, day) ==
  LET y == YearFromMarch(year, month)
      invalid == year = 0 \/ year < -4714 \/ month \notin 1..12 \/ day \notin 1..31
      early == year = -4714 /\ (month < 11 \/ (month = 11 /\ day < 25))
  IN IF invalid \/ early THEN 0
     ELSE ((y \div 100) * DaysPer400Years) \div 4 + ((y % 100) * DaysPer4Years) \div 4
          + DaysBefore(month) + day - 32045

SdnToJulian(sdn) ==
  LET temp == (sdn + 32083) * 4 - 1
  IN IF sdn <= 0 THEN NoDate
     ELSE FromMarch(temp \div DaysPer4Years, (temp % DaysPer4Years) \div 4 + 1)

JulianToSdn(year, month, day) ==
  LET invalid == year = 0 \/ year < -4713 \/ month \notin 1..12 \/ day \notin 1..31
      early == year = -4713 /\ month = 1 /\ day = 1
  IN IF invalid \/ early THEN 0
     ELSE (YearFromMarch(year, month) * DaysPer4Years) \div 4 + DaysBefore(month) + day - 32083

-----------------------------------------------------------------------------
(* French republican: twelve months of 30 days and the extra days.         *)

SdnToFrench(sdn) ==
  LET temp == (sdn - 2375474) * 4 - 1
      dayOfYear == (temp % DaysPer4Years) \div 4
  IN IF sdn < 2375840 \/ sdn > 2380952 THEN NoDate
     ELSE <<temp \div DaysPer4Years, dayOfYear \div 30 + 1, (dayOfYear % 30) + 1>>

FrenchToSdn(year, month, day) ==
  IF year \notin 1..14 \/ month \notin 1..13 \/ day \notin 1..30 THEN 0
  ELSE (year * DaysPer4Years) \div 4 + (month - 1) * 30 + day + 2375474

-----------------------------------------------------------------------------
(* Hebrew.  A molad is [day, halakim], the time of a new moon.             *)

HalakimPerDay == 25920
HalakimPerLunarCycle == 29 * HalakimPerDay + 13753
HalakimPerMetonicCycle == HalakimPerLunarCycle * (12 * 19 + 7)
JewishOffset == 347997

LeapYears == {2, 5, 7, 10, 13, 16, 18} \* metonic years, from 0
monthsPerYear(metonicYear) == IF metonicYear \in LeapYears THEN 13 ELSE 12
yearOffset == <<0, 12, 24, 37, 49, 61, 74, 86, 99, 111, 123, 136, 148, 160, 173, 185, 197, 210,
                222>>

Later(molad, halakim) ==
  LET h == molad.halakim + halakim
  IN [day |-> molad.day + h \div HalakimPerDay, halakim |-> h % HalakimPerDay]

\* (Variant: the day of the week is not moved with the day.)
Tishri1ForgetsDow(metonicYear, molad) ==
  LET dow == molad.day % 7
  IN molad.day + (IF molad.halakim >= 18 * 1080 THEN 1 ELSE 0)
               + (IF dow \in {0, 3, 5} THEN 1 ELSE 0)

\* Rosh Ha-Shanah: the day of the molad, put off by rules 2, 3 and 4, then 1.
Tishri1(metonicYear, molad) ==
  LET dow == molad.day % 7
      late == \/ molad.halakim >= 18 * 1080
              \/ metonicYear \notin LeapYears /\ dow = 2 /\ molad.halakim >= 9 * 1080 + 204
              \/ (metonicYear + 18) % 19 \in LeapYears /\ dow = 1
                 /\ molad.halakim >= 15 * 1080 + 589
  IN IF late THEN molad.day + (IF (dow + 1) % 7 \in {0, 3, 5} THEN 2 ELSE 1)
     ELSE molad.day + (IF dow \in {0, 3, 5} THEN 1 ELSE 0)

\* In two halves of 16 bits, since the product does not fit 32 bits.
MoladOfMetonicCycle(cycle) ==
  LET low == 31524 + cycle * (HalakimPerMetonicCycle % 65536)
      high == low \div 65536 + cycle * (HalakimPerMetonicCycle \div 65536)
      rest == (high % HalakimPerDay) * 65536 + (low % 65536)
  IN [day |-> (high \div HalakimPerDay) * 65536 + rest \div HalakimPerDay,
      halakim |-> rest % HalakimPerDay]

\* The estimate of the cycle may be too low, and is corrected; then the years
\* of the cycle are gone through.
Molads == [day : Int, halakim : Int]
CorrectCycle(inputDay) ==
  LET correct[s \in [cycle : Nat, molad : Molads]] ==
        IF s.molad.day < inputDay - 6940 + 310
        THEN correct[[cycle |-> s.cycle + 1, molad |-> Later(s.molad, HalakimPerMetonicCycle)]]
        ELSE s
  IN correct
ClosestYear(inputDay) ==
  LET closest[s \in [year : 0..18, molad : Molads]] ==
        IF s.year < 18 /\ s.molad.day <= inputDay - 74
        THEN closest[[year |-> s.year + 1,
                      molad |-> Later(s.molad, HalakimPerLunarCycle * monthsPerYear(s.year))]]
        ELSE s
  IN closest

\* The molad at the start of the year when the day is in its first two
\* months, at its end when it is in the last nine.
FindTishriMolad(inputDay) ==
  LET estimate == (inputDay + 310) \div 6940
      start == CorrectCycle(inputDay)[[cycle |-> estimate, molad |-> MoladOfMetonicCycle(estimate)]]
      closest == ClosestYear(inputDay)[[year |-> 0, molad |-> start.molad]]
  IN [cycle |-> start.cycle, year |-> closest.year, molad |-> closest.molad]

FindStartOfYear(year) ==
  LET y == (year - 1) % 19
      molad == Later(MoladOfMetonicCycle((year - 1) \div 19),
                     HalakimPerLunarCycle * yearOffset[y + 1])
  IN [year |-> y, molad |-> molad, tishri1 |-> Tishri1(y, molad)]

NextTishri1(y, molad) ==
  Tishri1((y + 1) % 19, Later(molad, HalakimPerLunarCycle * monthsPerYear(y)))

\* Heshvan and Kislev need the length of the year.
LongHeshvan(yearLength) == yearLength \in {355, 385}
HeshvanOrKislev(year, day, yearLength) ==
  LET heshvan == IF LongHeshvan(yearLength) THEN 30 ELSE 29
  IN IF day <= heshvan THEN <<year, 2, day>> ELSE <<year, 3, day - heshvan>>

\* The last days of month m, counted back from Tishri 1 of the next year.
JewishMonthEnd == [m \in 8..13 |-> <<178, 148, 119, 89, 60, 30>>[m - 7]]

\* The month 7 to 4 that a day of month 7 (of a common year: 6) counts back
\* to, or one below day 1 of month 4.
BackToTevet(year, day) ==
  LET leap == monthsPerYear((year - 1) % 19) = 13
  IN CASE leap /\ day > 0 -> <<7, day>>
       [] leap /\ day \in -29..0 -> <<6, day + 30>>
       [] leap /\ day \in -59..-30 -> <<5, day + 60>>
       [] leap /\ day < -59 -> <<4, day + 89>>
       [] ~leap /\ day > 0 -> <<6, day>>
       [] ~leap /\ day \in -29..0 -> <<5, day + 30>>
       [] OTHER -> <<4, day + 59>>

\* A day after Tishri 1 of its year, and one before Tishri 1 of the next year,
\* where days is how many after or before, and length that of the year.
AfterTishri1(year, days, length) ==
  CASE days < 30 -> <<year, 1, days + 1>>
    [] days \in 30..58 -> <<year, 2, days - 29>>
    [] OTHER -> HeshvanOrKislev(year, days - 29, length)
InLastMonths(year, days) ==
  LET late == CHOOSE m \in 8..13 : /\ days > -JewishMonthEnd[m] \/ m = 8
                                   /\ m = 13 \/ days <= -JewishMonthEnd[m + 1]
  IN <<year, late, days + JewishMonthEnd[late]>>
BeforeTishri1(year, days, tevet, length) ==
  CASE days >= -177 -> InLastMonths(year, days)
    [] days < -177 /\ tevet[2] > 0 -> <<year, tevet[1], tevet[2]>>
    [] OTHER -> HeshvanOrKislev(year, days + length - 29, length)

JewishDate(inputDay, found, tishri1) ==
  LET year == found.cycle * 19 + found.year
      ThisTishri1(before) == Tishri1(before.year, before.molad)
  IN IF inputDay >= tishri1
     THEN AfterTishri1(year + 1, inputDay - tishri1, NextTishri1(found.year, found.molad) - tishri1)
     ELSE BeforeTishri1(year, inputDay - tishri1, BackToTevet(year, inputDay - tishri1 + 207),
                        tishri1 - ThisTishri1(FindTishriMolad(found.molad.day - 365)))

SdnToJewish(sdn) ==
  LET Date(inputDay, found) == JewishDate(inputDay, found, Tishri1(found.year, found.molad))
  IN IF sdn <= JewishOffset THEN NoDate
     ELSE Date(sdn - JewishOffset, FindTishriMolad(sdn - JewishOffset))

\* Months 1 to 3 are counted from the start of their year, the others back
\* from the start of the next one.
JewishToSdn(year, month, day) ==
  LET start == FindStartOfYear(year)
      length == NextTishri1(start.year, start.molad) - start.tishri1
      adars == IF monthsPerYear((year - 1) % 19) = 12 THEN 29 ELSE 59
      before == CASE month = 1 -> -1
                  [] month = 2 -> 29
                  [] OTHER -> IF LongHeshvan(length) THEN 59 ELSE 58
      left == CASE month \in 4..6 -> adars + <<237, 208, 178>>[month - 3]
                [] month = 7 -> 207
                [] OTHER -> JewishMonthEnd[month]
  IN IF year <= 0 \/ day \notin 1..30 \/ month \notin 1..13 THEN 0
     ELSE IF month \in 1..3 THEN start.tishri1 + day + before + JewishOffset
     ELSE FindStartOfYear(year + 1).tishri1 + day - left + JewishOffset

-----------------------------------------------------------------------------
DayOfWeek(sdn) == (sdn + 1) % 7 \* in 0..6 whatever the sign of sdn

Calendars == {"GREGORIAN", "JULIAN", "HEBREW", "FRENCH_REV"}
max_month == [c \in Calendars |-> IF c \in {"GREGORIAN", "JULIAN"} THEN 12 ELSE 13]

to_sdn_func(cal, y, m, d) == CASE cal = "GREGORIAN" -> GregorianToSdn(y, m, d)
                               [] cal = "JULIAN" -> JulianToSdn(y, m, d)
                               [] cal = "HEBREW" -> JewishToSdn(y, m, d)
                               [] cal = "FRENCH_REV" -> FrenchToSdn(y, m, d)
from_sdn_func(cal, sdn) == CASE cal = "GREGORIAN" -> SdnToGregorian(sdn)
                             [] cal = "JULIAN" -> SdnToJulian(sdn)
                             [] cal = "HEBREW" -> SdnToJewish(sdn)
                             [] cal = "FRENCH_REV" -> SdnToFrench(sdn)

\* The conversions accept some dates that do not exist; -1 for those.
\* (Variant: the date is not converted back.)
Unchecked(cal, date, sdn) == IF sdn > 0 THEN sdn ELSE -1
Checked(cal, date, sdn) == IF sdn > 0 /\ from_sdn_func(cal, sdn) = date THEN sdn ELSE -1
checkedCalToSdn(cal, y, m, d) == Checked(cal, <<y, m, d>>, to_sdn_func(cal, y, m, d))

\* Dates before year 1 are not computed from an SDN; of a date that was.
SdnIsInCalendar(date) == \A i \in 1..3 : date[i] > 0
=============================================================================
