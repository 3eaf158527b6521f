---------------------------- MODULE DatesProofs -----------------------------
(***************************************************************************)
(* Proofs about dates, the calendars they are converted between, and ages. *)
(***************************************************************************)
EXTENDS Dates, Ages, SequenceTheorems, WellFoundedInduction, TLAPS

-----------------------------------------------------------------------------
(* Months from March on.                                                   *)

BeforeMarch(month) == ((month * DaysPer5Months) + 2) \div 5
\* The month and the day of a day of the year.
MonthOf(doy) == ((doy * 5) - 3) \div DaysPer5Months
DayOf(doy) == ((((doy * 5) - 3) % DaysPer5Months) \div 5) + 1
\* The last of them may have one day less.
MarchMonth(month) == IF month = 11 THEN 29 ELSE IF month \in {1, 3, 6, 8} THEN 30 ELSE 31

LEMMA MonthStarts ==
  /\ BeforeMarch(0) = 0 /\ BeforeMarch(1) = 31 /\ BeforeMarch(2) = 61 /\ BeforeMarch(3) = 92
  /\ BeforeMarch(4) = 122 /\ BeforeMarch(5) = 153 /\ BeforeMarch(6) = 184 /\ BeforeMarch(7) = 214
  /\ BeforeMarch(8) = 245 /\ BeforeMarch(9) = 275 /\ BeforeMarch(10) = 306 /\ BeforeMarch(11) = 337
  BY DEF BeforeMarch, DaysPer5Months

LEMMA MonthOfDay ==
  ASSUME NEW doy \in 1 .. 366
  PROVE  /\ MonthOf(doy) \in 0 .. 11 /\ DayOf(doy) \in 1 .. MarchMonth(MonthOf(doy))
         /\ BeforeMarch(MonthOf(doy)) + DayOf(doy) = doy
  BY SMTT(30) DEF MonthOf, DayOf, BeforeMarch, MarchMonth, DaysPer5Months

LEMMA DayOfMonth ==
  ASSUME NEW m \in 0 .. 11, NEW d \in 1 .. MarchMonth(m), NEW doy, doy = BeforeMarch(m) + d
  PROVE  doy \in 1 .. 366 /\ MonthOf(doy) = m /\ DayOf(doy) = d
  BY SMTT(30) DEF MonthOf, DayOf, BeforeMarch, MarchMonth, DaysPer5Months

-----------------------------------------------------------------------------
(* Years from March on; year y ends in February of the astronomical year   *)
(* y - 4799.                                                               *)

YearDays(cal, y) ==
  IF cal = "GREGORIAN" THEN (((y \div 100) * DaysPer400Years) \div 4) + (((y % 100) * DaysPer4Years) \div 4)
  ELSE (y * DaysPer4Years) \div 4
IsLong(cal, y) ==
  IF cal = "GREGORIAN" THEN (y + 1) % 4 = 0 /\ ((y + 1) % 100 # 0 \/ (y + 1) % 400 = 0)
  ELSE (y + 1) % 4 = 0
YearLength(cal, y) == IF IsLong(cal, y) THEN 366 ELSE 365

\* The year and the day of it that day n is, as the code has them.
Century(n) == ((4 * n) + 3) \div DaysPer400Years
Rest(n) == (((((4 * n) + 3) % DaysPer400Years) \div 4) * 4) + 3
YearOf(cal, n) == IF cal = "GREGORIAN" THEN (Century(n) * 100) + (Rest(n) \div DaysPer4Years)
                  ELSE ((4 * n) + 3) \div DaysPer4Years
DayOfYear(cal, n) == IF cal = "GREGORIAN" THEN ((Rest(n) % DaysPer4Years) \div 4) + 1
                     ELSE ((((4 * n) + 3) % DaysPer4Years) \div 4) + 1

LEMMA JulianYears ==
  ASSUME NEW n \in Nat
  PROVE  /\ YearOf("JULIAN", n) \in Nat
         /\ DayOfYear("JULIAN", n) \in 1 .. YearLength("JULIAN", YearOf("JULIAN", n))
         /\ YearDays("JULIAN", YearOf("JULIAN", n)) + DayOfYear("JULIAN", n) = n + 1
  BY SMTT(30) DEF YearOf, DayOfYear, YearLength, YearDays, IsLong, DaysPer4Years

LEMMA JulianDays ==
  ASSUME NEW y \in Nat, NEW d \in 1 .. YearLength("JULIAN", y), NEW n \in Nat,
         YearDays("JULIAN", y) + d = n + 1
  PROVE  YearOf("JULIAN", n) = y /\ DayOfYear("JULIAN", n) = d
  BY SMTT(30) DEF YearOf, DayOfYear, YearLength, YearDays, IsLong, DaysPer4Years

LEMMA JulianNext ==
  ASSUME NEW y \in Nat
  PROVE  YearDays("JULIAN", y + 1) = YearDays("JULIAN", y) + YearLength("JULIAN", y)
  BY SMTT(30) DEF YearLength, YearDays, IsLong, DaysPer4Years

LEMMA GregorianYears ==
  ASSUME NEW n \in Nat
  PROVE  /\ YearOf("GREGORIAN", n) \in Nat
         /\ DayOfYear("GREGORIAN", n) \in 1 .. YearLength("GREGORIAN", YearOf("GREGORIAN", n))
         /\ YearDays("GREGORIAN", YearOf("GREGORIAN", n)) + DayOfYear("GREGORIAN", n) = n + 1
  BY SMTT(30) DEF YearOf, DayOfYear, YearLength, YearDays, IsLong, DaysPer4Years, DaysPer400Years, Century, Rest

LEMMA GregorianDays ==
  ASSUME NEW y \in Nat, NEW d \in 1 .. YearLength("GREGORIAN", y), NEW n \in Nat,
         YearDays("GREGORIAN", y) + d = n + 1
  PROVE  YearOf("GREGORIAN", n) = y /\ DayOfYear("GREGORIAN", n) = d
  BY SMTT(30) DEF YearOf, DayOfYear, YearLength, YearDays, IsLong, DaysPer4Years, DaysPer400Years, Century, Rest

LEMMA GregorianNext ==
  ASSUME NEW y \in Nat
  PROVE  YearDays("GREGORIAN", y + 1) = YearDays("GREGORIAN", y) + YearLength("GREGORIAN", y)
  BY SMTT(30) DEF YearLength, YearDays, IsLong, DaysPer4Years, DaysPer400Years

LEMMA YearFacts ==
  ASSUME NEW cal \in {"GREGORIAN", "JULIAN"}, NEW n \in Nat
  PROVE  /\ YearOf(cal, n) \in Nat
         /\ DayOfYear(cal, n) \in 1 .. YearLength(cal, YearOf(cal, n))
         /\ YearDays(cal, YearOf(cal, n)) + DayOfYear(cal, n) = n + 1
<1>1. CASE cal = "JULIAN"
  BY <1>1, JulianYears
<1>2. CASE cal = "GREGORIAN"
  BY <1>2, GregorianYears
<1>3. QED
  BY <1>1, <1>2

LEMMA DaysOfYears ==
  ASSUME NEW cal \in {"GREGORIAN", "JULIAN"}, NEW y \in Nat, NEW d \in 1 .. YearLength(cal, y),
         NEW n \in Nat, YearDays(cal, y) + d = n + 1
  PROVE  YearOf(cal, n) = y /\ DayOfYear(cal, n) = d
  BY JulianDays, GregorianDays

LEMMA NextYearDays ==
  ASSUME NEW cal \in {"GREGORIAN", "JULIAN"}, NEW y \in Nat
  PROVE  YearDays(cal, y + 1) = YearDays(cal, y) + YearLength(cal, y)
  BY JulianNext, GregorianNext

\* The day after a day.
LEMMA DayAfterDay ==
  ASSUME NEW cal \in {"GREGORIAN", "JULIAN"}, NEW n \in Nat
  PROVE  LET y == YearOf(cal, n)
             d == DayOfYear(cal, n)
         IN IF d = YearLength(cal, y) THEN YearOf(cal, n + 1) = y + 1 /\ DayOfYear(cal, n + 1) = 1
            ELSE YearOf(cal, n + 1) = y /\ DayOfYear(cal, n + 1) = d + 1
<1> DEFINE y == YearOf(cal, n)
           d == DayOfYear(cal, n)
<1>1. y \in Nat /\ d \in 1 .. YearLength(cal, y) /\ YearDays(cal, y) + d = n + 1
  BY YearFacts
<1>2. \A l \in Nat : YearLength(cal, l) \in 365 .. 366
  BY DEF YearLength
<1>3. YearDays(cal, y) \in Int
  BY <1>1 DEF YearDays, DaysPer4Years, DaysPer400Years
<1>4. n + 1 \in Nat /\ y + 1 \in Nat
  BY <1>1
<1> HIDE DEF y, d
<1>5. CASE d = YearLength(cal, y)
  <2>1. 1 \in 1 .. YearLength(cal, y + 1)
    BY <1>2, <1>4
  <2>2. YearDays(cal, y + 1) = n + 1
    BY <1>1, <1>5, NextYearDays
  <2>3. YearDays(cal, y + 1) + 1 = (n + 1) + 1
    BY <2>2
  <2>4. YearOf(cal, n + 1) = y + 1 /\ DayOfYear(cal, n + 1) = 1
    BY <1>4, <2>1, <2>3, DaysOfYears
  <2>5. QED
    BY <1>5, <2>4 DEF y, d
<1>6. CASE d # YearLength(cal, y)
  <2>1. d + 1 \in 1 .. YearLength(cal, y)
    BY <1>1, <1>2, <1>6
  <2>2. YearDays(cal, y) + (d + 1) = (n + 1) + 1
    BY <1>1, <1>2, <1>3
  <2>3. YearOf(cal, n + 1) = y /\ DayOfYear(cal, n + 1) = d + 1
    BY <1>1, <1>4, <2>1, <2>2, DaysOfYears
  <2>4. QED
    BY <1>6, <2>3 DEF y, d
<1>7. QED
  BY <1>5, <1>6

-----------------------------------------------------------------------------
(* Dates from March on.                                                    *)

LEMMA MarchDate ==
  ASSUME NEW y \in Nat, NEW doy \in 1 .. 366, NEW m, m = MonthOf(doy),
         NEW z, z = (IF m < 10 THEN y ELSE y + 1) - 4800
  PROVE  FromMarch(y, doy) = <<IF z <= 0 THEN z - 1 ELSE z, IF m < 10 THEN m + 3 ELSE m - 9, DayOf(doy)>>
  BY DEF FromMarch, MonthOf, DayOf

LEMMA LongYears ==
  ASSUME NEW cal \in {"GREGORIAN", "JULIAN"}, NEW y \in Nat, NEW z \in Int, z = (y + 1) - 4800
  PROVE  LeapYear(cal, IF z <= 0 THEN z - 1 ELSE z) <=> IsLong(cal, y)
<1> DEFINE year == IF z <= 0 THEN z - 1 ELSE z
<1>1. year \in Int /\ Astronomical(year) = z
  BY DEF Astronomical
<1>2. z % 4 = (y + 1) % 4 /\ z % 100 = (y + 1) % 100 /\ z % 400 = (y + 1) % 400
  BY SMTT(30)
<1> HIDE DEF year
<1>3. LeapYear(cal, year) <=> IsLong(cal, y)
  <2>1. CASE cal = "JULIAN"
    BY <1>1, <1>2, <2>1 DEF LeapYear, IsLong
  <2>2. CASE cal = "GREGORIAN"
    BY <1>1, <1>2, <2>2 DEF LeapYear, IsLong
  <2>3. QED
    BY <2>1, <2>2
<1>4. QED
  BY <1>3 DEF year

DayFromMarch(month, day) == DaysBefore(month) + day

\* A day of a year is a date that exists, and the date has its year and day.
LEMMA MarchDateExists ==
  ASSUME NEW cal \in {"GREGORIAN", "JULIAN"}, NEW y \in Nat, NEW doy \in 1 .. YearLength(cal, y),
         NEW date, date = FromMarch(y, doy)
  PROVE  /\ date = <<date[1], date[2], date[3]>>
         /\ date[1] \in Int \ {0} /\ date[2] \in 1 .. 12 /\ date[3] \in 1 .. 31
         /\ HasMonth(cal, date[1], date[2])
         /\ \A n \in Lengths(cal, date[1], date[2]) : date[3] <= n
         /\ YearFromMarch(date[1], date[2]) = y
         /\ DayFromMarch(date[2], date[3]) = doy
<1> DEFINE m == MonthOf(doy)
           d == DayOf(doy)
           z == (IF m < 10 THEN y ELSE y + 1) - 4800
           year == IF z <= 0 THEN z - 1 ELSE z
           month == IF m < 10 THEN m + 3 ELSE m - 9
<1>1. doy \in 1 .. 366 /\ (doy = 366 => IsLong(cal, y))
  BY DEF YearLength
<1>2. m \in 0 .. 11 /\ d \in 1 .. MarchMonth(m) /\ BeforeMarch(m) + d = doy
  BY <1>1, MonthOfDay
<1>3. date = <<year, month, d>>
  BY DEF FromMarch, MonthOf, DayOf
<1> HIDE DEF m, d
<1>4. year \in Int \ {0} /\ month \in 1 .. 12 /\ d \in 1 .. 31
  BY <1>2 DEF MarchMonth
<1>5. YearFromMarch(year, month) = y /\ MonthFromMarch(month) = m
  BY <1>2 DEF YearFromMarch, MonthFromMarch
<1>6. DayFromMarch(month, d) = BeforeMarch(m) + d
  BY <1>5 DEF DayFromMarch, DaysBefore, BeforeMarch
<1>7. HasMonth(cal, year, month)
  BY <1>4 DEF HasMonth, LastMonth
<1>8. month = 2 => m = 11 /\ (d = 29 => doy = 366) /\ (LeapYear(cal, year) <=> IsLong(cal, y))
  <2>1. month = 2 => m = 11 /\ z = (y + 1) - 4800
    BY <1>2
  <2>2. m = 11 /\ d = 29 => doy = 366
    BY <1>2, MonthStarts
  <2>3. QED
    BY <2>1, <2>2, LongYears
<1>9. \A n \in Lengths(cal, year, month) : d <= n
  <2>1. CASE month = 2
    BY <1>1, <1>2, <1>8, <2>1 DEF Lengths, MarchMonth
  <2>2. CASE month # 2
    <3>1. month \in {4, 6, 9, 11} <=> m \in {1, 3, 6, 8}
      BY <1>2
    <3>2. m # 11
      BY <1>2, <2>2
    <3> HIDE DEF month, year
    <3>3. QED
      BY <1>2, <2>2, <3>1, <3>2 DEF Lengths, MarchMonth
  <2>3. QED
    BY <2>1, <2>2
<1> HIDE DEF year, month
<1>10. date[1] = year /\ date[2] = month /\ date[3] = d
  BY <1>3
<1>11. QED
  BY <1>2, <1>3, <1>4, <1>5, <1>6, <1>7, <1>9, <1>10

\* A date that exists is a day of a year.
LEMMA DateFromMarch ==
  ASSUME NEW cal \in {"GREGORIAN", "JULIAN"}, NEW year \in Int \ {0}, NEW month \in 1 .. 12, NEW day \in Int,
         day >= 1, \A n \in Lengths(cal, year, month) : day <= n, year > -4714
  PROVE  LET y == YearFromMarch(year, month)
             doy == DayFromMarch(month, day)
         IN
         /\ y \in Nat /\ y >= 87 /\ doy \in 1 .. YearLength(cal, y)
         /\ FromMarch(y, doy) = <<year, month, day>>
         /\ y = 87 => doy > 306 /\ year = -4713
         /\ day \in 1 .. 31
<1> DEFINE y == YearFromMarch(year, month)
           doy == DayFromMarch(month, day)
           m == MonthFromMarch(month)
           z == (IF m < 10 THEN y ELSE y + 1) - 4800
<1>1. y \in Nat /\ y >= 87 /\ (y = 87 => m >= 10 /\ year = -4713)
  BY DEF YearFromMarch, MonthFromMarch
<1>2. /\ m \in 0 .. 11 /\ month = (IF m < 10 THEN m + 3 ELSE m - 9)
      /\ year = (IF z <= 0 THEN z - 1 ELSE z)
  BY DEF YearFromMarch, MonthFromMarch
<1>3. month = 2 => (LeapYear(cal, year) <=> IsLong(cal, y))
  <2>1. month = 2 => m = 11 /\ z = (y + 1) - 4800 /\ z \in Int
    BY <1>1 DEF MonthFromMarch
  <2>2. QED
    BY <1>1, <1>2, <2>1, LongYears
<1>4. doy = BeforeMarch(m) + day
  BY DEF DaysBefore, BeforeMarch, DayFromMarch
<1> HIDE DEF y, doy, m, z
<1>5. day \in 1 .. MarchMonth(m) /\ (m = 11 /\ day = 29 => IsLong(cal, y))
  <2>1. CASE month = 2
    <3>1. m = 11
      BY <1>2, <2>1
    <3>2. day <= IF LeapYear(cal, year) THEN 29 ELSE 28
      BY <2>1 DEF Lengths
    <3>3. QED
      BY <1>3, <2>1, <3>1, <3>2 DEF MarchMonth
  <2>2. CASE month # 2
    <3>1. day <= IF month \in {4, 6, 9, 11} THEN 30 ELSE 31
      BY <2>2 DEF Lengths
    <3>2. month \in {4, 6, 9, 11} <=> m \in {1, 3, 6, 8}
      BY <1>2
    <3>3. m # 11
      BY <1>2, <2>2
    <3>4. QED
      BY <3>1, <3>2, <3>3 DEF MarchMonth
  <2>3. QED
    BY <2>1, <2>2
<1>6. doy \in 1 .. 366 /\ MonthOf(doy) = m /\ DayOf(doy) = day
  <2>1. m \in 0 .. 11 /\ day \in 1 .. MarchMonth(m) /\ doy = BeforeMarch(m) + day
    BY <1>2, <1>4, <1>5
  <2>2. QED
    BY <2>1 DEF MonthOf, DayOf, BeforeMarch, MarchMonth, DaysPer5Months
<1>7. doy = 366 => m = 11 /\ day = 29
  <2>1. 366 \in 1 .. 366 /\ MonthOf(366) = 11 /\ DayOf(366) = 29
    BY DEF MonthOf, DayOf, DaysPer5Months
  <2>2. QED
    BY <1>6, <2>1
<1>8. doy \in 1 .. YearLength(cal, y)
  BY <1>5, <1>6, <1>7 DEF YearLength
<1>9. FromMarch(y, doy) = <<year, month, day>>
  <2>1. z = (IF m < 10 THEN y ELSE y + 1) - 4800
    BY DEF z
  <2>2. FromMarch(y, doy) = <<IF z <= 0 THEN z - 1 ELSE z, IF m < 10 THEN m + 3 ELSE m - 9, DayOf(doy)>>
    BY <1>6, <2>1 DEF FromMarch, MonthOf, DayOf
  <2>3. QED
    BY <1>2, <1>6, <2>2
<1>10. y = 87 => doy > 306 /\ year = -4713
  <2>1. BeforeMarch(10) = 306 /\ BeforeMarch(11) = 337
    BY MonthStarts
  <2>2. y = 87 => m \in {10, 11}
    BY <1>1, <1>2
  <2>3. QED
    BY <1>1, <1>4, <2>1, <2>2
<1>11. day \in 1 .. 31
  BY <1>5 DEF MarchMonth
<1>12. QED
  BY <1>1, <1>8, <1>9, <1>10, <1>11 DEF y, doy

-----------------------------------------------------------------------------
(* Serial day numbers of the Gregorian and the Julian calendar.            *)

Solar == {"GREGORIAN", "JULIAN"}
\* The day before serial day number 0, counted from 1 March 4801 B.C.
Origin(cal) == IF cal = "GREGORIAN" THEN 32044 ELSE 32082

LEMMA SolarDate ==
  ASSUME NEW cal \in Solar, NEW sdn \in Nat, sdn > 0, NEW n, n = sdn + Origin(cal)
  PROVE  from_sdn_func(cal, sdn) = FromMarch(YearOf(cal, n), DayOfYear(cal, n))
<1>1. CASE cal = "GREGORIAN"
  <2>1. (sdn + 32045) * 4 - 1 = (4 * n) + 3
    BY <1>1 DEF Origin
  <2>2. SdnToGregorian(sdn) = FromMarch(YearOf(cal, n), DayOfYear(cal, n))
    BY <1>1, <2>1 DEF SdnToGregorian, YearOf, DayOfYear, Century, Rest
  <2>3. QED
    BY <1>1, <2>2 DEF from_sdn_func
<1>2. CASE cal = "JULIAN"
  <2>1. (sdn + 32083) * 4 - 1 = (4 * n) + 3
    BY <1>2 DEF Origin
  <2>2. SdnToJulian(sdn) = FromMarch(YearOf(cal, n), DayOfYear(cal, n))
    BY <1>2, <2>1 DEF SdnToJulian, YearOf, DayOfYear
  <2>3. QED
    BY <1>2, <2>2 DEF from_sdn_func
<1>3. QED
  BY <1>1, <1>2 DEF Solar

\* The serial day number of a date, unless it is before day 1.
LEMMA SolarDay ==
  ASSUME NEW cal \in Solar, NEW year \in Int \ {0}, NEW month \in 1 .. 12, NEW day \in 1 .. 31,
         YearFromMarch(year, month) \in Nat, DayFromMarch(month, day) \in Nat,
         \/ YearFromMarch(year, month) > 87
         \/ YearFromMarch(year, month) = 87 /\ DayFromMarch(month, day) >= 270 /\ cal = "GREGORIAN"
         \/ YearFromMarch(year, month) = 87 /\ DayFromMarch(month, day) >= 308
  PROVE  to_sdn_func(cal, year, month, day)
           = (YearDays(cal, YearFromMarch(year, month)) + DayFromMarch(month, day)) - (Origin(cal) + 1)
<1> DEFINE y == YearFromMarch(year, month)
           doy == DayFromMarch(month, day)
<1>a. /\ y = YearFromMarch(year, month) /\ y \in Nat /\ doy \in Nat
      /\ y > 87 \/ (y = 87 /\ doy >= 270 /\ cal = "GREGORIAN") \/ (y = 87 /\ doy >= 308)
  OBVIOUS
<1>0. doy = DaysBefore(month) + day
  BY DEF DayFromMarch
<1> HIDE DEF y, doy
<1>1. year >= -4714 /\ (year = -4714 => month > 2 /\ y = 87)
  BY <1>a DEF YearFromMarch
<1>2. /\ DaysBefore(1) = 306 /\ DaysBefore(3) = 0 /\ DaysBefore(4) = 31 /\ DaysBefore(5) = 61
      /\ DaysBefore(6) = 92 /\ DaysBefore(7) = 122 /\ DaysBefore(8) = 153 /\ DaysBefore(9) = 184
      /\ DaysBefore(10) = 214 /\ DaysBefore(11) = 245 /\ DaysBefore(12) = 275
  BY DEF DaysBefore, MonthFromMarch, DaysPer5Months
<1>3. CASE cal = "GREGORIAN"
  <2>1. ~(year = -4714 /\ (month < 11 \/ (month = 11 /\ day < 25)))
    <3>1. SUFFICES ASSUME year = -4714, month < 11 \/ (month = 11 /\ day < 25) PROVE FALSE
      OBVIOUS
    <3>2. doy >= 270
      BY <1>a, <1>1, <3>1
    <3>3. month \in {3, 4, 5, 6, 7, 8, 9, 10, 11}
      BY <1>a, <1>1, <3>1
    <3>4. QED
      BY <1>a, <1>0, <1>2, <3>1, <3>2, <3>3
  <2>2. GregorianToSdn(year, month, day) = (YearDays(cal, y) + doy) - 32045
    <3>1. \A a, b, d \in Int : (a + b) + (d - 32045) = (a + (b + d)) - 32045
      OBVIOUS
    <3>2. DaysBefore(month) \in Int /\ YearDays(cal, y) \in Int
      BY <1>a, <1>3 DEF DaysBefore, MonthFromMarch, YearDays, DaysPer5Months, DaysPer4Years, DaysPer400Years
    <3>3. ~(year = 0 \/ year < -4714 \/ month \notin 1..12 \/ day \notin 1..31)
      BY <1>1
    <3>4. GregorianToSdn(year, month, day) = (YearDays(cal, y) + DaysBefore(month)) + (day - 32045)
      BY ONLY <1>3, <2>1, <3>3, <1>a DEF GregorianToSdn, YearDays
    <3>5. QED
      BY <1>a, <1>0, <3>1, <3>2, <3>4
  <2>3. QED
    BY <1>3, <2>2 DEF to_sdn_func, Origin, y, doy
<1>4. CASE cal = "JULIAN"
  <2>1. year >= -4713
    <3>1. SUFFICES ASSUME year = -4714 PROVE FALSE
      BY <1>1
    <3>2. y = 87 /\ doy >= 308 /\ month \in {3, 4, 5, 6, 7, 8, 9, 10, 11, 12}
      BY <1>a, <1>1, <1>4, <3>1
    <3>3. QED
      BY <1>a, <1>0, <1>2, <3>2
  <2>2. ~(year = -4713 /\ month = 1 /\ day = 1)
    <3>1. year = -4713 /\ month = 1 => y = 87
      BY <1>a DEF YearFromMarch
    <3>2. QED
      BY <1>a, <1>0, <1>2, <1>4, <3>1
  <2>3. JulianToSdn(year, month, day) = (YearDays(cal, y) + doy) - 32083
    <3>1. \A a, b, d \in Int : (a + b) + (d - 32083) = (a + (b + d)) - 32083
      OBVIOUS
    <3>2. DaysBefore(month) \in Int /\ YearDays(cal, y) \in Int
      BY <1>a, <1>4 DEF DaysBefore, MonthFromMarch, YearDays, DaysPer5Months, DaysPer4Years, DaysPer400Years
    <3>3. ~(year = 0 \/ year < -4713 \/ month \notin 1..12 \/ day \notin 1..31)
      BY <2>1
    <3>4. JulianToSdn(year, month, day) = (YearDays(cal, y) + DaysBefore(month)) + (day - 32083)
      BY ONLY <1>4, <2>2, <3>3, <1>a DEF JulianToSdn, YearDays
    <3>5. QED
      BY <1>a, <1>0, <3>1, <3>2, <3>4
  <2>4. QED
    BY <1>4, <2>3 DEF to_sdn_func, Origin, y, doy
<1>5. QED
  BY <1>3, <1>4 DEF Solar, y, doy

\* A year, month and day that the calendar may have.
MayExist(cal, date) ==
  /\ date = <<date[1], date[2], date[3]>>
  /\ date[1] \in Int \ {0} /\ date[3] \in Int /\ date[3] >= 1
  /\ HasMonth(cal, date[1], date[2])
  /\ \E n \in Lengths(cal, date[1], date[2]) : date[3] <= n

\* Every day is a date, which is converted back to it.
LEMMA SolarDayIsADate ==
  ASSUME NEW cal \in Solar, NEW sdn \in Nat, sdn > 0, NEW date, date = from_sdn_func(cal, sdn)
  PROVE  MayExist(cal, date) /\ to_sdn_func(cal, date[1], date[2], date[3]) = sdn
<1> DEFINE n == sdn + Origin(cal)
           y == YearOf(cal, n)
           doy == DayOfYear(cal, n)
<1>1. n \in Nat /\ n = sdn + Origin(cal) /\ Origin(cal) \in Nat
  BY DEF Origin
<1>2. y \in Nat /\ doy \in 1 .. YearLength(cal, y) /\ YearDays(cal, y) + doy = n + 1
  BY <1>1, YearFacts DEF Solar
<1> HIDE DEF n
<1>3. date = FromMarch(y, doy)
  BY <1>1, SolarDate
<1> HIDE DEF y, doy
<1>4. doy \in 1 .. 366
  BY <1>2 DEF YearLength
<1>5. y > 87 \/ (y = 87 /\ doy >= 270 /\ cal = "GREGORIAN") \/ (y = 87 /\ doy >= 308)
  <2>1. CASE cal = "GREGORIAN"
    BY <1>1, <1>2, <1>4, <2>1 DEF YearDays, Origin, DaysPer4Years, DaysPer400Years
  <2>2. CASE cal = "JULIAN"
    BY <1>1, <1>2, <1>4, <2>2 DEF YearDays, Origin, DaysPer4Years
  <2>3. QED
    BY <2>1, <2>2 DEF Solar
<1>6. /\ date = <<date[1], date[2], date[3]>>
      /\ date[1] \in Int \ {0} /\ date[2] \in 1 .. 12 /\ date[3] \in 1 .. 31
      /\ HasMonth(cal, date[1], date[2])
      /\ \A l \in Lengths(cal, date[1], date[2]) : date[3] <= l
      /\ YearFromMarch(date[1], date[2]) = y
      /\ DayFromMarch(date[2], date[3]) = doy
  BY <1>2, <1>3, MarchDateExists DEF Solar
<1>7. Lengths(cal, date[1], date[2]) # {}
  BY DEF Lengths, Solar
<1>8. MayExist(cal, date)
  BY <1>6, <1>7 DEF MayExist
<1>9. to_sdn_func(cal, date[1], date[2], date[3]) = (YearDays(cal, y) + doy) - (Origin(cal) + 1)
  BY <1>2, <1>4, <1>5, <1>6, SolarDay, SMTT(60)
<1>10. QED
  BY <1>1, <1>2, <1>8, <1>9

\* Every date that exists has a day, which is converted back to it.
LEMMA SolarDateIsADay ==
  ASSUME NEW cal \in Solar, NEW year \in Int, NEW month \in Int, NEW day \in Int,
         Exists(cal, year, month, day), NEW sdn, sdn = to_sdn_func(cal, year, month, day)
  PROVE  sdn \in Nat /\ sdn > 0 /\ from_sdn_func(cal, sdn) = <<year, month, day>>
<1> DEFINE y == YearFromMarch(year, month)
           doy == DayFromMarch(month, day)
           n == (YearDays(cal, y) + doy) - 1
<1>1. /\ year \in Int \ {0} /\ month \in 1 .. 12 /\ day >= 1 /\ year > -4714
      /\ \A l \in Lengths(cal, year, month) : day <= l
      /\ cal = "JULIAN" => year # -4713
  <2>1. CASE cal = "GREGORIAN"
    BY <2>1 DEF Exists, HasMonth, LastMonth
  <2>2. CASE cal = "JULIAN"
    BY <2>2 DEF Exists, HasMonth, LastMonth
  <2>3. QED
    BY <2>1, <2>2 DEF Solar
<1>2. /\ y \in Nat /\ y >= 87 /\ doy \in 1 .. YearLength(cal, y)
      /\ FromMarch(y, doy) = <<year, month, day>>
      /\ y = 87 => doy > 306 /\ year = -4713
      /\ day \in 1 .. 31
  <2> HIDE DEF y, doy
  <2>1. y = YearFromMarch(year, month) /\ doy = DayFromMarch(month, day)
    BY DEF y, doy
  <2>2. cal \in {"GREGORIAN", "JULIAN"}
    BY DEF Solar
  <2>3. QED
    <3>1. year \in Int \ {0} /\ month \in 1 .. 12 /\ day \in Int
      BY <1>1
    <3>2. day >= 1 /\ year > -4714 /\ \A l \in Lengths(cal, year, month) : day <= l
      BY <1>1
    <3>3. LET yy == YearFromMarch(year, month)
              dd == DayFromMarch(month, day)
          IN /\ yy \in Nat /\ yy >= 87 /\ dd \in 1 .. YearLength(cal, yy)
             /\ FromMarch(yy, dd) = <<year, month, day>>
             /\ yy = 87 => dd > 306 /\ year = -4713
             /\ day \in 1 .. 31
      BY <2>2, <3>1, <3>2, DateFromMarch, SMTT(40)
    <3>4. QED
      BY <2>1, <3>3
<1> HIDE DEF y, doy
<1>3. sdn = (YearDays(cal, y) + doy) - (Origin(cal) + 1)
  <2>1. y = 87 => cal = "GREGORIAN" /\ doy >= 270
    BY <1>1, <1>2 DEF Solar, YearLength
  <2>2. y \in Nat /\ y = YearFromMarch(year, month) /\ doy \in Nat /\ doy = DayFromMarch(month, day)
    BY <1>2 DEF y, doy, YearLength
  <2>3. y > 87 \/ (y = 87 /\ doy >= 270 /\ cal = "GREGORIAN") \/ (y = 87 /\ doy >= 308)
    BY <1>2, <2>1
  <2>4. QED
    <3>1. year \in Int \ {0} /\ month \in 1 .. 12 /\ day \in 1 .. 31
      BY <1>1, <1>2
    <3>2. to_sdn_func(cal, year, month, day) = (YearDays(cal, y) + doy) - (Origin(cal) + 1)
      BY <2>2, <2>3, <3>1, SolarDay
    <3>3. QED
      BY <3>2
<1>4. YearDays(cal, y) \in Nat /\ doy \in Nat /\ doy >= 1 /\ (YearDays(cal, y) + doy) - (Origin(cal) + 1) > 0
  <2>1. doy \in 1 .. 366
    BY <1>2 DEF YearLength
  <2>2. CASE cal = "GREGORIAN"
    BY <1>2, <2>1, <2>2 DEF YearDays, Origin, DaysPer4Years, DaysPer400Years
  <2>3. CASE cal = "JULIAN"
    <3>1. y >= 88
      BY <1>1, <1>2, <2>3
    <3>2. QED
      BY <1>2, <2>1, <2>3, <3>1 DEF YearDays, Origin, DaysPer4Years
  <2>4. QED
    BY <2>2, <2>3 DEF Solar
<1>5. Origin(cal) \in Nat
  BY DEF Origin
<1>6. n \in Nat /\ YearDays(cal, y) + doy = n + 1 /\ sdn \in Nat /\ sdn > 0 /\ n = sdn + Origin(cal)
  BY <1>3, <1>4, <1>5
<1> HIDE DEF n
<1>7. YearOf(cal, n) = y /\ DayOfYear(cal, n) = doy
  BY <1>2, <1>6, DaysOfYears DEF Solar
<1>8. from_sdn_func(cal, sdn) = FromMarch(y, doy)
  BY <1>6, <1>7, SolarDate
<1>9. QED
  BY <1>2, <1>6, <1>8

\* The next day is the next date.
LEMMA MarchFollows ==
  ASSUME NEW cal \in Solar, NEW y \in Nat, NEW doy \in 1 .. YearLength(cal, y),
         NEW y2 \in Nat, NEW doy2 \in 1 .. YearLength(cal, y2),
         IF doy = YearLength(cal, y) THEN y2 = y + 1 /\ doy2 = 1 ELSE y2 = y /\ doy2 = doy + 1,
         NEW date, date = FromMarch(y, doy), NEW date2, date2 = FromMarch(y2, doy2)
  PROVE  Follows(cal, date, date2)
<1> DEFINE m == MonthOf(doy)
           m2 == MonthOf(doy2)
           z == (IF m < 10 THEN y ELSE y + 1) - 4800
           z2 == (IF m2 < 10 THEN y2 ELSE y2 + 1) - 4800
<1>1. doy \in 1 .. 366 /\ doy2 \in 1 .. 366 /\ (doy = YearLength(cal, y) <=> doy = IF IsLong(cal, y) THEN 366 ELSE 365)
  BY DEF YearLength
<1>2. /\ m \in 0 .. 11 /\ DayOf(doy) \in 1 .. MarchMonth(m) /\ BeforeMarch(m) + DayOf(doy) = doy
      /\ m2 \in 0 .. 11 /\ DayOf(doy2) \in 1 .. MarchMonth(m2) /\ BeforeMarch(m2) + DayOf(doy2) = doy2
  <2>1. \A x \in 1 .. 366 : /\ MonthOf(x) \in 0 .. 11 /\ DayOf(x) \in 1 .. MarchMonth(MonthOf(x))
                            /\ BeforeMarch(MonthOf(x)) + DayOf(x) = x
    BY MonthOfDay
  <2>2. QED
    BY <1>1, <2>1
<1>3. /\ date = <<IF z <= 0 THEN z - 1 ELSE z, IF m < 10 THEN m + 3 ELSE m - 9, DayOf(doy)>>
      /\ date2 = <<IF z2 <= 0 THEN z2 - 1 ELSE z2, IF m2 < 10 THEN m2 + 3 ELSE m2 - 9, DayOf(doy2)>>
  BY DEF FromMarch, MonthOf, DayOf
<1>4. z = (y + 1) - 4800 => (LeapYear(cal, IF z <= 0 THEN z - 1 ELSE z) <=> IsLong(cal, y))
  BY LongYears DEF Solar
<1> HIDE DEF m, m2
<1>5. \A l : l \in Lengths(cal, date[1], date[2]) <=>
             l = IF m = 11 THEN IF IsLong(cal, y) THEN 29 ELSE 28 ELSE MarchMonth(m)
  <2>1. CASE m = 11
    BY <1>2, <1>3, <1>4, <2>1 DEF Lengths, Solar
  <2>2. CASE m # 11
    <3>1. /\ date[2] # 2 /\ (date[2] \in {4, 6, 9, 11} <=> m \in {1, 3, 6, 8})
      BY <1>2, <1>3, <2>2
    <3>2. QED
      BY <2>2, <3>1 DEF Lengths, MarchMonth, Solar
  <2>3. QED
    BY <2>1, <2>2
<1>6. CASE doy = YearLength(cal, y)
  <2>1. m = 11 /\ DayOf(doy) = (IF IsLong(cal, y) THEN 29 ELSE 28)
    <3>1. MonthOf(366) = 11 /\ DayOf(366) = 29 /\ MonthOf(365) = 11 /\ DayOf(365) = 28
      BY DEF MonthOf, DayOf, DaysPer5Months
    <3>2. QED
      BY <1>1, <1>6, <3>1 DEF m
  <2>2. m2 = 0 /\ DayOf(doy2) = 1
    <3>1. MonthOf(1) = 0 /\ DayOf(1) = 1
      BY DEF MonthOf, DayOf, DaysPer5Months
    <3>2. QED
      BY <1>6, <3>1 DEF m2
  <2>3. z2 = z
    BY <1>6, <2>1, <2>2
  <2>4. date[2] = 2 /\ date2[2] = 3 /\ date2[3] = 1 /\ date2[1] = date[1] /\ date2 = <<date[1], 3, 1>>
    BY <1>3, <2>1, <2>2, <2>3
  <2>5. date[3] \in Lengths(cal, date[1], date[2])
    BY <1>3, <1>5, <2>1
  <2>6. FollowingMonth(cal, date[1], 2) = 3
    BY DEF FollowingMonth, HasMonth, LastMonth, Solar
  <2>7. QED
    BY <2>4, <2>5, <2>6 DEF Follows, LastMonth, Solar
<1>7. CASE doy # YearLength(cal, y) /\ m2 = m
  <2>1. DayOf(doy2) = DayOf(doy) + 1
    <3>1. BeforeMarch(m) \in Int
      BY <1>2 DEF BeforeMarch, DaysPer5Months
    <3>2. QED
      BY <1>2, <1>7, <3>1
  <2>2. date2 = <<date[1], date[2], date[3] + 1>>
    BY <1>3, <1>7, <2>1
  <2>3. \E l \in Lengths(cal, date[1], date[2]) : date[3] < l
    <3>1. m = 11 => DayOf(doy2) <= (IF IsLong(cal, y) THEN 29 ELSE 28)
      <4>1. BeforeMarch(11) = 337
        BY MonthStarts
      <4>2. doy2 <= IF IsLong(cal, y) THEN 366 ELSE 365
        BY <1>7 DEF YearLength
      <4>3. QED
        BY <1>2, <1>7, <4>1, <4>2
    <3>2. m # 11 => DayOf(doy2) <= MarchMonth(m)
      BY <1>2, <1>7
    <3> DEFINE L == IF m = 11 THEN IF IsLong(cal, y) THEN 29 ELSE 28 ELSE MarchMonth(m)
    <3>3. DayOf(doy2) <= L /\ L \in Nat
      BY <3>1, <3>2 DEF MarchMonth
    <3>4. L \in Lengths(cal, date[1], date[2])
      BY <1>5
    <3>5. date[3] = DayOf(doy) /\ DayOf(doy) \in Nat
      BY <1>2, <1>3 DEF MarchMonth
    <3> HIDE DEF L
    <3>6. date[3] < L
      BY <2>1, <3>3, <3>5
    <3>7. QED
      BY <3>4, <3>6
  <2>4. QED
    BY <2>2, <2>3 DEF Follows
<1>8. CASE doy # YearLength(cal, y) /\ m2 # m
  <2>1. doy2 = doy + 1 /\ y2 = y
    BY <1>8
  <2>2. m2 = m + 1 /\ DayOf(doy) = MarchMonth(m) /\ DayOf(doy2) = 1 /\ m # 11
    BY <1>1, <1>2, <1>8, <2>1, SMTT(30) DEF m, m2, MonthOf, DayOf, MarchMonth, DaysPer5Months
  <2>3. date[3] \in Lengths(cal, date[1], date[2])
    BY <1>3, <1>5, <2>2
  <2>4. CASE m = 9
    <3>1. z2 = z + 1
      BY <2>1, <2>2, <2>4
    <3>2. date[2] = 12 /\ date2 = <<IF z2 <= 0 THEN z2 - 1 ELSE z2, 1, 1>> /\ date[1] = (IF z <= 0 THEN z - 1 ELSE z)
      BY <1>3, <2>2, <2>4
    <3>3. (IF z2 <= 0 THEN z2 - 1 ELSE z2) = NextYear(IF z <= 0 THEN z - 1 ELSE z)
      BY <3>1 DEF NextYear
    <3>4. QED
      BY <2>3, <3>2, <3>3 DEF Follows, LastMonth, Solar
  <2>5. CASE m # 9
    <3>1. z2 = z
      BY <1>2, <2>1, <2>2, <2>5
    <3>2. date2 = <<date[1], date[2] + 1, 1>> /\ date[2] \in 1 .. 11
      BY <1>2, <1>3, <2>2, <2>5, <3>1
    <3>3. FollowingMonth(cal, date[1], date[2]) = date[2] + 1
      BY <3>2 DEF FollowingMonth, HasMonth, LastMonth, Solar
    <3>4. QED
      BY <2>3, <3>2, <3>3 DEF Follows, LastMonth, Solar
  <2>6. QED
    BY <2>4, <2>5
<1>9. QED
  BY <1>6, <1>7, <1>8

LEMMA SolarDaysFollow ==
  ASSUME NEW cal \in Solar, NEW sdn \in Nat, sdn > 0
  PROVE  Follows(cal, from_sdn_func(cal, sdn), from_sdn_func(cal, sdn + 1))
<1> DEFINE n == sdn + Origin(cal)
<1>1. /\ n \in Nat /\ n + 1 \in Nat /\ n = sdn + Origin(cal) /\ n + 1 = (sdn + 1) + Origin(cal)
      /\ sdn + 1 \in Nat /\ sdn + 1 > 0
  BY DEF Origin
<1> HIDE DEF n
<1>2. /\ from_sdn_func(cal, sdn) = FromMarch(YearOf(cal, n), DayOfYear(cal, n))
      /\ from_sdn_func(cal, sdn + 1) = FromMarch(YearOf(cal, n + 1), DayOfYear(cal, n + 1))
  BY <1>1, SolarDate
<1>3. /\ YearOf(cal, n) \in Nat /\ DayOfYear(cal, n) \in 1 .. YearLength(cal, YearOf(cal, n))
      /\ YearOf(cal, n + 1) \in Nat /\ DayOfYear(cal, n + 1) \in 1 .. YearLength(cal, YearOf(cal, n + 1))
  BY <1>1, YearFacts DEF Solar
<1>4. IF DayOfYear(cal, n) = YearLength(cal, YearOf(cal, n))
      THEN YearOf(cal, n + 1) = YearOf(cal, n) + 1 /\ DayOfYear(cal, n + 1) = 1
      ELSE YearOf(cal, n + 1) = YearOf(cal, n) /\ DayOfYear(cal, n + 1) = DayOfYear(cal, n) + 1
  BY <1>1, DayAfterDay DEF Solar
<1>5. QED
  BY <1>2, <1>3, <1>4, MarchFollows

-----------------------------------------------------------------------------
(* The French republican calendar, of fourteen years.                      *)

InFrench(sdn) == sdn \in Nat /\ 2375840 <= sdn /\ sdn <= 2380952
LEMMA FrenchOperators ==
  ASSUME NEW cal, cal = "FRENCH_REV"
  PROVE  /\ \A sdn : from_sdn_func(cal, sdn) = SdnToFrench(sdn)
         /\ \A y, m, d : to_sdn_func(cal, y, m, d) = FrenchToSdn(y, m, d)
         /\ \A y : LeapYear(cal, y) <=> Astronomical(y) % 4 = 3
         /\ \A y, m : Lengths(cal, y, m) = IF m = 13 THEN {IF LeapYear(cal, y) THEN 6 ELSE 5} ELSE {30}
         /\ \A y, m, d : Exists(cal, y, m, d) =>
              /\ y # 0 /\ HasMonth(cal, y, m) /\ d >= 1 /\ y \in 1 .. 14
              /\ \A n \in Lengths(cal, y, m) : d <= n
<1>1. \A sdn : from_sdn_func(cal, sdn) = SdnToFrench(sdn)
  BY Zenon DEF from_sdn_func
<1>2. \A y, m, d : to_sdn_func(cal, y, m, d) = FrenchToSdn(y, m, d)
  BY Zenon DEF to_sdn_func
<1>3. \A y : LeapYear(cal, y) <=> Astronomical(y) % 4 = 3
  BY Zenon DEF LeapYear
<1>4. \A y, m : Lengths(cal, y, m) = IF m = 13 THEN {IF LeapYear(cal, y) THEN 6 ELSE 5} ELSE {30}
  BY Zenon DEF Lengths
<1>5. ASSUME NEW y, NEW m, NEW d, Exists(cal, y, m, d)
      PROVE  /\ y # 0 /\ HasMonth(cal, y, m) /\ d >= 1 /\ y \in 1 .. 14
             /\ \A n \in Lengths(cal, y, m) : d <= n
  <2>1. y # 0 /\ HasMonth(cal, y, m) /\ d >= 1 /\ \A n \in Lengths(cal, y, m) : d <= n
    BY <1>5, Zenon DEF Exists
  <2>2. y \in 1 .. 14
    BY <1>5, cal = "FRENCH_REV", SMT DEF Exists
  <2>3. QED
    BY <2>1, <2>2
<1>6. QED
  BY <1>1, <1>2, <1>3, <1>4, <1>5, Zenon

\* Day n of the calendar, from 0, is day DayOf.. of the year.
FrenchYear(n) == ((4 * n) - 1) \div DaysPer4Years
FrenchDayOfYear(n) == (((4 * n) - 1) % DaysPer4Years) \div 4

LEMMA FrenchDate ==
  ASSUME NEW cal, cal = "FRENCH_REV", NEW sdn, InFrench(sdn), NEW n \in Nat, n = sdn - 2375474
  PROVE  /\ n \in Nat /\ 366 <= n /\ n <= 5478
         /\ from_sdn_func(cal, sdn)
              = <<FrenchYear(n), (FrenchDayOfYear(n) \div 30) + 1, (FrenchDayOfYear(n) % 30) + 1>>
<1>1. n \in Nat /\ 366 <= n /\ n <= 5478
  BY SMT DEF InFrench
<1>2. ((sdn - 2375474) * 4) - 1 = (4 * n) - 1
  BY SMT
<1>3. SdnToFrench(sdn)
        = <<FrenchYear(n), (FrenchDayOfYear(n) \div 30) + 1, (FrenchDayOfYear(n) % 30) + 1>>
  BY <1>2, SMT DEF SdnToFrench, InFrench, FrenchYear, FrenchDayOfYear
<1>4. QED
  BY <1>1, <1>3, FrenchOperators, SMT

LEMMA FrenchYears ==
  ASSUME NEW n \in Nat, 366 <= n, n <= 5478
  PROVE  /\ FrenchYear(n) \in 1 .. 14
         /\ FrenchDayOfYear(n) \in Nat /\ FrenchDayOfYear(n) <= (IF FrenchYear(n) % 4 = 3 THEN 365 ELSE 364)
         /\ ((FrenchYear(n) * DaysPer4Years) \div 4) + FrenchDayOfYear(n) + 1 = n
  BY SMTT(30) DEF FrenchYear, FrenchDayOfYear, DaysPer4Years

LEMMA FrenchNumbers ==
  ASSUME NEW y \in 1 .. 14, NEW d \in Nat, d <= (IF y % 4 = 3 THEN 365 ELSE 364), NEW n \in Int,
         n = ((y * DaysPer4Years) \div 4) + d + 1
  PROVE  n \in Nat /\ 366 <= n /\ n <= 5478 /\ FrenchYear(n) = y /\ FrenchDayOfYear(n) = d
  BY SMTT(30) DEF FrenchYear, FrenchDayOfYear, DaysPer4Years

LEMMA FrenchLengths ==
  ASSUME NEW cal, cal = "FRENCH_REV", NEW y \in 1 .. 14, NEW m \in 1 .. 13
  PROVE  Lengths(cal, y, m) = {IF m # 13 THEN 30 ELSE IF y % 4 = 3 THEN 6 ELSE 5}
<1>1. LeapYear(cal, y) <=> y % 4 = 3
  BY FrenchOperators, SMT DEF Astronomical
<1>2. Lengths(cal, y, m) = IF m = 13 THEN {IF LeapYear(cal, y) THEN 6 ELSE 5} ELSE {30}
  BY FrenchOperators
<1>3. QED
  BY <1>1, <1>2

LEMMA FrenchDayIsADate ==
  ASSUME NEW cal, cal = "FRENCH_REV", NEW sdn, InFrench(sdn), NEW date, date = from_sdn_func(cal, sdn)
  PROVE  MayExist(cal, date) /\ to_sdn_func(cal, date[1], date[2], date[3]) = sdn
<1> DEFINE n == sdn - 2375474
           y == FrenchYear(n)
           d == FrenchDayOfYear(n)
           m == (d \div 30) + 1
           day == (d % 30) + 1
<1>1. n \in Nat /\ 366 <= n /\ n <= 5478 /\ n = sdn - 2375474 /\ sdn = n + 2375474
  BY SMT DEF InFrench
<1> HIDE DEF n
<1>2. date = <<y, m, day>>
  BY <1>1, FrenchDate, SMT
<1>3. y \in 1 .. 14 /\ d \in Nat /\ d <= (IF y % 4 = 3 THEN 365 ELSE 364) /\ ((y * DaysPer4Years) \div 4) + d + 1 = n
  BY <1>1, FrenchYears, SMTT(30)
<1> HIDE DEF y, d
<1>4. m \in 1 .. 13 /\ day \in 1 .. 30 /\ ((m - 1) * 30) + day = d + 1 /\ (m = 13 => day <= IF y % 4 = 3 THEN 6 ELSE 5)
  BY <1>3
<1> HIDE DEF m, day
<1>5. date[1] = y /\ date[2] = m /\ date[3] = day
  BY <1>2
<1>6. HasMonth(cal, y, m)
  BY <1>4 DEF HasMonth, LastMonth
<1>7. \E l \in Lengths(cal, y, m) : day <= l
  BY <1>3, <1>4, FrenchLengths
<1>8. MayExist(cal, date)
  BY <1>2, <1>3, <1>4, <1>5, <1>6, <1>7 DEF MayExist
<1>9. FrenchToSdn(y, m, day) = sdn
  <2>1. (y * DaysPer4Years) \div 4 \in Int
    BY <1>3 DEF DaysPer4Years
  <2>2. FrenchToSdn(y, m, day) = (((y * DaysPer4Years) \div 4) + ((m - 1) * 30)) + day + 2375474
    BY <1>3, <1>4, SMT DEF FrenchToSdn
  <2>3. QED
    BY <1>1, <1>3, <1>4, <2>1, <2>2, SMT
<1>10. QED
  BY <1>5, <1>8, <1>9, FrenchOperators, SMT

LEMMA FrenchDateIsADay ==
  ASSUME NEW cal, cal = "FRENCH_REV", NEW year \in Int, NEW month \in Int, NEW day \in Int,
         Exists(cal, year, month, day), NEW sdn, sdn = to_sdn_func(cal, year, month, day)
  PROVE  InFrench(sdn) /\ from_sdn_func(cal, sdn) = <<year, month, day>>
<1> DEFINE d == ((month - 1) * 30) + day - 1
           n == ((year * DaysPer4Years) \div 4) + d + 1
<1>1. year \in 1 .. 14 /\ month \in 1 .. 13 /\ day >= 1 /\ \A l \in Lengths(cal, year, month) : day <= l
  BY FrenchOperators, SMT DEF HasMonth, LastMonth
<1>2. day \in 1 .. 30 /\ (month = 13 => day <= IF year % 4 = 3 THEN 6 ELSE 5)
  BY <1>1, FrenchLengths
<1>3. d \in Nat /\ d <= (IF year % 4 = 3 THEN 365 ELSE 364)
  BY <1>1, <1>2
<1>4. (d \div 30) + 1 = month /\ (d % 30) + 1 = day
  BY <1>1, <1>2
<1>5. (year * DaysPer4Years) \div 4 \in Int
  BY <1>1 DEF DaysPer4Years
<1>6. sdn = n + 2375474
  <2>1. FrenchToSdn(year, month, day) = (((year * DaysPer4Years) \div 4) + ((month - 1) * 30)) + day + 2375474
    BY <1>1, <1>2, SMT DEF FrenchToSdn
  <2>2. QED
    BY <1>1, <1>5, <2>1, FrenchOperators, SMT
<1> HIDE DEF d
<1>7. n \in Int /\ n = ((year * DaysPer4Years) \div 4) + d + 1
  BY <1>3, <1>5
<1> HIDE DEF n
<1>8. n \in Nat /\ 366 <= n /\ n <= 5478 /\ FrenchYear(n) = year /\ FrenchDayOfYear(n) = d
  BY <1>1, <1>3, <1>7, FrenchNumbers, SMTT(30)
<1>9. InFrench(sdn) /\ n = sdn - 2375474
  BY <1>6, <1>8, SMT DEF InFrench
<1>10. QED
  BY <1>4, <1>8, <1>9, FrenchDate, SMT

LEMMA FrenchDaysFollow ==
  ASSUME NEW cal, cal = "FRENCH_REV", NEW sdn, InFrench(sdn), InFrench(sdn + 1)
  PROVE  Follows(cal, from_sdn_func(cal, sdn), from_sdn_func(cal, sdn + 1))
<1> DEFINE n == sdn - 2375474
           y == FrenchYear(n)
           d == FrenchDayOfYear(n)
           y2 == FrenchYear(n + 1)
           d2 == FrenchDayOfYear(n + 1)
           m == (d \div 30) + 1
           m2 == (d2 \div 30) + 1
           day == (d % 30) + 1
           day2 == (d2 % 30) + 1
           date == from_sdn_func(cal, sdn)
<1>1. n \in Nat /\ 366 <= n /\ n <= 5478 /\ n + 1 \in Nat /\ 366 <= n + 1 /\ n + 1 <= 5478 /\ n = sdn - 2375474 /\ n + 1 = (sdn + 1) - 2375474
  BY SMT DEF InFrench
<1> HIDE DEF n
<1>2. date = <<y, m, day>> /\ from_sdn_func(cal, sdn + 1) = <<y2, m2, day2>>
  BY <1>1, FrenchDate, SMT
<1>3. /\ y \in 1 .. 14 /\ d \in Nat /\ d <= (IF y % 4 = 3 THEN 365 ELSE 364)
      /\ IF d = (IF y % 4 = 3 THEN 365 ELSE 364) THEN y2 = y + 1 /\ d2 = 0 ELSE y2 = y /\ d2 = d + 1
  BY <1>1, SMTT(30) DEF FrenchYear, FrenchDayOfYear, DaysPer4Years
<1> HIDE DEF y, d, y2, d2
<1>4. m \in 1 .. 13 /\ (m = 13 => day <= IF y % 4 = 3 THEN 6 ELSE 5) /\ day \in 1 .. 30
  BY <1>3
<1>5. Lengths(cal, y, m) = {IF m # 13 THEN 30 ELSE IF y % 4 = 3 THEN 6 ELSE 5}
  <2> HIDE DEF m
  <2>1. QED
    BY <1>3, <1>4, FrenchLengths
<1>6. \/ y2 = y /\ m2 = m /\ day2 = day + 1 /\ day < IF m # 13 THEN 30 ELSE IF y % 4 = 3 THEN 6 ELSE 5
      \/ y2 = y /\ m # 13 /\ day = 30 /\ m2 = m + 1 /\ day2 = 1
      \/ y2 = y + 1 /\ m = 13 /\ day = (IF y % 4 = 3 THEN 6 ELSE 5) /\ m2 = 1 /\ day2 = 1
  BY <1>3
<1> HIDE DEF m, m2, day, day2
<1>7. date[1] = y /\ date[2] = m /\ date[3] = day
  BY <1>2
<1>8. NextYear(y) = y + 1 /\ (m # 13 => FollowingMonth(cal, y, m) = m + 1)
  BY <1>3, <1>4 DEF NextYear, FollowingMonth, HasMonth, LastMonth
<1> HIDE DEF date
<1>9. Follows(cal, date, from_sdn_func(cal, sdn + 1))
  BY <1>2, <1>5, <1>6, <1>7, <1>8 DEF Follows, LastMonth
<1>10. QED
  BY <1>9 DEF date

-----------------------------------------------------------------------------
(* The Hebrew calendar: new moons, in halakim.                             *)

\* The years n from 0 (year 1), the months before them, and the first new
\* moon of each.
MonthsBefore(n) == ((235 * n) + 1) \div 19
Halakim(n) == 31524 + (MonthsBefore(n) * HalakimPerLunarCycle)
MoladAt(t) == [day |-> t \div HalakimPerDay, halakim |-> t % HalakimPerDay]
MoladOf(n) == MoladAt(Halakim(n))
IsLeap(n) == n % 19 \in LeapYears

LEMMA LaterMolad ==
  ASSUME NEW t \in Int, NEW h \in Int
  PROVE  Later(MoladAt(t), h) = MoladAt(t + h)
  BY SMT DEF Later, MoladAt, HalakimPerDay

LEMMA MonthsNext ==
  ASSUME NEW n \in Nat
  PROVE  /\ MonthsBefore(n) \in Nat
         /\ MonthsBefore(n + 1) = MonthsBefore(n) + monthsPerYear(n % 19)
         /\ monthsPerYear(n % 19) = IF IsLeap(n) THEN 13 ELSE 12
  BY SMTT(30) DEF MonthsBefore, monthsPerYear, IsLeap, LeapYears

LEMMA YearOffsets ==
  ASSUME NEW y \in 0 .. 18
  PROVE  yearOffset[y + 1] = MonthsBefore(y) /\ MonthsBefore(y) \in Nat
  BY SMTT(30) DEF MonthsBefore, yearOffset

LEMMA MonthsOfCycle ==
  ASSUME NEW c \in Nat, NEW y \in 0 .. 18
  PROVE  /\ MonthsBefore((19 * c) + y) = (235 * c) + MonthsBefore(y)
         /\ ((19 * c) + y) % 19 = y /\ ((19 * c) + y) \div 19 = c
  BY SMTT(30) DEF MonthsBefore

LEMMA HalakimOfCycle ==
  ASSUME NEW c \in Nat
  PROVE  Halakim(19 * c) = 31524 + (c * HalakimPerMetonicCycle)
<1>1. MonthsBefore(19 * c) = 235 * c
  BY SMTT(30) DEF MonthsBefore
<1>2. QED
  BY <1>1, SMT DEF Halakim, HalakimPerMetonicCycle, HalakimPerLunarCycle, HalakimPerDay

LEMMA LeapYearsAreLeap ==
  ASSUME NEW n \in Nat
  PROVE  (((7 * (n + 1)) + 1) % 19 < 7) <=> IsLeap(n)
  BY SMTT(30) DEF IsLeap, LeapYears

\* The product of MoladOfMetonicCycle, in its two halves.
LEMMA MoladOfCycle ==
  ASSUME NEW c \in Nat
  PROVE  MoladOfMetonicCycle(c) = MoladOf(19 * c)
<1> DEFINE t == 31524 + (c * HalakimPerMetonicCycle)
           low == 31524 + (c * (HalakimPerMetonicCycle % 65536))
           high == (low \div 65536) + (c * (HalakimPerMetonicCycle \div 65536))
           rest == ((high % HalakimPerDay) * 65536) + (low % 65536)
<1>1. low \in Nat /\ high \in Nat /\ t = (high * 65536) + (low % 65536) /\ t \in Nat
  BY SMTT(30) DEF HalakimPerMetonicCycle, HalakimPerLunarCycle, HalakimPerDay
<1> HIDE DEF low, high, t
<1>2. /\ t \div HalakimPerDay = ((high \div HalakimPerDay) * 65536) + (rest \div HalakimPerDay)
      /\ t % HalakimPerDay = rest % HalakimPerDay
  BY <1>1, SMTT(30) DEF HalakimPerDay
<1>3. MoladOfMetonicCycle(c) = MoladAt(t)
  BY <1>2, SMT DEF MoladOfMetonicCycle, MoladAt, low, high
<1>4. QED
  BY <1>3, HalakimOfCycle, SMT DEF MoladOf, t

-----------------------------------------------------------------------------
(* The days the years begin on.                                            *)

NewYear(n) == Tishri1(n % 19, MoladOf(n))
LengthOf(n) == NewYear(n + 1) - NewYear(n)

Common(y) == IF y \in LeapYears THEN 0 ELSE 1
AfterLeap(y) == IF (y + 18) % 19 \in LeapYears THEN 1 ELSE 0
\* Rosh Ha-Shanah when the molad is on day d, h halakim, of a year that is
\* common or not, after a leap year or not.
PutOff(d, h, common, afterLeap) ==
  LET late == \/ h >= 19440
              \/ common = 1 /\ d % 7 = 2 /\ h >= 9924
              \/ afterLeap = 1 /\ d % 7 = 1 /\ h >= 16789
      day == IF late THEN d + 1 ELSE d
  IN IF day % 7 \in {0, 3, 5} THEN day + 1 ELSE day

LEMMA Tishri1IsPutOff ==
  ASSUME NEW y \in 0 .. 18, NEW t \in Nat
  PROVE  Tishri1(y, MoladAt(t))
           = PutOff(t \div HalakimPerDay, t % HalakimPerDay, Common(y), AfterLeap(y))
<1> DEFINE d == t \div HalakimPerDay
           h == t % HalakimPerDay
<1>1. d \in Nat /\ h \in Nat
  BY SMT DEF HalakimPerDay
<1>2. MoladAt(t).day = d /\ MoladAt(t).halakim = h
  BY SMT DEF MoladAt
<1> HIDE DEF d, h
<1>3. \A late : (IF late THEN ((d % 7) + 1) % 7 ELSE d % 7) = (IF late THEN d + 1 ELSE d) % 7
  BY <1>1, SMT
<1>4. Tishri1(y, MoladAt(t)) = PutOff(d, h, Common(y), AfterLeap(y))
  BY <1>1, <1>2, <1>3, SMTT(30) DEF Tishri1, PutOff, Common, AfterLeap
<1>5. QED
  BY <1>4 DEF d, h

\* Rosh Ha-Shanah is at most two days after the molad, and on no Sunday,
\* Wednesday or Friday.
Begins(day, d) == day \in Nat /\ d <= day /\ day <= d + 2 /\ day % 7 \notin {0, 3, 5}

LEMMA PutOffDays ==
  ASSUME NEW d \in Nat, NEW h \in Nat, h < 25920, NEW common \in {0, 1}, NEW afterLeap \in {0, 1}
  PROVE  Begins(PutOff(d, h, common, afterLeap), d)
  BY SMTT(30) DEF PutOff, Begins

Halakim12 == 9185196
Halakim13 == 9950629
\* t halakim are on day d, and h.
IsTime(t, d, h) == d \in Nat /\ h \in Nat /\ h < 25920 /\ (d * 25920) + h = t
\* A time and one that is so many halakim later.
Apart(halakim, d, h, d2, h2) ==
  /\ d \in Nat /\ h \in Nat /\ h < 25920 /\ d2 \in Nat /\ h2 \in Nat /\ h2 < 25920
  /\ (d2 * 25920) + h2 = (d * 25920) + h + halakim

\* The lengths of the years: 12 months are 354 days and 9516 halakim, 13 are
\* 383 days and 23269.
LEMMA PutOffCommon ==
  ASSUME NEW d, NEW h, NEW d2, NEW h2, Apart(Halakim12, d, h, d2, h2),
         NEW afterLeap \in {0, 1}, NEW common \in {0, 1}
  PROVE  PutOff(d2, h2, common, 0) - PutOff(d, h, 1, afterLeap) \in 353 .. 355
<1>1. \/ h2 = h + 9516 /\ d2 = d + 354
      \/ h2 = h + 9516 - 25920 /\ d2 = d + 355
  BY SMTT(30) DEF Apart, Halakim12, Halakim13
<1>0. d \in Nat /\ h \in Nat /\ h < 25920 /\ d2 \in Nat /\ h2 \in Nat /\ h2 < 25920
  BY DEF Apart
<1>2. PICK k : k \in 0 .. 6 /\ d % 7 = k
  BY <1>0, SMT
<1>3. PutOff(d2, h2, common, 0) - PutOff(d, h, 1, afterLeap) \in 353 .. 355
  BY <1>0, <1>1, <1>2, SMTT(60) DEF PutOff
<1>4. QED
  BY ONLY <1>3

LEMMA PutOffLeap ==
  ASSUME NEW d, NEW h, NEW d2, NEW h2, Apart(Halakim13, d, h, d2, h2)
  PROVE  PutOff(d2, h2, 1, 1) - PutOff(d, h, 0, 0) \in 383 .. 385
<1>1. \/ h2 = h + 23269 /\ d2 = d + 383
      \/ h2 = h + 23269 - 25920 /\ d2 = d + 384
  BY SMTT(30) DEF Apart, Halakim12, Halakim13
<1>0. d \in Nat /\ h \in Nat /\ h < 25920 /\ d2 \in Nat /\ h2 \in Nat /\ h2 < 25920
  BY DEF Apart
<1>2. PICK k : k \in 0 .. 6 /\ d % 7 = k
  BY <1>0, SMT
<1>3. PutOff(d2, h2, 1, 1) - PutOff(d, h, 0, 0) \in 383 .. 385
  BY <1>0, <1>1, <1>2, SMTT(60) DEF PutOff
<1>4. QED
  BY ONLY <1>3

LEMMA HalakimNext ==
  ASSUME NEW n \in Nat
  PROVE  /\ Halakim(n) \in Nat
         /\ Halakim(n + 1) = Halakim(n) + (HalakimPerLunarCycle * monthsPerYear(n % 19))
         /\ Halakim(n + 1) = Halakim(n) + IF IsLeap(n) THEN Halakim13 ELSE Halakim12
  BY MonthsNext, SMT DEF Halakim, HalakimPerLunarCycle, HalakimPerDay, Halakim12, Halakim13

LEMMA MoladDays ==
  ASSUME NEW n \in Nat
  PROVE  /\ MoladOf(n).day \in Nat /\ MoladOf(n).halakim \in Nat /\ MoladOf(n).halakim < 25920
         /\ MoladOf(n).day = Halakim(n) \div 25920 /\ Halakim(n) \in Nat
         /\ IsTime(Halakim(n), MoladOf(n).day, MoladOf(n).halakim)
<1> DEFINE t == Halakim(n)
<1>1. t \in Nat
  BY HalakimNext
<1>2. MoladOf(n).day = t \div 25920 /\ MoladOf(n).halakim = t % 25920
  BY SMT DEF MoladOf, MoladAt, HalakimPerDay
<1> HIDE DEF t
<1>3. LET d == t \div 25920
          h == t % 25920
      IN d \in Nat /\ h \in Nat /\ h < 25920 /\ (d * 25920) + h = t
  BY <1>1, SMT
<1>4. QED
  BY <1>1, <1>2, <1>3, SMT DEF t, IsTime

LEMMA NewYearIsPutOff ==
  ASSUME NEW n \in Nat
  PROVE  NewYear(n) = PutOff(MoladOf(n).day, MoladOf(n).halakim, Common(n % 19), AfterLeap(n % 19))
<1>1. Halakim(n) \in Nat /\ n % 19 \in 0 .. 18
  BY HalakimNext, SMT
<1>2. /\ MoladOf(n).day = Halakim(n) \div HalakimPerDay /\ MoladOf(n).halakim = Halakim(n) % HalakimPerDay
      /\ MoladOf(n) = MoladAt(Halakim(n))
  BY SMT DEF MoladOf, MoladAt
<1> DEFINE y == n % 19
<1> HIDE DEF y
<1>3. Tishri1(y, MoladAt(Halakim(n)))
        = PutOff(Halakim(n) \div HalakimPerDay, Halakim(n) % HalakimPerDay, Common(y), AfterLeap(y))
  <2>1. y \in 0 .. 18
    BY <1>1 DEF y
  <2>2. QED
    BY <1>1, <2>1, Tishri1IsPutOff
<1>4. QED
  BY <1>2, <1>3, SMT DEF NewYear, y

LEMMA YearsBegin ==
  ASSUME NEW n \in Nat
  PROVE  /\ NewYear(n) \in Nat /\ MoladOf(n).day <= NewYear(n) /\ NewYear(n) <= MoladOf(n).day + 2
         /\ NewYear(n) % 7 \notin {0, 3, 5}
<1>1. MoladOf(n).day \in Nat /\ MoladOf(n).halakim \in Nat /\ MoladOf(n).halakim < 25920
  BY MoladDays
<1> DEFINE d == MoladOf(n).day
           h == MoladOf(n).halakim
           common == Common(n % 19)
           afterLeap == AfterLeap(n % 19)
<1>2. common \in {0, 1} /\ afterLeap \in {0, 1}
  BY DEF Common, AfterLeap
<1>3. NewYear(n) = PutOff(d, h, common, afterLeap)
  BY NewYearIsPutOff
<1> HIDE DEF d, h, common, afterLeap
<1>4. d \in Nat /\ h \in Nat /\ h < 25920
  BY <1>1 DEF d, h
<1>5. Begins(PutOff(d, h, common, afterLeap), d)
  BY <1>2, <1>4, PutOffDays
<1>6. QED
  BY <1>3, <1>5 DEF d, Begins

LEMMA YearLengths ==
  ASSUME NEW n \in Nat
  PROVE  LengthOf(n) \in IF IsLeap(n) THEN 383 .. 385 ELSE 353 .. 355
<1> DEFINE d == MoladOf(n).day
           h == MoladOf(n).halakim
           d2 == MoladOf(n + 1).day
           h2 == MoladOf(n + 1).halakim
           common == Common(n % 19)
           afterLeap == AfterLeap(n % 19)
           common2 == Common((n + 1) % 19)
           afterLeap2 == AfterLeap((n + 1) % 19)
<1>1. IsTime(Halakim(n), d, h) /\ IsTime(Halakim(n + 1), d2, h2)
  BY MoladDays
<1>2. Halakim(n) \in Nat /\ Halakim(n + 1) = Halakim(n) + IF IsLeap(n) THEN Halakim13 ELSE Halakim12
  BY HalakimNext
<1>3. /\ afterLeap \in {0, 1} /\ common2 \in {0, 1}
      /\ ~IsLeap(n) => common = 1 /\ afterLeap2 = 0
      /\ IsLeap(n) => common = 0 /\ afterLeap = 0 /\ common2 = 1 /\ afterLeap2 = 1
  <2>1. n % 19 \in 0 .. 18 /\ (n + 1) % 19 = ((n % 19) + 1) % 19
    BY SMT
  <2>2. (((n + 1) % 19) + 18) % 19 = n % 19
    BY SMT
  <2>3. afterLeap \in {0, 1} /\ common2 \in {0, 1}
    BY DEF Common, AfterLeap
  <2>4. /\ ~IsLeap(n) => common = 1 /\ afterLeap2 = 0
        /\ IsLeap(n) => common = 0 /\ afterLeap2 = 1
    BY <2>2 DEF IsLeap, Common, AfterLeap
  <2>5. IsLeap(n) => common2 = 1 /\ afterLeap = 0
    BY <2>1, SMT DEF IsLeap, LeapYears, Common, AfterLeap
  <2>6. QED
    BY <2>3, <2>4, <2>5
<1>4. NewYear(n) = PutOff(d, h, common, afterLeap) /\ NewYear(n + 1) = PutOff(d2, h2, common2, afterLeap2)
  BY NewYearIsPutOff
<1> HIDE DEF d, h, d2, h2, common, afterLeap, common2, afterLeap2
<1>5. CASE IsLeap(n)
  <2>1. common = 0 /\ afterLeap = 0 /\ common2 = 1 /\ afterLeap2 = 1
    BY <1>3, <1>5, Zenon
  <2>2. Apart(Halakim13, d, h, d2, h2)
    BY <1>1, <1>2, <1>5, SMT DEF Apart, IsTime, Halakim13
  <2>3. PutOff(d2, h2, 1, 1) - PutOff(d, h, 0, 0) \in 383 .. 385
    BY <2>2, PutOffLeap
  <2>4. LengthOf(n) \in 383 .. 385
    BY <1>4, <2>1, <2>3, Zenon DEF LengthOf
  <2>5. QED
    BY <1>5, <2>4
<1>6. CASE ~IsLeap(n)
  <2>1. common = 1 /\ afterLeap2 = 0 /\ afterLeap \in {0, 1} /\ common2 \in {0, 1}
    BY <1>3, <1>6, Zenon
  <2>2. Apart(Halakim12, d, h, d2, h2)
    BY <1>1, <1>2, <1>6, SMT DEF Apart, IsTime, Halakim12
  <2>3. PutOff(d2, h2, common2, 0) - PutOff(d, h, 1, afterLeap) \in 353 .. 355
    <3>1. afterLeap \in {0, 1} /\ common2 \in {0, 1}
      BY <1>3, Zenon
    <3>2. QED
      BY <2>2, <3>1, PutOffCommon
  <2>4. LengthOf(n) \in 353 .. 355
    BY <1>4, <2>1, <2>3, Zenon DEF LengthOf
  <2>5. QED
    BY <1>6, <2>4
<1>7. QED
  BY <1>5, <1>6

LEMMA MoladsGrow ==
  ASSUME NEW a \in Nat, NEW b \in Nat, a < b
  PROVE  /\ MoladOf(a).day + 354 <= MoladOf(b).day
         /\ NewYear(a) < NewYear(b)
<1>1. MonthsBefore(a) + 12 <= MonthsBefore(b) /\ MonthsBefore(a) \in Nat /\ MonthsBefore(b) \in Nat
  BY SMTT(30) DEF MonthsBefore
<1>2. Halakim(a) \in Nat /\ Halakim(a) + 9185196 <= Halakim(b) /\ Halakim(b) \in Nat
  BY <1>1, SMTT(30) DEF Halakim, HalakimPerLunarCycle, HalakimPerDay
<1>3. MoladOf(a).day + 354 <= MoladOf(b).day
  <2>1. MoladOf(a).day = Halakim(a) \div 25920 /\ MoladOf(b).day = Halakim(b) \div 25920
    BY MoladDays
  <2>2. QED
    BY <1>2, <2>1, SMT
<1>4. QED
  BY <1>3, YearsBegin, MoladDays, SMT

LEMMA LeastNumber ==
  ASSUME NEW S, S \subseteq Nat, S # {}
  PROVE  \E m \in S : \A i \in S : ~(i < m)
<1> DEFINE R == OpToRel(<, Nat)
<1>1. IsWellFoundedOn(R, Nat)
  BY NatLessThanWellFounded
<1>2. \A k, l \in Nat : l < k => <<l, k>> \in R
  BY DEF OpToRel
<1> HIDE DEF R
<1>3. PICK m \in S : \A i \in S : ~ (<<i, m>> \in R)
  BY <1>1, WFMin
<1>4. QED
  BY <1>2, <1>3

LEMMA StartOfYear ==
  ASSUME NEW n \in Nat
  PROVE  /\ FindStartOfYear(n + 1) = [year |-> n % 19, molad |-> MoladOf(n), tishri1 |-> NewYear(n)]
         /\ NextTishri1(n % 19, MoladOf(n)) = NewYear(n + 1)
<1> DEFINE c == n \div 19
           y == n % 19
<1>1. c \in Nat /\ y \in 0 .. 18 /\ n = (19 * c) + y
  BY SMT
<1>2. (n + 1) - 1 = n
  BY SMT
<1>3. Later(MoladOfMetonicCycle(c), HalakimPerLunarCycle * yearOffset[y + 1]) = MoladOf(n)
  <2>1. MoladOfMetonicCycle(c) = MoladAt(Halakim(19 * c))
    BY <1>1, MoladOfCycle DEF MoladOf
  <2>2. yearOffset[y + 1] = MonthsBefore(y) /\ MonthsBefore(y) \in Nat
    BY <1>1, YearOffsets
  <2>3. MonthsBefore((19 * c) + y) = (235 * c) + MonthsBefore(y)
    <3> HIDE DEF c, y
    <3> QED
      BY <1>1, SMTT(30) DEF MonthsBefore
  <2>4. MonthsBefore(19 * c) = 235 * c
    BY <1>1, SMTT(30) DEF MonthsBefore
  <2>5. /\ Halakim(19 * c) \in Int
        /\ Halakim(19 * c) + (HalakimPerLunarCycle * yearOffset[y + 1]) = Halakim(n)
        /\ HalakimPerLunarCycle * yearOffset[y + 1] \in Int
    <3> HIDE DEF c, y
    <3> QED
      BY <1>1, <2>2, <2>3, <2>4, SMTT(30) DEF Halakim, HalakimPerLunarCycle, HalakimPerDay
  <2>6. QED
    BY <2>1, <2>5, LaterMolad DEF MoladOf
<1>4. FindStartOfYear(n + 1) = [year |-> y, molad |-> MoladOf(n), tishri1 |-> Tishri1(y, MoladOf(n))]
  BY <1>2, <1>3, Zenon DEF FindStartOfYear
<1>5. Later(MoladOf(n), HalakimPerLunarCycle * monthsPerYear(y)) = MoladOf(n + 1)
  <2>1. Halakim(n) \in Int /\ HalakimPerLunarCycle * monthsPerYear(y) \in Int
    BY HalakimNext, SMT DEF HalakimPerLunarCycle, HalakimPerDay, monthsPerYear
  <2>2. QED
    BY <2>1, HalakimNext, LaterMolad DEF MoladOf
<1>6. (y + 1) % 19 = (n + 1) % 19
  BY SMT
<1>7. QED
  BY <1>4, <1>5, <1>6, Zenon DEF NextTishri1, NewYear

-----------------------------------------------------------------------------
(* Finding the molad: first that the recursions define functions.          *)

TimeOf(m) == (m.day * HalakimPerDay) + m.halakim
\* The molad m, n months or years of step halakim later.
After(m, halakim) == IF halakim = 0 THEN m ELSE MoladAt(TimeOf(m) + halakim)
Ceiling(t) == (t + (HalakimPerMetonicCycle - 1)) \div HalakimPerMetonicCycle
\* The cycles that a molad has to be moved on to reach the day.
CyclesTo(day, m) ==
  LET t == (day * HalakimPerDay) - TimeOf(m)
  IN IF m.day >= day THEN 0 ELSE IF Ceiling(t) < 1 THEN 1 ELSE Ceiling(t)
LEMMA LaterIs ==
  ASSUME NEW m \in Molads, NEW h \in Int
  PROVE  Later(m, h) = MoladAt(TimeOf(m) + h) /\ TimeOf(m) \in Int
  BY SMT DEF Later, MoladAt, TimeOf, Molads, HalakimPerDay

LEMMA TimeOfMolad ==
  ASSUME NEW t \in Int
  PROVE  TimeOf(MoladAt(t)) = t /\ MoladAt(t) \in Molads
<1>1. (t \div 25920) \in Int /\ (t % 25920) \in Int /\ ((t \div 25920) * 25920) + (t % 25920) = t
  BY SMT
<1>2. MoladAt(t) = [day |-> t \div 25920, halakim |-> t % 25920]
  BY SMT DEF MoladAt, HalakimPerDay
<1>3. QED
  BY <1>1, <1>2, SMT DEF TimeOf, Molads, HalakimPerDay

LEMMA CyclesToNext ==
  ASSUME NEW m \in Molads, NEW day \in Int, m.day < day
  PROVE  /\ CyclesTo(day, m) \in Nat
         /\ CyclesTo(day, m) = CyclesTo(day, MoladAt(TimeOf(m) + HalakimPerMetonicCycle)) + 1
         /\ CyclesTo(day, MoladAt(TimeOf(m) + HalakimPerMetonicCycle)) \in Nat
<1> DEFINE t == TimeOf(m)
           M == HalakimPerMetonicCycle
           m2 == MoladAt(t + M)
           goal == day * HalakimPerDay
<1>1. M = 179876755 /\ HalakimPerDay = 25920
  BY SMT DEF HalakimPerMetonicCycle, HalakimPerLunarCycle, HalakimPerDay
<1>2. t \in Int /\ t + M \in Int /\ goal \in Int
  BY <1>1, LaterIs, SMT
<1>3. TimeOf(m2) = t + M /\ m2.day = (t + M) \div 25920
  BY <1>1, <1>2, TimeOfMolad, SMT DEF MoladAt
<1>4. (m2.day >= day) <=> t + M >= goal
  BY <1>1, <1>2, <1>3, SMT
<1>5. /\ CyclesTo(day, m) = IF Ceiling(goal - t) < 1 THEN 1 ELSE Ceiling(goal - t)
      /\ CyclesTo(day, m2) = IF t + M >= goal THEN 0
                             ELSE IF Ceiling(goal - TimeOf(m2)) < 1 THEN 1 ELSE Ceiling(goal - TimeOf(m2))
  BY <1>4, SMT DEF CyclesTo, Molads
<1>6. goal - TimeOf(m2) = (goal - t) - M
  BY <1>1, <1>2, <1>3, SMT
<1> DEFINE x == goal - t
<1>7. x \in Int /\ (t + M >= goal <=> x <= M)
  BY <1>1, <1>2, SMT
<1> HIDE DEF x, M, goal, t, m2
<1>8. /\ Ceiling(x) \in Int /\ Ceiling(x - M) \in Int
      /\ x <= M => Ceiling(x) <= 1
      /\ ~(x <= M) => Ceiling(x) = Ceiling(x - M) + 1 /\ Ceiling(x - M) >= 1
  <2>1. HalakimPerMetonicCycle = 179876755
    BY <1>1 DEF M
  <2>2. QED
    BY <1>1, <1>7, <2>1, SMTT(30) DEF Ceiling
<1>9. CyclesTo(day, m) = CyclesTo(day, m2) + 1 /\ CyclesTo(day, m2) \in Nat /\ CyclesTo(day, m) \in Nat
  BY <1>5, <1>6, <1>7, <1>8, SMT DEF x
<1>10. QED
  BY <1>9 DEF m2, t, M

Cycles == [cycle : Nat, molad : Molads]
Correction(s) == [cycle |-> s.cycle + 1, molad |-> Later(s.molad, HalakimPerMetonicCycle)]
\* The day on or after which the cycle must begin.
CycleFrom(d) == d - 6940 + 310
Corrected(d, s) ==
  LET k == CyclesTo(CycleFrom(d), s.molad)
  IN [cycle |-> s.cycle + k, molad |-> After(s.molad, k * HalakimPerMetonicCycle)]

LEMMA CorrectionIsCycle ==
  ASSUME NEW s \in Cycles
  PROVE  Correction(s) \in Cycles
<1>1. HalakimPerMetonicCycle \in Int
  BY SMT DEF HalakimPerMetonicCycle, HalakimPerLunarCycle, HalakimPerDay
<1>2. Later(s.molad, HalakimPerMetonicCycle) \in Molads
  <2>1. s.molad \in Molads
    BY DEF Cycles
  <2>2. TimeOf(s.molad) + HalakimPerMetonicCycle \in Int
    BY <1>1, <2>1, LaterIs
  <2>3. QED
    BY <1>1, <2>1, <2>2, LaterIs, TimeOfMolad
<1>3. QED
  BY <1>2, SMT DEF Cycles, Correction

LEMMA CorrectedIs ==
  ASSUME NEW i \in Int, NEW s \in Cycles
  PROVE  Corrected(i, s) = IF s.molad.day < CycleFrom(i) THEN Corrected(i, Correction(s)) ELSE s
<1> DEFINE mm == s.molad
           cc == s.cycle
<1>0. mm \in Molads /\ cc \in Nat /\ s = [cycle |-> cc, molad |-> mm]
  BY SMT DEF Cycles
<1>1. CycleFrom(i) \in Int /\ mm.day \in Int
  BY <1>0, SMT DEF Molads, CycleFrom
<1>2. HalakimPerMetonicCycle \in Nat /\ HalakimPerMetonicCycle # 0
  BY SMT DEF HalakimPerMetonicCycle, HalakimPerLunarCycle, HalakimPerDay
<1> DEFINE m2 == MoladAt(TimeOf(mm) + HalakimPerMetonicCycle)
           k == CyclesTo(CycleFrom(i), m2)
           k0 == CyclesTo(CycleFrom(i), mm)
<1>5. Corrected(i, s) = [cycle |-> cc + k0, molad |-> After(mm, k0 * HalakimPerMetonicCycle)]
  BY DEF Corrected
<1>3. CASE mm.day < CycleFrom(i)
  <3>1. TimeOf(mm) \in Int /\ TimeOf(mm) + HalakimPerMetonicCycle \in Int
        /\ Later(mm, HalakimPerMetonicCycle) = m2
    BY <1>0, <1>2, LaterIs, SMT
  <3>2. m2 \in Molads /\ TimeOf(m2) = TimeOf(mm) + HalakimPerMetonicCycle
    BY <3>1, TimeOfMolad
  <3>3. k0 = k + 1 /\ k \in Nat /\ k0 \in Nat
    BY <1>0, <1>1, <1>3, CyclesToNext
  <3>4. After(mm, k0 * HalakimPerMetonicCycle) = After(m2, k * HalakimPerMetonicCycle)
    <4>1. /\ k0 * HalakimPerMetonicCycle = (k * HalakimPerMetonicCycle) + HalakimPerMetonicCycle
          /\ k0 * HalakimPerMetonicCycle # 0
          /\ k * HalakimPerMetonicCycle = 0 <=> k = 0
      <5> HIDE DEF k, k0
      <5>1. PICK M \in Nat : M = HalakimPerMetonicCycle /\ M > 0
        BY <1>2, SMT
      <5>2. k0 * M = (k * M) + M /\ k0 * M # 0 /\ (k * M = 0 <=> k = 0)
        BY <3>3, <5>1, SMTT(30)
      <5>3. QED
        BY <5>1, <5>2
    <4>2. After(mm, k0 * HalakimPerMetonicCycle) = MoladAt(TimeOf(mm) + (k0 * HalakimPerMetonicCycle))
      BY <4>1 DEF After
    <4>3. CASE k = 0
      <5>1. After(m2, k * HalakimPerMetonicCycle) = m2
        BY <4>1, <4>3 DEF After
      <5>2. k0 * HalakimPerMetonicCycle = HalakimPerMetonicCycle
        BY <1>2, <3>3, <4>3, SMT
      <5>3. QED
        BY <4>2, <5>1, <5>2
    <4>4. CASE k # 0
      <5>1. After(m2, k * HalakimPerMetonicCycle) = MoladAt(TimeOf(m2) + (k * HalakimPerMetonicCycle))
        BY <4>1, <4>4 DEF After
      <5>2. TimeOf(m2) + (k * HalakimPerMetonicCycle) = TimeOf(mm) + (k0 * HalakimPerMetonicCycle)
        <6> DEFINE p == k * HalakimPerMetonicCycle
        <6>1. p \in Int
          BY <1>2, <3>3
        <6> HIDE DEF p, k, k0
        <6>2. k0 * HalakimPerMetonicCycle = p + HalakimPerMetonicCycle
          BY <4>1 DEF p
        <6>3. TimeOf(m2) + p = TimeOf(mm) + (k0 * HalakimPerMetonicCycle)
          BY <1>2, <3>1, <3>2, <6>1, <6>2, SMT
        <6>4. QED
          BY <6>3 DEF p
      <5>3. QED
        BY <4>2, <5>1, <5>2
    <4>5. QED
      BY <4>3, <4>4
  <3>6. Corrected(i, Correction(s))
          = [cycle |-> (cc + 1) + k, molad |-> After(m2, k * HalakimPerMetonicCycle)]
    BY <3>1, Zenon DEF Corrected, Correction
  <3>7. cc + k0 = (cc + 1) + k
    BY <1>0, <3>3, SMT
  <3>8. QED
    BY <1>1, <1>3, <1>5, <3>4, <3>6, <3>7, Zenon
<1>4. CASE ~(mm.day < CycleFrom(i))
  <3>1. CyclesTo(CycleFrom(i), mm) = 0
    BY <1>1, <1>4, SMT DEF CyclesTo
  <3>2. 0 * HalakimPerMetonicCycle = 0 /\ cc + 0 = cc
    BY <1>0, <1>2, SMT
  <3>3. Corrected(i, s) = s
    BY <1>0, <1>5, <3>1, <3>2, Zenon DEF After
  <3>4. QED
    BY <1>1, <1>4, <3>3, Zenon
<1>6. QED
  BY <1>3, <1>4

LEMMA CorrectCycleIsDefined ==
  ASSUME NEW d \in Int, NEW s \in Cycles
  PROVE  CorrectCycle(d)[s] = IF s.molad.day < CycleFrom(d)
                              THEN CorrectCycle(d)[Correction(s)] ELSE s
<1> DEFINE F(f) == [x \in Cycles |-> IF x.molad.day < CycleFrom(d) THEN f[Correction(x)] ELSE x]
           g == [x \in Cycles |-> Corrected(d, x)]
<1>1. g = F(g)
  <2>1. ASSUME NEW x \in Cycles
        PROVE  g[x] = F(g)[x]
    <3>1. g[x] = Corrected(d, x) /\ g[Correction(x)] = Corrected(d, Correction(x))
      BY CorrectionIsCycle
    <3>2. Corrected(d, x) = IF x.molad.day < CycleFrom(d) THEN Corrected(d, Correction(x)) ELSE x
      BY CorrectedIs
    <3>3. F(g)[x] = IF x.molad.day < CycleFrom(d) THEN g[Correction(x)] ELSE x
      OBVIOUS
    <3> HIDE DEF g, F
    <3>4. QED
      BY <3>1, <3>2, <3>3, Zenon
  <2>2. g = [x \in Cycles |-> g[x]] /\ F(g) = [x \in Cycles |-> F(g)[x]]
    OBVIOUS
  <2> HIDE DEF g, F
  <2>3. QED
    BY <2>1, <2>2
<1>2. CorrectCycle(d) = CHOOSE f : f = F(f)
  BY SMT DEF CorrectCycle, Cycles, Correction, CycleFrom
<1>3. CorrectCycle(d) = F(CorrectCycle(d))
  <2> HIDE DEF F, g
  <2> QED
    BY <1>1, <1>2
<1>4. CorrectCycle(d)[s] = F(CorrectCycle(d))[s]
  BY <1>3, Zenon
<1>5. QED
  BY <1>4

LEMMA CyclesAreLong ==
  ASSUME NEW c \in Nat
  PROVE  /\ Later(MoladOf(19 * c), HalakimPerMetonicCycle) = MoladOf(19 * (c + 1))
         /\ MoladOf(19 * c).day >= c /\ MoladOf(19 * c).day \in Nat
         /\ [cycle |-> c, molad |-> MoladOf(19 * c)] \in Cycles
         /\ Correction([cycle |-> c, molad |-> MoladOf(19 * c)])
              = [cycle |-> c + 1, molad |-> MoladOf(19 * (c + 1))]
<1>1. HalakimPerMetonicCycle = 179876755
  BY SMT DEF HalakimPerMetonicCycle, HalakimPerLunarCycle, HalakimPerDay
<1>2. /\ Halakim(19 * c) = 31524 + (c * HalakimPerMetonicCycle)
      /\ Halakim(19 * (c + 1)) = 31524 + ((c + 1) * HalakimPerMetonicCycle)
  BY HalakimOfCycle, SMT
<1>3. Halakim(19 * (c + 1)) = Halakim(19 * c) + HalakimPerMetonicCycle /\ Halakim(19 * c) \in Int
  BY <1>1, <1>2, SMT
<1>4. Later(MoladOf(19 * c), HalakimPerMetonicCycle) = MoladOf(19 * (c + 1))
  BY <1>1, <1>3, LaterMolad, SMT DEF MoladOf
<1>5. MoladOf(19 * c).day >= c /\ MoladOf(19 * c).day \in Nat
  <2>1. MoladOf(19 * c).day = Halakim(19 * c) \div 25920
    BY SMT DEF MoladOf, MoladAt, HalakimPerDay
  <2>2. QED
    BY <1>1, <1>2, <2>1, SMTT(30)
<1>6. MoladOf(19 * c) \in Molads
  BY <1>3, TimeOfMolad DEF MoladOf
<1>7. QED
  BY <1>4, <1>5, <1>6, SMT DEF Cycles, Correction

\* The cycle that the day is looked for in.
IsCycleOf(d, c, s) ==
  \E k \in Nat : /\ k >= c /\ s = [cycle |-> k, molad |-> MoladOf(19 * k)]
                 /\ MoladOf(19 * k).day >= CycleFrom(d)
                 /\ k = c \/ MoladOf(19 * (k - 1)).day < CycleFrom(d)

LEMMA CycleIsFound ==
  ASSUME NEW d \in Int, NEW c \in Nat
  PROVE  IsCycleOf(d, c, CorrectCycle(d)[[cycle |-> c, molad |-> MoladOf(19 * c)]])
<1> DEFINE At(x) == [cycle |-> x, molad |-> MoladOf(19 * x)]
           Found(x) == IsCycleOf(d, x, CorrectCycle(d)[At(x)])
           S == {k \in Nat : \E x \in Nat : ~Found(x) /\ MoladOf(19 * (x + k)).day >= CycleFrom(d)}
<1>0. CycleFrom(d) \in Int
  BY SMT DEF CycleFrom
<1>1. SUFFICES ASSUME ~Found(c)
               PROVE  FALSE
  OBVIOUS
<1>2. S # {}
  <2>1. PICK k \in Nat : k >= d
    BY SMT
  <2>2. MoladOf(19 * (c + k)).day >= c + k /\ MoladOf(19 * (c + k)).day \in Nat
    <3>1. c + k \in Nat
      OBVIOUS
    <3>2. \A e \in Nat : MoladOf(19 * e).day >= e /\ MoladOf(19 * e).day \in Nat
      BY CyclesAreLong
    <3>3. QED
      BY <3>1, <3>2, Zenon
  <2>3. MoladOf(19 * (c + k)).day >= CycleFrom(d)
    BY <2>1, <2>2, SMT DEF CycleFrom
  <2>4. QED
    BY <1>1, <2>3
<1>3. PICK k \in S : \A i \in S : ~(i < k)
  <2>1. S \subseteq Nat
    OBVIOUS
  <2> HIDE DEF S
  <2>2. QED
    BY <1>2, <2>1, LeastNumber
<1>4. k \in Nat
  OBVIOUS
<1>5. PICK x \in Nat : ~Found(x) /\ MoladOf(19 * (x + k)).day >= CycleFrom(d)
  OBVIOUS
<1>6. /\ CorrectCycle(d)[At(x)] = IF MoladOf(19 * x).day < CycleFrom(d)
                                  THEN CorrectCycle(d)[At(x + 1)] ELSE At(x)
      /\ MoladOf(19 * x).day \in Nat
  <2>1. At(x) \in Cycles /\ Correction(At(x)) = At(x + 1) /\ MoladOf(19 * x).day \in Nat
    BY CyclesAreLong
  <2>2. CorrectCycle(d)[At(x)] = IF At(x).molad.day < CycleFrom(d)
                                 THEN CorrectCycle(d)[Correction(At(x))] ELSE At(x)
    <3> HIDE DEF At
    <3> QED
      BY <2>1, CorrectCycleIsDefined DEF CycleFrom
  <2>3. QED
    BY <2>1, <2>2, SMT
<1>7. CASE MoladOf(19 * x).day >= CycleFrom(d)
  <2>1. CorrectCycle(d)[At(x)] = At(x)
    <3>1. ~(MoladOf(19 * x).day < CycleFrom(d))
      BY <1>0, <1>6, <1>7, SMT
    <3>2. QED
      BY <1>6, <3>1
  <2>2. Found(x)
    BY <1>7, <2>1, SMT DEF IsCycleOf
  <2>3. QED
    BY <1>5, <2>2
<1>8. CASE MoladOf(19 * x).day < CycleFrom(d)
  <2>1. CorrectCycle(d)[At(x)] = CorrectCycle(d)[At(x + 1)]
    <3>1. MoladOf(19 * x).day < CycleFrom(d)
      BY <1>8
    <3>2. QED
      BY <1>6, <3>1
  <2>2. k # 0
    <3>1. x + 0 = x
      OBVIOUS
    <3>2. k = 0 => MoladOf(19 * x).day >= CycleFrom(d)
      BY <1>5, <3>1
    <3>3. QED
      BY <1>0, <1>6, <1>8, <3>2, SMT
  <2>3. (x + 1) + (k - 1) = x + k /\ k - 1 \in Nat /\ x + 1 \in Nat /\ k - 1 < k
    BY <1>4, <2>2, SMT
  <2>4. Found(x + 1)
    <3>1. k - 1 \notin S
      <4> HIDE DEF S
      <4> QED
        BY <1>3, <2>3
    <3>2. MoladOf(19 * ((x + 1) + (k - 1))).day >= CycleFrom(d)
      BY <1>5, <2>3
    <3>3. QED
      BY <2>3, <3>1, <3>2
  <2>5. Found(x)
    <3>1. PICK z \in Nat : /\ z >= x + 1 /\ CorrectCycle(d)[At(x + 1)] = At(z)
                           /\ MoladOf(19 * z).day >= CycleFrom(d)
                           /\ z = x + 1 \/ MoladOf(19 * (z - 1)).day < CycleFrom(d)
      BY <2>4 DEF IsCycleOf
    <3>2. MoladOf(19 * (z - 1)).day < CycleFrom(d)
      <4>1. z = x + 1 => z - 1 = x
        BY SMT
      <4>2. QED
        BY <1>8, <3>1, <4>1
    <3>3. z >= x
      BY <3>1, SMT
    <3>4. QED
      BY <2>1, <3>1, <3>2, <3>3 DEF IsCycleOf
  <2>6. QED
    BY <1>5, <2>5
<1>9. QED
  BY <1>0, <1>6, <1>7, <1>8, SMT

-----------------------------------------------------------------------------
(* The years of the cycle: 32 steps, of one year or of none, are enough.   *)

YearStarts == [year : 0 .. 18, molad : Molads]
\* The day after which the molad must be.
YearFrom(d) == d - 74
Stops(d, s) == ~(s.year < 18 /\ s.molad.day <= YearFrom(d))
NextStart(s) == [year |-> s.year + 1,
                 molad |-> Later(s.molad, HalakimPerLunarCycle * monthsPerYear(s.year))]
Step(d, s) == IF Stops(d, s) THEN s ELSE NextStart(s)
\* f goes n steps.
Advances(d, f, n) ==
  /\ f \in [YearStarts -> YearStarts]
  /\ \A s \in YearStarts : /\ Stops(d, f[s]) \/ f[s].year >= s.year + n
                           /\ f[Step(d, s)] = Step(d, f[s])
                           /\ Stops(d, s) => f[s] = s

LEMMA StepIsStart ==
  ASSUME NEW d, NEW s \in YearStarts
  PROVE  Step(d, s) \in YearStarts /\ (~Stops(d, s) => Step(d, s).year = s.year + 1)
<1>1. CASE Stops(d, s)
  BY <1>1 DEF Step
<1>2. CASE ~Stops(d, s)
  <2>1. s.year \in 0 .. 18 /\ s.molad \in Molads /\ s.year < 18
    BY <1>2 DEF YearStarts, Stops
  <2>2. HalakimPerLunarCycle * monthsPerYear(s.year) \in Int
    BY SMT DEF HalakimPerLunarCycle, HalakimPerDay, monthsPerYear
  <2>3. Later(s.molad, HalakimPerLunarCycle * monthsPerYear(s.year)) \in Molads
    <3> DEFINE h == HalakimPerLunarCycle * monthsPerYear(s.year)
    <3> HIDE DEF h
    <3>1. Later(s.molad, h) = MoladAt(TimeOf(s.molad) + h) /\ TimeOf(s.molad) + h \in Int
      BY <2>1, <2>2, LaterIs, SMT DEF h
    <3>2. Later(s.molad, h) \in Molads
      BY <3>1, TimeOfMolad
    <3>3. QED
      BY <3>2 DEF h
  <2>4. s.year + 1 \in 0 .. 18
    BY <2>1, SMT
  <2>5. QED
    BY <1>2, <2>3, <2>4 DEF Step, NextStart, YearStarts
<1>3. QED
  BY <1>1, <1>2

LEMMA TwiceAsFar ==
  ASSUME NEW d, NEW f, NEW n \in Nat, Advances(d, f, n)
  PROVE  Advances(d, [s \in YearStarts |-> f[f[s]]], n + n)
<1> DEFINE g == [s \in YearStarts |-> f[f[s]]]
<1>1. f \in [YearStarts -> YearStarts] /\ g \in [YearStarts -> YearStarts]
  BY DEF Advances
<1>2. ASSUME NEW s \in YearStarts
      PROVE  /\ Stops(d, g[s]) \/ g[s].year >= s.year + (n + n)
             /\ g[Step(d, s)] = Step(d, g[s])
             /\ Stops(d, s) => g[s] = s
  <2>1. f[s] \in YearStarts /\ f[f[s]] \in YearStarts /\ g[s] = f[f[s]] /\ Step(d, s) \in YearStarts
    BY <1>1, StepIsStart
  <2>2. s.year \in Int /\ f[s].year \in Int /\ f[f[s]].year \in Int
    BY <2>1 DEF YearStarts
  <2>3. g[Step(d, s)] = f[f[Step(d, s)]]
    BY <2>1
  <2> HIDE DEF g
  <2>4. Stops(d, f[s]) => f[f[s]] = f[s]
    BY <2>1 DEF Advances
  <2>5. Stops(d, f[s]) \/ f[s].year >= s.year + n
    BY DEF Advances
  <2>6. Stops(d, f[f[s]]) \/ f[f[s]].year >= f[s].year + n
    BY <2>1 DEF Advances
  <2>7. Stops(d, g[s]) \/ g[s].year >= s.year + (n + n)
    BY <2>1, <2>2, <2>4, <2>5, <2>6, SMT
  <2>8. f[Step(d, s)] = Step(d, f[s]) /\ f[Step(d, f[s])] = Step(d, f[f[s]])
    BY <2>1 DEF Advances
  <2>9. Stops(d, s) => f[s] = s
    BY DEF Advances
  <2>10. QED
    BY <2>1, <2>3, <2>7, <2>8, <2>9
<1>3. QED
  <2> HIDE DEF g
  <2>1. Advances(d, g, n + n)
    BY <1>1, <1>2 DEF Advances
  <2>2. QED
    BY <2>1 DEF g

LEMMA OneStep ==
  ASSUME NEW d
  PROVE  Advances(d, [s \in YearStarts |-> Step(d, s)], 1)
<1> DEFINE g == [s \in YearStarts |-> Step(d, s)]
<1>1. g \in [YearStarts -> YearStarts]
  BY StepIsStart
<1>2. ASSUME NEW s \in YearStarts
      PROVE  /\ Stops(d, g[s]) \/ g[s].year >= s.year + 1
             /\ g[Step(d, s)] = Step(d, g[s])
             /\ Stops(d, s) => g[s] = s
  <2>1. g[s] = Step(d, s) /\ Step(d, s) \in YearStarts /\ g[Step(d, s)] = Step(d, Step(d, s))
    BY StepIsStart
  <2>2. Stops(d, s) => g[s] = s
    BY <2>1 DEF Step
  <2>3. ~Stops(d, s) => g[s].year = s.year + 1
    BY <2>1, StepIsStart
  <2>4. s.year \in Int
    BY DEF YearStarts
  <2> HIDE DEF g
  <2>5. Stops(d, g[s]) \/ g[s].year >= s.year + 1
    <3>1. CASE Stops(d, s)
      BY <2>2, <3>1
    <3>2. CASE ~Stops(d, s)
      BY <2>3, <2>4, <3>2, SMT
    <3>3. QED
      BY <3>1, <3>2
  <2>6. QED
    BY <2>1, <2>2, <2>5
<1>3. QED
  <2> HIDE DEF g
  <2>1. Advances(d, g, 1)
    BY <1>1, <1>2 DEF Advances
  <2>2. QED
    BY <2>1 DEF g

LEMMA ClosestYearIsDefined ==
  ASSUME NEW d \in Int, NEW s \in YearStarts
  PROVE  ClosestYear(d)[s] = IF Stops(d, s) THEN s ELSE ClosestYear(d)[NextStart(s)]
<1> DEFINE F(f) == [x \in YearStarts |-> IF x.year < 18 /\ x.molad.day <= d - 74
                                        THEN f[NextStart(x)] ELSE x]
<1>1. PICK g : Advances(d, g, 32)
  <2> DEFINE Reached(n) == \E f : Advances(d, f, n)
  <2>1. \A n \in Nat : Reached(n) => Reached(n + n)
    BY TwiceAsFar
  <2>2. Reached(1)
    BY OneStep
  <2> HIDE DEF Reached
  <2>3. 1 + 1 = 2 /\ 2 + 2 = 4 /\ 4 + 4 = 8 /\ 8 + 8 = 16 /\ 16 + 16 = 32
        /\ 1 \in Nat /\ 2 \in Nat /\ 4 \in Nat /\ 8 \in Nat /\ 16 \in Nat
    BY SMT
  <2>4. Reached(2)
    BY <2>1, <2>2, <2>3, Zenon
  <2>5. Reached(4)
    BY <2>1, <2>3, <2>4, Zenon
  <2>6. Reached(8)
    BY <2>1, <2>3, <2>5, Zenon
  <2>7. Reached(16)
    BY <2>1, <2>3, <2>6, Zenon
  <2>8. Reached(32)
    BY <2>1, <2>3, <2>7, Zenon
  <2>9. QED
    BY <2>8 DEF Reached
<1>2. g \in [YearStarts -> YearStarts]
  BY <1>1 DEF Advances
<1>3. ASSUME NEW x \in YearStarts
      PROVE  Stops(d, g[x])
  <2>1. Stops(d, g[x]) \/ g[x].year >= x.year + 32
    BY <1>1 DEF Advances
  <2>2. g[x].year \in 0 .. 18 /\ x.year \in 0 .. 18
    BY <1>2 DEF YearStarts
  <2>3. QED
    BY <2>1, <2>2, SMT
<1>4. g = F(g)
  <2>1. ASSUME NEW x \in YearStarts
        PROVE  g[x] = F(g)[x]
    <3>1. F(g)[x] = IF Stops(d, x) THEN x ELSE g[NextStart(x)]
      BY SMT DEF Stops, YearFrom
    <3>2. g[Step(d, x)] = Step(d, g[x]) /\ Step(d, g[x]) = g[x]
      BY <1>1, <1>3 DEF Advances, Step
    <3>3. Stops(d, x) => g[x] = x
      BY <1>1 DEF Advances
    <3> HIDE DEF F
    <3>4. QED
      BY <3>1, <3>2, <3>3 DEF Step
  <2>2. g = [x \in YearStarts |-> g[x]] /\ F(g) = [x \in YearStarts |-> F(g)[x]]
    BY <1>2
  <2> HIDE DEF F
  <2>3. QED
    BY <2>1, <2>2
<1>5. ClosestYear(d) = CHOOSE f : f = F(f)
  BY SMT DEF ClosestYear, YearStarts, NextStart
<1>6. ClosestYear(d) = F(ClosestYear(d))
  <2> HIDE DEF F
  <2> QED
    BY <1>4, <1>5
<1>7. ClosestYear(d)[s] = F(ClosestYear(d))[s]
  BY <1>6, Zenon
<1>8. QED
  BY <1>7, SMT DEF Stops, YearFrom

\* The year that the day is looked for in, in cycle c from year y on.
IsYearOf(d, c, y, s) ==
  \E k \in y .. 18 : /\ s = [year |-> k, molad |-> MoladOf((19 * c) + k)]
                     /\ k = 18 \/ MoladOf((19 * c) + k).day > YearFrom(d)
                     /\ k = y \/ MoladOf((19 * c) + k - 1).day <= YearFrom(d)

LEMMA YearIsFound ==
  ASSUME NEW d \in Int, NEW c \in Nat
  PROVE  IsYearOf(d, c, 0, ClosestYear(d)[[year |-> 0, molad |-> MoladOf((19 * c) + 0)]])
<1> DEFINE At(x) == [year |-> x, molad |-> MoladOf((19 * c) + x)]
           Found(x) == IsYearOf(d, c, x, ClosestYear(d)[At(x)])
           S == {k \in Nat : k <= 18 /\ ~Found(18 - k)}
<1>0. YearFrom(d) \in Int
  BY SMT DEF YearFrom
<1>1. SUFFICES ASSUME ~Found(0)
               PROVE  FALSE
  OBVIOUS
<1>2. S # {} /\ S \subseteq Nat
  <2>1. 18 - 18 = 0 /\ 18 \in Nat
    BY SMT
  <2>2. 18 \in S
    <3> HIDE DEF Found
    <3>1. ~Found(18 - 18)
      BY <1>1, <2>1
    <3>2. QED
      BY <2>1, <3>1, SMT
  <2>3. QED
    BY <2>2
<1>3. PICK k \in S : \A i \in S : ~(i < k)
  <2> HIDE DEF S
  <2> QED
    BY <1>2, LeastNumber
<1>4. k \in Nat /\ k <= 18 /\ ~Found(18 - k)
  OBVIOUS
<1> DEFINE x == 18 - k
<1>5. x \in 0 .. 18 /\ x \in Nat
  BY <1>4, SMT
<1>6. ASSUME k # 0
      PROVE  Found(x + 1)
  <2>1. k - 1 \in Nat /\ k - 1 < k /\ k - 1 <= 18 /\ 18 - (k - 1) = x + 1
    BY <1>4, <1>6, SMT
  <2>2. k - 1 \notin S
    <3> HIDE DEF S
    <3> QED
      BY <1>3, <2>1
  <2>3. Found(18 - (k - 1))
    <3> HIDE DEF Found
    <3> QED
      BY <2>1, <2>2
  <2>4. QED
    <3> HIDE DEF Found, x
    <3> QED
      BY <2>1, <2>3
<1>7. k = 0 => x = 18
  BY SMT
<1>8. ~Found(x)
  BY <1>4
<1> HIDE DEF x, S
<1> DEFINE n == (19 * c) + x
<1>9. n \in Nat /\ n % 19 = x /\ (19 * c) + (x + 1) = n + 1
  BY <1>5, SMT
<1>10. At(x) \in YearStarts /\ (x # 18 => NextStart(At(x)) = At(x + 1)) /\ MoladOf(n).day \in Int
  <2>1. MoladOf(n) \in Molads /\ Halakim(n) \in Int
    BY <1>9, HalakimNext, TimeOfMolad DEF MoladOf
  <2>2. At(x) \in YearStarts
    BY <1>5, <2>1 DEF YearStarts
  <2>3. Later(MoladOf(n), HalakimPerLunarCycle * monthsPerYear(x)) = MoladOf(n + 1)
    <3>1. HalakimPerLunarCycle * monthsPerYear(n % 19) \in Int
      BY SMT DEF HalakimPerLunarCycle, HalakimPerDay, monthsPerYear
    <3> HIDE DEF n
    <3>2. Later(MoladOf(n), HalakimPerLunarCycle * monthsPerYear(n % 19)) = MoladOf(n + 1)
      BY <1>9, <2>1, <3>1, HalakimNext, LaterMolad DEF MoladOf
    <3>3. QED
      BY <1>9, <3>2
  <2>4. NextStart(At(x)) = At(x + 1)
    BY <1>9, <2>3, Zenon DEF NextStart
  <2>5. MoladOf(n).day \in Int
    BY <2>1 DEF Molads
  <2>6. QED
    BY <2>2, <2>4, <2>5
<1>11. ClosestYear(d)[At(x)] = IF Stops(d, At(x)) THEN At(x) ELSE ClosestYear(d)[NextStart(At(x))]
  <2> HIDE DEF At
  <2> QED
    BY <1>10, ClosestYearIsDefined
<1>12. Stops(d, At(x)) <=> ~(x < 18 /\ MoladOf(n).day <= YearFrom(d))
  BY DEF Stops
<1>13. CASE Stops(d, At(x))
  <2>1. x = 18 \/ MoladOf(n).day > YearFrom(d)
    BY <1>0, <1>5, <1>10, <1>12, <1>13, SMT
  <2>2. ClosestYear(d)[At(x)] = At(x) /\ x \in x .. 18
    BY <1>5, <1>11, <1>13, SMT
  <2>3. Found(x)
    BY <2>1, <2>2 DEF IsYearOf
  <2>4. QED
    BY <1>8, <2>3
<1>14. CASE ~Stops(d, At(x))
  <2>1. x < 18 /\ MoladOf(n).day <= YearFrom(d) /\ x # 18
    BY <1>5, <1>12, <1>14, SMT
  <2>2. Found(x + 1)
    <3>1. k # 0
      BY <1>7, <2>1
    <3>2. QED
      BY <1>6, <3>1
  <2>3. PICK z \in (x + 1) .. 18 :
          /\ ClosestYear(d)[At(x + 1)] = At(z)
          /\ z = 18 \/ MoladOf((19 * c) + z).day > YearFrom(d)
          /\ z = x + 1 \/ MoladOf((19 * c) + z - 1).day <= YearFrom(d)
    BY <2>2 DEF IsYearOf
  <2>4. MoladOf((19 * c) + z - 1).day <= YearFrom(d)
    <3>1. z = x + 1 => (19 * c) + z - 1 = n
      BY <1>5, SMT
    <3>2. QED
      BY <2>1, <2>3, <3>1
  <2>5. z \in x .. 18
    BY <1>5, <2>3, SMT
  <2>6. ClosestYear(d)[At(x)] = At(z)
    <3> HIDE DEF At
    <3> QED
      BY <1>10, <1>11, <1>14, <2>1, <2>3
  <2>7. Found(x)
    BY <2>3, <2>4, <2>5, <2>6 DEF IsYearOf
  <2>8. QED
    BY <1>8, <2>7
<1>15. QED
  BY <1>13, <1>14

LEMMA LastOfCycle ==
  ASSUME NEW k \in Nat
  PROVE  /\ MoladOf((19 * k) + 18).day >= MoladOf(19 * k).day + 6555
         /\ MoladOf((19 * k) + 18).day <= MoladOf(19 * k).day + 6556
         /\ MoladOf(19 * k).day \in Nat /\ MoladOf((19 * k) + 18).day \in Nat
         /\ MoladOf(19 * k).day <= (6940 * k) + 1
<1>1. MonthsBefore((19 * k) + 18) = MonthsBefore(19 * k) + 222 /\ MonthsBefore(19 * k) = 235 * k
  BY SMTT(30) DEF MonthsBefore
<1>2. Halakim((19 * k) + 18) = Halakim(19 * k) + 169926126 /\ Halakim(19 * k) \in Nat
      /\ Halakim(19 * k) = 31524 + (179876755 * k)
  BY <1>1, SMTT(30) DEF Halakim, HalakimPerLunarCycle, HalakimPerDay
<1>3. /\ MoladOf((19 * k) + 18).day = Halakim((19 * k) + 18) \div 25920
      /\ MoladOf(19 * k).day = Halakim(19 * k) \div 25920
  BY SMT DEF MoladOf, MoladAt, HalakimPerDay
<1>4. QED
  BY <1>2, <1>3, SMTT(30)

\* What is found for the day: the year that it is in, or the next one.
IsMoladOf(d, found) ==
  \E n \in Nat : /\ found = [cycle |-> n \div 19, year |-> n % 19, molad |-> MoladOf(n)]
                 /\ MoladOf(n).day >= d - 75
                 /\ n = 0 \/ MoladOf(n - 1).day <= d - 32

LEMMA MoladIsFound ==
  ASSUME NEW d \in Int, d + 310 >= 0
  PROVE  IsMoladOf(d, FindTishriMolad(d))
<1> DEFINE estimate == (d + 310) \div 6940
           begin == CorrectCycle(d)[[cycle |-> estimate, molad |-> MoladOfMetonicCycle(estimate)]]
           closest == ClosestYear(d)[[year |-> 0, molad |-> begin.molad]]
<1>1. estimate \in Nat /\ 6940 * estimate <= d + 310
  BY SMT
<1>2. FindTishriMolad(d) = [cycle |-> begin.cycle, year |-> closest.year, molad |-> closest.molad]
  BY SMT DEF FindTishriMolad
<1>3. MoladOfMetonicCycle(estimate) = MoladOf(19 * estimate)
  BY <1>1, MoladOfCycle
<1> HIDE DEF estimate
<1>4. IsCycleOf(d, estimate, begin)
  BY <1>1, <1>3, CycleIsFound
<1> HIDE DEF begin
<1>5. PICK k \in Nat : /\ k >= estimate /\ begin = [cycle |-> k, molad |-> MoladOf(19 * k)]
                       /\ MoladOf(19 * k).day >= CycleFrom(d)
                       /\ k = estimate \/ MoladOf(19 * (k - 1)).day < CycleFrom(d)
  BY <1>4 DEF IsCycleOf
<1>6. begin.molad = MoladOf((19 * k) + 0) /\ begin.cycle = k
  BY <1>5, SMT
<1>7. IsYearOf(d, k, 0, closest)
  BY <1>6, YearIsFound
<1> HIDE DEF closest
<1>8. PICK y \in 0 .. 18 : /\ closest = [year |-> y, molad |-> MoladOf((19 * k) + y)]
                           /\ y = 18 \/ MoladOf((19 * k) + y).day > YearFrom(d)
                           /\ y = 0 \/ MoladOf((19 * k) + y - 1).day <= YearFrom(d)
  BY <1>7 DEF IsYearOf
<1> DEFINE n == (19 * k) + y
<1>9. n \in Nat /\ n \div 19 = k /\ n % 19 = y
  BY SMTT(30)
<1>10. FindTishriMolad(d) = [cycle |-> k, year |-> y, molad |-> MoladOf(n)]
  BY <1>2, <1>6, <1>8
<1>11. MoladOf(n).day >= d - 75
  <2>1. CASE y = 18
    BY <1>5, <2>1, LastOfCycle, SMT DEF CycleFrom
  <2>2. CASE y # 18
    <3>1. MoladOf(n).day > YearFrom(d)
      BY <1>8, <2>2, Zenon
    <3> HIDE DEF n
    <3>3. MoladOf(n).day \in Nat
      BY <1>9, MoladDays
    <3>2. QED
      BY <3>1, <3>3, SMT DEF YearFrom
  <2>3. QED
    BY <2>1, <2>2
<1>12. n = 0 \/ MoladOf(n - 1).day <= d - 32
  <2>1. CASE y # 0
    <3>1. n - 1 = (19 * k) + y - 1 /\ n - 1 \in Nat
      BY <2>1, SMT
    <3>2. MoladOf(n - 1).day <= YearFrom(d)
      BY <1>8, <2>1, <3>1, Zenon
    <3>3. MoladOf(n - 1).day \in Nat
      BY <3>1, MoladDays
    <3> HIDE DEF n
    <3>4. QED
      BY <3>2, <3>3, SMT DEF YearFrom
  <2>2. CASE y = 0 /\ k # estimate
    <3>1. k - 1 \in Nat /\ n - 1 = (19 * (k - 1)) + 18
      BY <1>1, <1>5, <2>2, SMT
    <3>2. MoladOf(19 * (k - 1)).day < CycleFrom(d)
      BY <1>5, <2>2
    <3>3. /\ MoladOf((19 * (k - 1)) + 18).day <= MoladOf(19 * (k - 1)).day + 6556
          /\ MoladOf(19 * (k - 1)).day \in Nat /\ MoladOf((19 * (k - 1)) + 18).day \in Nat
      <4>1. PICK i \in Nat : i = k - 1
        BY <3>1
      <4>2. /\ MoladOf((19 * i) + 18).day <= MoladOf(19 * i).day + 6556
            /\ MoladOf(19 * i).day \in Nat /\ MoladOf((19 * i) + 18).day \in Nat
        BY LastOfCycle
      <4>3. QED
        BY ONLY <4>1, <4>2
    <3>4. MoladOf((19 * (k - 1)) + 18).day <= d - 32
      BY <3>2, <3>3, SMT DEF CycleFrom
    <3>5. QED
      BY <3>1, <3>4
  <2>3. CASE y = 0 /\ k = estimate
    <3>1. CASE k = 0
      BY <2>3, <3>1, SMT
    <3>2. CASE k # 0
      <4>1. n - 1 \in Nat /\ n - 1 < n /\ n = 19 * k
        BY <2>3, <3>2, SMT
      <4>2. MoladOf(19 * k).day <= (6940 * k) + 1 /\ MoladOf(19 * k).day \in Nat
        BY LastOfCycle
      <4>3. MoladOf(n - 1).day + 354 <= MoladOf(n).day /\ MoladOf(n - 1).day \in Nat
        BY <1>9, <4>1, MoladsGrow, MoladDays
      <4>4. MoladOf(n) = MoladOf(19 * k)
        BY <4>1
      <4> HIDE DEF n
      <4>5. MoladOf(n - 1).day <= d - 32
        BY <1>1, <2>3, <4>2, <4>3, <4>4, SMT
      <4>6. QED
        BY <4>5
    <3>3. QED
      BY <3>1, <3>2
  <2>4. QED
    BY <2>1, <2>2, <2>3
<1>13. QED
  <2> HIDE DEF n
  <2> QED
    BY <1>9, <1>10, <1>11, <1>12 DEF IsMoladOf

\* A year is followed by the one that starts 365 days before its end.
LEMMA YearBeforeIsFound ==
  ASSUME NEW n \in Nat
  PROVE  FindTishriMolad(MoladOf(n + 1).day - 365)
           = [cycle |-> n \div 19, year |-> n % 19, molad |-> MoladOf(n)]
<1> DEFINE e == MoladOf(n + 1).day - 365
<1>1. /\ n + 1 \in Nat /\ n < n + 1
      /\ MoladOf(n).day \in Nat /\ MoladOf(n + 1).day \in Nat /\ MoladOf(n).day + 354 <= MoladOf(n + 1).day
  BY MoladsGrow, MoladDays
<1>2. MoladOf(n + 1).day <= MoladOf(n).day + 385
  <2>1. /\ Halakim(n) \in Nat
        /\ Halakim(n + 1) = Halakim(n) + IF IsLeap(n) THEN Halakim13 ELSE Halakim12
    BY HalakimNext
  <2>2. MoladOf(n).day = Halakim(n) \div 25920 /\ MoladOf(n + 1).day = Halakim(n + 1) \div 25920
    BY <1>1, MoladDays
  <2>3. QED
    BY <2>1, <2>2, SMTT(30) DEF Halakim12, Halakim13
<1>3. e \in Int /\ e + 310 >= 0
  BY <1>1, SMT
<1>4. IsMoladOf(e, FindTishriMolad(e))
  <2> HIDE DEF e
  <2> QED
    BY <1>3, MoladIsFound
<1>5. PICK k \in Nat : /\ FindTishriMolad(e) = [cycle |-> k \div 19, year |-> k % 19, molad |-> MoladOf(k)]
                       /\ MoladOf(k).day >= e - 75
                       /\ k = 0 \/ MoladOf(k - 1).day <= e - 32
  BY <1>4, Zenon DEF IsMoladOf
<1>6. ~(k < n)
  <2>1. SUFFICES ASSUME k < n
                 PROVE  FALSE
    OBVIOUS
  <2>2. MoladOf(k).day + 354 <= MoladOf(n).day /\ MoladOf(k).day \in Nat
    BY <2>1, MoladsGrow, MoladDays
  <2>3. QED
    BY <1>1, <1>5, <2>2, SMT
<1>7. ~(k > n)
  <2>1. SUFFICES ASSUME k > n
                 PROVE  FALSE
    OBVIOUS
  <2>2. k - 1 \in Nat /\ k # 0 /\ (k - 1 = n \/ n < k - 1)
    BY <2>1, SMT
  <2>3. MoladOf(n).day <= MoladOf(k - 1).day /\ MoladOf(k - 1).day \in Nat
    <3>1. CASE k - 1 = n
      BY <1>1, <3>1, SMT
    <3>2. CASE n < k - 1
      BY <1>1, <2>2, <3>2, MoladsGrow, MoladDays, SMT
    <3>3. QED
      BY <2>2, <3>1, <3>2
  <2>4. QED
    BY <1>1, <1>2, <1>5, <2>2, <2>3, SMT
<1>8. k = n
  BY <1>6, <1>7, SMT
<1>9. QED
  BY <1>5, <1>8

-----------------------------------------------------------------------------
(* The months of a year of length len, leap (1) or not (0).                *)

MayLast(leap, len) == (leap = 1 /\ len \in 383 .. 385) \/ (leap = 0 /\ len \in 353 .. 355)
\* The day of the year, from 0, that month m starts on, and its days.
StartOf(leap, len, m) ==
  IF m = 1 THEN 0 ELSE IF m = 2 THEN 30 ELSE IF m = 3 THEN (IF LongHeshvan(len) THEN 60 ELSE 59)
  ELSE IF m = 4 THEN len - (IF leap = 1 THEN 295 ELSE 265)
  ELSE IF m = 5 THEN len - (IF leap = 1 THEN 266 ELSE 236)
  ELSE IF m = 6 THEN len - (IF leap = 1 THEN 236 ELSE 206)
  ELSE IF m = 7 THEN len - 206 ELSE IF m = 8 THEN len - 177 ELSE IF m = 9 THEN len - 147
  ELSE IF m = 10 THEN len - 118 ELSE IF m = 11 THEN len - 88 ELSE IF m = 12 THEN len - 59
  ELSE len - 29
DaysOf(leap, len, m) ==
  IF m = 2 THEN (IF LongHeshvan(len) THEN 30 ELSE 29)
  ELSE IF m = 3 THEN (IF len \in {353, 383} THEN 29 ELSE 30)
  ELSE IF m = 6 THEN (IF leap = 1 THEN 30 ELSE 29)
  ELSE IF m \in {1, 5, 8, 10, 12} THEN 30 ELSE 29
InMonth(leap, len, k, m, d) ==
  /\ m \in 1 .. 13 /\ (m = 7 => leap = 1)
  /\ d \in Int /\ 1 <= d /\ d <= DaysOf(leap, len, m)
  /\ k = StartOf(leap, len, m) + (d - 1)

LEMMA OneMonth ==
  ASSUME NEW leap, NEW len, MayLast(leap, len), NEW k, NEW m, NEW d, NEW m2, NEW d2,
         InMonth(leap, len, k, m, d), InMonth(leap, len, k, m2, d2)
  PROVE  m = m2 /\ d = d2
<1>1. PICK l : l = len /\ l \in {353, 354, 355, 383, 384, 385}
  BY SMT DEF MayLast
<1>2. m = m2
  BY <1>1, SMTT(60) DEF MayLast, InMonth, StartOf, DaysOf, LongHeshvan
<1>3. QED
  BY <1>2, <1>1, SMT DEF MayLast, InMonth, StartOf, DaysOf, LongHeshvan

LEMMA MonthRange ==
  ASSUME NEW leap, NEW len, MayLast(leap, len), NEW k, NEW m, NEW d, InMonth(leap, len, k, m, d)
  PROVE  k \in Nat /\ k < len
<1>1. PICK l : l = len /\ l \in {353, 354, 355, 383, 384, 385}
  BY SMT DEF MayLast
<1> DEFINE s == StartOf(leap, len, m)
           n == DaysOf(leap, len, m)
<1>2. s \in Nat /\ n \in Nat /\ s + n <= len
  BY <1>1, SMTT(60) DEF MayLast, InMonth, StartOf, DaysOf, LongHeshvan
<1>3. d \in Int /\ 1 <= d /\ d <= n /\ k = s + (d - 1)
  BY DEF InMonth
<1> HIDE DEF s, n
<1>4. len \in Int
  BY SMT DEF MayLast
<1>5. QED
  BY <1>2, <1>3, <1>4, SMT

LEMMA NextInYear ==
  ASSUME NEW leap, NEW len, MayLast(leap, len), NEW k, NEW m, NEW d, InMonth(leap, len, k, m, d)
  PROVE  \/ d < DaysOf(leap, len, m) /\ InMonth(leap, len, k + 1, m, d + 1)
         \/ /\ d = DaysOf(leap, len, m) /\ m # 13
            /\ InMonth(leap, len, k + 1, IF m = 6 /\ leap = 0 THEN 8 ELSE m + 1, 1)
         \/ d = DaysOf(leap, len, m) /\ m = 13 /\ k + 1 = len
  BY SMTT(60) DEF MayLast, InMonth, StartOf, DaysOf, LongHeshvan

\* The months after Tishri 1.
LEMMA AutumnDate ==
  ASSUME NEW leap, NEW len, MayLast(leap, len), NEW k \in Int, 0 <= k, k <= 75, NEW y
  PROVE  \E m, d : AfterTishri1(y, k, len) = <<y, m, d>> /\ InMonth(leap, len, k, m, d)
<1> DEFINE Is(m, d) == AfterTishri1(y, k, len) = <<y, m, d>> /\ InMonth(leap, len, k, m, d)
<1>1. CASE k < 30
  <2>1. Is(1, k + 1)
    BY <1>1, SMT DEF AfterTishri1, InMonth, StartOf, DaysOf
  <2>2. QED
    BY <2>1
<1>2. CASE ~(k < 30) /\ k <= 58
  <2>1. Is(2, k - 29)
    BY <1>2, SMT DEF AfterTishri1, InMonth, StartOf, DaysOf
  <2>2. QED
    BY <2>1
<1>3. CASE ~(k <= 58)
  <2>1. AfterTishri1(y, k, len) = HeshvanOrKislev(y, k - 29, len)
    BY <1>3, SMT DEF AfterTishri1
  <2>2. CASE LongHeshvan(len) /\ k = 59
    <3>1. Is(2, 30)
      BY <2>1, <2>2, SMT DEF HeshvanOrKislev, InMonth, StartOf, DaysOf
    <3>2. QED
      BY <3>1
  <2>3. CASE LongHeshvan(len) /\ k # 59
    <3>1. Is(3, k - 59)
      BY <1>3, <2>1, <2>3, SMT DEF HeshvanOrKislev, InMonth, StartOf, DaysOf
    <3>2. QED
      BY <3>1
  <2>4. CASE ~LongHeshvan(len)
    <3>1. Is(3, k - 58)
      BY <1>3, <2>1, <2>4, SMT DEF HeshvanOrKislev, InMonth, StartOf, DaysOf
    <3>2. QED
      BY <3>1
  <2>5. QED
    BY <2>2, <2>3, <2>4
<1>4. QED
  BY <1>1, <1>2, <1>3, SMT

\* The last months, 8 to 13.
LEMMA LastMonths ==
  ASSUME NEW leap, NEW len, MayLast(leap, len), NEW k \in Int, k < len, k >= len - 177, NEW y
  PROVE  \E m, d : InLastMonths(y, k - len) = <<y, m, d>> /\ InMonth(leap, len, k, m, d)
<1> DEFINE P(m) == /\ (k - len) > -JewishMonthEnd[m] \/ m = 8
                   /\ m = 13 \/ (k - len) <= -JewishMonthEnd[m + 1]
           late == CHOOSE m \in 8 .. 13 : P(m)
<1>0. len \in Int
  BY SMT DEF MayLast
<1>1. /\ JewishMonthEnd[8] = 178 /\ JewishMonthEnd[9] = 148 /\ JewishMonthEnd[10] = 119
      /\ JewishMonthEnd[11] = 89 /\ JewishMonthEnd[12] = 60 /\ JewishMonthEnd[13] = 30
  BY SMT DEF JewishMonthEnd
<1>2. \E m \in 8 .. 13 : P(m)
  <2>1. CASE (k - len) <= -148
    <3>1. P(8)
      BY <1>0, <1>1, <2>1, SMT
    <3>2. QED
      BY <3>1
  <2>2. CASE (k - len) > -148 /\ (k - len) <= -119
    <3>1. P(9)
      BY <1>0, <1>1, <2>2, SMT
    <3>2. QED
      BY <3>1
  <2>3. CASE (k - len) > -119 /\ (k - len) <= -89
    <3>1. P(10)
      BY <1>0, <1>1, <2>3, SMT
    <3>2. QED
      BY <3>1
  <2>4. CASE (k - len) > -89 /\ (k - len) <= -60
    <3>1. P(11)
      BY <1>0, <1>1, <2>4, SMT
    <3>2. QED
      BY <3>1
  <2>5. CASE (k - len) > -60 /\ (k - len) <= -30
    <3>1. P(12)
      BY <1>0, <1>1, <2>5, SMT
    <3>2. QED
      BY <3>1
  <2>6. CASE (k - len) > -30
    <3>1. P(13)
      BY <1>0, <1>1, <2>6, SMT
    <3>2. QED
      BY <3>1
  <2>7. QED
    BY <1>0, <2>1, <2>2, <2>3, <2>4, <2>5, <2>6, SMT
<1>3. late \in 8 .. 13 /\ P(late)
  BY <1>2
<1>4. InLastMonths(y, k - len) = <<y, late, (k - len) + JewishMonthEnd[late]>>
  BY DEF InLastMonths
<1> HIDE DEF late
<1>5. InMonth(leap, len, k, late, (k - len) + JewishMonthEnd[late])
  <2>1. late = 8 \/ late = 9 \/ late = 10 \/ late = 11 \/ late = 12 \/ late = 13
    BY <1>3, SMT
  <2>2. CASE late = 8
    BY <1>0, <1>1, <1>3, <2>2, SMT DEF InMonth, StartOf, DaysOf
  <2>3. CASE late = 9
    BY <1>0, <1>1, <1>3, <2>3, SMT DEF InMonth, StartOf, DaysOf
  <2>4. CASE late = 10
    BY <1>0, <1>1, <1>3, <2>4, SMT DEF InMonth, StartOf, DaysOf
  <2>5. CASE late = 11
    BY <1>0, <1>1, <1>3, <2>5, SMT DEF InMonth, StartOf, DaysOf
  <2>6. CASE late = 12
    BY <1>0, <1>1, <1>3, <2>6, SMT DEF InMonth, StartOf, DaysOf
  <2>7. CASE late = 13
    BY <1>0, <1>1, <1>3, <2>7, SMT DEF InMonth, StartOf, DaysOf
  <2>8. QED
    BY <2>1, <2>2, <2>3, <2>4, <2>5, <2>6, <2>7
<1>6. QED
  BY <1>4, <1>5

\* The months before Tishri 1 of the next year.
LEMMA SpringDate ==
  ASSUME NEW leap, NEW len, MayLast(leap, len), NEW k \in Int, 30 <= k, k < len, NEW y \in Int,
         leap = 1 <=> monthsPerYear((y - 1) % 19) = 13
  PROVE  \E m, d : /\ BeforeTishri1(y, k - len, BackToTevet(y, (k - len) + 207), len) = <<y, m, d>>
                   /\ InMonth(leap, len, k, m, d)
<1> DEFINE days == k - len
           tevet == BackToTevet(y, days + 207)
           date == BeforeTishri1(y, days, tevet, len)
           Is(m, d) == date = <<y, m, d>> /\ InMonth(leap, len, k, m, d)
<1>0. len \in Int /\ days \in Int
  BY SMT DEF MayLast
<1>1. CASE days >= -177
  <2>1. date = InLastMonths(y, days)
    <3>1. \A t : BeforeTishri1(y, days, t, len) = InLastMonths(y, days)
      <4>1. ~(days < -177)
        BY <1>0, <1>1, SMT
      <4> HIDE DEF days
      <4> QED
        BY <1>1, <4>1, Zenon DEF BeforeTishri1
    <3>2. QED
      BY <3>1
  <2>2. QED
    <3>1. k >= len - 177
      BY <1>0, <1>1, SMT
    <3>2. QED
      BY <2>1, <3>1, LastMonths
<1>2. CASE ~(days >= -177)
  <2>1. days < -177
    BY <1>0, <1>2, SMT
  <2>2. date = IF tevet[2] > 0 THEN <<y, tevet[1], tevet[2]>> ELSE HeshvanOrKislev(y, (days + len) - 29, len)
    <3>1. (days + len) - 29 = days + len - 29
      BY <1>0, SMT
    <3>2. QED
      BY <1>2, <2>1, <3>1, SMT DEF BeforeTishri1
  <2>3. ASSUME NEW m, NEW d, tevet = <<m, d>>, d > 0, InMonth(leap, len, k, m, d)
        PROVE  \E m2, d2 : Is(m2, d2)
    <3>1. tevet[2] = d
      BY <2>3
    <3>2. date = <<y, m, d>>
      BY <2>2, <2>3, SMT
    <3>3. QED
      BY <2>3, <3>2
  <2>4. CASE leap = 1
    <3>1. monthsPerYear((y - 1) % 19) = 13
      BY <2>4
    <3>2. CASE days + 207 > 0
      <4>1. tevet = <<7, days + 207>>
        BY <1>0, <3>1, <3>2, SMT DEF BackToTevet
      <4>2. InMonth(leap, len, k, 7, days + 207) /\ days + 207 > 0
        BY <1>0, <2>1, <2>4, <3>2, SMT DEF InMonth, StartOf, DaysOf
      <4>3. QED
        BY <2>3, <4>1, <4>2
    <3>3. CASE days + 207 <= 0 /\ days + 207 > -30
      <4>1. tevet = <<6, days + 237>>
        BY <1>0, <3>1, <3>3, SMT DEF BackToTevet
      <4>2. InMonth(leap, len, k, 6, days + 237) /\ days + 237 > 0
        BY <1>0, <2>1, <2>4, <3>3, SMT DEF InMonth, StartOf, DaysOf
      <4>3. QED
        BY <2>3, <4>1, <4>2
    <3>4. CASE days + 207 <= -30 /\ days + 207 > -60
      <4>1. tevet = <<5, days + 267>>
        BY <1>0, <3>1, <3>4, SMT DEF BackToTevet
      <4>2. InMonth(leap, len, k, 5, days + 267) /\ days + 267 > 0
        BY <1>0, <2>1, <2>4, <3>4, SMT DEF InMonth, StartOf, DaysOf
      <4>3. QED
        BY <2>3, <4>1, <4>2
    <3>5. CASE days + 207 <= -60 /\ days + 296 > 0
      <4>1. tevet = <<4, days + 296>>
        BY <1>0, <3>1, <3>5, SMT DEF BackToTevet
      <4>2. InMonth(leap, len, k, 4, days + 296) /\ days + 296 > 0
        BY <1>0, <2>1, <2>4, <3>5, SMT DEF InMonth, StartOf, DaysOf
      <4>3. QED
        BY <2>3, <4>1, <4>2
    <3>6. CASE days + 296 <= 0
      <4>1. tevet = <<4, days + 296>>
        BY <1>0, <3>1, <3>6, SMT DEF BackToTevet
      <4>2. ~(tevet[2] > 0)
        BY <1>0, <3>6, <4>1, SMT
      <4>3. days + len = k
        BY <1>0, SMT
      <4>4. date = HeshvanOrKislev(y, k - 29, len)
        BY <2>2, <4>2, <4>3
      <4>5. \E m, d : HeshvanOrKislev(y, k - 29, len) = <<y, m, d>> /\ InMonth(leap, len, k, m, d)
        <5> DEFINE h == IF LongHeshvan(len) THEN 30 ELSE 29
        <5>1. CASE k - 29 <= h
          <6>1. HeshvanOrKislev(y, k - 29, len) = <<y, 2, k - 29>> /\ InMonth(leap, len, k, 2, k - 29)
            BY <5>1, SMT DEF HeshvanOrKislev, InMonth, StartOf, DaysOf
          <6>2. QED
            BY <6>1
        <5>2. CASE ~(k - 29 <= h)
          <6>1. HeshvanOrKislev(y, k - 29, len) = <<y, 3, (k - 29) - h>>
            BY <5>2, SMT DEF HeshvanOrKislev
          <6>2. InMonth(leap, len, k, 3, (k - 29) - h)
            BY <1>0, <2>4, <3>6, <5>2, SMT DEF InMonth, StartOf, DaysOf, MayLast, LongHeshvan
          <6>3. QED
            BY <6>1, <6>2
        <5>3. QED
          BY <5>1, <5>2
      <4>6. QED
        BY <4>4, <4>5
    <3>7. QED
      BY <1>0, <3>2, <3>3, <3>4, <3>5, <3>6, SMT
  <2>5. CASE leap = 0
    <3>1. monthsPerYear((y - 1) % 19) # 13
      BY <2>5
    <3>2. CASE days + 207 > 0
      <4>1. tevet = <<6, days + 207>>
        BY <3>1, <3>2, SMT DEF BackToTevet
      <4>2. InMonth(leap, len, k, 6, days + 207) /\ days + 207 > 0
        BY <1>0, <2>1, <2>5, <3>2, SMT DEF InMonth, StartOf, DaysOf
      <4>3. QED
        BY <2>3, <4>1, <4>2
    <3>3. CASE days + 207 <= 0 /\ days + 207 > -30
      <4>1. tevet = <<5, days + 237>>
        BY <1>0, <3>1, <3>3, SMT DEF BackToTevet
      <4>2. InMonth(leap, len, k, 5, days + 237) /\ days + 237 > 0
        BY <1>0, <2>1, <2>5, <3>3, SMT DEF InMonth, StartOf, DaysOf
      <4>3. QED
        BY <2>3, <4>1, <4>2
    <3>4. CASE days + 207 <= -30 /\ days + 266 > 0
      <4>1. tevet = <<4, days + 266>>
        BY <1>0, <3>1, <3>4, SMT DEF BackToTevet
      <4>2. InMonth(leap, len, k, 4, days + 266) /\ days + 266 > 0
        BY <1>0, <2>1, <2>5, <3>4, SMT DEF InMonth, StartOf, DaysOf
      <4>3. QED
        BY <2>3, <4>1, <4>2
    <3>6. CASE days + 266 <= 0
      <4>1. tevet = <<4, days + 266>>
        BY <1>0, <3>1, <3>6, SMT DEF BackToTevet
      <4>2. ~(tevet[2] > 0)
        BY <1>0, <3>6, <4>1, SMT
      <4>3. days + len = k
        BY <1>0, SMT
      <4>4. date = HeshvanOrKislev(y, k - 29, len)
        BY <2>2, <4>2, <4>3
      <4>5. \E m, d : HeshvanOrKislev(y, k - 29, len) = <<y, m, d>> /\ InMonth(leap, len, k, m, d)
        <5> DEFINE h == IF LongHeshvan(len) THEN 30 ELSE 29
        <5>1. CASE k - 29 <= h
          <6>1. HeshvanOrKislev(y, k - 29, len) = <<y, 2, k - 29>> /\ InMonth(leap, len, k, 2, k - 29)
            BY <5>1, SMT DEF HeshvanOrKislev, InMonth, StartOf, DaysOf
          <6>2. QED
            BY <6>1
        <5>2. CASE ~(k - 29 <= h)
          <6>1. HeshvanOrKislev(y, k - 29, len) = <<y, 3, (k - 29) - h>>
            BY <5>2, SMT DEF HeshvanOrKislev
          <6>2. InMonth(leap, len, k, 3, (k - 29) - h)
            BY <1>0, <2>5, <3>6, <5>2, SMT DEF InMonth, StartOf, DaysOf, MayLast, LongHeshvan
          <6>3. QED
            BY <6>1, <6>2
        <5>3. QED
          BY <5>1, <5>2
      <4>6. QED
        BY <4>4, <4>5
    <3>7. QED
      BY <1>0, <3>2, <3>3, <3>4, <3>6, SMT
  <2>6. QED
    BY <2>4, <2>5 DEF MayLast
<1>3. QED
  BY <1>1, <1>2

-----------------------------------------------------------------------------
(* The days of the years.                                                  *)

LeapOf(n) == IF IsLeap(n) THEN 1 ELSE 0
InYear(n, k, m, d) == InMonth(LeapOf(n), LengthOf(n), k, m, d)
SdnOf(n, k) == JewishOffset + NewYear(n) + k

LEMMA YearsMayLast ==
  ASSUME NEW n \in Nat
  PROVE  /\ MayLast(LeapOf(n), LengthOf(n)) /\ LengthOf(n) \in Nat /\ NewYear(n) \in Nat
         /\ NewYear(n + 1) = NewYear(n) + LengthOf(n)
         /\ LeapOf(n) \in {0, 1}
<1>1. MayLast(LeapOf(n), LengthOf(n))
  <2>1. CASE IsLeap(n)
    <3> DEFINE len == LengthOf(n)
    <3>1. len \in 383 .. 385 /\ LeapOf(n) = 1
      BY <2>1, YearLengths DEF LeapOf
    <3> HIDE DEF len
    <3>2. MayLast(1, len)
      BY <3>1, SMT DEF MayLast
    <3>3. QED
      BY <3>1, <3>2 DEF len
  <2>2. CASE ~IsLeap(n)
    <3>1. LengthOf(n) \in 353 .. 355 /\ LeapOf(n) = 0
      BY <2>2, YearLengths DEF LeapOf
    <3>2. QED
      BY <3>1 DEF MayLast
  <2>3. QED
    BY <2>1, <2>2
<1>2. NewYear(n) \in Nat /\ NewYear(n + 1) \in Nat
  BY YearsBegin
<1>3. LengthOf(n) \in Nat
  BY <1>1, SMT DEF MayLast
<1>4. NewYear(n + 1) = NewYear(n) + LengthOf(n)
  BY <1>2, SMT DEF LengthOf
<1>5. QED
  BY <1>1, <1>2, <1>3, <1>4 DEF LeapOf

LEMMA FirstNewYear ==
  NewYear(0) = 1
<1>1. MonthsBefore(0) = 0
  BY SMT DEF MonthsBefore
<1>2. Halakim(0) = 31524
  BY <1>1, SMT DEF Halakim, HalakimPerLunarCycle, HalakimPerDay
<1>3. MoladOf(0) = [day |-> 1, halakim |-> 5604]
  BY <1>2, SMT DEF MoladOf, MoladAt, HalakimPerDay
<1>4. QED
  BY <1>3, SMT DEF NewYear, Tishri1, LeapYears

LEMMA JewishDayDate ==
  ASSUME NEW sdn \in Int, sdn > JewishOffset
  PROVE  \E n \in Nat, k \in Nat, m \in Int, d \in Int :
            SdnToJewish(sdn) = <<n + 1, m, d>> /\ InYear(n, k, m, d) /\ sdn = SdnOf(n, k)
<1> DEFINE day == sdn - JewishOffset
           found == FindTishriMolad(day)
<1>1. day \in Int /\ day >= 1 /\ day + 310 >= 0 /\ sdn = JewishOffset + day /\ JewishOffset \in Nat
  BY SMT DEF JewishOffset
<1>2. SdnToJewish(sdn) = JewishDate(day, found, Tishri1(found.year, found.molad))
  <2>1. ~(sdn <= JewishOffset)
    BY <1>1, SMT
  <2>2. QED
    BY <2>1, Zenon DEF SdnToJewish
<1> HIDE DEF day
<1>3. PICK n \in Nat : /\ found = [cycle |-> n \div 19, year |-> n % 19, molad |-> MoladOf(n)]
                       /\ MoladOf(n).day >= day - 75
                       /\ n = 0 \/ MoladOf(n - 1).day <= day - 32
  BY <1>1, MoladIsFound, Zenon DEF IsMoladOf
<1>4. Tishri1(found.year, found.molad) = NewYear(n)
  BY <1>3 DEF NewYear
<1>5. (found.cycle * 19) + found.year = n
  <2>1. ((n \div 19) * 19) + (n % 19) = n
    BY SMT
  <2>2. QED
    BY <1>3, <2>1
<1> HIDE DEF found
<1>6. NewYear(n) \in Nat /\ MoladOf(n).day \in Nat /\ MoladOf(n).day <= NewYear(n)
  BY YearsBegin, MoladDays
<1>7. CASE day >= NewYear(n)
  <2> DEFINE k == day - NewYear(n)
             next == NextTishri1(found.year, found.molad) - NewYear(n)
  <2>1. SdnToJewish(sdn) = AfterTishri1(n + 1, k, next)
    BY <1>2, <1>4, <1>5, <1>7 DEF JewishDate
  <2>2. next = LengthOf(n)
    BY <1>3, StartOfYear, Zenon DEF LengthOf
  <2>3. k \in Int /\ 0 <= k /\ k <= 75 /\ sdn = SdnOf(n, k)
    BY <1>1, <1>3, <1>6, <1>7, SMT DEF SdnOf
  <2>4. MayLast(LeapOf(n), LengthOf(n))
    BY YearsMayLast
  <2> HIDE DEF k, next
  <2>5. PICK m, d : AfterTishri1(n + 1, k, LengthOf(n)) = <<n + 1, m, d>> /\ InYear(n, k, m, d)
    BY <2>3, <2>4, AutumnDate DEF InYear
  <2>6. m \in Int /\ d \in Int
    BY <2>5, SMT DEF InYear, InMonth
  <2>7. k \in Nat
    BY <2>3, SMT
  <2>8. QED
    BY <2>1, <2>2, <2>3, <2>5, <2>6, <2>7
<1>8. CASE day < NewYear(n)
  <2>1. n # 0
    BY <1>1, <1>8, FirstNewYear, SMT
  <2>2. PICK p \in Nat : n = p + 1 /\ p = n - 1
    BY <2>1, SMT
  <2> DEFINE k == day - NewYear(p)
             days == day - NewYear(n)
  <2>3. /\ NewYear(p) \in Nat /\ NewYear(p) <= MoladOf(p).day + 2 /\ MoladOf(p).day \in Nat
        /\ LengthOf(p) \in Nat /\ NewYear(n) = NewYear(p) + LengthOf(p)
        /\ MayLast(LeapOf(p), LengthOf(p))
    <3>1. NewYear(p) \in Nat /\ NewYear(p) <= MoladOf(p).day + 2 /\ MoladOf(p).day \in Nat
      BY YearsBegin, MoladDays
    <3>2. /\ LengthOf(p) \in Nat /\ NewYear(p + 1) = NewYear(p) + LengthOf(p)
          /\ MayLast(LeapOf(p), LengthOf(p))
      BY YearsMayLast
    <3>3. QED
      BY <2>2, <3>1, <3>2
  <2>4. MoladOf(p).day <= day - 32
    BY <1>3, <2>1, <2>2
  <2>5. /\ k \in Int /\ 30 <= k /\ k < LengthOf(p) /\ days = k - LengthOf(p)
        /\ sdn = SdnOf(p, k) /\ k \in Nat
    BY <1>1, <1>8, <2>3, <2>4, SMT DEF SdnOf
  <2>6. SdnToJewish(sdn) = BeforeTishri1(n, days, BackToTevet(n, days + 207),
                             NewYear(n) - Tishri1(FindTishriMolad(MoladOf(n).day - 365).year,
                                                  FindTishriMolad(MoladOf(n).day - 365).molad))
    <3>1. ~(day >= NewYear(n))
      BY <1>1, <1>6, <1>8, SMT
    <3>2. found.molad = MoladOf(n)
      BY <1>3
    <3> DEFINE b == FindTishriMolad(MoladOf(n).day - 365)
    <3> HIDE DEF b
    <3>3. FindTishriMolad(found.molad.day - 365) = b
      BY <3>2 DEF b
    <3>4. JewishDate(day, found, NewYear(n))
            = BeforeTishri1(n, days, BackToTevet(n, days + 207), NewYear(n) - Tishri1(b.year, b.molad))
      BY <1>5, <3>1, <3>3, SMT DEF JewishDate
    <3>5. QED
      BY <1>2, <1>4, <3>4 DEF b
  <2>7. Tishri1(FindTishriMolad(MoladOf(n).day - 365).year,
                FindTishriMolad(MoladOf(n).day - 365).molad) = NewYear(p)
    <3>1. FindTishriMolad(MoladOf(p + 1).day - 365)
            = [cycle |-> p \div 19, year |-> p % 19, molad |-> MoladOf(p)]
      BY YearBeforeIsFound
    <3> DEFINE b == FindTishriMolad(MoladOf(p + 1).day - 365)
    <3>2. b.year = p % 19 /\ b.molad = MoladOf(p)
      BY <3>1
    <3> HIDE DEF b
    <3>3. Tishri1(b.year, b.molad) = NewYear(p)
      BY <3>2, Zenon DEF NewYear
    <3>4. QED
      BY <2>2, <3>3 DEF b
  <2>8. NewYear(n) - NewYear(p) = LengthOf(p)
    BY <2>2 DEF LengthOf
  <2>9. LeapOf(p) = 1 <=> monthsPerYear((n - 1) % 19) = 13
    <3>1. monthsPerYear(p % 19) = IF IsLeap(p) THEN 13 ELSE 12
      BY MonthsNext
    <3>2. n - 1 = p
      BY <2>2
    <3>3. monthsPerYear(p % 19) = 13 <=> IsLeap(p)
      BY <3>1, SMT
    <3>4. LeapOf(p) = 1 <=> IsLeap(p)
      BY SMT DEF LeapOf
    <3>5. QED
      BY <3>2, <3>3, <3>4
  <2> HIDE DEF k, days
  <2>10. SdnToJewish(sdn) = BeforeTishri1(n, k - LengthOf(p), BackToTevet(n, (k - LengthOf(p)) + 207), LengthOf(p))
    BY <2>5, <2>6, <2>7, <2>8
  <2>11. PICK m, d : SdnToJewish(sdn) = <<n, m, d>> /\ InMonth(LeapOf(p), LengthOf(p), k, m, d)
    <3> DEFINE z == BeforeTishri1(n, k - LengthOf(p), BackToTevet(n, (k - LengthOf(p)) + 207), LengthOf(p))
    <3>1. \E m, d : z = <<n, m, d>> /\ InMonth(LeapOf(p), LengthOf(p), k, m, d)
      BY <2>3, <2>5, <2>9, SpringDate
    <3> HIDE DEF z
    <3>2. SdnToJewish(sdn) = z
      BY <2>10 DEF z
    <3>3. QED
      BY <3>1, <3>2
  <2>12. m \in Int /\ d \in Int
    BY <2>11, SMT DEF InMonth
  <2>13. QED
    BY <2>2, <2>5, <2>11, <2>12 DEF InYear
<1>9. QED
  BY <1>1, <1>6, <1>7, <1>8, SMT

LEMMA JewishDateSdn ==
  ASSUME NEW n \in Nat, NEW m \in 1 .. 13, NEW d \in 1 .. 30
  PROVE  JewishToSdn(n + 1, m, d) = SdnOf(n, StartOf(LeapOf(n), LengthOf(n), m) + (d - 1))
<1> DEFINE len == LengthOf(n)
           first == NewYear(n)
           adars == IF LeapOf(n) = 1 THEN 59 ELSE 29
<1>1. FindStartOfYear(n + 1) = [year |-> n % 19, molad |-> MoladOf(n), tishri1 |-> first]
      /\ NextTishri1(n % 19, MoladOf(n)) = NewYear(n + 1)
  BY StartOfYear
<1>2. FindStartOfYear((n + 1) + 1).tishri1 = NewYear(n + 1)
  <2>1. PICK p \in Nat : p = n + 1
    OBVIOUS
  <2>2. FindStartOfYear(p + 1).tishri1 = NewYear(p)
    <3>1. FindStartOfYear(p + 1) = [year |-> p % 19, molad |-> MoladOf(p), tishri1 |-> NewYear(p)]
      BY StartOfYear
    <3> DEFINE y == p % 19
               f == FindStartOfYear(p + 1)
    <3> HIDE DEF y, f
    <3>2. f = [year |-> y, molad |-> MoladOf(p), tishri1 |-> NewYear(p)]
      BY <3>1 DEF f, y
    <3>3. f.tishri1 = NewYear(p)
      BY <3>2
    <3>4. QED
      BY <3>3 DEF f
  <2>3. QED
    BY <2>1, <2>2
<1>3. /\ first \in Nat /\ len \in Nat /\ NewYear(n + 1) = first + len
      /\ LeapOf(n) \in {0, 1}
  BY YearsMayLast
<1>4. (IF monthsPerYear(((n + 1) - 1) % 19) = 12 THEN 29 ELSE 59) = adars
  <2>1. ((n + 1) - 1) = n
    BY SMT
  <2>2. QED
    BY <2>1, MonthsNext, SMT DEF LeapOf
<1> DEFINE after == first + len
           begin == FindStartOfYear(n + 1)
           SdnIn(from, to, length, days) ==
             LET before == CASE m = 1 -> -1
                             [] m = 2 -> 29
                             [] OTHER -> IF LongHeshvan(length) THEN 59 ELSE 58
                 left == CASE m \in 4..6 -> days + <<237, 208, 178>>[m - 3]
                           [] m = 7 -> 207
                           [] OTHER -> JewishMonthEnd[m]
             IN IF m \in 1..3 THEN from + d + before + JewishOffset
                ELSE to + d - left + JewishOffset
           sdn == SdnIn(first, after, len, adars)
<1>5. JewishToSdn(n + 1, m, d) = sdn
  <2>1. ~(n + 1 <= 0 \/ d \notin 1 .. 30 \/ m \notin 1 .. 13)
    BY SMT
  <2>2. begin.tishri1 = first /\ begin.year = n % 19 /\ begin.molad = MoladOf(n)
    BY <1>1
  <2>3. NextTishri1(begin.year, begin.molad) - begin.tishri1 = len
    BY <1>1, <2>2, Zenon DEF LengthOf
  <2> HIDE DEF len, first, adars
  <2>4. JewishToSdn(n + 1, m, d)
          = SdnIn(begin.tishri1, FindStartOfYear((n + 1) + 1).tishri1,
                NextTishri1(begin.year, begin.molad) - begin.tishri1,
                IF monthsPerYear(((n + 1) - 1) % 19) = 12 THEN 29 ELSE 59)
    <3> DEFINE x == SdnIn(begin.tishri1, FindStartOfYear((n + 1) + 1).tishri1,
                          NextTishri1(begin.year, begin.molad) - begin.tishri1,
                          IF monthsPerYear(((n + 1) - 1) % 19) = 12 THEN 29 ELSE 59)
    <3>1. JewishToSdn(n + 1, m, d)
            = IF n + 1 <= 0 \/ d \notin 1..30 \/ m \notin 1..13 THEN 0 ELSE x
      BY Zenon DEF JewishToSdn
    <3> HIDE DEF x
    <3>2. JewishToSdn(n + 1, m, d) = x
      BY <2>1, <3>1
    <3>3. QED
      BY <3>2 DEF x
  <2> HIDE DEF begin, SdnIn
  <2>5. QED
    BY <1>2, <1>3, <1>4, <2>2, <2>3, <2>4
<1>6. sdn = (first + (StartOf(LeapOf(n), len, m) + (d - 1))) + JewishOffset
  <2>1. /\ JewishMonthEnd[8] = 178 /\ JewishMonthEnd[9] = 148 /\ JewishMonthEnd[10] = 119
        /\ JewishMonthEnd[11] = 89 /\ JewishMonthEnd[12] = 60 /\ JewishMonthEnd[13] = 30
    BY SMT DEF JewishMonthEnd
  <2> DEFINE leap == LeapOf(n)
  <2> HIDE DEF len, first, leap
  <2>2. QED
    BY <1>3, <2>1, SMTT(30) DEF StartOf, leap
<1>7. JewishOffset \in Nat
  BY SMT DEF JewishOffset
<1>8. StartOf(LeapOf(n), len, m) \in Int
  <2> HIDE DEF len
  <2> QED
    BY <1>3, SMT DEF StartOf
<1> HIDE DEF sdn, len, first
<1>9. QED
  BY <1>3, <1>5, <1>6, <1>7, <1>8, SMT DEF SdnOf, first, len

InJewish(sdn) == sdn \in Int /\ sdn > JewishOffset

LEMMA JewishOperators ==
  ASSUME NEW cal, cal = "HEBREW"
  PROVE  /\ \A sdn : from_sdn_func(cal, sdn) = SdnToJewish(sdn)
         /\ \A y, m, d : to_sdn_func(cal, y, m, d) = JewishToSdn(y, m, d)
         /\ \A y : LeapYear(cal, y) <=> ((7 * Astronomical(y)) + 1) % 19 < 7
         /\ \A y, m, d : Exists(cal, y, m, d) =>
              /\ y # 0 /\ HasMonth(cal, y, m) /\ d >= 1 /\ y >= 1
              /\ \A n \in Lengths(cal, y, m) : d <= n
<1>1. \A sdn : from_sdn_func(cal, sdn) = SdnToJewish(sdn)
  BY Zenon DEF from_sdn_func
<1>2. \A y, m, d : to_sdn_func(cal, y, m, d) = JewishToSdn(y, m, d)
  BY Zenon DEF to_sdn_func
<1>3. \A y : LeapYear(cal, y) <=> ((7 * Astronomical(y)) + 1) % 19 < 7
  BY Zenon DEF LeapYear
<1>4. ASSUME NEW y, NEW m, NEW d, Exists(cal, y, m, d)
      PROVE  /\ y # 0 /\ HasMonth(cal, y, m) /\ d >= 1 /\ y >= 1
             /\ \A n \in Lengths(cal, y, m) : d <= n
  <2>1. y # 0 /\ HasMonth(cal, y, m) /\ d >= 1 /\ \A n \in Lengths(cal, y, m) : d <= n
    BY <1>4, Zenon DEF Exists
  <2>2. y >= 1
    BY <1>4, cal = "HEBREW", SMT DEF Exists
  <2>3. QED
    BY <2>1, <2>2
<1>5. QED
  BY <1>1, <1>2, <1>3, <1>4, Zenon

LEMMA JewishLengths ==
  ASSUME NEW cal, cal = "HEBREW", NEW y, NEW m \in 1 .. 13
  PROVE  Lengths(cal, y, m) = IF m \in {2, 3} THEN {29, 30}
                              ELSE IF m = 6 THEN {IF LeapYear(cal, y) THEN 30 ELSE 29}
                              ELSE IF m \in {1, 5, 8, 10, 12} THEN {30} ELSE {29}
<1> DEFINE a == CASE m \in {2, 3} -> {29, 30}
                  [] m = 6 -> {IF LeapYear(cal, y) THEN 30 ELSE 29}
                  [] m \in {1, 5, 8, 10, 12} -> {30}
                  [] OTHER -> {29}
<1>1. Lengths(cal, y, m) = a
  BY Zenon DEF Lengths
<1>2. a = IF m \in {2, 3} THEN {29, 30}
          ELSE IF m = 6 THEN {IF LeapYear(cal, y) THEN 30 ELSE 29}
          ELSE IF m \in {1, 5, 8, 10, 12} THEN {30} ELSE {29}
  BY SMT
<1>3. QED
  BY <1>1, <1>2

\* What the calendar says of year n + 1.
LEMMA JewishYear ==
  ASSUME NEW cal, cal = "HEBREW", NEW n \in Nat
  PROVE  /\ LeapYear(cal, n + 1) <=> LeapOf(n) = 1
         /\ \A m \in 1 .. 13 : /\ HasMonth(cal, n + 1, m) <=> (m = 7 => LeapOf(n) = 1)
                               /\ DaysOf(LeapOf(n), LengthOf(n), m) \in Lengths(cal, n + 1, m)
                               /\ m \notin {2, 3} => Lengths(cal, n + 1, m) = {DaysOf(LeapOf(n), LengthOf(n), m)}
<1>1. LeapYear(cal, n + 1) <=> LeapOf(n) = 1
  <2>1. Astronomical(n + 1) = n + 1
    BY SMT DEF Astronomical
  <2>2. LeapYear(cal, n + 1) <=> ((7 * (n + 1)) + 1) % 19 < 7
    BY <2>1, JewishOperators
  <2>3. (((7 * (n + 1)) + 1) % 19 < 7) <=> IsLeap(n)
    BY LeapYearsAreLeap
  <2>4. QED
    BY <2>2, <2>3 DEF LeapOf
<1>2. ASSUME NEW m \in 1 .. 13
      PROVE  /\ HasMonth(cal, n + 1, m) <=> (m = 7 => LeapOf(n) = 1)
             /\ DaysOf(LeapOf(n), LengthOf(n), m) \in Lengths(cal, n + 1, m)
             /\ m \notin {2, 3} => Lengths(cal, n + 1, m) = {DaysOf(LeapOf(n), LengthOf(n), m)}
  <2> DEFINE leap == LeapOf(n)
             len == LengthOf(n)
             y == n + 1
  <2>1. LastMonth(cal) = 13
    BY DEF LastMonth
  <2>2. LeapYear(cal, y) <=> leap = 1
    BY <1>1
  <2> HIDE DEF leap, len, y
  <2>3. HasMonth(cal, y, m) <=> (m = 7 => leap = 1)
    BY <2>1, <2>2 DEF HasMonth
  <2>4. Lengths(cal, y, m) = IF m \in {2, 3} THEN {29, 30}
                              ELSE IF m = 6 THEN {IF LeapYear(cal, y) THEN 30 ELSE 29}
                              ELSE IF m \in {1, 5, 8, 10, 12} THEN {30} ELSE {29}
    BY JewishLengths
  <2>5. /\ DaysOf(leap, len, m) \in Lengths(cal, y, m)
        /\ m \notin {2, 3} => Lengths(cal, y, m) = {DaysOf(leap, len, m)}
    <3>1. CASE m = 2
      BY <2>4, <3>1 DEF DaysOf
    <3>2. CASE m = 3
      BY <2>4, <3>2 DEF DaysOf
    <3>3. CASE m = 6
      BY <2>2, <2>4, <3>3 DEF DaysOf
    <3>4. CASE m \notin {2, 3, 6}
      BY <2>4, <3>4 DEF DaysOf
    <3>5. QED
      BY <3>1, <3>2, <3>3, <3>4
  <2>6. QED
    BY <2>3, <2>5 DEF leap, len, y
<1>3. QED
  BY <1>1, <1>2

LEMMA JewishDayIsADate ==
  ASSUME NEW cal, cal = "HEBREW", NEW sdn, InJewish(sdn), NEW date, date = from_sdn_func(cal, sdn)
  PROVE  MayExist(cal, date) /\ to_sdn_func(cal, date[1], date[2], date[3]) = sdn
<1>1. PICK n \in Nat, k \in Nat, m \in Int, d \in Int :
        SdnToJewish(sdn) = <<n + 1, m, d>> /\ InYear(n, k, m, d) /\ sdn = SdnOf(n, k)
  BY JewishDayDate DEF InJewish
<1>2. date = <<n + 1, m, d>>
  BY <1>1, JewishOperators
<1> DEFINE s == StartOf(LeapOf(n), LengthOf(n), m)
           l == DaysOf(LeapOf(n), LengthOf(n), m)
<1>3. m \in 1 .. 13 /\ (m = 7 => LeapOf(n) = 1) /\ 1 <= d /\ d <= l /\ k = s + (d - 1)
  BY <1>1 DEF InYear, InMonth
<1>4. l \in 29 .. 30
  BY SMT DEF DaysOf
<1>5. HasMonth(cal, n + 1, m) /\ l \in Lengths(cal, n + 1, m)
  BY <1>3, JewishYear
<1> HIDE DEF s, l
<1>6. MayExist(cal, date)
  <2>1. date[1] = n + 1 /\ date[2] = m /\ date[3] = d /\ n + 1 # 0 /\ n + 1 \in Int
    BY <1>2
  <2>2. QED
    BY <1>2, <1>3, <1>5, <2>1, Zenon DEF MayExist
<1>7. JewishToSdn(n + 1, m, d) = sdn
  <2>1. d \in 1 .. 30
    BY <1>3, <1>4
  <2>2. JewishToSdn(n + 1, m, d) = SdnOf(n, s + (d - 1))
    BY <1>3, <2>1, JewishDateSdn DEF s
  <2>3. QED
    BY <1>1, <1>3, <2>2
<1>8. QED
  BY <1>2, <1>6, <1>7, JewishOperators

LEMMA SameYear ==
  ASSUME NEW n \in Nat, NEW k \in Nat, k < LengthOf(n), NEW n2 \in Nat, NEW k2 \in Nat, k2 < LengthOf(n2),
         SdnOf(n, k) = SdnOf(n2, k2)
  PROVE  n = n2 /\ k = k2
<1>1. \A i \in Nat : LengthOf(i) \in Nat /\ NewYear(i) \in Nat /\ NewYear(i + 1) = NewYear(i) + LengthOf(i)
  BY YearsMayLast
<1>2. NewYear(n) + k = NewYear(n2) + k2
  <2>1. JewishOffset \in Nat
    BY SMT DEF JewishOffset
  <2>2. NewYear(n) \in Nat /\ NewYear(n2) \in Nat
    BY <1>1
  <2>3. QED
    BY <2>1, <2>2, SMT DEF SdnOf
<1>3. \A a, b \in Nat : a < b => NewYear(a + 1) <= NewYear(b)
  <2> TAKE a, b \in Nat
  <2> HAVE a < b
  <2>1. PICK c \in Nat : c = a + 1
    OBVIOUS
  <2>2. c = b \/ c < b
    BY <2>1
  <2>3. c < b => NewYear(c) < NewYear(b)
    BY MoladsGrow
  <2>4. NewYear(c) \in Nat /\ NewYear(b) \in Nat
    BY <1>1
  <2>5. NewYear(c) <= NewYear(b)
    BY <2>2, <2>3, <2>4
  <2>6. QED
    BY <2>1, <2>5
<1>4. ~(n < n2)
  <2>1. /\ LengthOf(n) \in Nat /\ NewYear(n) \in Nat /\ NewYear(n + 1) = NewYear(n) + LengthOf(n) /\ NewYear(n2) \in Nat
    BY <1>1
  <2>2. n < n2 => NewYear(n + 1) <= NewYear(n2)
    BY <1>3
  <2>3. QED
    BY <1>2, <2>1, <2>2
<1>5. ~(n2 < n)
  <2>1. /\ LengthOf(n2) \in Nat /\ NewYear(n2) \in Nat /\ NewYear(n2 + 1) = NewYear(n2) + LengthOf(n2) /\ NewYear(n) \in Nat
    BY <1>1
  <2>2. n2 < n => NewYear(n2 + 1) <= NewYear(n)
    BY <1>3
  <2>3. QED
    BY <1>2, <2>1, <2>2
<1>6. n = n2
  BY <1>4, <1>5
<1>7. k = k2
  <2>1. NewYear(n) \in Nat
    BY <1>1
  <2>2. QED
    BY <1>2, <1>6, <2>1
<1>8. QED
  BY <1>6, <1>7

\* The date of day k of year n + 1.
LEMMA DateInYear ==
  ASSUME NEW n \in Nat, NEW k, NEW m, NEW d, InYear(n, k, m, d)
  PROVE  /\ SdnToJewish(SdnOf(n, k)) = <<n + 1, m, d>> /\ k \in Nat /\ k < LengthOf(n)
         /\ InJewish(SdnOf(n, k))
<1>1. MayLast(LeapOf(n), LengthOf(n)) /\ NewYear(n) \in Nat
  BY YearsMayLast
<1>2. k \in Nat /\ k < LengthOf(n)
  BY <1>1, MonthRange DEF InYear
<1>3. SdnOf(n, k) \in Int /\ SdnOf(n, k) > JewishOffset
  <2>1. JewishOffset \in Nat
    BY SMT DEF JewishOffset
  <2>2. NewYear(n) > 0
    <3>1. n # 0 => NewYear(0) < NewYear(n)
      BY MoladsGrow
    <3>2. QED
      BY <1>1, <3>1, FirstNewYear, SMT
  <2>3. QED
    BY <1>1, <1>2, <2>1, <2>2, SMT DEF SdnOf
<1>4. PICK n2 \in Nat, k2 \in Nat, m2 \in Int, d2 \in Int :
        SdnToJewish(SdnOf(n, k)) = <<n2 + 1, m2, d2>> /\ InYear(n2, k2, m2, d2) /\ SdnOf(n, k) = SdnOf(n2, k2)
  BY <1>3, JewishDayDate
<1>5. k2 < LengthOf(n2)
  <2>1. MayLast(LeapOf(n2), LengthOf(n2))
    BY YearsMayLast
  <2>2. QED
    BY <1>4, <2>1, MonthRange DEF InYear
<1>6. n = n2 /\ k = k2
  BY <1>2, <1>4, <1>5, SameYear
<1>7. m = m2 /\ d = d2
  BY <1>1, <1>4, <1>6, OneMonth DEF InYear
<1>8. QED
  BY <1>2, <1>3, <1>4, <1>6, <1>7 DEF InJewish

LEMMA JewishDateIsADay ==
  ASSUME NEW cal, cal = "HEBREW", NEW year \in Int, NEW month \in Int, NEW day \in Int,
         Exists(cal, year, month, day), NEW sdn, sdn = to_sdn_func(cal, year, month, day)
  PROVE  InJewish(sdn) /\ from_sdn_func(cal, sdn) = <<year, month, day>>
<1>1. HasMonth(cal, year, month) /\ day >= 1 /\ year >= 1 /\ \A l \in Lengths(cal, year, month) : day <= l
  BY JewishOperators
<1>2. PICK n \in Nat : year = n + 1
  <2>1. year - 1 \in Nat /\ year = (year - 1) + 1
    BY <1>1
  <2>2. QED
    BY <2>1
<1>3. month \in 1 .. 13
  BY <1>1 DEF HasMonth, LastMonth
<1> DEFINE s == StartOf(LeapOf(n), LengthOf(n), month)
           l == DaysOf(LeapOf(n), LengthOf(n), month)
           k == s + (day - 1)
<1>4. (month = 7 => LeapOf(n) = 1) /\ l \in Lengths(cal, year, month)
  BY <1>1, <1>2, <1>3, JewishYear
<1>5. l \in 29 .. 30
  BY SMT DEF DaysOf
<1>6. day <= l
  BY <1>1, <1>4
<1>7. InYear(n, k, month, day)
  BY <1>1, <1>3, <1>4, <1>6 DEF InYear, InMonth
<1>8. day \in 1 .. 30
  BY <1>1, <1>5, <1>6
<1> HIDE DEF k
<1>9. JewishToSdn(n + 1, month, day) = SdnOf(n, k)
  BY <1>3, <1>8, JewishDateSdn DEF k
<1>10. SdnToJewish(SdnOf(n, k)) = <<n + 1, month, day>> /\ InJewish(SdnOf(n, k))
  BY <1>7, DateInYear
<1>11. QED
  BY <1>2, <1>9, <1>10, JewishOperators

LEMMA JewishDaysFollow ==
  ASSUME NEW cal, cal = "HEBREW", NEW sdn, InJewish(sdn),
         NEW date, date = from_sdn_func(cal, sdn), NEW date2, date2 = from_sdn_func(cal, sdn + 1)
  PROVE  /\ Follows(cal, date, date2)
         /\ date2[2] = 1 /\ date2[3] = 1 => DayOfWeek(sdn + 1) \notin {0, 3, 5}
         /\ date2[2] = 4 /\ date2[3] = 1 /\ date[3] = 29 => SdnToJewish((sdn + 1) - 30)[3] = 29
<1>1. PICK n \in Nat, k \in Nat, m \in Int, d \in Int :
        SdnToJewish(sdn) = <<n + 1, m, d>> /\ InYear(n, k, m, d) /\ sdn = SdnOf(n, k)
  BY JewishDayDate DEF InJewish
<1> DEFINE leap == LeapOf(n)
           len == LengthOf(n)
           l == DaysOf(leap, len, m)
<1>2. MayLast(leap, len) /\ len \in Nat /\ NewYear(n) \in Nat /\ NewYear(n + 1) = NewYear(n) + len /\ leap \in {0, 1}
  BY YearsMayLast
<1>3. JewishOffset \in Nat /\ sdn \in Int /\ sdn = JewishOffset + NewYear(n) + k
  BY <1>1, SMT DEF JewishOffset, SdnOf, InJewish
<1>4. m \in 1 .. 13 /\ (m = 7 => leap = 1) /\ 1 <= d /\ d <= l
  BY <1>1 DEF InYear, InMonth
<1>5. date = <<n + 1, m, d>> /\ date2 = SdnToJewish(sdn + 1)
  BY <1>1, JewishOperators
<1>6. HasMonth(cal, n + 1, m) /\ l \in Lengths(cal, n + 1, m)
  BY <1>4, JewishYear
<1>7. date[1] = n + 1 /\ date[2] = m /\ date[3] = d
  BY <1>5
<1>8. \/ d < l /\ InMonth(leap, len, k + 1, m, d + 1)
      \/ d = l /\ m # 13 /\ InMonth(leap, len, k + 1, IF m = 6 /\ leap = 0 THEN 8 ELSE m + 1, 1)
      \/ d = l /\ m = 13 /\ k + 1 = len
  <2> HIDE DEF leap, len
  <2>1. InMonth(leap, len, k, m, d)
    BY <1>1 DEF InYear, leap, len
  <2>2. QED
    BY <1>2, <2>1, NextInYear
<1>9. SdnOf(n, k + 1) = sdn + 1
  BY <1>2, <1>3, SMT DEF SdnOf
<1>10. CASE d < l /\ InMonth(leap, len, k + 1, m, d + 1)
  <2>1. date2 = <<n + 1, m, d + 1>>
    <3>1. InYear(n, k + 1, m, d + 1)
      BY <1>10 DEF InYear
    <3>2. SdnToJewish(SdnOf(n, k + 1)) = <<n + 1, m, d + 1>>
      BY <3>1, DateInYear
    <3>3. QED
      BY <1>5, <1>9, <3>2
  <2>2. Follows(cal, date, date2)
    BY <1>6, <1>7, <1>10, <2>1, Zenon DEF Follows
  <2>3. date2[3] # 1
    <3>1. date2[3] = d + 1
      BY <2>1
    <3>2. QED
      BY <1>4, <3>1
  <2>4. QED
    BY <2>2, <2>3
<1>11. CASE d = l /\ m # 13 /\ InMonth(leap, len, k + 1, IF m = 6 /\ leap = 0 THEN 8 ELSE m + 1, 1)
  <2> DEFINE next == IF m = 6 /\ leap = 0 THEN 8 ELSE m + 1
  <2>1. next \in 2 .. 13
    BY <1>4, <1>11
  <2>2. FollowingMonth(cal, n + 1, m) = next
    <3>1. m + 1 \in 1 .. 13
      BY <1>4, <1>11
    <3>2. HasMonth(cal, n + 1, m + 1) <=> (m + 1 = 7 => leap = 1)
      BY <3>1, JewishYear
    <3>3. m + 1 = 7 <=> m = 6
      BY <1>4
    <3>4. m = 6 => m + 2 = 8
      OBVIOUS
    <3>5. leap = 1 \/ leap = 0
      BY <1>2
    <3> HIDE DEF leap, len, l
    <3>6. QED
      BY <3>2, <3>3, <3>4, <3>5, SMT DEF FollowingMonth
  <2> HIDE DEF next
  <2>3. InYear(n, k + 1, next, 1)
    BY <1>11 DEF InYear, next
  <2>4. date2 = <<n + 1, next, 1>>
    <3>1. SdnToJewish(SdnOf(n, k + 1)) = <<n + 1, next, 1>>
      BY <2>3, DateInYear
    <3>2. QED
      BY <1>5, <1>9, <3>1
  <2>5. Follows(cal, date, date2)
    <3>1. m # LastMonth(cal)
      BY <1>11 DEF LastMonth
    <3>2. date[3] \in Lengths(cal, date[1], date[2])
      BY <1>6, <1>7, <1>11
    <3>3. date2 = IF date[2] = LastMonth(cal) THEN <<NextYear(date[1]), 1, 1>>
                  ELSE <<date[1], FollowingMonth(cal, date[1], date[2]), 1>>
      <4>1. FollowingMonth(cal, date[1], date[2]) = next
        BY <1>7, <2>2
      <4> HIDE DEF leap, len, l
      <4>2. QED
        BY <1>7, <2>4, <3>1, <4>1
    <3>4. QED
      BY <3>2, <3>3, Zenon DEF Follows
  <2>6. date2[2] = next /\ next # 1
    BY <2>1, <2>4
  <2>7. ASSUME next = 4, d = 29
        PROVE  SdnToJewish((sdn + 1) - 30)[3] = 29
    <3>1. m = 3
      BY <1>4, <2>7 DEF next
    <3>2. ~LongHeshvan(len) /\ k + 1 = 88
      <4>1. l = 29
        BY <1>11, <2>7
      <4> HIDE DEF leap, len
      <4>2. len \in {353, 383} /\ StartOf(leap, len, 4) = 88
        BY <1>2, <3>1, <4>1, SMT DEF DaysOf, MayLast, StartOf
      <4>3. k + 1 = StartOf(leap, len, next) + (1 - 1)
        BY <1>11 DEF InMonth, next
      <4>4. QED
        BY <2>7, <4>2, <4>3, SMT DEF LongHeshvan
    <3>3. k >= 58 /\ k - 29 = 58
      BY <3>2
    <3>4. InYear(n, k - 29, 2, 29)
      <4> HIDE DEF leap, len
      <4>1. InMonth(leap, len, k - 29, 2, 29)
        BY <3>2, <3>3, SMT DEF InMonth, StartOf, DaysOf
      <4>2. QED
        BY <4>1 DEF InYear, leap, len
    <3>5. SdnOf(n, k - 29) = (sdn + 1) - 30
      BY <1>2, <1>3, SMT DEF SdnOf
    <3>6. SdnToJewish(SdnOf(n, k - 29)) = <<n + 1, 2, 29>>
      BY <3>4, DateInYear
    <3>7. QED
      BY <3>5, <3>6
  <2>8. QED
    BY <1>7, <2>5, <2>6, <2>7
<1>12. CASE d = l /\ m = 13 /\ k + 1 = len
  <2>1. PICK n2 \in Nat : n2 = n + 1
    OBVIOUS
  <2>2. SdnOf(n2, 0) = sdn + 1
    BY <1>2, <1>3, <1>12, <2>1, SMT DEF SdnOf
  <2>3. InYear(n2, 0, 1, 1)
    BY SMT DEF InYear, InMonth, StartOf, DaysOf
  <2>4. date2 = <<n2 + 1, 1, 1>>
    <3>1. SdnToJewish(SdnOf(n2, 0)) = <<n2 + 1, 1, 1>>
      BY <2>3, DateInYear
    <3>2. QED
      BY <1>5, <2>2, <3>1
  <2>5. Follows(cal, date, date2)
    <3>1. m = LastMonth(cal) /\ NextYear(n + 1) = n2 + 1
      BY <1>12, <2>1, SMT DEF LastMonth, NextYear
    <3>2. date[3] \in Lengths(cal, date[1], date[2])
      BY <1>6, <1>7, <1>12
    <3>3. date2 = IF date[2] = LastMonth(cal) THEN <<NextYear(date[1]), 1, 1>>
                  ELSE <<date[1], FollowingMonth(cal, date[1], date[2]), 1>>
      <4> HIDE DEF leap, len, l
      <4>2. QED
        BY <1>7, <2>4, <3>1, Zenon
    <3>4. QED
      BY <3>2, <3>3, Zenon DEF Follows
  <2>6. DayOfWeek(sdn + 1) \notin {0, 3, 5}
    <3>1. NewYear(n2) \in Nat /\ NewYear(n2) % 7 \notin {0, 3, 5}
      BY YearsBegin
    <3>2. sdn + 1 = JewishOffset + NewYear(n2)
      BY <1>2, <1>3, <1>12, <2>1, SMT
    <3>3. DayOfWeek(sdn + 1) = NewYear(n2) % 7
      <4> DEFINE x == NewYear(n2)
      <4> HIDE DEF x
      <4>1. x \in Nat /\ sdn + 1 = 347997 + x
        BY <3>1, <3>2 DEF x, JewishOffset
      <4>2. ((347997 + x) + 1) % 7 = x % 7
        BY <4>1, SMT
      <4>3. DayOfWeek(sdn + 1) = x % 7
        BY <4>1, <4>2, SMT DEF DayOfWeek
      <4>4. QED
        BY <4>3 DEF x
    <3>4. QED
      BY <3>1, <3>3
  <2>7. date2[2] # 4
    BY <2>4
  <2>8. QED
    BY <2>5, <2>6, <2>7
<1>13. QED
  BY <1>8, <1>10, <1>11, <1>12

-----------------------------------------------------------------------------
(* The four calendars.                                                     *)

\* The days that the calendar has dates for.
Covers(cal, sdn) ==
  /\ sdn \in Int /\ sdn > 0
  /\ cal = "FRENCH_REV" => InFrench(sdn)
  /\ cal = "HEBREW" => InJewish(sdn)

LEMMA CalendarIs ==
  ASSUME NEW cal \in Calendars
  PROVE  cal \in Solar \/ cal = "FRENCH_REV" \/ cal = "HEBREW"
  BY DEF Calendars, Solar

LEMMA DayIsADate ==
  ASSUME NEW cal \in Calendars, NEW sdn, Covers(cal, sdn), NEW date, date = from_sdn_func(cal, sdn)
  PROVE  MayExist(cal, date) /\ to_sdn_func(cal, date[1], date[2], date[3]) = sdn
<1>1. CASE cal \in Solar
  <2>1. sdn \in Nat /\ sdn > 0
    BY SMT DEF Covers
  <2>2. QED
    BY <1>1, <2>1, SolarDayIsADate
<1>2. CASE cal = "FRENCH_REV"
  BY <1>2, FrenchDayIsADate DEF Covers
<1>3. CASE cal = "HEBREW"
  BY <1>3, JewishDayIsADate DEF Covers
<1>4. QED
  BY <1>1, <1>2, <1>3, CalendarIs

LEMMA DateIsADay ==
  ASSUME NEW cal \in Calendars, NEW year \in Int, NEW month \in Int, NEW day \in Int,
         Exists(cal, year, month, day), NEW sdn, sdn = to_sdn_func(cal, year, month, day)
  PROVE  Covers(cal, sdn) /\ from_sdn_func(cal, sdn) = <<year, month, day>>
<1>1. CASE cal \in Solar
  <2>1. sdn \in Nat /\ sdn > 0 /\ from_sdn_func(cal, sdn) = <<year, month, day>>
    BY <1>1, SolarDateIsADay
  <2>2. cal # "FRENCH_REV" /\ cal # "HEBREW"
    BY <1>1 DEF Solar
  <2>3. QED
    BY <2>1, <2>2, SMT DEF Covers
<1>2. CASE cal = "FRENCH_REV"
  <2>1. InFrench(sdn) /\ from_sdn_func(cal, sdn) = <<year, month, day>>
    BY <1>2, FrenchDateIsADay
  <2>2. sdn \in Int /\ sdn > 0
    BY <2>1, SMT DEF InFrench
  <2>3. QED
    BY <1>2, <2>1, <2>2 DEF Covers
<1>3. CASE cal = "HEBREW"
  <2>1. InJewish(sdn) /\ from_sdn_func(cal, sdn) = <<year, month, day>>
    BY <1>3, JewishDateIsADay
  <2>2. sdn \in Int /\ sdn > 0
    BY <2>1, SMT DEF InJewish, JewishOffset
  <2>3. QED
    BY <1>3, <2>1, <2>2 DEF Covers
<1>4. QED
  BY <1>1, <1>2, <1>3, CalendarIs

LEMMA NextDayFollows ==
  ASSUME NEW cal \in Calendars, NEW sdn, Covers(cal, sdn), Covers(cal, sdn + 1)
  PROVE  Follows(cal, from_sdn_func(cal, sdn), from_sdn_func(cal, sdn + 1))
<1>1. CASE cal \in Solar
  <2>1. sdn \in Nat /\ sdn > 0
    BY SMT DEF Covers
  <2>2. QED
    BY <1>1, <2>1, SolarDaysFollow
<1>2. CASE cal = "FRENCH_REV"
  BY <1>2, FrenchDaysFollow DEF Covers
<1>3. CASE cal = "HEBREW"
  BY <1>3, JewishDaysFollow DEF Covers
<1>4. QED
  BY <1>1, <1>2, <1>3, CalendarIs

\* The days outside the calendar, and their dates.
LEMMA NoDayNoDate ==
  ASSUME NEW cal \in Calendars, NEW sdn \in Int, ~Covers(cal, sdn)
  PROVE  from_sdn_func(cal, sdn) = NoDate
<1>1. CASE cal \in Solar
  <2>1. sdn <= 0
    BY <1>1, SMT DEF Covers, Solar
  <2>2. cal = "GREGORIAN" \/ cal = "JULIAN"
    BY <1>1 DEF Solar
  <2>3. SdnToGregorian(sdn) = NoDate /\ SdnToJulian(sdn) = NoDate
    BY <2>1, SMT DEF SdnToGregorian, SdnToJulian
  <2>4. CASE cal = "GREGORIAN"
    BY <2>3, <2>4, Zenon DEF from_sdn_func
  <2>5. CASE cal = "JULIAN"
    BY <2>3, <2>5, Zenon DEF from_sdn_func
  <2>6. QED
    BY <2>2, <2>4, <2>5
<1>2. CASE cal = "FRENCH_REV"
  <2>1. ~InFrench(sdn)
    BY <1>2, SMT DEF Covers, InFrench
  <2>2. SdnToFrench(sdn) = NoDate
    BY <2>1, SMT DEF SdnToFrench, InFrench
  <2>3. QED
    BY <1>2, <2>2, FrenchOperators
<1>3. CASE cal = "HEBREW"
  <2>1. sdn <= JewishOffset
    BY <1>3, SMT DEF Covers, InJewish, JewishOffset
  <2>2. SdnToJewish(sdn) = NoDate
    BY <2>1, Zenon DEF SdnToJewish
  <2>3. QED
    BY <1>3, <2>2, JewishOperators
<1>4. QED
  BY <1>1, <1>2, <1>3, CalendarIs

LEMMA CoversDays ==
  ASSUME NEW cal \in Calendars, NEW a, Covers(cal, a), NEW b, Covers(cal, b), NEW c \in Int, a <= c, c <= b
  PROVE  Covers(cal, c)
  BY SMT DEF Covers, InFrench, InJewish, JewishOffset

\* The conversions are to integers.
LEMMA SdnIsNumber ==
  ASSUME NEW cal \in Calendars, NEW y \in Int, NEW m \in Int, NEW d \in Int
  PROVE  to_sdn_func(cal, y, m, d) \in Int /\ (y = 0 => to_sdn_func(cal, y, m, d) = 0)
<1>0. cal = "GREGORIAN" \/ cal = "JULIAN" \/ cal = "FRENCH_REV" \/ cal = "HEBREW"
  BY DEF Calendars
<1>1. CASE cal = "GREGORIAN"
  <2>1. GregorianToSdn(y, m, d) \in Int /\ (y = 0 => GregorianToSdn(y, m, d) = 0)
    BY SMT DEF GregorianToSdn, YearFromMarch, MonthFromMarch, DaysBefore, DaysPer400Years, DaysPer4Years,
               DaysPer5Months
  <2>2. QED
    BY <1>1, <2>1, Zenon DEF to_sdn_func
<1>2. CASE cal = "JULIAN"
  <2>1. JulianToSdn(y, m, d) \in Int /\ (y = 0 => JulianToSdn(y, m, d) = 0)
    BY SMT DEF JulianToSdn, YearFromMarch, MonthFromMarch, DaysBefore, DaysPer400Years, DaysPer4Years,
               DaysPer5Months
  <2>2. QED
    BY <1>2, <2>1, Zenon DEF to_sdn_func
<1>3. CASE cal = "FRENCH_REV"
  <2>1. FrenchToSdn(y, m, d) \in Int /\ (y = 0 => FrenchToSdn(y, m, d) = 0)
    BY SMT DEF FrenchToSdn, DaysPer4Years
  <2>2. QED
    BY <1>3, <2>1, FrenchOperators
<1>4. CASE cal = "HEBREW"
  <2>1. JewishToSdn(y, m, d) \in Int /\ (y = 0 => JewishToSdn(y, m, d) = 0)
    <3>1. CASE y <= 0 \/ d \notin 1 .. 30 \/ m \notin 1 .. 13
      <4>1. JewishToSdn(y, m, d) = 0
        BY <3>1, Zenon DEF JewishToSdn
      <4>2. QED
        BY <4>1
    <3>2. CASE ~(y <= 0 \/ d \notin 1 .. 30 \/ m \notin 1 .. 13)
      <4>1. PICK n \in Nat : y = n + 1
        <5>1. y - 1 \in Nat /\ y = (y - 1) + 1
          BY <3>2
        <5>2. QED
          BY <5>1
      <4>2. JewishToSdn(n + 1, m, d) = SdnOf(n, StartOf(LeapOf(n), LengthOf(n), m) + (d - 1))
        BY <3>2, JewishDateSdn
      <4>3. StartOf(LeapOf(n), LengthOf(n), m) \in Int
        <5>1. LengthOf(n) \in Nat
          BY YearsMayLast
        <5>2. QED
          BY <5>1, SMT DEF StartOf
      <4>4. NewYear(n) \in Nat /\ JewishOffset \in Nat
        BY YearsMayLast, SMT DEF JewishOffset
      <4>5. SdnOf(n, StartOf(LeapOf(n), LengthOf(n), m) + (d - 1)) \in Int
        BY <4>3, <4>4, SMT DEF SdnOf
      <4>6. y # 0
        BY <3>2
      <4>7. QED
        BY <4>1, <4>2, <4>5, <4>6
    <3>3. QED
      BY <3>1, <3>2
  <2>2. QED
    BY <1>4, <2>1, JewishOperators
<1>5. QED
  BY <1>0, <1>1, <1>2, <1>3, <1>4

LEMMA DateIsNumbers ==
  ASSUME NEW cal \in Calendars, NEW sdn \in Int, NEW date, date = from_sdn_func(cal, sdn)
  PROVE  /\ date = <<date[1], date[2], date[3]>> /\ date[1] \in Int /\ date[2] \in Int /\ date[3] \in Int
         /\ date[1] # 0 <=> Covers(cal, sdn)
<1>1. CASE Covers(cal, sdn)
  <2>1. MayExist(cal, date)
    BY <1>1, DayIsADate
  <2>2. date[2] \in Int
    BY <2>1 DEF MayExist, HasMonth, LastMonth
  <2>3. QED
    BY <1>1, <2>1, <2>2 DEF MayExist
<1>2. CASE ~Covers(cal, sdn)
  <2>1. date = <<0, 0, 0>>
    BY <1>2, NoDayNoDate DEF NoDate
  <2>2. QED
    BY <1>2, <2>1
<1>3. QED
  BY <1>1, <1>2

\* A date that the checked conversion takes has a day.
LEMMA CheckedDate ==
  ASSUME NEW cal \in Calendars, NEW y \in Int, NEW m \in Int, NEW d \in Int,
         NEW sdn, sdn = checkedCalToSdn(cal, y, m, d)
  PROVE  /\ sdn \in Int
         /\ sdn = -1 \/ (Covers(cal, sdn) /\ from_sdn_func(cal, sdn) = <<y, m, d>>
                         /\ MayExist(cal, <<y, m, d>>))
         /\ Exists(cal, y, m, d) => sdn # -1
<1> DEFINE s == to_sdn_func(cal, y, m, d)
<1>1. s \in Int /\ (y = 0 => s = 0)
  BY SdnIsNumber
<1>2. sdn = IF s > 0 /\ from_sdn_func(cal, s) = <<y, m, d>> THEN s ELSE -1
  BY Zenon DEF checkedCalToSdn, Checked
<1>3. Exists(cal, y, m, d) => s > 0 /\ from_sdn_func(cal, s) = <<y, m, d>>
  BY DateIsADay DEF Covers
<1> HIDE DEF s
<1>4. CASE s > 0 /\ from_sdn_func(cal, s) = <<y, m, d>>
  <2>1. y # 0
    BY <1>1, <1>4
  <2>2. Covers(cal, s)
    BY <1>1, <1>4, <2>1, DateIsNumbers
  <2>3. MayExist(cal, <<y, m, d>>)
    BY <1>4, <2>2, DayIsADate
  <2>4. sdn = s
    BY <1>2, <1>4
  <2>5. QED
    BY <1>1, <1>4, <2>2, <2>3, <2>4, SMT
<1>5. CASE ~(s > 0 /\ from_sdn_func(cal, s) = <<y, m, d>>)
  <2>1. sdn = -1
    BY <1>2, <1>5
  <2>2. QED
    BY <1>3, <1>5, <2>1
<1>6. QED
  BY <1>4, <1>5

-----------------------------------------------------------------------------
(* The conversions of a date keep its type.                                *)

LEMMA MonthsOfCalendars ==
  ASSUME NEW cal \in Calendars
  PROVE  max_month[cal] = LastMonth(cal) /\ LastMonth(cal) \in {12, 13}
         /\ (LastMonth(cal) = 12 <=> cal \in Solar)
  BY DEF max_month, LastMonth, Calendars, Solar

LEMMA SdnsAreNumbers ==
  ASSUME NEW d \in DateStructs, d.cal \in Calendars
  PROVE  Sdn(d.cal, FirstDay(d)) \in Int /\ LastDay(d) \in Int
<1>1. d.year \in Int /\ d.month \in Int /\ d.day \in Int
  BY DEF DateStructs
<1>2. max_month[d.cal] \in Int
  BY MonthsOfCalendars
<1>3. /\ FirstDay(d)[1] \in Int /\ FirstDay(d)[2] \in Int /\ FirstDay(d)[3] \in Int
      /\ DayAfter(d)[1] \in Int /\ DayAfter(d)[2] \in Int /\ DayAfter(d)[3] \in Int
  BY <1>1, <1>2 DEF FirstDay, DayAfter
<1>4. Sdn(d.cal, FirstDay(d)) \in Int /\ Sdn(d.cal, DayAfter(d)) \in Int
  BY <1>3, CheckedDate DEF Sdn
<1>5. QED
  BY <1>4 DEF LastDay

\* numbers_to_sdn sets type, sdn1 and sdn2.
Bounded(d) == d.day = None \/ d.month = None \/ d.year = None
SameDate(a, b) ==
  /\ a.cal = b.cal /\ a.day_str = b.day_str /\ a.month_str = b.month_str /\ a.year_str = b.year_str
  /\ a.day = b.day /\ a.month = b.month /\ a.year = b.year /\ a.year_type = b.year_type

LEMMA NumbersToSdn ==
  ASSUME NEW d \in DateStructs, d.cal \in Calendars, NEW r, r = numbers_to_sdn(d)
  PROVE  LET sdn1 == Sdn(d.cal, FirstDay(d))
             sdn2 == LastDay(d)
         IN /\ r = [result |-> r.result, date |-> r.date]
            /\ r.result \in {0, 1} /\ r.date \in DateStructs /\ SameDate(r.date, d)
            /\ r.date.sdn1 = sdn1
            /\ r.date.type = IF Bounded(d) THEN "BOUNDED" ELSE "EXACT"
            /\ r.result = 0 <=> /\ sdn1 # -1
                                /\ Bounded(d) => sdn2 # -1 /\ (d.month = None \/ d.day = None)
            /\ r.result = 0 /\ Bounded(d) => r.date.sdn2 = sdn2
<1> DEFINE sdn1 == Sdn(d.cal, FirstDay(d))
           sdn2 == LastDay(d)
<1>1. sdn1 \in Int /\ sdn2 \in Int
  BY SdnsAreNumbers
<1>2. r = WithSdns(d, sdn1, sdn2)
  <2>1. d.cal # "UNKNOWN"
    BY DEF Calendars
  <2>2. QED
    BY <2>1 DEF numbers_to_sdn
<1> HIDE DEF sdn1, sdn2
<1>3. DEFINE typed == [d EXCEPT !.type = IF Bounded(d) THEN "BOUNDED" ELSE "EXACT", !.sdn1 = sdn1]
<1>4. typed \in DateStructs /\ SameDate(typed, d) /\ typed.sdn1 = sdn1
      /\ typed.type = IF Bounded(d) THEN "BOUNDED" ELSE "EXACT"
  BY <1>1 DEF DateStructs, SameDate
<1>5. [typed EXCEPT !.sdn2 = sdn2] \in DateStructs /\ SameDate([typed EXCEPT !.sdn2 = sdn2], d)
      /\ [typed EXCEPT !.sdn2 = sdn2].sdn1 = sdn1 /\ [typed EXCEPT !.sdn2 = sdn2].sdn2 = sdn2
      /\ [typed EXCEPT !.sdn2 = sdn2].type = IF Bounded(d) THEN "BOUNDED" ELSE "EXACT"
  BY <1>1, <1>4 DEF DateStructs, SameDate
<1>6. r = IF sdn1 = -1 THEN [result |-> 1, date |-> typed]
          ELSE IF ~Bounded(d) THEN [result |-> 0, date |-> typed]
          ELSE [result |-> IF sdn2 = -1 \/ (d.month # None /\ d.day # None) THEN 1 ELSE 0,
                date |-> [typed EXCEPT !.sdn2 = sdn2]]
  BY <1>2 DEF WithSdns, Bounded, Refused
<1> HIDE DEF typed
<1>7. QED
  BY <1>1, <1>4, <1>5, <1>6 DEF sdn1, sdn2

LEMMA UnknownIsRefused ==
  ASSUME NEW d \in DateStructs, d.cal = "UNKNOWN", NEW r, r = numbers_to_sdn(d)
  PROVE  r = [result |-> r.result, date |-> r.date] /\ r.result = 1 /\ r.date \in DateStructs
         /\ SameDate(r.date, d)
<1>1. [d EXCEPT !.type = "UNRECOGNIZED"] \in DateStructs /\ SameDate([d EXCEPT !.type = "UNRECOGNIZED"], d)
  BY DEF DateStructs, SameDate
<1>2. QED
  BY <1>1 DEF numbers_to_sdn, Refused

LEMMA CalIsKnown ==
  ASSUME NEW d \in DateStructs
  PROVE  d.cal = "UNKNOWN" \/ d.cal \in Calendars
  BY DEF DateStructs

LEMMA NumbersAreSet ==
  ASSUME NEW d \in DateStructs, NEW date, date[1] \in Int, date[2] \in Int, date[3] \in Int,
         NEW e, e = [d EXCEPT !.year = date[1], !.month = date[2], !.day = date[3]]
  PROVE  /\ e \in DateStructs /\ e.cal = d.cal /\ e.type = d.type /\ e.sdn1 = d.sdn1
         /\ Numbered(e) = <<date[1], date[2], date[3]>>
<1>1. e \in DateStructs
  BY DEF DateStructs
<1>2. e.year = date[1] /\ e.month = date[2] /\ e.day = date[3] /\ e.cal = d.cal /\ e.type = d.type /\ e.sdn1 = d.sdn1
  BY DEF DateStructs
<1>3. QED
  BY <1>1, <1>2 DEF Numbered

\* sdn_to_numbers sets the numbers; of a single day, to its date.
LEMMA SdnToNumbers ==
  ASSUME NEW d \in DateStructs, NEW r, r = sdn_to_numbers(d)
  PROVE  /\ r = [result |-> r.result, date |-> r.date]
         /\ r.result \in {0, 1} /\ r.date \in DateStructs
         /\ r.date.cal = d.cal /\ r.date.type = d.type /\ r.date.sdn1 = d.sdn1
         /\ d.cal \in Calendars /\ d.sdn1 > 0 /\ d.type = "EXACT"
              => Numbered(r.date) = from_sdn_func(d.cal, d.sdn1)
<1>1. CASE d.cal = "UNKNOWN" \/ d.sdn1 <= 0
  <2>1. r = [result |-> 1, date |-> d]
    BY <1>1 DEF sdn_to_numbers, Refused
  <2>2. d.sdn1 \in Int /\ "UNKNOWN" \notin Calendars
    BY DEF DateStructs, Calendars
  <2>3. ~(d.cal \in Calendars /\ d.sdn1 > 0)
    BY <1>1, <2>2
  <2>4. QED
    BY <2>1, <2>3
<1>2. CASE ~(d.cal = "UNKNOWN" \/ d.sdn1 <= 0)
  <2> DEFINE begin == from_sdn_func(d.cal, d.sdn1)
             end == from_sdn_func(d.cal, d.sdn2)
             With(date) == [d EXCEPT !.year = date[1], !.month = date[2], !.day = date[3]]
             common == IF begin = end THEN begin
                       ELSE IF begin[2] = end[2] THEN <<begin[1], begin[2], None>>
                       ELSE <<begin[1], None, None>>
  <2>1. d.sdn1 \in Int /\ d.sdn2 \in Int /\ d.cal \in Calendars
    BY <1>2 DEF DateStructs
  <2>2. begin = <<begin[1], begin[2], begin[3]>> /\ begin[1] \in Int /\ begin[2] \in Int /\ begin[3] \in Int
    BY <2>1, DateIsNumbers
  <2>3. end = <<end[1], end[2], end[3]>> /\ end[1] \in Int /\ end[2] \in Int /\ end[3] \in Int
    BY <2>1, DateIsNumbers
  <2>5. r = WithNumbers(d, begin, end)
    BY <1>2 DEF sdn_to_numbers
  <2> HIDE DEF begin, end
  <2>6. \/ r = [result |-> 1, date |-> With(begin)]
        \/ r = [result |-> 0, date |-> With(begin)] 
        \/ r = [result |-> 0, date |-> With(common)] /\ d.type # "EXACT"
    BY <2>5 DEF WithNumbers, Refused
  <2>7. /\ With(begin) \in DateStructs /\ With(begin).cal = d.cal /\ With(begin).type = d.type
        /\ With(begin).sdn1 = d.sdn1 /\ Numbered(With(begin)) = begin
    BY <2>2, NumbersAreSet
  <2>8. common[1] \in Int /\ common[2] \in Int /\ common[3] \in Int
    BY <2>2, <2>3 DEF None
  <2> HIDE DEF common
  <2>9. /\ With(common) \in DateStructs /\ With(common).cal = d.cal /\ With(common).type = d.type
        /\ With(common).sdn1 = d.sdn1
    BY <2>8, NumbersAreSet
  <2> HIDE DEF With
  <2>10. QED
    BY <2>6, <2>7, <2>9 DEF begin
<1>3. QED
  BY <1>1, <1>2

-----------------------------------------------------------------------------
(* Strings.                                                                *)

SameNumbers(a, b) ==
  /\ a.cal = b.cal /\ a.day = b.day /\ a.month = b.month /\ a.year = b.year
  /\ a.year_type = b.year_type /\ a.type = b.type /\ a.sdn1 = b.sdn1 /\ a.sdn2 = b.sdn2

LEMMA YearIsText ==
  ASSUME NEW a \in Int, NEW b \in Int, NEW c \in Int
  PROVE  <<a>> \in YearTexts /\ <<a, b, c>> \in YearTexts /\ NoText \in YearTexts
  BY DEF YearTexts, NoText

LEMMA MonthIsText ==
  ASSUME NEW d \in DateStructs, d.cal \in Calendars
  PROVE  month_name(d) \in MonthTexts
<1>1. max_month[d.cal] \in {12, 13}
  BY MonthsOfCalendars
<1>2. NamesOf(d.cal) \in Calendars
  BY DEF NamesOf, Calendars
<1>3. CASE d.month \in 1 .. max_month[d.cal]
  <2>1. d.month \in 1 .. 13
    BY <1>1, <1>3
  <2>2. <<NamesOf(d.cal), d.month>> \in Calendars \X (1 .. 13)
    BY <1>2, <2>1
  <2>3. QED
    BY <1>3, <2>2 DEF month_name, MonthTexts
<1>4. CASE d.month \notin 1 .. max_month[d.cal]
  BY <1>4 DEF month_name, DateStructs
<1>5. QED
  BY <1>3, <1>4

LEMMA NumbersToStrings ==
  ASSUME NEW d \in DateStructs, NEW r, r = numbers_to_strings(d)
  PROVE  /\ r = [result |-> r.result, date |-> r.date]
         /\ r.result \in {0, 1} /\ r.date \in DateStructs /\ SameNumbers(r.date, d)
         /\ d.cal \in Calendars => /\ r.result = 0
                                   /\ r.date.day_str = IF d.day # None THEN d.day ELSE d.day_str
                                   /\ r.date.month_str = month_name(d)
                                   /\ r.date.year_str = YearString(d)
<1>1. CASE d.cal = "UNKNOWN"
  BY <1>1 DEF numbers_to_strings, Refused, SameNumbers, Calendars
<1>2. CASE d.cal # "UNKNOWN"
  <2>1. d.cal \in Calendars
    BY <1>2, CalIsKnown
  <2>2. month_name(d) \in MonthTexts
    BY <2>1, MonthIsText
  <2>3. YearString(d) \in YearTexts
    <3>1. d.year \in Int /\ d.year % 100 \in Int /\ d.year - 1 \in Int
      BY DEF DateStructs
    <3>2. Digits(d.year % 100) \in Int
      BY DEF Digits
    <3>3. QED
      BY <3>1, <3>2, YearIsText DEF YearString
  <2> DEFINE day == IF d.day # None THEN d.day ELSE d.day_str
             month == month_name(d)
             year == YearString(d)
             e == [d EXCEPT !.day_str = day, !.month_str = month, !.year_str = year]
  <2>4. r = [result |-> 0, date |-> e]
    BY <1>2 DEF numbers_to_strings
  <2>5. day \in Int
    BY DEF DateStructs
  <2> HIDE DEF day, month, year
  <2>6. e \in DateStructs
    BY <2>2, <2>3, <2>5 DEF DateStructs, month, year
  <2>7. SameNumbers(e, d) /\ e.day_str = day /\ e.month_str = month /\ e.year_str = year
    BY DEF DateStructs, SameNumbers
  <2> HIDE DEF e
  <2>8. QED
    BY <2>4, <2>6, <2>7 DEF day, month, year
<1>3. QED
  BY <1>1, <1>2

LEMMA YearNumber ==
  ASSUME NEW y \in YearTexts
  PROVE  /\ y # NoText => _get_year_num(y) \in Int /\ Len(y) \in {1, 3}
         /\ get_year_num(y) \in Int /\ YearType(y) \in YearTypes
<1>1. Len(y) \in {0, 1, 3} /\ y \in Seq(Int)
  BY DEF YearTexts
<1>2. y # NoText => Len(y) \in {1, 3}
  BY <1>1 DEF NoText
<1>3. Len(y) = 1 => y[1] \in Int
  BY <1>1
<1>4. Len(y) = 3 => y[1] \in Int /\ y[2] \in Int /\ y[3] \in Int
  <2>1. \A i \in 1 .. Len(y) : y[i] \in Int
    BY <1>1, ElementOfSeq
  <2>2. QED
    BY ONLY <2>1, SMT
<1>5. y # NoText => _get_year_num(y) \in Int
  BY <1>2, <1>3, <1>4 DEF _get_year_num
<1>6. get_year_num(y) \in Int
  BY <1>5 DEF get_year_num, IsYear
<1>7. QED
  BY <1>2, <1>5, <1>6 DEF YearType, YearTypes

\* What a date says and what its strings say.
DayAgrees(d) == IF d.day_str = None THEN d.day = None
                ELSE d.day = d.day_str /\ d.day >= 0 /\ d.day <= 99
MonthAgrees(d) == IF d.month_str = NoText THEN d.month = None
                  ELSE d.month_str = <<NamesOf(d.cal), d.month>>
YearAgrees(d) == /\ d.year_str # NoText /\ \A i \in DOMAIN d.year_str : d.year_str[i] >= 0
                 /\ d.year = _get_year_num(d.year_str) /\ d.year # -1
                 /\ d.year_type = YearType(d.year_str)
Agrees(d) == DayAgrees(d) /\ MonthAgrees(d) /\ YearAgrees(d)

LEMMA StringsToNumbers ==
  ASSUME NEW d \in DateStructs, NEW r, r = strings_to_numbers(d)
  PROVE  /\ r = [result |-> r.result, date |-> r.date]
         /\ r.result \in {0, 1} /\ r.date \in DateStructs /\ r.date.cal = d.cal
         /\ d.cal \in Calendars /\ r.result = 0 => Agrees(r.date)
<1>1. CASE d.cal = "UNKNOWN"
  BY <1>1 DEF strings_to_numbers, Refused, Calendars
<1>2. CASE d.cal # "UNKNOWN"
  <2>1. d.cal \in Calendars /\ d.year_str \in YearTexts /\ d.day_str \in Int /\ d.month_str \in MonthTexts
    BY <1>2, CalIsKnown DEF DateStructs
  <2> DEFINE day == IF d.day_str = None THEN -1 ELSE get_day_num(d.day_str)
             month == IF d.month_str = NoText THEN -1 ELSE get_month_num(d.cal, d.month_str)
             year == get_year_num(d.year_str)
             type == IF IsYear(d.year_str) THEN YearType(d.year_str) ELSE d.year_type
             bad == \/ d.day_str # None /\ day = -1
                    \/ d.month_str # NoText /\ month = -1
                    \/ year = -1
             e == [d EXCEPT !.day = day, !.month = month, !.year = year, !.year_type = type]
  <2>2. r = [result |-> IF bad THEN 1 ELSE 0, date |-> e]
    BY <1>2 DEF strings_to_numbers
  <2>3. day \in Int
    BY <2>1 DEF get_day_num, _get_day_num
  <2>4. d.month_str # NoText => d.month_str \in Calendars \X (1 .. 13)
    BY <2>1 DEF MonthTexts
  <2>5. d.month_str # NoText => d.month_str = <<d.month_str[1], d.month_str[2]>> /\ d.month_str[2] \in 1 .. 13
    BY <2>4
  <2>6. month \in Int
    BY <2>5 DEF get_month_num
  <2>7. year \in Int
    BY <2>1, YearNumber
  <2>8. type \in YearTypes
    BY <2>1, YearNumber DEF DateStructs
  <2>9. ~bad => /\ (IF d.day_str = None THEN day = None ELSE day = d.day_str /\ day >= 0 /\ day <= 99)
                /\ IF d.month_str = NoText THEN month = None ELSE d.month_str = <<NamesOf(d.cal), month>>
    <3>1. ~bad => IF d.day_str = None THEN day = None ELSE day = d.day_str /\ day >= 0 /\ day <= 99
      BY <2>1 DEF get_day_num, _get_day_num, None
    <3>2. ~bad => IF d.month_str = NoText THEN month = None ELSE d.month_str = <<NamesOf(d.cal), month>>
      BY <2>5 DEF get_month_num, None
    <3>3. QED
      BY <3>1, <3>2
  <2>10. ~bad => /\ d.year_str # NoText /\ \A i \in DOMAIN d.year_str : d.year_str[i] >= 0
                 /\ year = _get_year_num(d.year_str) /\ year # -1
                 /\ type = YearType(d.year_str)
    <3>1. ~bad => year # -1
      OBVIOUS
    <3>2. ~bad => IsYear(d.year_str)
      BY <3>1 DEF get_year_num
    <3>3. ~bad => year = _get_year_num(d.year_str) /\ type = YearType(d.year_str)
      BY <3>2 DEF get_year_num
    <3>4. QED
      BY <3>1, <3>2, <3>3 DEF IsYear
  <2> HIDE DEF day, month, year, type
  <2>11. e \in DateStructs
    BY <2>3, <2>6, <2>7, <2>8 DEF DateStructs
  <2>12. /\ e.cal = d.cal /\ e.day_str = d.day_str /\ e.month_str = d.month_str /\ e.year_str = d.year_str
         /\ e.day = day /\ e.month = month /\ e.year = year /\ e.year_type = type
    BY DEF DateStructs
  <2> HIDE DEF e, bad
  <2>13. ~bad => DayAgrees(e) /\ MonthAgrees(e)
    BY <2>9, <2>12 DEF DayAgrees, MonthAgrees
  <2>14. ~bad => YearAgrees(e)
    BY <2>10, <2>12 DEF YearAgrees
  <2>15. QED
    BY <2>2, <2>11, <2>12, <2>13, <2>14 DEF Agrees
<1>3. QED
  BY <1>1, <1>2

-----------------------------------------------------------------------------
(* Normalization.                                                          *)

\* d is what numbers_to_sdn answers, with result n.
Answers(d, n) ==
  \E e \in DateStructs : e.cal \in Calendars /\ numbers_to_sdn(e) = [result |-> n, date |-> d]
Spelled(d) == /\ d.day # None => d.day_str = d.day
              /\ d.month \in 1 .. max_month[d.cal] => d.month_str = <<NamesOf(d.cal), d.month>>
              /\ d.year_str = YearString(d)

LEMMA SameDateAgrees ==
  ASSUME NEW a, NEW b, SameDate(a, b)
  PROVE  Agrees(a) <=> Agrees(b)
<1>1. DayAgrees(a) <=> DayAgrees(b)
  BY DEF SameDate, DayAgrees
<1>2. MonthAgrees(a) <=> MonthAgrees(b)
  BY DEF SameDate, MonthAgrees
<1>3. YearAgrees(a) <=> YearAgrees(b)
  BY DEF SameDate, YearAgrees
<1>4. QED
  BY <1>1, <1>2, <1>3 DEF Agrees

LEMMA Added ==
  ASSUME NEW one, NEW two, one.result \in {0, 1}, two.result \in {0, 1}
  PROVE  Result(one, two) \in {0, 1} /\ (Result(one, two) = 0 <=> one.result = 0 /\ two.result = 0)
         /\ (one.result = 0 => Result(one, two) = two.result)
         /\ (two.result = 0 => Result(one, two) = one.result)
  BY DEF Result

LEMMA BothTogether ==
  ASSUME NEW one, NEW two, one.result \in {0, 1}, two.result \in {0, 1}, NEW r, r = Both(one, two)
  PROVE  /\ r = [result |-> r.result, date |-> r.date] /\ r.date = two.date
         /\ r.result \in {0, 1} /\ (r.result = 0 <=> one.result = 0 /\ two.result = 0)
         /\ (one.result = 0 => r.result = two.result)
  BY Added DEF Both

LEMMA FromStrings ==
  ASSUME NEW d \in DateStructs, NEW r, r = NormalizedDate("STRINGS", d)
  PROVE  /\ r = [result |-> r.result, date |-> r.date]
         /\ r.result \in {0, 1} /\ r.date \in DateStructs /\ r.date.cal = d.cal
         /\ r.result = 0 => Answers(r.date, 0) /\ Agrees(r.date)
<1> DEFINE one == strings_to_numbers(d)
           two == numbers_to_sdn(one.date)
<1>1. r = Both(one, two)
  BY Zenon DEF NormalizedDate
<1>2. one.result \in {0, 1} /\ one.date \in DateStructs /\ one.date.cal = d.cal
      /\ (d.cal \in Calendars /\ one.result = 0 => Agrees(one.date))
  BY StringsToNumbers
<1> HIDE DEF one
<1>3. CASE d.cal = "UNKNOWN"
  <2>1. two.result = 1 /\ two.date \in DateStructs /\ SameDate(two.date, one.date)
    BY <1>2, <1>3, UnknownIsRefused
  <2> HIDE DEF two
  <2>2. QED
    BY <1>1, <1>2, <2>1, BothTogether DEF SameDate
<1>4. CASE d.cal \in Calendars
  <2>1. two.result \in {0, 1} /\ two.date \in DateStructs /\ SameDate(two.date, one.date)
        /\ two = [result |-> two.result, date |-> two.date]
    BY <1>2, <1>4, NumbersToSdn
  <2>2. two.result = 0 => Answers(two.date, 0)
    BY <1>2, <1>4, <2>1 DEF Answers
  <2> HIDE DEF two
  <2>3. two.date.cal = d.cal
    BY <1>2, <2>1 DEF SameDate
  <2>4. Agrees(one.date) => Agrees(two.date)
    BY <2>1, SameDateAgrees
  <2>5. r = [result |-> r.result, date |-> r.date] /\ r.date = two.date
        /\ r.result \in {0, 1} /\ (r.result = 0 <=> one.result = 0 /\ two.result = 0)
    BY <1>1, <1>2, <2>1, BothTogether
  <2>6. QED
    BY <1>2, <1>4, <2>1, <2>2, <2>3, <2>4, <2>5
<1>5. QED
  BY <1>3, <1>4, CalIsKnown

LEMMA SameDateSpelled ==
  ASSUME NEW a, NEW b, SameDate(a, b), Spelled(b)
  PROVE  Spelled(a)
<1>1. YearString(a) = YearString(b)
  BY DEF SameDate, YearString
<1>2. QED
  BY <1>1 DEF SameDate, Spelled

LEMMA IsSpelled ==
  ASSUME NEW a, NEW d, SameNumbers(a, d), a.day_str = IF d.day # None THEN d.day ELSE d.day_str,
         a.month_str = month_name(d), a.year_str = YearString(d)
  PROVE  Spelled(a)
<1>1. YearString(a) = YearString(d)
  BY DEF SameNumbers, YearString
<1>2. a.month \in 1 .. max_month[a.cal] => a.month_str = <<NamesOf(a.cal), a.month>>
  BY DEF SameNumbers, month_name
<1>3. a.day # None => a.day_str = a.day
  BY DEF SameNumbers
<1>4. QED
  BY <1>1, <1>2, <1>3 DEF Spelled

LEMMA FromNumbers ==
  ASSUME NEW d \in DateStructs, NEW r, r = NormalizedDate("NUMBERS", d)
  PROVE  /\ r = [result |-> r.result, date |-> r.date]
         /\ r.result \in {0, 1} /\ r.date \in DateStructs /\ r.date.cal = d.cal
         /\ d.cal \in Calendars => Answers(r.date, r.result) /\ Spelled(r.date)
<1> DEFINE one == numbers_to_strings(d)
           two == numbers_to_sdn(one.date)
<1>1. r = Both(one, two)
  BY Zenon DEF NormalizedDate
<1>2. one.result \in {0, 1} /\ one.date \in DateStructs /\ SameNumbers(one.date, d)
      /\ (d.cal \in Calendars => one.result = 0 /\ Spelled(one.date))
  BY NumbersToStrings, IsSpelled
<1>3. one.date.cal = d.cal
  BY <1>2 DEF SameNumbers
<1> HIDE DEF one
<1>4. CASE d.cal = "UNKNOWN"
  <2>1. two.result = 1 /\ two.date \in DateStructs /\ SameDate(two.date, one.date)
    BY <1>2, <1>3, <1>4, UnknownIsRefused
  <2> HIDE DEF two
  <2>2. r = [result |-> r.result, date |-> r.date] /\ r.date = two.date /\ r.result \in {0, 1}
    BY <1>1, <1>2, <2>1, BothTogether
  <2>3. QED
    BY <1>3, <1>4, <2>1, <2>2 DEF SameDate, Calendars
<1>5. CASE d.cal \in Calendars
  <2>1. two.result \in {0, 1} /\ two.date \in DateStructs /\ SameDate(two.date, one.date)
        /\ two = [result |-> two.result, date |-> two.date]
    BY <1>2, <1>3, <1>5, NumbersToSdn
  <2>2. Answers(two.date, two.result)
    BY <1>2, <1>3, <1>5, <2>1 DEF Answers
  <2> HIDE DEF two
  <2>3. two.date.cal = d.cal
    BY <1>3, <2>1 DEF SameDate
  <2>4. Spelled(two.date)
    BY <1>2, <1>5, <2>1, SameDateSpelled
  <2>5. r = [result |-> r.result, date |-> r.date] /\ r.date = two.date
        /\ r.result \in {0, 1} /\ r.result = two.result
    BY <1>1, <1>2, <1>5, <2>1, BothTogether
  <2>6. QED
    BY <2>1, <2>2, <2>3, <2>4, <2>5
<1>6. QED
  BY <1>4, <1>5, CalIsKnown

LEMMA FromSdn ==
  ASSUME NEW d \in DateStructs, NEW r, r = NormalizedDate("SDN", d)
  PROVE  /\ r = [result |-> r.result, date |-> r.date]
         /\ r.result \in {0, 1} /\ r.date \in DateStructs
         /\ r.date.cal = d.cal /\ r.date.type = d.type /\ r.date.sdn1 = d.sdn1
         /\ d.cal \in Calendars /\ d.sdn1 > 0 /\ d.type = "EXACT"
              => Numbered(r.date) = from_sdn_func(d.cal, d.sdn1)
<1> DEFINE one == sdn_to_numbers(d)
           two == numbers_to_strings(one.date)
<1>1. r = Both(one, two)
  BY Zenon DEF NormalizedDate
<1>2. /\ one.result \in {0, 1} /\ one.date \in DateStructs
      /\ one.date.cal = d.cal /\ one.date.type = d.type /\ one.date.sdn1 = d.sdn1
      /\ d.cal \in Calendars /\ d.sdn1 > 0 /\ d.type = "EXACT"
           => Numbered(one.date) = from_sdn_func(d.cal, d.sdn1)
  BY SdnToNumbers
<1> HIDE DEF one
<1>3. two.result \in {0, 1} /\ two.date \in DateStructs /\ SameNumbers(two.date, one.date)
  BY <1>2, NumbersToStrings
<1> HIDE DEF two
<1>4. Numbered(two.date) = Numbered(one.date) /\ two.date.cal = one.date.cal
      /\ two.date.type = one.date.type /\ two.date.sdn1 = one.date.sdn1
  BY <1>3 DEF SameNumbers, Numbered
<1>5. r = [result |-> r.result, date |-> r.date] /\ r.date = two.date /\ r.result \in {0, 1}
  BY <1>1, <1>2, <1>3, BothTogether
<1>6. QED
  BY <1>2, <1>3, <1>4, <1>5

\* gedcom_normalize_date.
Origins == {"STRINGS", "NUMBERS", "SDN"}

LEMMA NormalizesDate ==
  ASSUME NEW d \in DateStructs, NEW from \in Origins, NEW r, r = NormalizedDate(from, d)
  PROVE  r.result \in {0, 1} /\ r.date \in DateStructs
<1>1. from = "STRINGS" \/ from = "NUMBERS" \/ from = "SDN"
  BY DEF Origins
<1>2. QED
  BY <1>1, FromStrings, FromNumbers, FromSdn

LEMMA NormalizesValue ==
  ASSUME NEW v \in DateValues, NEW from \in Origins, NEW n, n = gedcom_normalize_date(from, v)
  PROVE  LET one == NormalizedDate(from, v.date1)
             two == NormalizedDate(from, v.date2)
         IN /\ n.result \in {0, 1} /\ n.val \in DateValues
            /\ n.val.type = v.type /\ n.val.phrase = v.phrase
            /\ v.type = "PHRASE" => n.result = 0 /\ n.val = v
            /\ v.type # "PHRASE" => n.val.date1 = one.date /\ (n.result = 0 => one.result = 0)
            /\ v.type # "PHRASE" /\ v.type \in TwoDates
                 => n.val.date2 = two.date /\ (n.result = 0 => two.result = 0)
            /\ v.type # "PHRASE" /\ v.type \notin TwoDates
                 => n.val.date2 = v.date2 /\ n.result = one.result
<1> DEFINE one == NormalizedDate(from, v.date1)
           two == NormalizedDate(from, v.date2)
           other == IF v.type \in TwoDates THEN two ELSE [result |-> 0, date |-> v.date2]
<1>1. v.date1 \in DateStructs /\ v.date2 \in DateStructs /\ v.type \in DateValueTypes
      /\ v.phrase \in {"", "words", "brackets"}
  BY DEF DateValues
<1>2. one.result \in {0, 1} /\ one.date \in DateStructs
  BY <1>1, NormalizesDate
<1>3. two.result \in {0, 1} /\ two.date \in DateStructs
  BY <1>1, NormalizesDate
<1>4. n = Normalized(v, one, other)
  BY Zenon DEF gedcom_normalize_date
<1> HIDE DEF one, two
<1>5. other.result \in {0, 1} /\ other.date \in DateStructs
  BY <1>1, <1>3
<1>6. CASE v.type = "PHRASE"
  <2>1. n = [result |-> 0, val |-> v]
    BY <1>4, <1>6 DEF Normalized
  <2>2. QED
    BY <1>6, <2>1
<1>7. CASE v.type # "PHRASE"
  <2> DEFINE w == [v EXCEPT !.date1 = one.date, !.date2 = other.date]
  <2>1. n = [result |-> Result(one, other), val |-> w]
    BY <1>4, <1>7 DEF Normalized
  <2>2. Result(one, other) \in {0, 1} /\ (Result(one, other) = 0 <=> one.result = 0 /\ other.result = 0)
        /\ (other.result = 0 => Result(one, other) = one.result)
    BY <1>2, <1>5, Added
  <2>3. w \in DateValues /\ w.type = v.type /\ w.phrase = v.phrase /\ w.date1 = one.date
        /\ w.date2 = other.date
    BY <1>1, <1>2, <1>5 DEF DateValues
  <2>4. v.type \in TwoDates => other = two
    OBVIOUS
  <2>5. v.type \notin TwoDates => other.result = 0 /\ other.date = v.date2
    OBVIOUS
  <2> HIDE DEF w, other
  <2>6. QED
    BY <1>7, <2>1, <2>2, <2>3, <2>4, <2>5 DEF one, two
<1>8. QED
  BY <1>6, <1>7

-----------------------------------------------------------------------------
(* Reading.                                                                *)

LEMMA InitialDate == init_date \in DateStructs /\ init_date.cal = "UNKNOWN"
                     /\ init_date.day = None /\ init_date.month = None
  BY DEF init_date, DateStructs, MonthTexts, YearTexts, YearTypes, NoText, None

LEMMA NewValue == NewDateValue \in DateValues /\ NewDateValue.date1 = init_date
                  /\ NewDateValue.date2 = init_date /\ NewDateValue.type = "NO_MODIFIER"
<1>1. "NO_MODIFIER" \in DateValueTypes
  BY DEF DateValueTypes
<1>2. QED
  BY <1>1, InitialDate DEF NewDateValue, DateValues

LEMMA ReadsDate ==
  ASSUME NEW s \in DateStructs, NEW w \in DateTexts, NEW pass, WellFormed(w, pass),
         NEW e, e = ReadDate(s, w, pass)
  PROVE  /\ e \in DateStructs /\ e.cal = w.cal /\ w.cal \in Calendars
         /\ w.day = None => e.day = s.day /\ e.day_str = s.day_str
         /\ w.day # None => e.day = w.day /\ e.day_str = w.day
         /\ w.month = NoText => e.month = s.month /\ e.month_str = s.month_str
         /\ w.month # NoText => e.month = w.month[2] /\ e.month_str = w.month
         /\ ~IsPair(w, pass) => /\ e.year_str = w.year /\ e.year = _get_year_num(w.year)
                                /\ e.year_type = YearType(w.year)
<1>1. w.cal \in Calendars /\ w.year # NoText /\ w.year \in YearTexts /\ w.month \in MonthTexts /\ w.day \in Int
  BY DEF WellFormed, DateTexts
<1>2. _get_year_num(w.year) \in Int /\ YearType(w.year) \in YearTypes
  BY <1>1, YearNumber
<1>3. w.month # NoText => w.month[2] \in Int
  BY <1>1 DEF MonthTexts
<1> DEFINE day == IF w.day = None THEN s ELSE [s EXCEPT !.day_str = w.day, !.day = w.day]
           month == IF w.month = NoText THEN day
                    ELSE [day EXCEPT !.month_str = w.month, !.month = w.month[2]]
           year == IF IsPair(w, pass) THEN month
                   ELSE [month EXCEPT !.year_str = w.year, !.year = _get_year_num(w.year),
                                      !.year_type = YearType(w.year)]
<1>4. e = [year EXCEPT !.cal = w.cal]
  BY DEF ReadDate
<1>5. /\ day \in DateStructs /\ day.month = s.month /\ day.month_str = s.month_str
      /\ w.day = None => day.day = s.day /\ day.day_str = s.day_str
      /\ w.day # None => day.day = w.day /\ day.day_str = w.day
  BY <1>1 DEF DateStructs
<1> HIDE DEF day
<1>6. month \in DateStructs
  BY <1>1, <1>3, <1>5 DEF DateStructs
<1>7. /\ month.day = day.day /\ month.day_str = day.day_str
      /\ w.month = NoText => month.month = s.month /\ month.month_str = s.month_str
      /\ w.month # NoText => month.month = w.month[2] /\ month.month_str = w.month
  BY <1>5 DEF DateStructs
<1> HIDE DEF month
<1>8. year \in DateStructs
  BY <1>1, <1>2, <1>6 DEF DateStructs
<1>9. /\ year.day = month.day /\ year.day_str = month.day_str
      /\ year.month = month.month /\ year.month_str = month.month_str
      /\ ~IsPair(w, pass) => /\ year.year_str = w.year /\ year.year = _get_year_num(w.year)
                             /\ year.year_type = YearType(w.year)
  BY <1>6 DEF DateStructs
<1> HIDE DEF year
<1>10. e \in DateStructs
  BY <1>1, <1>4, <1>8 DEF DateStructs
<1>11. /\ e.cal = w.cal /\ e.day = year.day /\ e.day_str = year.day_str
       /\ e.month = year.month /\ e.month_str = year.month_str
       /\ e.year_str = year.year_str /\ e.year = year.year /\ e.year_type = year.year_type
  BY <1>4, <1>8 DEF DateStructs
<1>12. QED
  BY <1>1, <1>5, <1>7, <1>9, <1>10, <1>11

LEMMA TextIsPhrase ==
  ASSUME NEW line
  PROVE  TextOf(line) \in {"", "words", "brackets"}
  BY Zenon DEF TextOf

\* Every token of the line is of a date in its place.
IsRead(line, st, pass) ==
  /\ st = "INITIAL" /\ ~line.junk /\ PhraseFits(line)
  /\ Len(line.dates) = DatesOf(line.mod)
  /\ \A i \in DOMAIN line.dates : WellFormed(line.dates[i], pass)

LEMMA ParsesPhrase ==
  ASSUME NEW x \in {"", "words", "brackets"}, NEW v, v = [NewDateValue EXCEPT !.type = "PHRASE", !.phrase = x]
  PROVE  v \in DateValues /\ v.type = "PHRASE" /\ v.date1 = init_date /\ v.date2 = init_date
<1>1. "PHRASE" \in DateValueTypes
  BY DEF DateValueTypes
<1>2. QED
  BY <1>1, NewValue DEF DateValues

LEMMA NumberOfDates ==
  ASSUME NEW mod \in DateValueTypes
  PROVE  /\ DatesOf(mod) \in {0, 1, 2} /\ (DatesOf(mod) = 0 <=> mod = "PHRASE")
         /\ (DatesOf(mod) = 2 <=> mod \in TwoDates)
  BY DEF DatesOf, TwoDates

\* v is what the line says, read into s.
HasRead(v, line, st, s, pass) ==
  /\ IsRead(line, st, pass) /\ v.type = line.mod /\ DatesOf(line.mod) \in {1, 2}
  /\ v.phrase = IF line.phrase = "closed" THEN "words" ELSE ""
  /\ line.dates[1] \in DateTexts /\ WellFormed(line.dates[1], pass)
  /\ v.date1 = ReadDate(s, line.dates[1], pass)
  /\ line.mod \notin TwoDates => v.date2 = init_date
  /\ line.mod \in TwoDates => /\ line.dates[2] \in DateTexts /\ WellFormed(line.dates[2], pass)
                              /\ v.date2 = ReadDate(v.date1, line.dates[2], pass)

LEMMA Parses ==
  ASSUME NEW line \in DateLines, NEW st, NEW s \in DateStructs, NEW pass, NEW p,
         p = Parse(line, st, s, pass)
  PROVE  /\ p.val \in DateValues /\ p.s \in DateStructs
         /\ p.val.type = "PHRASE" => p.val.date1 = init_date /\ p.val.date2 = init_date
         /\ p.val.type # "PHRASE" => HasRead(p.val, line, st, s, pass)
         /\ IsRead(line, st, pass) => p.val.type = line.mod
<1> DEFINE one == ReadDate(s, line.dates[1], pass)
           two == ReadDate(one, line.dates[2], pass)
           phrase == IF line.phrase = "closed" THEN "words" ELSE ""
<1>1. line.mod \in DateValueTypes /\ line.dates \in Seq(DateTexts)
  BY DEF DateLines
<1>2. CASE ~IsRead(line, st, pass)
  <2>1. p = [val |-> [NewDateValue EXCEPT !.type = "PHRASE", !.phrase = TextOf(line)], s |-> s]
    BY <1>2, Zenon DEF Parse, IsRead
  <2>2. p.val = [NewDateValue EXCEPT !.type = "PHRASE", !.phrase = TextOf(line)] /\ p.s = s
    BY <2>1
  <2>3. p.val \in DateValues /\ p.val.type = "PHRASE" /\ p.val.date1 = init_date /\ p.val.date2 = init_date
    BY <2>2, TextIsPhrase, ParsesPhrase
  <2>4. QED
    BY <1>2, <2>2, <2>3
<1>3. CASE IsRead(line, st, pass)
  <2>1. Len(line.dates) = DatesOf(line.mod) /\ \A i \in DOMAIN line.dates : WellFormed(line.dates[i], pass)
    BY <1>3 DEF IsRead
  <2>2. phrase \in {"", "words", "brackets"}
    OBVIOUS
  <2>3. CASE DatesOf(line.mod) = 0
    <3>1. p = [val |-> [NewDateValue EXCEPT !.type = "PHRASE", !.phrase = phrase], s |-> s]
      BY <1>3, <2>3, SMT DEF Parse, IsRead
    <3> HIDE DEF phrase
    <3>2. line.mod = "PHRASE"
      BY <2>3, NumberOfDates, <1>1
    <3>3. p.val = [NewDateValue EXCEPT !.type = "PHRASE", !.phrase = phrase] /\ p.s = s
      BY <3>1
    <3>4. p.val \in DateValues /\ p.val.type = "PHRASE" /\ p.val.date1 = init_date /\ p.val.date2 = init_date
      BY <2>2, <3>3, ParsesPhrase
    <3>5. QED
      BY <3>2, <3>3, <3>4
  <2>4. CASE DatesOf(line.mod) = 1
    <3>1. p = [val |-> [NewDateValue EXCEPT !.type = line.mod, !.date1 = one, !.phrase = phrase], s |-> one]
      BY <1>3, <2>4, SMT DEF Parse, IsRead
    <3>2. line.dates[1] \in DateTexts /\ WellFormed(line.dates[1], pass)
      BY <1>1, <2>1, <2>4
    <3>3. one \in DateStructs
      BY <3>2, ReadsDate
    <3> HIDE DEF one, phrase
    <3> DEFINE v == [NewDateValue EXCEPT !.type = line.mod, !.date1 = one, !.phrase = phrase]
    <3>4. v \in DateValues /\ v.type = line.mod /\ v.date1 = one /\ v.date2 = init_date /\ v.phrase = phrase
      BY <1>1, <2>2, <3>3, NewValue DEF DateValues
    <3> HIDE DEF v
    <3>5. line.mod \notin TwoDates /\ line.mod # "PHRASE"
      BY <2>4 DEF DatesOf, TwoDates
    <3>6. p.val = v /\ p.s = one
      BY <3>1 DEF v
    <3>7. QED
      BY <1>3, <2>4, <3>2, <3>3, <3>4, <3>5, <3>6 DEF one, phrase, HasRead
  <2>5. CASE DatesOf(line.mod) = 2
    <3>1. p = [val |-> [NewDateValue EXCEPT !.type = line.mod, !.date1 = one, !.date2 = two], s |-> two]
      BY <1>3, <2>5, SMT DEF Parse, IsRead
    <3>2. line.dates[1] \in DateTexts /\ WellFormed(line.dates[1], pass)
          /\ line.dates[2] \in DateTexts /\ WellFormed(line.dates[2], pass)
      BY <1>1, <2>1, <2>5
    <3>3. one \in DateStructs
      BY <3>2, ReadsDate
    <3> HIDE DEF one
    <3>4. two \in DateStructs
      BY <3>2, <3>3, ReadsDate
    <3> HIDE DEF two
    <3> DEFINE v == [NewDateValue EXCEPT !.type = line.mod, !.date1 = one, !.date2 = two]
    <3>5. v \in DateValues /\ v.type = line.mod /\ v.date1 = one /\ v.date2 = two
          /\ v.phrase = NewDateValue.phrase
      BY <1>1, <3>3, <3>4, NewValue DEF DateValues
    <3>6. line.mod \in TwoDates /\ line.mod # "PHRASE"
      BY <2>5 DEF DatesOf, TwoDates
    <3>7. v.phrase = phrase
      <4>1. line.phrase = "none"
        BY <1>3, <3>6 DEF IsRead, PhraseFits, TwoDates
      <4>2. NewDateValue.phrase = ""
        BY DEF NewDateValue
      <4>3. QED
        BY <3>5, <4>1, <4>2
    <3> HIDE DEF v, phrase
    <3>8. p.val = v /\ p.s = two
      BY <3>1 DEF v
    <3>9. QED
      BY <1>3, <2>5, <3>2, <3>3, <3>4, <3>5, <3>6, <3>7, <3>8 DEF one, two, phrase, HasRead
  <2>6. QED
    BY <1>1, <2>3, <2>4, <2>5, NumberOfDates
<1>4. QED
  BY <1>2, <1>3

\* The numbers of a date are those of its strings.
YearReads(d) == d.year_str # NoText /\ _get_year_num(d.year_str) = d.year /\ YearType(d.year_str) = d.year_type
MonthReads(d) == d.month # None /\ d.month_str # NoText => d.month_str[2] = d.month
DayReads(d) == d.day # None => d.day_str = d.day
Tells(d) == DayReads(d) /\ MonthReads(d) /\ (YearReads(d) \/ d.year_str = YearString(d))

LEMMA SameDateTells ==
  ASSUME NEW a, NEW b, SameDate(a, b), Tells(b)
  PROVE  Tells(a)
<1>1. YearString(a) = YearString(b)
  BY DEF SameDate, YearString
<1>2. YearReads(b) => YearReads(a)
  BY DEF SameDate, YearReads
<1>3. (MonthReads(b) => MonthReads(a)) /\ (DayReads(b) => DayReads(a))
  BY DEF SameDate, MonthReads, DayReads
<1>4. QED
  BY <1>1, <1>2, <1>3 DEF Tells, SameDate

\* A date is found, or left out if there is none.
FoundDate(d) == IF d.cal = "UNKNOWN" THEN [result |-> 0, date |-> d] ELSE numbers_to_sdn(d)

LEMMA FindsDate ==
  ASSUME NEW d \in DateStructs, NEW r, r = FoundDate(d)
  PROVE  /\ r.result \in {0, 1} /\ r.date \in DateStructs /\ SameDate(r.date, d)
         /\ d.cal \in Calendars /\ r.result = 0 => Answers(r.date, 0)
<1>1. CASE d.cal = "UNKNOWN"
  BY <1>1 DEF FoundDate, SameDate, Calendars
<1>2. CASE d.cal \in Calendars
  <2>1. d.cal # "UNKNOWN"
    BY <1>2 DEF Calendars
  <2>2. r = numbers_to_sdn(d)
    BY <2>1 DEF FoundDate
  <2>3. r = [result |-> r.result, date |-> r.date] /\ r.result \in {0, 1} /\ r.date \in DateStructs
        /\ SameDate(r.date, d)
    BY <1>2, <2>2, NumbersToSdn
  <2>4. r.result = 0 => Answers(r.date, 0)
    BY <1>2, <2>2, <2>3 DEF Answers
  <2>5. QED
    BY <2>3, <2>4
<1>3. QED
  BY <1>1, <1>2, CalIsKnown

LEMMA FindsDates ==
  ASSUME NEW v \in DateValues, NEW line, NEW n, n = DatesFound(v, line)
  PROVE  LET one == FoundDate(v.date1)
             two == FoundDate(v.date2)
         IN /\ n \in DateValues /\ n.date1 = one.date /\ n.date2 = two.date
            /\ n.type # "PHRASE" => /\ n.type = v.type /\ n.phrase = v.phrase
                                    /\ one.result = 0 /\ two.result = 0
            /\ one.result = 0 /\ two.result = 0 => n.type = v.type
<1> DEFINE one == FoundDate(v.date1)
           two == FoundDate(v.date2)
           dated == [v EXCEPT !.date1 = one.date, !.date2 = two.date]
           phrased == [dated EXCEPT !.type = "PHRASE", !.phrase = TextOf(line)]
<1>1. n = Dated(v, one, two, line)
  BY DEF DatesFound, FoundDate
<1>2. v.date1 \in DateStructs /\ v.date2 \in DateStructs
  BY DEF DateValues
<1>3. one.result \in {0, 1} /\ one.date \in DateStructs
  BY <1>2, FindsDate
<1>4. two.result \in {0, 1} /\ two.date \in DateStructs
  BY <1>2, FindsDate
<1> HIDE DEF one, two
<1>5. n = IF one.result + two.result = 0 THEN dated ELSE phrased
  BY <1>1 DEF Dated
<1>6. dated \in DateValues /\ dated.type = v.type /\ dated.phrase = v.phrase
      /\ dated.date1 = one.date /\ dated.date2 = two.date
  BY <1>3, <1>4 DEF DateValues
<1> HIDE DEF dated
<1>7. "PHRASE" \in DateValueTypes
  BY DEF DateValueTypes
<1>8. phrased \in DateValues /\ phrased.type = "PHRASE"
      /\ phrased.date1 = one.date /\ phrased.date2 = two.date
  BY <1>6, <1>7, TextIsPhrase DEF DateValues
<1> HIDE DEF phrased
<1>9. (one.result + two.result = 0) <=> (one.result = 0 /\ two.result = 0)
  BY <1>3, <1>4
<1>10. QED
  BY <1>5, <1>6, <1>8, <1>9 DEF one, two

\* gedcom_parse_date.
LEMMA ConvertsLine ==
  ASSUME NEW line \in DateLines, NEW v, line.dates[1] \in DateTexts
  PROVE  Converted(line, v) \in DateLines
<1> DEFINE w == line.dates[1]
           Year(y) == [cal |-> "GREGORIAN", day |-> None, month |-> NoText, year |-> <<y>>]
           pair == [mod |-> "BETWEEN", dates |-> <<Year(w.year[1]), Year(w.year[2])>>, phrase |-> "none",
                    junk |-> FALSE]
<1>1. Converted(line, v) = line \/ (IsPair(w, 1) /\ Converted(line, v) = pair)
  BY DEF Converted
<1>2. CASE IsPair(w, 1)
  <2>1. w.year \in Seq(Int) /\ Len(w.year) = 3
    BY <1>2 DEF IsPair, DateTexts, YearTexts
  <2>2. w.year[1] \in Int /\ w.year[2] \in Int
    BY <2>1
  <2>3. \A y \in Int : Year(y) \in DateTexts
    <3>1. \A y \in Int : <<y>> \in YearTexts
      BY YearIsText
    <3>2. "GREGORIAN" \in Calendars /\ None \in Int /\ NoText \in MonthTexts
      BY DEF Calendars, None, MonthTexts
    <3>3. QED
      BY <3>1, <3>2 DEF DateTexts
  <2>4. Year(w.year[1]) \in DateTexts /\ Year(w.year[2]) \in DateTexts
    BY <2>2, <2>3
  <2> HIDE DEF Year
  <2>5. <<Year(w.year[1]), Year(w.year[2])>> \in Seq(DateTexts)
    BY <2>4
  <2>6. "BETWEEN" \in DateValueTypes
    BY DEF DateValueTypes
  <2>7. pair \in DateLines
    BY <2>5, <2>6 DEF DateLines
  <2>8. QED
    BY <1>1, <2>7
<1>3. QED
  BY <1>1, <1>2

Starts == {"INITIAL", "PHRASE"}
LEMMA StartIsKnown ==
  ASSUME NEW line, NEW st \in Starts
  PROVE  StartAfter(line, st) \in Starts
  BY DEF StartAfter, Starts

LEMMA ReadTells ==
  ASSUME NEW s \in DateStructs, DayReads(s), MonthReads(s), NEW w \in DateTexts, NEW pass, WellFormed(w, pass),
         ~double, NEW e, e = ReadDate(s, w, pass)
  PROVE  Tells(e)
<1>1. ~IsPair(w, pass)
  BY DEF IsPair
<1>2. w.year # NoText
  BY DEF WellFormed
<1>3. YearReads(e)
  BY <1>1, <1>2, ReadsDate DEF YearReads
<1>4. DayReads(e)
  BY ReadsDate DEF DayReads
<1>5. MonthReads(e)
  BY ReadsDate DEF MonthReads
<1>6. QED
  BY <1>3, <1>4, <1>5 DEF Tells

LEMMA IsKnown ==
  ASSUME NEW v, NEW l, NEW c, NEW s \in DateStructs, NEW pass, HasRead(v, l, c, s, pass)
  PROVE  /\ v.date1.cal \in Calendars /\ (v.type \in TwoDates => v.date2.cal \in Calendars)
         /\ v.type = "INTERPRETED" => v.phrase = "words"
<1>1. v.date1.cal \in Calendars /\ v.date1 \in DateStructs
  <2>1. PICK w \in DateTexts : WellFormed(w, pass) /\ v.date1 = ReadDate(s, w, pass)
    BY DEF HasRead
  <2>2. QED
    BY <2>1, ReadsDate
<1>2. ASSUME v.type \in TwoDates PROVE v.date2.cal \in Calendars
  <2>1. PICK w \in DateTexts : WellFormed(w, pass) /\ v.date2 = ReadDate(v.date1, w, pass)
    BY <1>2 DEF HasRead
  <2>2. QED
    BY <1>1, <2>1, ReadsDate
<1>3. v.type = "INTERPRETED" => v.phrase = "words"
  BY DEF HasRead, IsRead, PhraseFits
<1>4. QED
  BY <1>1, <1>2, <1>3

\* The dates that a value has.
UsedDate(v, d) == d = v.date1 \/ (v.type \in TwoDates /\ d = v.date2)

LEMMA ParsesDate ==
  ASSUME NEW line \in DateLines, NEW st \in Starts, NEW n, n = gedcom_parse_date(line, st)
  PROVE  /\ n \in DateValues
         /\ n.type = "INTERPRETED" => n.phrase = "words"
         /\ n.type # "PHRASE" => \A d : UsedDate(n, d) => Answers(d, 0) /\ (~double => Tells(d))
<1>0. PICK first : first = Parse(line, st, init_date, 1)
  OBVIOUS
<1> DEFINE again == IF first.val.type = "PHRASE" THEN line ELSE Converted(line, first.val)
           second == Parse(again, StartAfter(line, st), first.s, 2)
<1>1. /\ first.val \in DateValues /\ first.s \in DateStructs
      /\ first.val.type # "PHRASE" => HasRead(first.val, line, st, init_date, 1)
  BY <1>0, InitialDate, Parses
<1>2. n = DatesFound(IF double THEN second.val ELSE first.val, again)
  BY <1>0 DEF gedcom_parse_date
<1>3. ~double /\ first.val.type # "PHRASE" =>
        Tells(first.val.date1) /\ (first.val.type \in TwoDates => Tells(first.val.date2))
  <2>1. SUFFICES ASSUME ~double, first.val.type # "PHRASE"
                 PROVE  Tells(first.val.date1) /\ (first.val.type \in TwoDates => Tells(first.val.date2))
    OBVIOUS
  <2>2. DayReads(init_date) /\ MonthReads(init_date)
    BY InitialDate DEF DayReads, MonthReads
  <2>3. /\ line.dates[1] \in DateTexts /\ WellFormed(line.dates[1], 1)
        /\ first.val.date1 = ReadDate(init_date, line.dates[1], 1) /\ first.val.type = line.mod
        /\ line.mod \in TwoDates => /\ line.dates[2] \in DateTexts /\ WellFormed(line.dates[2], 1)
                                    /\ first.val.date2 = ReadDate(first.val.date1, line.dates[2], 1)
    BY <1>1, <2>1 DEF HasRead
  <2>4. Tells(first.val.date1) /\ first.val.date1 \in DateStructs
    BY <2>1, <2>2, <2>3, InitialDate, ReadTells, ReadsDate
  <2>5. ASSUME first.val.type \in TwoDates PROVE Tells(first.val.date2)
    BY <2>1, <2>3, <2>4, <2>5, ReadTells DEF Tells
  <2>6. QED
    BY <2>4, <2>5
<1>5. again \in DateLines
  BY <1>1, ConvertsLine DEF HasRead
<1>6. /\ second.val \in DateValues
      /\ second.val.type # "PHRASE" => HasRead(second.val, again, StartAfter(line, st), first.s, 2)
  <2> HIDE DEF again
  <2>1. QED
    BY <1>1, <1>5, Parses
<1> DEFINE v == IF double THEN second.val ELSE first.val
<1>7. /\ v \in DateValues
      /\ v.type # "PHRASE" => /\ v.date1.cal \in Calendars /\ (v.type \in TwoDates => v.date2.cal \in Calendars)
                              /\ v.type = "INTERPRETED" => v.phrase = "words"
  <2>2. CASE double
    <3>1. v = second.val
      BY <2>2
    <3> HIDE DEF again, second, v
    <3>2. QED
      BY <1>1, <1>6, <3>1, IsKnown
  <2>3. CASE ~double
    <3>1. v = first.val
      BY <2>3
    <3> HIDE DEF v
    <3>2. QED
      BY <1>1, <3>1, InitialDate, IsKnown
  <2>4. QED
    BY <2>2, <2>3
<1>8. ~double => v = first.val
  OBVIOUS
<1> HIDE DEF again, second, v
<1>9. n = DatesFound(v, again)
  BY <1>2 DEF v
<1>10. /\ n \in DateValues /\ n.date1 = FoundDate(v.date1).date /\ n.date2 = FoundDate(v.date2).date
       /\ n.type # "PHRASE" => /\ n.type = v.type /\ n.phrase = v.phrase
                               /\ FoundDate(v.date1).result = 0 /\ FoundDate(v.date2).result = 0
  BY <1>7, <1>9, FindsDates
<1>11. v.date1 \in DateStructs /\ v.date2 \in DateStructs
  BY <1>7 DEF DateValues
<1>12. ASSUME n.type # "PHRASE", NEW d, UsedDate(n, d) PROVE Answers(d, 0) /\ (~double => Tells(d))
  <2>1. PICK e \in DateStructs : /\ e.cal \in Calendars /\ d = FoundDate(e).date /\ FoundDate(e).result = 0
                                 /\ e = v.date1 \/ (v.type \in TwoDates /\ e = v.date2)
    BY <1>7, <1>10, <1>11, <1>12 DEF UsedDate
  <2>2. Answers(d, 0) /\ SameDate(d, e)
    BY <2>1, FindsDate
  <2>3. ~double => Tells(e)
    <3>1. ASSUME ~double PROVE Tells(e)
      <4>1. v = first.val /\ v.type # "PHRASE"
        BY <1>8, <1>10, <1>12, <3>1
      <4>2. Tells(v.date1) /\ (v.type \in TwoDates => Tells(v.date2))
        BY <1>3, <3>1, <4>1
      <4>3. QED
        BY <2>1, <4>2
    <3>2. QED
      BY <3>1
  <2>4. QED
    BY <2>2, <2>3, SameDateTells
<1>13. QED
  BY <1>7, <1>10, <1>12

-----------------------------------------------------------------------------
(* The inductive invariant: what the last call has left in the value.      *)

\* A line with a phrase and a date keeps its phrase.
Phrases == val.type = "INTERPRETED" => val.phrase = "words"
\* The serial day numbers are those of the numbers, the strings tell them.
DatesFit ==
  Converts => \A d : UsedDate(val, d) => Answers(d, 0) /\ (~double => Tells(d))
NumbersFit == last.op = "numbers" => val.date1.cal \in Calendars /\ Answers(val.date1, last.result)
\* The numbers are those of the serial day number.
SdnFits ==
  last.op \in {"sdn", "next"} =>
    /\ val.type = "NO_MODIFIER" /\ val.date1.cal \in Calendars
    /\ val.date1.type = "EXACT" /\ val.date1.sdn1 > 0
         => Numbered(val.date1) = from_sdn_func(val.date1.cal, val.date1.sdn1)
DateInv == TypeOK /\ Phrases /\ DatesFit /\ NumbersFit /\ SdnFits

Ops == {"new", "parse", "numbers", "strings", "sdn", "calendar", "next"}
LastType ==
  last \in [op : {"new", "parse", "numbers", "strings", "sdn", "calendar", "next"},
            result : {0, 1}, dates : Seq(DateTexts)]

LEMMA NoDates == <<>> \in Seq(DateTexts)
  OBVIOUS

LEMMA ReadDay ==
  ASSUME NEW e \in DateStructs, e.cal \in Calendars, Sdn(e.cal, FirstDay(e)) # -1
  PROVE  /\ Covers(e.cal, Sdn(e.cal, FirstDay(e))) 
         /\ from_sdn_func(e.cal, Sdn(e.cal, FirstDay(e))) = FirstDay(e)
         /\ MayExist(e.cal, FirstDay(e))
<1>1. e.year \in Int /\ e.month \in Int /\ e.day \in Int
  BY DEF DateStructs
<1> DEFINE f == FirstDay(e)
<1>2. f = <<f[1], f[2], f[3]>> /\ f[1] \in Int /\ f[2] \in Int /\ f[3] \in Int
  BY <1>1 DEF FirstDay
<1>3. Sdn(e.cal, f) = checkedCalToSdn(e.cal, f[1], f[2], f[3])
  BY DEF Sdn
<1> HIDE DEF f
<1>4. Covers(e.cal, Sdn(e.cal, f)) /\ from_sdn_func(e.cal, Sdn(e.cal, f)) = <<f[1], f[2], f[3]>>
      /\ MayExist(e.cal, <<f[1], f[2], f[3]>>)
  BY <1>2, <1>3, CheckedDate DEF f
<1>5. QED
  BY <1>2, <1>4 DEF f

LEMMA SameDateNumbers ==
  ASSUME NEW a, NEW b, SameDate(a, b)
  PROVE  FirstDay(a) = FirstDay(b) /\ DayAfter(a) = DayAfter(b) /\ LastDay(a) = LastDay(b)
         /\ (Bounded(a) <=> Bounded(b))
<1>1. FirstDay(a) = FirstDay(b) /\ DayAfter(a) = DayAfter(b)
  BY DEF SameDate, FirstDay, DayAfter
<1>2. LastDay(a) = LastDay(b)
  BY <1>1 DEF LastDay, SameDate
<1>3. Bounded(a) <=> Bounded(b)
  BY DEF SameDate, Bounded
<1>4. QED
  BY <1>1, <1>2, <1>3

\* What a date that is answered says.
LEMMA Answered ==
  ASSUME NEW d, NEW n, Answers(d, n)
  PROVE  LET sdn1 == Sdn(d.cal, FirstDay(d))
             sdn2 == LastDay(d)
         IN /\ d \in DateStructs /\ d.cal \in Calendars /\ n \in {0, 1}
            /\ d.sdn1 = sdn1
            /\ d.type = IF Bounded(d) THEN "BOUNDED" ELSE "EXACT"
            /\ n = 0 <=> /\ sdn1 # -1
                         /\ Bounded(d) => sdn2 # -1 /\ (d.month = None \/ d.day = None)
            /\ n = 0 /\ Bounded(d) => d.sdn2 = sdn2
<1>1. PICK e \in DateStructs : e.cal \in Calendars /\ numbers_to_sdn(e) = [result |-> n, date |-> d]
  BY DEF Answers
<1>2. PICK r : r = numbers_to_sdn(e)
  OBVIOUS
<1>3. r.result = n /\ r.date = d
  BY <1>1, <1>2
<1>4. /\ n \in {0, 1} /\ d \in DateStructs /\ SameDate(d, e)
      /\ d.sdn1 = Sdn(e.cal, FirstDay(e))
      /\ d.type = IF Bounded(e) THEN "BOUNDED" ELSE "EXACT"
      /\ n = 0 <=> /\ Sdn(e.cal, FirstDay(e)) # -1
                   /\ Bounded(e) => LastDay(e) # -1 /\ (e.month = None \/ e.day = None)
      /\ n = 0 /\ Bounded(e) => d.sdn2 = LastDay(e)
  BY <1>1, <1>2, <1>3, NumbersToSdn
<1>5. FirstDay(d) = FirstDay(e) /\ LastDay(d) = LastDay(e) /\ (Bounded(d) <=> Bounded(e))
  BY <1>4, SameDateNumbers
<1>6. d.cal = e.cal /\ d.month = e.month /\ d.day = e.day
  BY <1>4 DEF SameDate
<1>7. QED
  BY <1>1, <1>4, <1>5, <1>6

LEMMA AgreesTells ==
  ASSUME NEW d, Agrees(d)
  PROVE  Tells(d)
<1>1. DayReads(d)
  BY DEF Agrees, DayAgrees, DayReads
<1>2. MonthReads(d)
  BY DEF Agrees, MonthAgrees, MonthReads
<1>3. YearReads(d)
  BY DEF Agrees, YearAgrees, YearReads
<1>4. QED
  BY <1>1, <1>2, <1>3 DEF Tells

LEMMA SpelledTells ==
  ASSUME NEW d, Spelled(d), Answers(d, 0)
  PROVE  Tells(d)
<1>1. d \in DateStructs /\ d.cal \in Calendars /\ Sdn(d.cal, FirstDay(d)) # -1
  BY Answered
<1>2. MayExist(d.cal, FirstDay(d))
  BY <1>1, ReadDay
<1>3. d.month # None => d.month \in 1 .. max_month[d.cal]
  <2>1. d.month # None => d.month \in 1 .. LastMonth(d.cal)
    BY <1>2 DEF MayExist, HasMonth, FirstDay
  <2>2. QED
    BY <1>1, <2>1, MonthsOfCalendars
<1>4. MonthReads(d)
  BY <1>3 DEF Spelled, MonthReads
<1>5. QED
  BY <1>4 DEF Tells, Spelled, DayReads

\* A call that normalizes.
LEMMA NormalizeFits ==
  ASSUME NEW v \in DateValues, NEW from \in Origins, NEW op \in Ops, Normalize(from, v, op), TypeOK
  PROVE  LET n == gedcom_normalize_date(from, v)
         IN /\ val' = n.val /\ last'.op = op /\ last'.result = n.result
            /\ val' \in DateValues /\ start' \in Starts /\ double' \in BOOLEAN /\ double' = double
            /\ LastType' /\ val'.type = v.type /\ val'.phrase = v.phrase
<1>1. PICK n : n = gedcom_normalize_date(from, v)
  OBVIOUS
<1>2. val' = n.val /\ last' = [op |-> op, result |-> n.result, dates |-> <<>>]
      /\ start' = start /\ double' = double
  BY <1>1 DEF Normalize
<1>3. n.result \in {0, 1} /\ n.val \in DateValues /\ n.val.type = v.type /\ n.val.phrase = v.phrase
  BY <1>1, NormalizesValue
<1>4. LastType'
  BY <1>2, <1>3, NoDates DEF LastType, Ops
<1>5. last'.op = op /\ last'.result = n.result
  BY <1>2
<1>6. start' \in Starts /\ double' \in BOOLEAN
  BY <1>2 DEF TypeOK, Starts
<1>7. QED
  BY <1>1, <1>2, <1>3, <1>4, <1>5, <1>6

LEMMA MakesType ==
  ASSUME val' \in DateValues, start' \in Starts, double' \in BOOLEAN, LastType', calls' \in 0 .. MaxCalls
  PROVE  TypeOK'
  BY DEF TypeOK, Starts, LastType

LEMMA CallsCount ==
  ASSUME TypeOK, Call
  PROVE  calls' \in 0 .. MaxCalls
  BY CallsAssumption DEF TypeOK, Call

LEMMA OneDateIsValue ==
  ASSUME NEW d \in DateStructs, NEW v, v = OneDate(d)
  PROVE  v \in DateValues /\ v.type = "NO_MODIFIER" /\ v.date1 = d /\ v.date2 = init_date /\ v.phrase = NewDateValue.phrase
  BY NewValue DEF OneDate, DateValues

-----------------------------------------------------------------------------
(* One step of each kind.                                                  *)

LEMMA InitFits == Init => DateInv
<1> SUFFICES ASSUME Init PROVE DateInv
  OBVIOUS
<1>1. val = NewDateValue /\ start = "INITIAL" /\ double \in BOOLEAN /\ calls = 0
      /\ last = [op |-> "new", result |-> 0, dates |-> <<>>]
  BY DEF Init
<1>2. val \in DateValues /\ val.type = "NO_MODIFIER"
  BY <1>1, NewValue
<1>3. TypeOK
  BY <1>1, <1>2, NoDates, CallsAssumption DEF TypeOK
<1>4. last.op = "new"
  BY <1>1
<1>5. Phrases
  BY <1>2 DEF Phrases
<1>6. DatesFit /\ NumbersFit /\ SdnFits
  BY <1>4 DEF DatesFit, Converts, NumbersFit, SdnFits
<1>7. QED
  BY <1>3, <1>5, <1>6 DEF DateInv

LEMMA ParseFits ==
  ASSUME DateInv, NEW line \in Lines, ParseDate(line)
  PROVE  DateInv'
<1>1. line \in DateLines /\ start \in Starts /\ TypeOK
  BY LinesAssumption DEF DateInv, TypeOK, Starts
<1>2. val' = gedcom_parse_date(line, start) /\ start' = StartAfter(line, start) /\ double' = double /\ Call
      /\ last' = [op |-> "parse", result |-> 0, dates |-> line.dates]
  BY DEF ParseDate
<1>3. /\ val' \in DateValues
      /\ val'.type = "INTERPRETED" => val'.phrase = "words"
      /\ val'.type # "PHRASE" => \A d : UsedDate(val', d) => Answers(d, 0) /\ (~double => Tells(d))
  BY <1>1, <1>2, ParsesDate
<1>4. line.dates \in Seq(DateTexts)
  BY <1>1 DEF DateLines
<1>5. LastType' /\ last'.op = "parse"
  BY <1>2, <1>4 DEF LastType
<1>6. start' \in Starts /\ calls' \in 0 .. MaxCalls /\ double' \in BOOLEAN
  BY <1>1, <1>2, StartIsKnown, CallsCount DEF TypeOK
<1>7. TypeOK'
  BY <1>3, <1>5, <1>6, MakesType
<1>8. Phrases'
  BY <1>3 DEF Phrases
<1>9. DatesFit'
  BY <1>2, <1>3 DEF DatesFit, Converts, UsedDate
<1>10. NumbersFit' /\ SdnFits'
  BY <1>5 DEF NumbersFit, SdnFits
<1>11. QED
  BY <1>7, <1>8, <1>9, <1>10 DEF DateInv

LEMMA NumbersAreTyped ==
  ASSUME TypeOK, NEW n \in Numbers, 
         NEW e, e = [val.date1 EXCEPT !.cal = n.cal, !.year = n.year, !.month = n.month,
                                      !.day = n.day, !.year_type = n.year_type]
  PROVE  e \in DateStructs /\ e.cal \in Calendars
<1>1. n \in [cal : Calendars, year : Int, month : Int, day : Int, year_type : YearTypes]
  BY ValuesAssumption
<1>2. val.date1 \in DateStructs
  BY DEF TypeOK, DateValues
<1>3. QED
  BY <1>1, <1>2 DEF DateStructs

LEMMA SetNumbersFits ==
  ASSUME DateInv, NEW n \in Numbers, SetNumbers(n)
  PROVE  DateInv'
<1>1. TypeOK
  BY DEF DateInv
<1>2. PICK e : e = [val.date1 EXCEPT !.cal = n.cal, !.year = n.year, !.month = n.month,
                                     !.day = n.day, !.year_type = n.year_type]
  OBVIOUS
<1>3. e \in DateStructs /\ e.cal \in Calendars
  BY <1>1, <1>2, NumbersAreTyped
<1>4. PICK v : v = OneDate(e)
  OBVIOUS
<1>5. Call /\ Normalize("NUMBERS", v, "numbers")
  BY <1>2, <1>4 DEF SetNumbers
<1>6. v \in DateValues /\ v.type = "NO_MODIFIER" /\ v.date1 = e
  BY <1>3, <1>4, OneDateIsValue
<1>7. "numbers" \in Ops /\ "NUMBERS" \in Origins
  BY DEF Ops, Origins
<1>8. PICK g : g = gedcom_normalize_date("NUMBERS", v)
  OBVIOUS
<1>9. /\ val' = g.val /\ last'.op = "numbers" /\ last'.result = g.result
      /\ val' \in DateValues /\ start' \in Starts /\ double' \in BOOLEAN /\ double' = double
      /\ LastType' /\ val'.type = v.type /\ val'.phrase = v.phrase
  BY <1>1, <1>5, <1>6, <1>7, <1>8, NormalizeFits
<1>10. PICK one : one = NormalizedDate("NUMBERS", e)
  OBVIOUS
<1>11. v.type # "PHRASE" /\ v.type \notin TwoDates
  BY <1>6 DEF TwoDates
<1>12. val'.date1 = one.date /\ last'.result = one.result
  BY <1>6, <1>7, <1>8, <1>9, <1>10, <1>11, NormalizesValue
<1>13. one.date.cal \in Calendars /\ Answers(one.date, one.result) /\ Spelled(one.date)
  BY <1>3, <1>10, FromNumbers
<1>14. TypeOK'
  BY <1>1, <1>5, <1>9, CallsCount, MakesType
<1>15. Phrases'
  BY <1>6, <1>9 DEF Phrases
<1>16. NumbersFit'
  BY <1>12, <1>13 DEF NumbersFit
<1>17. DatesFit'
  <2>1. \A d : UsedDate(val', d) => d = one.date
    BY <1>9, <1>11, <1>12 DEF UsedDate
  <2>2. last'.result = 0 => Answers(one.date, 0) /\ Tells(one.date)
    BY <1>12, <1>13, SpelledTells
  <2>3. QED
    BY <2>1, <2>2 DEF DatesFit, Converts, UsedDate
<1>18. SdnFits'
  BY <1>9 DEF SdnFits
<1>19. QED
  BY <1>14, <1>15, <1>16, <1>17, <1>18 DEF DateInv

LEMMA SetYearTextFits ==
  ASSUME DateInv, NEW y \in Years, SetYearText(y)
  PROVE  DateInv'
<1>1. TypeOK /\ y \in YearTexts /\ Phrases
  BY ValuesAssumption DEF DateInv
<1>2. PICK v : v = [val EXCEPT !.date1.year_str = y]
  OBVIOUS
<1>3. v \in DateValues /\ v.type = val.type /\ v.phrase = val.phrase
  <2>1. val \in DateValues /\ val.date1 \in DateStructs
    BY <1>1 DEF TypeOK, DateValues
  <2>2. [val.date1 EXCEPT !.year_str = y] \in DateStructs
    BY <1>1, <2>1 DEF DateStructs
  <2>3. v = [val EXCEPT !.date1 = [val.date1 EXCEPT !.year_str = y]]
    BY <1>2, <2>1 DEF DateValues
  <2>4. QED
    BY <2>1, <2>2, <2>3 DEF DateValues
<1>4. Call /\ Normalize("STRINGS", v, "strings")
  BY <1>2 DEF SetYearText
<1>5. "strings" \in Ops /\ "STRINGS" \in Origins
  BY DEF Ops, Origins
<1>6. PICK g : g = gedcom_normalize_date("STRINGS", v)
  OBVIOUS
<1>7. /\ val' = g.val /\ last'.op = "strings" /\ last'.result = g.result
      /\ val' \in DateValues /\ start' \in Starts /\ double' \in BOOLEAN /\ double' = double
      /\ LastType' /\ val'.type = v.type /\ val'.phrase = v.phrase
  BY <1>1, <1>3, <1>4, <1>5, <1>6, NormalizeFits
<1>8. PICK one : one = NormalizedDate("STRINGS", v.date1)
  OBVIOUS
<1>9. PICK two : two = NormalizedDate("STRINGS", v.date2)
  OBVIOUS
<1>10. v.date1 \in DateStructs /\ v.date2 \in DateStructs
  BY <1>3 DEF DateValues
<1>11. /\ v.type # "PHRASE" => val'.date1 = one.date /\ (last'.result = 0 => one.result = 0)
       /\ v.type # "PHRASE" /\ v.type \in TwoDates
            => val'.date2 = two.date /\ (last'.result = 0 => two.result = 0)
  BY <1>3, <1>5, <1>6, <1>7, <1>8, <1>9, NormalizesValue
<1>12. one.result = 0 => Answers(one.date, 0) /\ Agrees(one.date)
  BY <1>8, <1>10, FromStrings
<1>13. two.result = 0 => Answers(two.date, 0) /\ Agrees(two.date)
  BY <1>9, <1>10, FromStrings
<1>14. TypeOK'
  BY <1>1, <1>4, <1>7, CallsCount, MakesType
<1>15. Phrases'
  BY <1>1, <1>3, <1>7 DEF Phrases
<1>16. NumbersFit' /\ SdnFits'
  BY <1>7 DEF NumbersFit, SdnFits
<1>17. DatesFit'
  <2> SUFFICES ASSUME Converts', NEW d, UsedDate(val', d) PROVE Answers(d, 0) /\ Tells(d)
    BY DEF DatesFit, UsedDate
  <2>1. last'.result = 0 /\ v.type # "PHRASE"
    BY <1>7 DEF Converts
  <2>2. (d = one.date /\ one.result = 0) \/ (d = two.date /\ two.result = 0)
    BY <1>7, <1>11, <2>1 DEF UsedDate
  <2>3. QED
    BY <1>12, <1>13, <2>2, AgreesTells
<1>18. QED
  BY <1>14, <1>15, <1>16, <1>17 DEF DateInv

\* The calls that normalize a serial day number.
LEMMA SdnStep ==
  ASSUME DateInv, NEW v \in DateValues, NEW op \in {"sdn", "next", "calendar"}, Normalize("SDN", v, op),
         v.type = "INTERPRETED" => v.phrase = "words", calls' \in 0 .. MaxCalls,
         op # "calendar" => v.type = "NO_MODIFIER" /\ v.date1.cal \in Calendars
  PROVE  /\ DateInv'
         /\ op # "calendar" => /\ val'.date1.cal = v.date1.cal /\ val'.date1.type = v.date1.type
                               /\ val'.date1.sdn1 = v.date1.sdn1 
<1>1. TypeOK /\ op \in Ops /\ "SDN" \in Origins
  BY DEF DateInv, Ops, Origins
<1>2. PICK g : g = gedcom_normalize_date("SDN", v)
  OBVIOUS
<1>3. /\ val' = g.val /\ last'.op = op /\ last'.result = g.result
      /\ val' \in DateValues /\ start' \in Starts /\ double' \in BOOLEAN /\ double' = double
      /\ LastType' /\ val'.type = v.type /\ val'.phrase = v.phrase
  BY <1>1, <1>2, NormalizeFits
<1>4. PICK one : one = NormalizedDate("SDN", v.date1)
  OBVIOUS
<1>5. v.date1 \in DateStructs
  BY DEF DateValues
<1>6. v.type # "PHRASE" => val'.date1 = one.date
  BY <1>1, <1>2, <1>3, <1>4, NormalizesValue
<1>7. /\ one.date.cal = v.date1.cal /\ one.date.type = v.date1.type /\ one.date.sdn1 = v.date1.sdn1
      /\ v.date1.cal \in Calendars /\ v.date1.sdn1 > 0 /\ v.date1.type = "EXACT"
           => Numbered(one.date) = from_sdn_func(v.date1.cal, v.date1.sdn1)
  BY <1>4, <1>5, FromSdn
<1>8. TypeOK'
  BY <1>3, MakesType
<1>9. Phrases'
  BY <1>3 DEF Phrases
<1>10. op \notin {"numbers", "strings", "parse"}
  OBVIOUS
<1>11. NumbersFit' /\ DatesFit'
  BY <1>3, <1>10 DEF NumbersFit, DatesFit, Converts
<1>12. op # "calendar" => val'.type = "NO_MODIFIER" /\ val'.date1 = one.date
  BY <1>3, <1>6
<1>13. SdnFits'
  <2> SUFFICES ASSUME op # "calendar"
               PROVE  /\ val'.type = "NO_MODIFIER" /\ val'.date1.cal \in Calendars
                      /\ val'.date1.type = "EXACT" /\ val'.date1.sdn1 > 0
                           => Numbered(val'.date1) = from_sdn_func(val'.date1.cal, val'.date1.sdn1)
    BY <1>3 DEF SdnFits, Numbered
  <2>1. QED
    BY <1>7, <1>12
<1>14. QED
  BY <1>7, <1>8, <1>9, <1>11, <1>12, <1>13 DEF DateInv

LEMMA SetSpanFits ==
  ASSUME DateInv, NEW cal \in Calendars, NEW span \in Spans, SetSpan(cal, span)
  PROVE  DateInv'
<1>1. PICK e : e = [init_date EXCEPT !.cal = cal, !.sdn1 = span[1], !.sdn2 = span[2],
                                     !.type = IF span[2] = None THEN "EXACT" ELSE "BOUNDED"]
  OBVIOUS
<1>2. e \in DateStructs /\ e.cal \in Calendars
  <2>1. span[1] \in Int /\ span[2] \in Int
    BY ValuesAssumption
  <2>2. QED
    BY <1>1, <2>1, InitialDate DEF DateStructs
<1>3. PICK v : v = OneDate(e)
  OBVIOUS
<1>4. v \in DateValues /\ v.type = "NO_MODIFIER" /\ v.date1 = e
  BY <1>2, <1>3, OneDateIsValue
<1>5. Call /\ Normalize("SDN", v, "sdn")
  BY <1>1, <1>3 DEF SetSpan
<1>6. calls' \in 0 .. MaxCalls
  BY <1>5, CallsCount DEF DateInv
<1>7. QED
  BY <1>2, <1>4, <1>5, <1>6, SdnStep

LEMMA ChangeCalendarFits ==
  ASSUME DateInv, NEW cal \in Calendars, ChangeCalendar(cal)
  PROVE  DateInv'
<1>1. PICK v : v = [val EXCEPT !.date1.cal = cal]
  OBVIOUS
<1>2. v \in DateValues /\ v.type = val.type /\ v.phrase = val.phrase
  <2>1. val \in DateValues /\ val.date1 \in DateStructs
    BY DEF DateInv, TypeOK, DateValues
  <2>2. [val.date1 EXCEPT !.cal = cal] \in DateStructs
    BY <2>1 DEF DateStructs
  <2>3. v = [val EXCEPT !.date1 = [val.date1 EXCEPT !.cal = cal]]
    BY <1>1, <2>1 DEF DateValues
  <2>4. QED
    BY <2>1, <2>2, <2>3 DEF DateValues
<1>3. Call /\ Normalize("SDN", v, "calendar")
  BY <1>1 DEF ChangeCalendar
<1>4. calls' \in 0 .. MaxCalls
  BY <1>3, CallsCount DEF DateInv
<1>5. v.type = "INTERPRETED" => v.phrase = "words"
  BY <1>2 DEF DateInv, Phrases
<1>6. QED
  BY <1>2, <1>3, <1>4, <1>5, SdnStep

LEMMA NextDayFits ==
  ASSUME DateInv, NextDay
  PROVE  /\ DateInv' /\ val'.date1.cal = val.date1.cal /\ val'.date1.type = val.date1.type
         /\ val'.date1.sdn1 = val.date1.sdn1 + 1
<1>1. PICK v : v = [val EXCEPT !.date1.sdn1 = val.date1.sdn1 + 1]
  OBVIOUS
<1>2. v \in DateValues /\ v.type = val.type /\ v.phrase = val.phrase
      /\ v.date1.cal = val.date1.cal /\ v.date1.type = val.date1.type /\ v.date1.sdn1 = val.date1.sdn1 + 1
  <2>1. val \in DateValues /\ val.date1 \in DateStructs /\ val.date1.sdn1 \in Int
    BY DEF DateInv, TypeOK, DateValues, DateStructs
  <2>2. PICK e : e = [val.date1 EXCEPT !.sdn1 = val.date1.sdn1 + 1]
    OBVIOUS
  <2>3. e \in DateStructs /\ e.cal = val.date1.cal /\ e.type = val.date1.type /\ e.sdn1 = val.date1.sdn1 + 1
    BY <2>1, <2>2 DEF DateStructs
  <2>4. v = [val EXCEPT !.date1 = e]
    BY <1>1, <2>1, <2>2 DEF DateValues
  <2>5. QED
    BY <2>1, <2>3, <2>4 DEF DateValues
<1>3. Normalize("SDN", v, "next") /\ calls' = MaxCalls /\ last.op \in {"sdn", "next"}
  BY <1>1 DEF NextDay
<1>4. calls' \in 0 .. MaxCalls
  BY <1>3, CallsAssumption
<1>5. v.type = "NO_MODIFIER" /\ v.date1.cal \in Calendars
  BY <1>2, <1>3 DEF DateInv, SdnFits
<1>6. QED
  BY <1>2, <1>3, <1>4, <1>5, SdnStep

LEMMA NextFits == DateInv /\ [Next]_vars => DateInv'
<1> SUFFICES ASSUME DateInv, [Next]_vars PROVE DateInv'
  OBVIOUS
<1>1. CASE UNCHANGED vars
  <2>1. val' = val /\ start' = start /\ double' = double /\ calls' = calls /\ last' = last
    BY <1>1 DEF vars
  <2>2. TypeOK'
    BY <2>1 DEF DateInv, TypeOK
  <2>3. Phrases' /\ DatesFit' /\ NumbersFit' /\ SdnFits'
    BY <2>1 DEF DateInv, Phrases, DatesFit, Converts, UsedDate, NumbersFit, SdnFits, Numbered
  <2>4. QED
    BY <2>2, <2>3 DEF DateInv
<1>2. CASE \E line \in Lines : ParseDate(line)
  BY <1>2, ParseFits
<1>3. CASE \E n \in Numbers : SetNumbers(n)
  BY <1>3, SetNumbersFits
<1>4. CASE \E y \in Years : SetYearText(y)
  BY <1>4, SetYearTextFits
<1>5. CASE \E cal \in Calendars, span \in Spans : SetSpan(cal, span)
  BY <1>5, SetSpanFits
<1>6. CASE \E cal \in Calendars : ChangeCalendar(cal)
  BY <1>6, ChangeCalendarFits
<1>7. CASE NextDay
  BY <1>7, NextDayFits
<1>8. QED
  BY <1>1, <1>2, <1>3, <1>4, <1>5, <1>6, <1>7 DEF Next

-----------------------------------------------------------------------------
(* A program that walks from day to day.                                  *)

LEMMA OtherCalls ==
  ASSUME [Next]_vars, last'.op = "next"
  PROVE  UNCHANGED vars \/ NextDay
<1>1. ASSUME NEW line \in Lines, ParseDate(line) PROVE FALSE
  BY <1>1 DEF ParseDate
<1>2. ASSUME NEW n \in Numbers, SetNumbers(n) PROVE FALSE
  BY <1>2 DEF SetNumbers, Normalize
<1>3. ASSUME NEW y \in Years, SetYearText(y) PROVE FALSE
  BY <1>3 DEF SetYearText, Normalize
<1>4. ASSUME NEW cal \in Calendars, NEW span \in Spans, SetSpan(cal, span) PROVE FALSE
  BY <1>4 DEF SetSpan, Normalize
<1>5. ASSUME NEW cal \in Calendars, ChangeCalendar(cal) PROVE FALSE
  BY <1>5 DEF ChangeCalendar, Normalize
<1>6. QED
  BY <1>1, <1>2, <1>3, <1>4, <1>5 DEF Next

LEMMA DayFollows ==
  ASSUME DateInv, NextDay, val.date1.year # 0, val'.date1.year # 0, val.date1.sdn1 > 0
  PROVE  LET d == val'.date1
             date == Numbered(d)
         IN /\ Follows(d.cal, Numbered(val.date1), date)
            /\ d.cal = "HEBREW" /\ d.month = 1 /\ d.day = 1
                  => DayOfWeek(d.sdn1) \notin {0, 3, 5}
            /\ d.cal = "HEBREW" /\ d.month = 4 /\ d.day = 1 /\ val.date1.day = 29
                  => SdnToJewish(d.sdn1 - 30)[3] = 29
<1>1. PICK cal, sdn : cal = val.date1.cal /\ sdn = val.date1.sdn1
  OBVIOUS
<1>2. DateInv' /\ val'.date1.cal = cal /\ val'.date1.type = val.date1.type /\ val'.date1.sdn1 = sdn + 1
  BY <1>1, NextDayFits
<1>3. val.date1.type = "EXACT" /\ last.op \in {"sdn", "next"} /\ last'.op = "next"
  BY DEF NextDay, Normalize
<1>4. cal \in Calendars /\ sdn \in Int /\ sdn > 0
  <2>1. val.date1 \in DateStructs
    BY DEF DateInv, TypeOK, DateValues
  <2>2. QED
    BY <1>1, <1>3, <2>1 DEF DateInv, SdnFits, DateStructs
<1>5. Numbered(val.date1) = from_sdn_func(cal, sdn)
  BY <1>1, <1>3, <1>4 DEF DateInv, SdnFits
<1>6. Numbered(val'.date1) = from_sdn_func(cal, sdn + 1)
  <2>1. sdn + 1 > 0
    BY <1>4
  <2>2. QED
    BY <1>2, <1>3, <2>1 DEF DateInv, SdnFits, Numbered
<1>7. Numbered(val.date1)[1] # 0 /\ Numbered(val'.date1)[1] # 0
  BY DEF Numbered
<1>8. Covers(cal, sdn) /\ Covers(cal, sdn + 1)
  <2>1. Covers(cal, sdn)
    BY <1>4, <1>5, <1>7, DateIsNumbers
  <2>2. sdn + 1 \in Int
    BY <1>4
  <2>3. QED
    BY <1>4, <1>6, <1>7, <2>1, <2>2, DateIsNumbers
<1>9. Follows(cal, Numbered(val.date1), Numbered(val'.date1))
  BY <1>4, <1>5, <1>6, <1>8, NextDayFollows
<1>10. CASE cal = "HEBREW"
  <2>1. InJewish(sdn) /\ InJewish(sdn + 1)
    BY <1>8, <1>10 DEF Covers
  <2>2. from_sdn_func("HEBREW", sdn + 1) = SdnToJewish(sdn + 1)
    BY JewishOperators
  <2>3. QED
    BY <1>1, <1>2, <1>5, <1>6, <1>9, <1>10, <2>1, JewishDaysFollow DEF Numbered
<1>11. QED
  BY <1>2, <1>9, <1>10

\* Up to whatever day a program walks, in each calendar: the next serial day
\* number is of the next day, and the Hebrew years begin on no Sunday,
\* Wednesday or Friday (gedcom_normalize_date, DI_FROM_SDN; calendar/).
THEOREM DaysAlwaysFollow == Spec => DaysFollow
<1>1. DateInv /\ [Next]_vars => 
       [last'.op = "next" =>
       LET d == val'.date1
           date == Numbered(d)
       IN \/ 0 \in {val.date1.year, d.year} \/ val.date1.sdn1 <= 0 \* outside the calendar
          \/ /\ Follows(d.cal, Numbered(val.date1), date)
             /\ d.cal = "HEBREW" /\ d.month = 1 /\ d.day = 1
                  => DayOfWeek(d.sdn1) \notin {0, 3, 5}
             /\ d.cal = "HEBREW" /\ d.month = 4 /\ d.day = 1 /\ val.date1.day = 29
                  => SdnToJewish(d.sdn1 - 30)[3] = 29]_vars
  <2> SUFFICES ASSUME DateInv, [Next]_vars, last'.op = "next", ~UNCHANGED vars,
                      val.date1.year # 0, val'.date1.year # 0, ~(val.date1.sdn1 <= 0)
               PROVE  LET d == val'.date1
                          date == Numbered(d)
                      IN /\ Follows(d.cal, Numbered(val.date1), date)
                         /\ d.cal = "HEBREW" /\ d.month = 1 /\ d.day = 1
                              => DayOfWeek(d.sdn1) \notin {0, 3, 5}
                         /\ d.cal = "HEBREW" /\ d.month = 4 /\ d.day = 1 /\ val.date1.day = 29
                              => SdnToJewish(d.sdn1 - 30)[3] = 29
    OBVIOUS
  <2>1. NextDay
    BY OtherCalls
  <2>2. val.date1.sdn1 > 0
    <3>1. val.date1 \in DateStructs
      BY DEF DateInv, TypeOK, DateValues
    <3>2. QED
      BY <3>1 DEF DateStructs
  <2>3. QED
    BY <2>1, <2>2, DayFollows
<1>2. QED
  BY <1>1, InitFits, NextFits, PTL DEF Spec, DaysFollow

-----------------------------------------------------------------------------
(* Numbers that convert.                                                   *)

LEMMA FrenchLast == LastMonth("FRENCH_REV") = 13 /\ LastMonth("HEBREW") = 13
                    /\ \A cal \in Solar : LastMonth(cal) = 12 /\ cal # "FRENCH_REV" /\ cal # "HEBREW"
  BY DEF LastMonth, Solar

LEMMA MonthLengths ==
  ASSUME NEW cal \in Calendars, NEW y \in Int, NEW m, HasMonth(cal, y, m)
  PROVE  \A n \in Lengths(cal, y, m) : n \in Int /\ n >= 1 /\ n <= 31
<1>1. m \in 1 .. 13
  BY DEF HasMonth, LastMonth
<1>2. CASE cal \in Solar
  BY <1>1, <1>2, SMT DEF Lengths, Solar
<1>3. CASE cal = "FRENCH_REV"
  <2>1. Lengths(cal, y, m) = IF m = 13 THEN {IF LeapYear(cal, y) THEN 6 ELSE 5} ELSE {30}
    BY <1>3, FrenchOperators
  <2>2. QED
    BY <2>1
<1>4. CASE cal = "HEBREW"
  <2>1. Lengths(cal, y, m) = IF m \in {2, 3} THEN {29, 30}
                              ELSE IF m = 6 THEN {IF LeapYear(cal, y) THEN 30 ELSE 29}
                              ELSE IF m \in {1, 5, 8, 10, 12} THEN {30} ELSE {29}
    BY <1>1, <1>4, JewishLengths
  <2>2. QED
    BY <2>1
<1>5. QED
  BY <1>2, <1>3, <1>4, CalendarIs

\* The first day of a month exists if the month does.
LEMMA MonthsBegin ==
  ASSUME NEW cal \in Calendars, NEW y \in Int, NEW m \in Int, y # 0, HasMonth(cal, y, m),
         cal = "GREGORIAN" => y > -4714, cal = "JULIAN" => y > -4713,
         cal = "FRENCH_REV" => y >= 1 /\ y <= 14, cal = "HEBREW" => y >= 1
  PROVE  Exists(cal, y, m, 1)
<1>1. \A n \in Lengths(cal, y, m) : 1 <= n
  BY MonthLengths
<1>2. CASE cal = "GREGORIAN"
  BY <1>1, <1>2, SMT DEF Exists
<1>3. CASE cal = "JULIAN"
  BY <1>1, <1>3, SMT DEF Exists
<1>4. CASE cal = "FRENCH_REV"
  BY <1>1, <1>4, SMT DEF Exists
<1>5. CASE cal = "HEBREW"
  BY <1>1, <1>5, SMT DEF Exists
<1>6. QED
  BY <1>2, <1>3, <1>4, <1>5 DEF Calendars

\* The years of the days that exist.
LEMMA YearsOfDays ==
  ASSUME NEW cal \in Calendars, NEW y \in Int, NEW m \in Int, NEW d \in Int, Exists(cal, y, m, d)
  PROVE  /\ y # 0 /\ HasMonth(cal, y, m)
         /\ cal = "GREGORIAN" => y > -4714
         /\ cal = "JULIAN" => y > -4713
         /\ cal = "FRENCH_REV" => y >= 1 /\ y <= 14
         /\ cal = "HEBREW" => y >= 1
<1>1. y # 0 /\ HasMonth(cal, y, m)
  BY DEF Exists
<1>2. cal = "GREGORIAN" => y > -4714
  BY SMT DEF Exists
<1>3. cal = "JULIAN" => y > -4713
  BY SMT DEF Exists
<1>4. cal = "FRENCH_REV" => y >= 1 /\ y <= 14
  BY SMT DEF Exists
<1>5. cal = "HEBREW" => y >= 1
  BY SMT DEF Exists
<1>6. QED
  BY <1>1, <1>2, <1>3, <1>4, <1>5

\* The day after the date exists, except at the ends that are not computed.
LEMMA EndExists ==
  ASSUME NEW d \in DateStructs, d.cal \in Calendars, ~NoEnd(d),
         Exists(d.cal, FirstDay(d)[1], FirstDay(d)[2], FirstDay(d)[3])
  PROVE  Exists(d.cal, DayAfter(d)[1], DayAfter(d)[2], DayAfter(d)[3])
<1> DEFINE f == FirstDay(d)
<1>1. d.year \in Int /\ d.month \in Int /\ d.day \in Int
  BY DEF DateStructs
<1>2. f[1] = d.year /\ f[1] \in Int /\ f[2] \in Int /\ f[3] \in Int
      /\ f[2] = IF d.month = None THEN 1 ELSE d.month
  BY <1>1 DEF FirstDay
<1>3. /\ d.year # 0 /\ HasMonth(d.cal, d.year, f[2])
      /\ d.cal = "GREGORIAN" => d.year > -4714
      /\ d.cal = "JULIAN" => d.year > -4713
      /\ d.cal = "FRENCH_REV" => d.year >= 1 /\ d.year <= 14
      /\ d.cal = "HEBREW" => d.year >= 1
  BY <1>2, YearsOfDays
<1>4. max_month[d.cal] = LastMonth(d.cal) /\ LastMonth(d.cal) \in {12, 13}
  BY MonthsOfCalendars
<1>5. d.year # -1 /\ ~(d.cal = "FRENCH_REV" /\ d.year = 14 /\ d.month \in {None, 13})
      /\ ~(d.cal = "HEBREW" /\ d.month = 6 /\ ~LeapYear("HEBREW", d.year))
  BY DEF NoEnd
<1> DEFINE y == d.year + 1
<1>6. y # 0 /\ y \in Int
  BY <1>1, <1>5
<1>7. CASE d.month = None \/ (d.month # None /\ d.month + 1 > max_month[d.cal] /\ d.day = None)
  <2>1. DayAfter(d) = <<y, 1, 1>>
    BY <1>7 DEF DayAfter
  <2>2. HasMonth(d.cal, y, 1)
    BY <1>4 DEF HasMonth
  <2>3. d.cal = "FRENCH_REV" => y <= 14
    <3>1. SUFFICES ASSUME d.cal = "FRENCH_REV", d.year = 14 PROVE FALSE
      BY <1>1, <1>3
    <3>2. d.month # None /\ d.month # 13
      BY <1>5, <3>1
    <3>3. d.month + 1 > 13
      BY <1>4, <1>7, <3>1, <3>2, FrenchLast
    <3>4. d.month \in 1 .. 13
      BY <1>2, <1>3, <3>1, <3>2, FrenchLast DEF HasMonth
    <3>5. QED
      BY <3>2, <3>3, <3>4
  <2>4. Exists(d.cal, y, 1, 1)
    BY <1>1, <1>3, <1>6, <2>2, <2>3, MonthsBegin
  <2>5. QED
    BY <2>1, <2>4
<1>8. CASE d.month # None /\ d.day # None
  BY <1>8 DEF DayAfter, FirstDay
<1>9. CASE d.month # None /\ d.day = None /\ ~(d.month + 1 > max_month[d.cal])
  <2>1. DayAfter(d) = <<d.year, d.month + 1, 1>>
    BY <1>9 DEF DayAfter
  <2>2. f[2] = d.month
    BY <1>2, <1>9
  <2>3. d.month + 1 \in 1 .. LastMonth(d.cal)
    BY <1>1, <1>3, <1>4, <1>9, <2>2 DEF HasMonth
  <2>4. d.cal = "HEBREW" /\ d.month + 1 = 7 => LeapYear(d.cal, d.year)
    <3>1. d.month + 1 = 7 => d.month = 6
      BY <1>1
    <3>2. QED
      BY <1>5, <3>1
  <2>5. HasMonth(d.cal, d.year, d.month + 1)
    BY <2>3, <2>4 DEF HasMonth
  <2>6. d.month + 1 \in Int
    BY <1>1
  <2>7. Exists(d.cal, d.year, d.month + 1, 1)
    BY <1>1, <1>3, <2>5, <2>6, MonthsBegin
  <2>8. QED
    BY <2>1, <2>7
<1>10. QED
  BY <1>7, <1>8, <1>9

LEMMA ExistingDay ==
  ASSUME NEW cal \in Calendars, NEW date, date[1] \in Int, date[2] \in Int, date[3] \in Int,
         Exists(cal, date[1], date[2], date[3])
  PROVE  Sdn(cal, date) # -1 /\ Sdn(cal, date) \in Int
  BY CheckedDate DEF Sdn

LEMMA InvConverts == DateInv => DatesConvert
<1> SUFFICES ASSUME DateInv, last.op = "numbers"
             PROVE  LET d == val.date1
                        first == FirstDay(d)
                    IN /\ Exists(d.cal, first[1], first[2], first[3]) /\ (d.type = "EXACT" \/ ~NoEnd(d))
                            => last.result = 0
                       /\ last.result = 0 /\ d.type = "EXACT"
                            => /\ HasMonth(d.cal, d.year, d.month)
                               /\ \E n \in Lengths(d.cal, d.year, d.month) : d.day <= n
  BY DEF DatesConvert
<1>1. PICK d : d = val.date1
  OBVIOUS
<1>2. PICK f : f = FirstDay(d)
  OBVIOUS
<1>3. d.cal \in Calendars /\ Answers(d, last.result)
  BY <1>1 DEF DateInv, NumbersFit
<1>4. PICK sdn1, sdn2 : sdn1 = Sdn(d.cal, FirstDay(d)) /\ sdn2 = LastDay(d)
  OBVIOUS
<1>5. /\ d \in DateStructs
      /\ d.type = IF Bounded(d) THEN "BOUNDED" ELSE "EXACT"
      /\ last.result = 0 <=> /\ sdn1 # -1
                             /\ Bounded(d) => sdn2 # -1 /\ (d.month = None \/ d.day = None)
  BY <1>3, <1>4, Answered
<1>6. d.year \in Int /\ d.month \in Int /\ d.day \in Int
  BY <1>5 DEF DateStructs
<1>7. f[1] \in Int /\ f[2] \in Int /\ f[3] \in Int
  BY <1>2, <1>6 DEF FirstDay
<1>8. ASSUME Exists(d.cal, f[1], f[2], f[3]), d.type = "EXACT" \/ ~NoEnd(d) PROVE last.result = 0
  <2>1. sdn1 # -1
    BY <1>2, <1>3, <1>4, <1>7, <1>8, ExistingDay
  <2>2. CASE ~Bounded(d)
    BY <1>5, <2>1, <2>2
  <2>3. CASE Bounded(d)
    <3>1. ~NoEnd(d)
      BY <1>5, <1>8, <2>3
    <3>2. d.month = None \/ d.day = None
      BY <2>3, <3>1 DEF NoEnd, Bounded, None
    <3>3. PICK g : g = DayAfter(d)
      OBVIOUS
    <3>4. Exists(d.cal, g[1], g[2], g[3])
      BY <1>2, <1>3, <1>5, <1>8, <3>1, <3>3, EndExists
    <3>5. max_month[d.cal] \in Int
      BY <1>3, MonthsOfCalendars
    <3>6. g[1] \in Int /\ g[2] \in Int /\ g[3] \in Int
      BY <1>6, <3>3, <3>5 DEF DayAfter
    <3>7. checkedCalToSdn(d.cal, g[1], g[2], g[3]) \in Int /\ checkedCalToSdn(d.cal, g[1], g[2], g[3]) # -1
          /\ Covers(d.cal, checkedCalToSdn(d.cal, g[1], g[2], g[3]))
      BY <1>3, <3>4, <3>6, CheckedDate
    <3>8. Sdn(d.cal, DayAfter(d)) \in Int /\ Sdn(d.cal, DayAfter(d)) # -1 /\ Sdn(d.cal, DayAfter(d)) > 0
      BY <3>3, <3>7 DEF Sdn, Covers
    <3>9. sdn2 # -1
      BY <1>4, <3>8 DEF LastDay
    <3>10. QED
      BY <1>5, <2>1, <3>2, <3>9
  <2>4. QED
    BY <2>2, <2>3
<1>9. ASSUME last.result = 0, d.type = "EXACT"
      PROVE  HasMonth(d.cal, d.year, d.month) /\ \E n \in Lengths(d.cal, d.year, d.month) : d.day <= n
  <2>1. ~Bounded(d) /\ sdn1 # -1
    BY <1>5, <1>9
  <2>2. FirstDay(d) = <<d.year, d.month, d.day>>
    BY <2>1 DEF FirstDay, Bounded
  <2>3. MayExist(d.cal, FirstDay(d))
    BY <1>3, <1>4, <1>5, <2>1, ReadDay
  <2>4. QED
    BY <2>2, <2>3 DEF MayExist
<1>10. QED
  BY <1>1, <1>2, <1>8, <1>9

\* Whatever numbers a program sets: those of a day that exists, or of a month
\* or a year whose end is computed, convert to serial day numbers, and those
\* that convert are of a day that exists (numbers_to_sdn, calendar/).
THEOREM DatesAlwaysConvert == Spec => []DatesConvert
  BY InitFits, NextFits, InvConverts, PTL DEF Spec

-----------------------------------------------------------------------------
(* The days of a month or a year.                                          *)

\* A date later than another has a larger key.
Key(date) == ((500 * Astronomical(date[1])) + (32 * date[2])) + date[3]

LEMMA MonthsFollow ==
  ASSUME NEW cal \in Calendars, NEW y, NEW m \in Int
  PROVE  /\ FollowingMonth(cal, y, m) \in Int /\ FollowingMonth(cal, y, m) >= m + 1
         /\ HasMonth(cal, y, m + 1) => FollowingMonth(cal, y, m) = m + 1
         /\ ~HasMonth(cal, y, m + 1) => FollowingMonth(cal, y, m) = m + 2
  BY DEF FollowingMonth

LEMMA YearsFollow ==
  ASSUME NEW y \in Int, y # 0
  PROVE  NextYear(y) \in Int /\ NextYear(y) > y
         /\ Astronomical(NextYear(y)) = Astronomical(y) + 1 /\ Astronomical(y) \in Int
  BY DEF NextYear, Astronomical

LEMMA ParsDate ==
  ASSUME NEW cal \in Calendars, NEW date, MayExist(cal, date)
  PROVE  /\ date = <<date[1], date[2], date[3]>>
         /\ date[1] \in Int /\ date[1] # 0 /\ date[2] \in Int /\ date[3] \in Int
         /\ date[2] >= 1 /\ date[2] <= LastMonth(cal) /\ date[2] <= 13 /\ date[3] >= 1 /\ date[3] <= 31
         /\ HasMonth(cal, date[1], date[2])
<1>1. /\ date = <<date[1], date[2], date[3]>> /\ date[1] \in Int /\ date[1] # 0 /\ date[3] \in Int
      /\ date[3] >= 1 /\ HasMonth(cal, date[1], date[2])
      /\ \E n \in Lengths(cal, date[1], date[2]) : date[3] <= n
  BY DEF MayExist
<1>2. LastMonth(cal) \in {12, 13}
  BY MonthsOfCalendars
<1>3. date[2] \in 1 .. LastMonth(cal)
  BY <1>1 DEF HasMonth
<1>4. date[2] \in Int /\ date[2] >= 1 /\ date[2] <= LastMonth(cal) /\ date[2] <= 13
  BY <1>2, <1>3
<1>5. date[3] <= 31
  BY <1>1, MonthLengths
<1>6. QED
  BY <1>1, <1>4, <1>5

LEMMA KeyGrows ==
  ASSUME NEW cal \in Calendars, NEW a, NEW b, MayExist(cal, a), MayExist(cal, b), Follows(cal, a, b)
  PROVE  Key(a) \in Int /\ Key(b) \in Int /\ Key(b) > Key(a)
<1>1. /\ a = <<a[1], a[2], a[3]>> /\ a[1] \in Int /\ a[1] # 0 /\ a[2] \in Int /\ a[3] \in Int
      /\ a[2] <= 13 /\ a[3] <= 31
  BY ParsDate
<1>2. b[1] \in Int /\ b[1] # 0 /\ b[2] \in Int /\ b[3] \in Int
  BY ParsDate
<1>3. Astronomical(a[1]) \in Int /\ Astronomical(b[1]) \in Int
  BY <1>1, <1>2, YearsFollow
<1>4. CASE b = <<a[1], a[2], a[3] + 1>>
  <2>1. b[1] = a[1] /\ b[2] = a[2] /\ b[3] = a[3] + 1
    BY <1>4
  <2>2. QED
    BY <1>1, <1>3, <2>1 DEF Key
<1>5. CASE b = <<NextYear(a[1]), 1, 1>>
  <2>1. Astronomical(b[1]) = Astronomical(a[1]) + 1 /\ b[2] = 1 /\ b[3] = 1
    BY <1>1, <1>5, YearsFollow
  <2>2. QED
    BY <1>1, <1>3, <2>1 DEF Key
<1>6. CASE b = <<a[1], FollowingMonth(cal, a[1], a[2]), 1>>
  <2>1. b[1] = a[1] /\ b[2] >= a[2] + 1 /\ b[3] = 1
    BY <1>1, <1>6, MonthsFollow
  <2>2. QED
    BY <1>1, <1>2, <1>3, <2>1 DEF Key
<1>7. QED
  BY <1>4, <1>5, <1>6 DEF Follows

LEMMA DatesAscend ==
  ASSUME NEW cal \in Calendars, NEW s, NEW t, Covers(cal, s), Covers(cal, t), s < t
  PROVE  Key(from_sdn_func(cal, s)) < Key(from_sdn_func(cal, t))
<1> DEFINE K(n) == Key(from_sdn_func(cal, n))
           Bad == {n \in Nat : s + n + 1 <= t /\ ~(K(s) < K(s + n + 1))}
<1>1. s \in Int /\ t \in Int
  BY DEF Covers
<1>2. \A n \in Int : s <= n /\ n <= t => Covers(cal, n) /\ K(n) \in Int
  <2>1. \A n \in Int : s <= n /\ n <= t => Covers(cal, n)
    BY <1>1, CoversDays
  <2>2. \A n \in Int : Covers(cal, n) => K(n) \in Int
    <3> SUFFICES ASSUME NEW n \in Int, Covers(cal, n) PROVE K(n) \in Int
      OBVIOUS
    <3>1. PICK date : date = from_sdn_func(cal, n)
      OBVIOUS
    <3>2. MayExist(cal, date)
      BY <3>1, DayIsADate
    <3>3. date[1] \in Int /\ date[1] # 0 /\ date[2] \in Int /\ date[3] \in Int
      BY <3>2, ParsDate
    <3>4. Astronomical(date[1]) \in Int
      BY <3>3, YearsFollow
    <3>5. Key(date) \in Int
      BY <3>3, <3>4 DEF Key
    <3>6. QED
      BY <3>1, <3>5
  <2>3. QED
    BY <2>1, <2>2
<1>3. \A n \in Int : s <= n /\ n + 1 <= t => K(n) < K(n + 1)
  <2> SUFFICES ASSUME NEW n \in Int, s <= n, n + 1 <= t PROVE K(n) < K(n + 1)
    OBVIOUS
  <2>1. PICK m : m = n + 1
    OBVIOUS
  <2>2. Covers(cal, n) /\ Covers(cal, m) /\ K(n) \in Int /\ K(m) \in Int
    BY <1>1, <1>2, <2>1
  <2>3. PICK a, b : a = from_sdn_func(cal, n) /\ b = from_sdn_func(cal, m)
    OBVIOUS
  <2>4. MayExist(cal, a) /\ MayExist(cal, b)
    BY <2>2, <2>3, DayIsADate
  <2>5. Follows(cal, a, b)
    BY <2>1, <2>2, <2>3, NextDayFollows
  <2>6. Key(b) > Key(a)
    BY <2>4, <2>5, KeyGrows
  <2>7. QED
    BY <2>1, <2>2, <2>3, <2>6
<1> HIDE DEF K
<1>4. ASSUME Bad # {} PROVE FALSE
  <2>1. PICK n \in Bad : \A i \in Bad : ~(i < n)
    BY <1>4, LeastNumber
  <2>2. n \in Nat /\ s + n + 1 <= t /\ ~(K(s) < K(s + n + 1))
    OBVIOUS
  <2>3. CASE n = 0
    <3>1. s + n + 1 = s + 1
      BY <1>1, <2>3
    <3>2. K(s) < K(s + 1)
      BY <1>1, <1>3, <2>2, <3>1
    <3>3. QED
      BY <2>2, <3>1, <3>2
  <2>4. CASE n > 0
    <3>1. PICK p \in Nat : n = p + 1
      <4>1. n - 1 \in Nat /\ n = (n - 1) + 1
        BY <2>2, <2>4
      <4>2. QED
        BY <4>1
    <3>2. p \notin Bad
      BY <2>1, <2>2, <3>1
    <3>3. K(s) < K(s + p + 1)
      BY <1>1, <2>2, <3>1, <3>2
    <3>4. PICK q \in Int : q = s + p + 1
      BY <1>1, <3>1
    <3>5. s <= q /\ q + 1 <= t /\ s + n + 1 = q + 1
      BY <1>1, <2>2, <3>1, <3>4
    <3>6. K(q) < K(q + 1)
      BY <1>3, <3>5
    <3>7. K(s) \in Int /\ K(q) \in Int /\ K(q + 1) \in Int
      BY <1>1, <1>2, <3>5
    <3>8. QED
      BY <2>2, <3>3, <3>4, <3>5, <3>6, <3>7
  <2>5. QED
    BY <2>2, <2>3, <2>4
<1>5. PICK n \in Nat : t = s + n + 1
  <2>1. (t - s) - 1 \in Nat /\ t = s + ((t - s) - 1) + 1
    BY <1>1
  <2>2. QED
    BY <2>1
<1>6. n \notin Bad
  BY <1>4
<1>7. K(s) < K(t)
  BY <1>1, <1>5, <1>6
<1>8. QED
  BY <1>7 DEF K

\* The last day of a month or a year is the one before the day after.
LEMMA EndOfDate ==
  ASSUME NEW d \in DateStructs, d.cal \in Calendars, d.month = None \/ d.day = None,
         HasMonth(d.cal, FirstDay(d)[1], FirstDay(d)[2]), d.year # 0,
         NEW p, MayExist(d.cal, p), MayExist(d.cal, DayAfter(d)), Follows(d.cal, p, DayAfter(d))
  PROVE  p[1] = d.year /\ (d.month = None \/ p[2] = d.month)
<1>1. d.year \in Int /\ d.month \in Int
  BY DEF DateStructs
<1>2. PICK g : g = DayAfter(d)
  OBVIOUS
<1>3. /\ p[1] \in Int /\ p[1] # 0 /\ p[2] \in Int /\ p[3] \in Int /\ p[3] >= 1
      /\ p[2] >= 1 /\ p[2] <= LastMonth(d.cal) /\ HasMonth(d.cal, p[1], p[2])
  BY ParsDate
<1>4. g[1] # 0
  BY <1>2, ParsDate
<1>5. max_month[d.cal] = LastMonth(d.cal) /\ LastMonth(d.cal) \in {12, 13}
  BY MonthsOfCalendars
<1>6. g[3] = 1
  BY <1>2 DEF DayAfter
<1>7. \/ p[2] = LastMonth(d.cal) /\ g[1] = NextYear(p[1]) /\ g[2] = 1
      \/ p[2] # LastMonth(d.cal) /\ g[1] = p[1] /\ g[2] = FollowingMonth(d.cal, p[1], p[2])
  <2>1. ~(g = <<p[1], p[2], p[3] + 1>>)
    BY <1>3, <1>6
  <2>2. g = IF p[2] = LastMonth(d.cal) THEN <<NextYear(p[1]), 1, 1>>
            ELSE <<p[1], FollowingMonth(d.cal, p[1], p[2]), 1>>
    BY <1>2, <2>1 DEF Follows
  <2>3. QED
    BY <2>2
<1>8. FollowingMonth(d.cal, p[1], p[2]) >= 2 /\ FollowingMonth(d.cal, p[1], p[2]) \in Int
  BY <1>3, MonthsFollow
<1>9. CASE d.month = None \/ d.month + 1 > max_month[d.cal]
  <2>1. g[1] = d.year + 1 /\ g[2] = 1
    BY <1>2, <1>9 DEF DayAfter
  <2>2. p[2] = LastMonth(d.cal) /\ NextYear(p[1]) = d.year + 1
    BY <1>7, <1>8, <2>1
  <2>3. p[1] = d.year
    BY <1>1, <1>3, <1>4, <2>1, <2>2 DEF NextYear
  <2>4. d.month # None => d.month = LastMonth(d.cal)
    <3>1. d.month # None => d.month \in 1 .. LastMonth(d.cal)
      BY DEF FirstDay, HasMonth
    <3>2. QED
      BY <1>1, <1>5, <1>9, <3>1
  <2>5. QED
    BY <2>2, <2>3, <2>4
<1>10. CASE d.month # None /\ ~(d.month + 1 > max_month[d.cal])
  <2>1. g[1] = d.year /\ g[2] = d.month + 1
    BY <1>2, <1>10 DEF DayAfter
  <2>2. HasMonth(d.cal, d.year, d.month)
    BY <1>10 DEF FirstDay
  <2>3. d.month >= 1
    BY <2>2 DEF HasMonth
  <2>4. p[1] = d.year /\ FollowingMonth(d.cal, p[1], p[2]) = d.month + 1
    BY <1>1, <1>7, <2>1, <2>3
  <2>5. p[2] = d.month
    <3>1. CASE HasMonth(d.cal, p[1], p[2] + 1)
      <4>1. FollowingMonth(d.cal, p[1], p[2]) = p[2] + 1
        BY <1>3, <3>1, MonthsFollow
      <4>2. QED
        BY <1>1, <1>3, <2>4, <4>1
    <3>2. CASE ~HasMonth(d.cal, p[1], p[2] + 1)
      <4>1. FollowingMonth(d.cal, p[1], p[2]) = p[2] + 2
        BY <1>3, <3>2, MonthsFollow
      <4>2. p[2] + 1 = d.month
        BY <1>1, <1>3, <2>4, <4>1
      <4>3. QED
        BY <2>2, <2>4, <3>2, <4>2
    <3>3. QED
      BY <3>1, <3>2
  <2>6. QED
    BY <2>4, <2>5
<1>11. QED
  BY <1>9, <1>10

\* The day before the first day is not in the date.
LEMMA BeginOfDate ==
  ASSUME NEW d \in DateStructs, d.cal \in Calendars, d.month = None \/ d.day = None,
         NEW p, MayExist(d.cal, p), MayExist(d.cal, FirstDay(d)), Follows(d.cal, p, FirstDay(d))
  PROVE  ~(p[1] = d.year /\ (d.month = None \/ p[2] = d.month))
<1>1. d.year \in Int /\ d.month \in Int
  BY DEF DateStructs
<1>2. PICK f : f = FirstDay(d)
  OBVIOUS
<1>3. p[1] \in Int /\ p[1] # 0 /\ p[2] \in Int /\ p[3] \in Int /\ p[3] >= 1 /\ p[2] >= 1
  BY ParsDate
<1>4. f[1] = d.year /\ f[3] = 1 /\ f[2] = IF d.month = None THEN 1 ELSE d.month
  BY <1>2 DEF FirstDay
<1>5. \/ f[1] = NextYear(p[1]) /\ f[2] = 1
      \/ f[1] = p[1] /\ f[2] = FollowingMonth(d.cal, p[1], p[2])
  <2>1. ~(f = <<p[1], p[2], p[3] + 1>>)
    BY <1>3, <1>4
  <2>2. f = IF p[2] = LastMonth(d.cal) THEN <<NextYear(p[1]), 1, 1>>
            ELSE <<p[1], FollowingMonth(d.cal, p[1], p[2]), 1>>
    BY <1>2, <2>1 DEF Follows
  <2>3. QED
    BY <2>2
<1>6. FollowingMonth(d.cal, p[1], p[2]) >= p[2] + 1 /\ FollowingMonth(d.cal, p[1], p[2]) \in Int
  BY <1>3, MonthsFollow
<1>7. NextYear(p[1]) > p[1] /\ NextYear(p[1]) \in Int
  BY <1>3, YearsFollow
<1>8. CASE f[1] = NextYear(p[1])
  BY <1>3, <1>4, <1>7, <1>8
<1>9. CASE f[1] = p[1] /\ f[2] = FollowingMonth(d.cal, p[1], p[2])
  <2>1. f[2] >= p[2] + 1
    BY <1>6, <1>9
  <2>2. d.month # None /\ f[2] = d.month
    BY <1>3, <1>4, <2>1
  <2>3. QED
    BY <1>3, <2>1, <2>2
<1>10. QED
  BY <1>5, <1>8, <1>9

LEMMA BoundsFit ==
  ASSUME NEW d, Answers(d, 0), d.type = "BOUNDED"
  PROVE  /\ d.sdn1 <= d.sdn2 /\ InDate(d, d.sdn1) /\ InDate(d, d.sdn2)
         /\ ~InDate(d, d.sdn1 - 1) /\ ~InDate(d, d.sdn2 + 1)
<1> DEFINE In(date) == date[1] = d.year /\ (d.month = None \/ date[2] = d.month)
<1>1. /\ d \in DateStructs /\ d.cal \in Calendars
      /\ d.sdn1 = Sdn(d.cal, FirstDay(d)) /\ d.sdn1 # -1
      /\ Bounded(d) /\ d.sdn2 = LastDay(d) /\ LastDay(d) # -1 /\ (d.month = None \/ d.day = None)
  BY Answered
<1>2. PICK cal : cal = d.cal
  OBVIOUS
<1>3. PICK f, g : f = FirstDay(d) /\ g = DayAfter(d)
  OBVIOUS
<1>4. PICK s : s = d.sdn1
  OBVIOUS
<1>5. PICK t : t = Sdn(cal, g)
  OBVIOUS
<1>6. d.year \in Int /\ d.month \in Int /\ d.day \in Int
  BY <1>1 DEF DateStructs
<1>7. max_month[cal] \in Int
  BY <1>1, <1>2, MonthsOfCalendars
<1>8. f[1] \in Int /\ f[2] \in Int /\ f[3] \in Int /\ f = <<f[1], f[2], f[3]>>
  BY <1>3, <1>6 DEF FirstDay
<1>9. g[1] \in Int /\ g[2] \in Int /\ g[3] \in Int /\ g = <<g[1], g[2], g[3]>>
  BY <1>2, <1>3, <1>6, <1>7 DEF DayAfter
<1>10. Covers(cal, s) /\ from_sdn_func(cal, s) = f /\ MayExist(cal, f)
  BY <1>1, <1>2, <1>3, <1>4, ReadDay
<1>11. t \in Int /\ t # -1 /\ d.sdn2 = t - 1
  <2>1. t = checkedCalToSdn(cal, g[1], g[2], g[3])
    BY <1>5 DEF Sdn
  <2>2. t \in Int
    BY <1>1, <1>2, <1>9, <2>1, CheckedDate
  <2>3. QED
    BY <1>1, <1>2, <1>3, <1>5, <2>2 DEF LastDay
<1>12. Covers(cal, t) /\ from_sdn_func(cal, t) = g /\ MayExist(cal, g)
  <2>1. t = checkedCalToSdn(cal, g[1], g[2], g[3])
    BY <1>5 DEF Sdn
  <2>2. QED
    BY <1>1, <1>2, <1>9, <1>11, <2>1, CheckedDate
<1>13. s \in Int /\ s > 0 /\ t > 0
  BY <1>10, <1>12 DEF Covers
<1>14. f[1] = d.year /\ d.year # 0 /\ f[3] = 1 /\ f[2] = (IF d.month = None THEN 1 ELSE d.month)
       /\ HasMonth(cal, f[1], f[2])
  BY <1>3, <1>1, <1>2, <1>10, ParsDate DEF FirstDay
<1>15. g[3] = 1 /\ ((g[1] = d.year + 1 /\ g[2] = 1) \/ (d.month # None /\ g[1] = d.year /\ g[2] = d.month + 1))
  BY <1>1, <1>3 DEF DayAfter
<1>16. ~In(g)
  BY <1>6, <1>15
<1>17. In(f)
  BY <1>14
<1>18. s < t
  <2>1. SUFFICES ASSUME t <= s PROVE FALSE
    BY <1>11, <1>13
  <2>2. CASE t = s
    BY <1>10, <1>12, <1>16, <1>17, <2>2
  <2>3. CASE t < s
    <3>1. Key(g) < Key(f)
      BY <1>1, <1>2, <1>10, <1>12, <2>3, DatesAscend
    <3>2. Astronomical(f[1]) \in Int /\ Astronomical(g[1]) \in Int
          /\ (g[1] = f[1] + 1 => Astronomical(g[1]) = Astronomical(f[1]) + 1)
      <4>1. f[1] # 0 /\ g[1] # 0
        BY <1>1, <1>2, <1>10, <1>12, ParsDate
      <4>2. QED
        BY <1>8, <1>9, <4>1 DEF Astronomical
    <3>3. f[2] <= 13
      BY <1>1, <1>2, <1>10, ParsDate
    <3>4. CASE g[1] = d.year + 1 /\ g[2] = 1
      BY <1>6, <1>8, <1>9, <1>14, <1>15, <3>1, <3>2, <3>3, <3>4 DEF Key
    <3>5. CASE d.month # None /\ g[1] = d.year /\ g[2] = d.month + 1
      BY <1>6, <1>8, <1>9, <1>14, <1>15, <3>1, <3>2, <3>5 DEF Key
    <3>6. QED
      BY <1>15, <3>4, <3>5
  <2>4. QED
    BY <1>11, <1>13, <2>1, <2>2, <2>3
<1>19. PICK l \in Int : l = t - 1
  BY <1>11
<1>20. l >= s /\ t = l + 1 /\ d.sdn2 = l
  BY <1>11, <1>13, <1>18, <1>19
<1>21. Covers(cal, l)
  BY <1>1, <1>2, <1>10, <1>12, <1>13, <1>11, <1>18, <1>19, CoversDays
<1>22. PICK p : p = from_sdn_func(cal, l)
  OBVIOUS
<1>23. MayExist(cal, p) /\ Follows(cal, p, g)
  <2>1. MayExist(cal, p)
    BY <1>1, <1>2, <1>21, <1>22, DayIsADate
  <2>2. Follows(cal, p, g)
    BY <1>1, <1>2, <1>12, <1>20, <1>21, <1>22, NextDayFollows
  <2>3. QED
    BY <2>1, <2>2
<1>24. In(p)
  BY <1>1, <1>2, <1>3, <1>12, <1>14, <1>23, EndOfDate
<1>25. PICK b \in Int : b = s - 1
  BY <1>13
<1>26. PICK q : q = from_sdn_func(cal, b)
  OBVIOUS
<1>27. ~In(q)
  <2>1. CASE Covers(cal, b)
    <3>1. MayExist(cal, q)
      BY <1>1, <1>2, <1>26, <2>1, DayIsADate
    <3>2. s = b + 1
      BY <1>13, <1>25
    <3>3. Follows(cal, q, f)
      BY <1>1, <1>2, <1>10, <1>26, <2>1, <3>2, NextDayFollows
    <3>4. QED
      BY <1>1, <1>2, <1>3, <1>10, <3>1, <3>3, BeginOfDate
  <2>2. CASE ~Covers(cal, b)
    <3>1. q = <<0, 0, 0>>
      BY <1>1, <1>2, <1>26, <2>2, NoDayNoDate DEF NoDate
    <3>2. q[1] = 0
      BY <3>1
    <3>3. QED
      BY <1>14, <3>2
  <2>3. QED
    BY <2>1, <2>2
<1>28. InDate(d, s) /\ ~InDate(d, t)
  BY <1>2, <1>10, <1>12, <1>16, <1>17 DEF InDate
<1>29. InDate(d, l)
  BY <1>2, <1>22, <1>24 DEF InDate
<1>30. ~InDate(d, b)
  BY <1>2, <1>26, <1>27 DEF InDate
<1>31. d.sdn1 <= d.sdn2 /\ d.sdn2 + 1 = t /\ d.sdn1 - 1 = b
  BY <1>4, <1>13, <1>20, <1>25
<1>32. QED
  BY <1>4, <1>20, <1>28, <1>29, <1>30, <1>31

LEMMA InvBounds == DateInv => BoundsAreTight
<1> SUFFICES ASSUME DateInv PROVE BoundsAreTight
  OBVIOUS
<1>1. TypeOK /\ DatesFit
  BY DEF DateInv
<1>2. ASSUME Converts, NEW d \in Used, d.type = "BOUNDED"
      PROVE  /\ d.sdn1 <= d.sdn2 /\ InDate(d, d.sdn1) /\ InDate(d, d.sdn2)
             /\ ~InDate(d, d.sdn1 - 1) /\ ~InDate(d, d.sdn2 + 1)
  <2>1. UsedDate(val, d)
    BY <1>2 DEF Used, UsedDate
  <2>2. Answers(d, 0)
    BY <1>1, <1>2, <2>1 DEF DatesFit
  <2>3. QED
    BY <1>2, <2>2, BoundsFit
<1>3. QED
  BY <1>1, <1>2 DEF BoundsAreTight

\* Whatever lines are read and values set, the serial day numbers of a month
\* or a year are those of its first and its last day, and every variable keeps
\* its type (numbers_to_sdn, sdn_to_numbers).
THEOREM BoundsAreAlwaysTight == Spec => []BoundsAreTight
  BY InitFits, NextFits, InvBounds, PTL DEF Spec

-----------------------------------------------------------------------------
(* What is written is read.                                                *)

\* A date with the cal, year, month and day of another one.
SameDay(a, b) == a.cal = b.cal /\ a.year = b.year /\ a.month = b.month /\ a.day = b.day

LEMMA SameDayFound ==
  ASSUME NEW d, Answers(d, 0), NEW e \in DateStructs, SameDay(e, d), NEW r, r = FoundDate(e)
  PROVE  r.result = 0 /\ r.date \in DateStructs /\ SameDate(r.date, e) /\ r.date.sdn1 = d.sdn1
<1>1. /\ d \in DateStructs /\ d.cal \in Calendars
      /\ d.sdn1 = Sdn(d.cal, FirstDay(d)) /\ Sdn(d.cal, FirstDay(d)) # -1
      /\ Bounded(d) => LastDay(d) # -1 /\ (d.month = None \/ d.day = None)
  BY Answered
<1>2. FirstDay(e) = FirstDay(d) /\ DayAfter(e) = DayAfter(d)
  BY DEF SameDay, FirstDay, DayAfter
<1>3. LastDay(e) = LastDay(d)
  BY <1>2 DEF LastDay, SameDay
<1>4. /\ e.cal = d.cal /\ (Bounded(e) <=> Bounded(d)) /\ e.month = d.month /\ e.day = d.day
  BY DEF SameDay, Bounded
<1>5. r = numbers_to_sdn(e)
  BY <1>1, <1>4 DEF FoundDate, Calendars
<1>6. /\ r.date \in DateStructs /\ SameDate(r.date, e)
      /\ r.date.sdn1 = Sdn(e.cal, FirstDay(e))
      /\ r.result = 0 <=> /\ Sdn(e.cal, FirstDay(e)) # -1
                          /\ Bounded(e) => LastDay(e) # -1 /\ (e.month = None \/ e.day = None)
  BY <1>1, <1>4, <1>5, NumbersToSdn
<1>7. QED
  BY <1>1, <1>2, <1>3, <1>4, <1>6

WrittenText(d) == [cal |-> d.cal, day |-> d.day_str, month |-> d.month_str, year |-> d.year_str]

LEMMA YearIsWritten ==
  ASSUME NEW d \in DateStructs, Tells(d), Faithful(d)
  PROVE  YearReads(d)
<1>1. d.year \in Int /\ d.year_type \in {"SINGLE", "DOUBLE"}
  BY DEF DateStructs, YearTypes
<1>2. d.year > 0 /\ d.year <= 9999999
      /\ (Len(d.year_str) = 3 => d.year_str[3] = 2 /\ d.cal = "GREGORIAN" /\ d.year <= 10000)
  BY DEF Faithful
<1>3. CASE d.year_str = YearString(d) /\ d.year_type = "SINGLE"
  <2>1. d.year_str = <<d.year>>
    BY <1>3 DEF YearString
  <2>2. Len(d.year_str) = 1 /\ d.year_str[1] = d.year /\ d.year_str # NoText
    BY <2>1 DEF NoText
  <2>3. _get_year_num(d.year_str) = d.year /\ YearType(d.year_str) = "SINGLE"
    BY <1>2, <2>2, SMT DEF _get_year_num, YearType
  <2>4. QED
    BY <1>3, <2>2, <2>3 DEF YearReads
<1>4. CASE d.year_str = YearString(d) /\ d.year_type = "DOUBLE"
  <2>1. d.year_str = <<d.year - 1, d.year % 100, Digits(d.year % 100)>>
    BY <1>4 DEF YearString
  <2>2. Len(d.year_str) = 3 /\ d.year_str[1] = d.year - 1 /\ d.year_str[2] = d.year % 100
        /\ d.year_str # NoText
    BY <2>1 DEF NoText
  <2>3. d.year_str[3] = 2 /\ d.year <= 10000
    BY <1>2, <2>2
  <2>4. ((d.year - 1) + 1) = d.year
    BY <1>1
  <2>5. _get_year_num(d.year_str) = d.year /\ YearType(d.year_str) = "DOUBLE"
    BY <1>1, <2>2, <2>3, <2>4, SMT DEF _get_year_num, YearType
  <2>6. QED
    BY <1>4, <2>2, <2>5 DEF YearReads
<1>5. QED
  BY <1>1, <1>3, <1>4 DEF Tells

LEMMA DateIsWritten ==
  ASSUME NEW d, Answers(d, 0), Tells(d), Faithful(d)
  PROVE  /\ d \in DateStructs /\ write_date(d) = <<WrittenText(d)>> /\ WrittenText(d) \in DateTexts
         /\ WellFormed(WrittenText(d), 1) /\ YearReads(d)
         /\ d.day_str = d.day /\ (d.month = None <=> d.month_str = NoText)
         /\ d.month # None => d.month_str[2] = d.month
<1>1. /\ d \in DateStructs /\ d.cal \in Calendars
      /\ d.sdn1 = Sdn(d.cal, FirstDay(d)) /\ Sdn(d.cal, FirstDay(d)) # -1
  BY Answered
<1>2. Covers(d.cal, d.sdn1) /\ MayExist(d.cal, FirstDay(d))
  BY <1>1, ReadDay
<1>3. /\ d.day = None => d.day_str = None
      /\ IF d.month = None THEN d.month_str = NoText
         ELSE d.month_str # NoText /\ d.month_str[1] = NamesOf(d.cal)
      /\ d.day # None => d.month # None
      /\ d.year > 0
      /\ Len(d.year_str) = 3 => d.cal = "GREGORIAN"
  BY DEF Faithful
<1>4. YearReads(d)
  BY <1>1, YearIsWritten
<1>5. d.day_str = d.day /\ (d.month = None <=> d.month_str = NoText)
      /\ (d.month # None => d.month_str[2] = d.month)
  BY <1>3 DEF Tells, DayReads, MonthReads
<1>6. d.year_str # NoText /\ d.sdn1 > 0 /\ d.year \in Int /\ d.sdn1 \in Int
  BY <1>1, <1>2, <1>4 DEF YearReads, Covers, DateStructs
<1>7. write_date(d) = <<WrittenText(d)>>
  BY <1>3, <1>6 DEF write_date, WrittenText
<1>8. WrittenText(d) \in DateTexts
  BY <1>1 DEF WrittenText, DateTexts, DateStructs
<1> DEFINE w == WrittenText(d)
<1>9. w.cal = d.cal /\ w.day = d.day /\ w.month = d.month_str /\ w.year = d.year_str
  BY <1>5 DEF WrittenText
<1>10. w.day # None => w.month # NoText /\ _get_day_num(w.day) # -1
  <2>1. SUFFICES ASSUME d.day # None PROVE w.month # NoText /\ _get_day_num(w.day) # -1
    BY <1>9
  <2>2. w.month # NoText
    BY <1>3, <1>9, <2>1
  <2>3. FirstDay(d)[3] = d.day
    BY <1>3, <2>1 DEF FirstDay
  <2>4. d.day >= 1 /\ d.day <= 31 /\ d.day \in Int
    BY <1>1, <1>2, <2>3, ParsDate
  <2>5. QED
    BY <1>9, <2>2, <2>4 DEF _get_day_num
<1>11. w.month # NoText => w.month[1] = NamesOf(w.cal)
  BY <1>3, <1>9
<1>12. w.year # NoText /\ (Len(w.year) = 3 => w.cal = "GREGORIAN")
  BY <1>3, <1>6, <1>9
<1>13. _get_year_num(w.year) # -1
  BY <1>3, <1>4, <1>6, <1>9 DEF YearReads
<1>14. WellFormed(w, 1)
  BY <1>1, <1>9, <1>10, <1>11, <1>12, <1>13 DEF WellFormed
<1>15. QED
  BY <1>1, <1>4, <1>5, <1>7, <1>8, <1>14

LEMMA DateIsReadAgain ==
  ASSUME NEW d, Answers(d, 0), Tells(d), Faithful(d), ~double,
         NEW s \in DateStructs, d.day = None => s.day = None, d.month = None => s.month = None,
         NEW e, e = ReadDate(s, WrittenText(d), 1)
  PROVE  e \in DateStructs /\ SameDay(e, d) /\ e.year_type = d.year_type
<1> DEFINE w == WrittenText(d)
<1>1. /\ d \in DateStructs /\ w \in DateTexts /\ WellFormed(w, 1) /\ YearReads(d)
      /\ d.day_str = d.day /\ (d.month = None <=> d.month_str = NoText)
      /\ d.month # None => d.month_str[2] = d.month
  BY DateIsWritten
<1>2. w.cal = d.cal /\ w.day = d.day /\ w.month = d.month_str /\ w.year = d.year_str
  BY <1>1 DEF WrittenText
<1>3. ~IsPair(w, 1)
  BY DEF IsPair
<1> HIDE DEF w
<1>4. e = ReadDate(s, w, 1)
  BY DEF w
<1>5. /\ e \in DateStructs /\ e.cal = w.cal
      /\ w.day = None => e.day = s.day
      /\ w.day # None => e.day = w.day
      /\ w.month = NoText => e.month = s.month
      /\ w.month # NoText => e.month = w.month[2]
      /\ e.year = _get_year_num(w.year) /\ e.year_type = YearType(w.year)
  BY <1>1, <1>3, <1>4, ReadsDate
<1>6. e.year = d.year /\ e.year_type = d.year_type
  BY <1>1, <1>2, <1>5 DEF YearReads
<1>7. e.day = d.day
  BY <1>2, <1>5
<1>8. e.month = d.month
  BY <1>1, <1>2, <1>5
<1>9. QED
  BY <1>2, <1>5, <1>6, <1>7, <1>8 DEF SameDay

LEMMA ValueIsRead ==
  ASSUME DateInv, Converts, ~double, \A d \in Used : Faithful(d), TakesNothing
  PROVE  SameValue(gedcom_parse_date(gedcom_date_to_string(val), "INITIAL"))
<1>1. PICK line : line = gedcom_date_to_string(val)
  OBVIOUS
<1>2. PICK mod : mod = val.type
  OBVIOUS
<1>3. PICK d, d2 : d = val.date1 /\ d2 = val.date2
  OBVIOUS
<1>4. val \in DateValues /\ mod \in DateValueTypes /\ mod # "PHRASE" /\ DatesOf(mod) \in {1, 2}
      /\ (DatesOf(mod) = 2 <=> mod \in TwoDates)
  <2>1. val \in DateValues
    BY DEF DateInv, TypeOK
  <2>2. mod \in DateValueTypes
    BY <1>2, <2>1 DEF DateValues
  <2>3. mod # "PHRASE"
    BY <1>2 DEF Converts
  <2>4. DatesOf(mod) \in {0, 1, 2} /\ (DatesOf(mod) = 0 <=> mod = "PHRASE")
        /\ (DatesOf(mod) = 2 <=> mod \in TwoDates)
    BY <2>2, NumberOfDates
  <2>5. QED
    BY <2>1, <2>2, <2>3, <2>4
<1>5. Answers(d, 0) /\ Tells(d) /\ Faithful(d)
  <2>1. UsedDate(val, d) /\ d \in Used
    BY <1>3 DEF UsedDate, Used
  <2>2. QED
    BY <2>1 DEF DateInv, DatesFit
<1>6. mod \in TwoDates => Answers(d2, 0) /\ Tells(d2) /\ Faithful(d2)
  <2>1. SUFFICES ASSUME mod \in TwoDates PROVE Answers(d2, 0) /\ Tells(d2) /\ Faithful(d2)
    OBVIOUS
  <2>2. UsedDate(val, d2) /\ d2 \in Used
    BY <1>2, <1>3, <2>1 DEF UsedDate, Used
  <2>3. QED
    BY <2>2 DEF DateInv, DatesFit
<1>7. /\ d \in DateStructs /\ write_date(d) = <<WrittenText(d)>> /\ WrittenText(d) \in DateTexts
      /\ WellFormed(WrittenText(d), 1)
  BY <1>5, DateIsWritten
<1>8. mod \in TwoDates =>
        /\ d2 \in DateStructs /\ write_date(d2) = <<WrittenText(d2)>> /\ WrittenText(d2) \in DateTexts
        /\ WellFormed(WrittenText(d2), 1)
  BY <1>6, DateIsWritten
<1>9. line.mod = mod /\ line.junk = FALSE
      /\ line.phrase = IF mod = "INTERPRETED" THEN "closed" ELSE "none"
  <2>1. val.type = "INTERPRETED" => val.phrase = "words"
    BY DEF DateInv, Phrases
  <2>2. line.mod = mod /\ line.junk = FALSE
    BY <1>1, <1>2, Zenon DEF gedcom_date_to_string
  <2>3. CASE mod = "INTERPRETED"
    <3>1. line.phrase = CASE val.phrase = "" -> "empty" [] val.phrase = "words" -> "closed"
                          [] val.phrase = "brackets" -> "broken"
      BY <1>1, <1>2, <2>3, Zenon DEF gedcom_date_to_string
    <3>2. val.phrase = "words"
      BY <1>2, <2>1, <2>3
    <3>3. QED
      BY <2>2, <2>3, <3>1, <3>2
  <2>4. CASE mod # "INTERPRETED"
    <3>1. line.phrase = "none"
      BY <1>1, <1>2, <1>4, <2>4, Zenon DEF gedcom_date_to_string
    <3>2. QED
      BY <2>2, <2>4, <3>1
  <2>5. QED
    BY <2>3, <2>4
<1>10. line.dates = IF mod \in TwoDates THEN <<WrittenText(d)>> \o <<WrittenText(d2)>> ELSE <<WrittenText(d)>>
  <2>1. line.dates = CASE DatesOf(mod) = 0 -> <<>>
                       [] DatesOf(mod) = 1 -> write_date(d)
                       [] DatesOf(mod) = 2 -> write_date(d) \o write_date(d2)
    BY <1>1, <1>2, <1>3, Zenon DEF gedcom_date_to_string
  <2>2. CASE mod \in TwoDates
    <3>1. line.dates = write_date(d) \o write_date(d2)
      BY <1>4, <2>1, <2>2
    <3>2. line.dates = <<WrittenText(d)>> \o <<WrittenText(d2)>>
      BY <1>7, <1>8, <2>2, <3>1
    <3>3. QED
      BY <2>2, <3>2
  <2>3. CASE mod \notin TwoDates
    <3>1. DatesOf(mod) = 1
      BY <1>4, <2>3
    <3>2. line.dates = write_date(d)
      BY <2>1, <3>1
    <3>3. QED
      BY <1>7, <2>3, <3>2
  <2>4. QED
    BY <2>2, <2>3
<1>11. /\ Len(line.dates) = DatesOf(mod) /\ line.dates[1] = WrittenText(d)
       /\ mod \in TwoDates => line.dates[2] = WrittenText(d2)
       /\ line.dates \in Seq(DateTexts)
       /\ \A i \in DOMAIN line.dates : WellFormed(line.dates[i], 1)
  <2>1. CASE mod \in TwoDates
    <3>1. line.dates = <<WrittenText(d)>> \o <<WrittenText(d2)>>
      BY <1>10, <2>1
    <3>2. PICK a, b : a = <<WrittenText(d)>> /\ b = <<WrittenText(d2)>>
      OBVIOUS
    <3>3. a \in Seq(DateTexts) /\ b \in Seq(DateTexts) /\ Len(a) = 1 /\ Len(b) = 1
          /\ a[1] = WrittenText(d) /\ b[1] = WrittenText(d2)
      BY <1>7, <1>8, <2>1, <3>2
    <3>4. PICK c : c = a \o b
      OBVIOUS
    <3>5. /\ c \in Seq(DateTexts) /\ Len(c) = Len(a) + Len(b)
          /\ \A i \in 1 .. Len(a) + Len(b) : c[i] = IF i <= Len(a) THEN a[i] ELSE b[i - Len(a)]
      BY <3>3, <3>4, ConcatProperties
    <3>6. c \in Seq(DateTexts) /\ Len(c) = 2 /\ c[1] = WrittenText(d) /\ c[2] = WrittenText(d2)
      BY <3>3, <3>5
    <3>7. \A i \in DOMAIN c : i = 1 \/ i = 2
      BY <3>6
    <3>8. \A i \in DOMAIN c : WellFormed(c[i], 1)
      BY <1>7, <1>8, <2>1, <3>6, <3>7
    <3>9. line.dates = c
      BY <3>1, <3>2, <3>4
    <3>10. QED
      BY <1>4, <2>1, <3>6, <3>8, <3>9
  <2>2. CASE mod \notin TwoDates
    <3>1. line.dates = <<WrittenText(d)>>
      BY <1>10, <2>2
    <3>2. QED
      BY <1>4, <1>7, <2>2, <3>1
  <2>3. QED
    BY <2>1, <2>2
<1>12. line \in DateLines
  <2>1. line = [mod |-> line.mod, dates |-> line.dates, phrase |-> line.phrase, junk |-> line.junk]
    BY <1>1, Zenon DEF gedcom_date_to_string
  <2>2. QED
    BY <1>4, <1>9, <1>11, <2>1 DEF DateLines
<1>13. IsRead(line, "INITIAL", 1)
  <2>1. PhraseFits(line)
    BY <1>4, <1>9 DEF PhraseFits
  <2>2. QED
    BY <1>9, <1>11, <2>1 DEF IsRead
<1>14. PICK first : first = Parse(line, "INITIAL", init_date, 1)
  OBVIOUS
<1>15. first.val \in DateValues /\ first.val.type = mod /\ HasRead(first.val, line, "INITIAL", init_date, 1)
  <2>1. first.val.type = mod
    BY <1>9, <1>12, <1>13, <1>14, InitialDate, Parses
  <2>2. QED
    BY <1>4, <1>12, <1>14, <2>1, InitialDate, Parses
<1>16. PICK one, two : one = first.val.date1 /\ two = first.val.date2
  OBVIOUS
<1>17. one = ReadDate(init_date, WrittenText(d), 1)
       /\ (mod \in TwoDates => two = ReadDate(one, WrittenText(d2), 1))
       /\ (mod \notin TwoDates => two = init_date)
  BY <1>9, <1>11, <1>15, <1>16 DEF HasRead
<1>18. one \in DateStructs /\ SameDay(one, d) /\ one.year_type = d.year_type
  BY <1>5, <1>17, InitialDate, DateIsReadAgain
<1>19. mod \in TwoDates => two \in DateStructs /\ SameDay(two, d2) /\ two.year_type = d2.year_type
  <2>1. SUFFICES ASSUME mod \in TwoDates PROVE two \in DateStructs /\ SameDay(two, d2) /\ two.year_type = d2.year_type
    OBVIOUS
  <2>2. (d2.day = None => one.day = None) /\ (d2.month = None => one.month = None)
    BY <1>2, <1>3, <1>18, <2>1 DEF TakesNothing, SameDay
  <2>3. QED
    BY <1>6, <1>17, <1>18, <2>1, <2>2, DateIsReadAgain
<1>20. PICK again : gedcom_parse_date(line, "INITIAL") = DatesFound(first.val, again)
  BY <1>14 DEF gedcom_parse_date
<1>21. PICK r1, r2 : r1 = FoundDate(one) /\ r2 = FoundDate(two)
  OBVIOUS
<1>22. r1.result = 0 /\ SameDate(r1.date, one) /\ r1.date.sdn1 = d.sdn1
  BY <1>5, <1>18, <1>21, SameDayFound
<1>23. mod \in TwoDates => r2.result = 0 /\ SameDate(r2.date, two) /\ r2.date.sdn1 = d2.sdn1
  BY <1>6, <1>19, <1>21, SameDayFound
<1>24. r2.result = 0
  <2>1. mod \notin TwoDates => r2.result = 0
    BY <1>17, <1>21, InitialDate DEF FoundDate
  <2>2. QED
    BY <1>23, <2>1
<1>25. PICK n : n = gedcom_parse_date(line, "INITIAL")
  OBVIOUS
<1>26. n.type = mod /\ n.date1 = r1.date /\ n.date2 = r2.date
  BY <1>15, <1>16, <1>20, <1>21, <1>22, <1>24, <1>25, FindsDates
<1>27. Same(d, n.date1)
  BY <1>18, <1>22, <1>26 DEF Same, SameDate, SameDay, Numbered
<1>28. mod \in TwoDates => Same(d2, n.date2)
  BY <1>19, <1>23, <1>26 DEF Same, SameDate, SameDay, Numbered
<1>29. QED
  BY <1>1, <1>2, <1>3, <1>25, <1>26, <1>27, <1>28 DEF SameValue

LEMMA InvWritten == DateInv => WrittenIsRead
  BY ValueIsRead DEF WrittenIsRead

\* Whatever lines are read and values set, a value whose dates agree with
\* themselves is written so that the same value is read again, but for the
\* cases that Faithful names (gedcom_date_to_string, gedcom_parse_date).
THEOREM WrittenIsAlwaysRead == Spec => []WrittenIsRead
  BY InitFits, NextFits, InvWritten, PTL DEF Spec

-----------------------------------------------------------------------------
(* Ages.                                                                   *)

AgePartSet == [n : Int, unit : Units \cup {"end", "other"}]
AgeParts == Seq(AgePartSet)
StopsAt(parts, err, i) == i = Len(parts) + 1 \/ parts[i].unit = "end" \/ Refuses(parts, i, err)
IsStop(parts, err, i) == /\ i \in 1 .. (Len(parts) + 1) /\ StopsAt(parts, err, i)
                         /\ \A j \in 1 .. (i - 1) : ~StopsAt(parts, err, j)
\* r is what the parts before the stop say.
IsReadTo(parts, err, stop, r) ==
  /\ r = [refused |-> r.refused, of |-> r.of, erange |-> r.erange]
  /\ r.refused <=> (stop <= Len(parts) /\ Refuses(parts, stop, err))
  /\ r.erange \in BOOLEAN
  /\ r.erange <=> (err \/ (stop <= Len(parts) /\ Overflows(parts[stop].n)))
  /\ r.of \in [Units -> Int]
  /\ \A u \in Units : \/ r.of[u] = Unset /\ \A j \in 1 .. (stop - 1) : parts[j].unit # u
                      \/ \E j \in 1 .. (stop - 1) : parts[j].unit = u /\ r.of[u] = parts[j].n

LEMMA PartsLength ==
  ASSUME NEW parts \in AgeParts
  PROVE  Len(parts) \in Nat /\ DOMAIN parts = 1 .. Len(parts) /\ (parts # <<>> => Len(parts) > 0)
  BY EmptySeq DEF AgeParts

LEMMA AgeStop ==
  ASSUME NEW parts \in AgeParts, NEW err
  PROVE  \E stop : IsStop(parts, err, stop)
<1> DEFINE S == {i \in 1 .. (Len(parts) + 1) : StopsAt(parts, err, i)}
<1>1. Len(parts) \in Nat
  BY DEF AgeParts
<1>2. Len(parts) + 1 \in S /\ S \subseteq Nat
  BY <1>1 DEF StopsAt
<1>3. PICK m \in S : \A i \in S : ~(i < m)
  BY <1>2, LeastNumber
<1>4. ASSUME NEW j \in 1 .. (m - 1), StopsAt(parts, err, j) PROVE FALSE
  <2>1. j \in S /\ j < m
    BY <1>1, <1>4
  <2>2. QED
    BY <2>1, <1>3
<1>5. QED
  BY <1>3, <1>4 DEF IsStop

LEMMA AgeIsRead ==
  ASSUME NEW parts \in AgeParts, NEW err \in BOOLEAN, NEW r, r = parse_numeric_age(parts, err)
  PROVE  \E stop : IsStop(parts, err, stop) /\ IsReadTo(parts, err, stop, r)
<1> DEFINE OfStop(i) == StopsAt(parts, err, i) /\ \A j \in 1 .. (i - 1) : ~StopsAt(parts, err, j)
           stop == CHOOSE i \in 1 .. (Len(parts) + 1) : OfStop(i)
           Read(u) == {j \in 1 .. (stop - 1) : parts[j].unit = u}
<1>1. Len(parts) \in Nat
  BY DEF AgeParts
<1>2. IsStop(parts, err, stop)
  <2>1. \E i \in 1 .. (Len(parts) + 1) : OfStop(i)
    BY AgeStop DEF IsStop
  <2>2. stop \in 1 .. (Len(parts) + 1) /\ OfStop(stop)
    BY <2>1, Zenon
  <2>3. QED
    BY <2>2 DEF IsStop
<1>3. r = [refused |-> stop <= Len(parts) /\ Refuses(parts, stop, err),
           of |-> [u \in Units |-> IF Read(u) = {} THEN Unset ELSE parts[CHOOSE j \in Read(u) : TRUE].n],
           erange |-> err \/ (stop <= Len(parts) /\ Overflows(parts[stop].n))]
  BY DEF parse_numeric_age, StopsAt
<1>4. stop \in 1 .. (Len(parts) + 1)
  BY <1>2 DEF IsStop
<1> HIDE DEF stop
<1>5. ASSUME NEW u \in Units
      PROVE  /\ r.of[u] \in Int
             /\ \/ r.of[u] = Unset /\ \A j \in 1 .. (stop - 1) : parts[j].unit # u
                \/ \E j \in 1 .. (stop - 1) : parts[j].unit = u /\ r.of[u] = parts[j].n
  <2>1. r.of[u] = IF Read(u) = {} THEN Unset ELSE parts[CHOOSE j \in Read(u) : TRUE].n
    BY <1>3
  <2>2. CASE Read(u) = {}
    <3>1. r.of[u] = Unset
      BY <2>1, <2>2
    <3>2. \A j \in 1 .. (stop - 1) : parts[j].unit # u
      BY <2>2
    <3>3. QED
      BY <3>1, <3>2 DEF Unset
  <2>3. CASE Read(u) # {}
    <3>1. PICK j : j = CHOOSE k \in Read(u) : TRUE
      OBVIOUS
    <3>2. j \in Read(u)
      BY <2>3, <3>1
    <3>3. r.of[u] = parts[j].n
      BY <2>1, <2>3, <3>1
    <3>4. j \in 1 .. Len(parts)
      BY <3>2, <1>4, <1>1
    <3>5. parts[j] \in AgePartSet
      BY <3>4, ElementOfSeq DEF AgeParts
    <3>6. parts[j].n \in Int
      BY <3>5 DEF AgePartSet
    <3>7. QED
      BY <3>2, <3>3, <3>6
  <2>4. QED
    BY <2>2, <2>3
<1>6. r = [refused |-> r.refused, of |-> r.of, erange |-> r.erange]
  BY <1>3
<1>7. r.refused = (stop <= Len(parts) /\ Refuses(parts, stop, err))
  BY <1>3
<1>8. r.erange = (err \/ (stop <= Len(parts) /\ Overflows(parts[stop].n)))
  BY <1>3
<1>9. r.of \in [Units -> Int]
  <2>1. r.of = [u \in Units |-> r.of[u]]
    BY <1>3
  <2>2. QED
    BY <2>1, <1>5
<1>10. IsReadTo(parts, err, stop, r)
  <2>1. r.erange \in BOOLEAN
    BY <1>8, Zenon
  <2>2. QED
    BY <1>5, <1>6, <1>7, <1>8, <1>9, <2>1, Zenon DEF IsReadTo
<1>11. QED
  BY <1>2, <1>10

\* What the parts are that are read.
LEMMA PartsRead ==
  ASSUME NEW parts \in AgeParts, NEW err, NEW stop, IsStop(parts, err, stop),
         NEW j \in 1 .. (stop - 1)
  PROVE  /\ j \in 1 .. Len(parts) /\ parts[j].n \in 0 .. INT_MAX /\ parts[j].unit \in Units
         /\ \A i \in 1 .. (j - 1) : parts[i].unit # parts[j].unit
<1>1. Len(parts) \in Nat /\ stop \in 1 .. (Len(parts) + 1)
  BY DEF AgeParts, IsStop
<1>2. ~StopsAt(parts, err, j)
  BY DEF IsStop
<1>3. QED
  BY <1>1, <1>2 DEF StopsAt, Refuses, GivenBefore

\* A line that says an age is read to its end.
LEMMA SaidIsRead ==
  ASSUME NEW parts \in AgeParts, NEW stop, IsStop(parts, FALSE, stop),
         \A i \in DOMAIN parts : parts[i].n \in 0 .. INT_MAX /\ parts[i].unit \in Units,
         \A i, j \in DOMAIN parts : parts[i].unit = parts[j].unit => i = j
  PROVE  stop = Len(parts) + 1
<1>1. Len(parts) \in Nat /\ stop \in 1 .. (Len(parts) + 1) /\ DOMAIN parts = 1 .. Len(parts)
  BY DEF AgeParts, IsStop
<1>2. SUFFICES ASSUME stop \in 1 .. Len(parts) PROVE FALSE
  BY <1>1
<1>3. parts[stop].n \in 0 .. INT_MAX /\ parts[stop].unit \in Units
  BY <1>1, <1>2
<1>4. parts[stop].unit # "end"
  BY <1>3 DEF Units
<1>5. ~Overflows(parts[stop].n)
  <2>1. PICK n : n = parts[stop].n /\ n \in 0 .. INT_MAX
    BY <1>3, Zenon
  <2>5. INT_MAX \in Int /\ INT_MAX = 1000
    BY DEF INT_MAX
  <2>6. n \in 0 .. 1000
    BY <2>1, <2>5, Zenon
  <2>2. n \in Int /\ 0 <= n /\ n <= 1000
    BY ONLY <2>6, SMT
  <2>3. ~(n > 2000) /\ ~(n < (-2000) - 1)
    BY <2>2, SMT
  <2>4. QED
    BY <2>1, <2>3 DEF Overflows, LONG_MAX
<1>6. GivenBefore(parts, stop)
  BY <1>1, <1>2, <1>3, <1>4, <1>5 DEF IsStop, StopsAt, Refuses
<1>7. PICK i \in 1 .. (stop - 1) : parts[i].unit = parts[stop].unit
  BY <1>6 DEF GivenBefore
<1>8. i \in DOMAIN parts /\ stop \in DOMAIN parts /\ i # stop
  BY <1>1, <1>2, <1>7
<1>9. QED
  BY <1>7, <1>8

AgePart(of, u) == IF of[u] = Unset THEN <<>> ELSE <<[n |-> of[u], unit |-> u]>>
\* What is written of an age: the units of us that are given, each once.
GivenOf(of, us, ws) ==
  /\ ws \in Seq([n : Int, unit : Units])
  /\ \A i \in DOMAIN ws : ws[i].unit \in us /\ of[ws[i].unit] # Unset /\ ws[i].n = of[ws[i].unit]
  /\ \A i, j \in DOMAIN ws : ws[i].unit = ws[j].unit => i = j
  /\ \A u \in us : of[u] # Unset => \E i \in DOMAIN ws : ws[i].unit = u

LEMMA NextIsGiven ==
  ASSUME NEW of \in [Units -> Int], NEW us, NEW u \in Units, u \notin us, NEW ws, GivenOf(of, us, ws),
         NEW all, all = ws \o AgePart(of, u)
  PROVE  GivenOf(of, us \cup {u}, all)
<1>1. ws \in Seq([n : Int, unit : Units]) /\ Len(ws) \in Nat /\ DOMAIN ws = 1 .. Len(ws)
  BY DEF GivenOf
<1>2. CASE of[u] = Unset
  <2>1. all = ws
    BY <1>1, <1>2, ConcatEmptySeq DEF AgePart
  <2>2. QED
    BY <1>2, <2>1 DEF GivenOf
<1>3. CASE of[u] # Unset
  <2> DEFINE p == [n |-> of[u], unit |-> u]
  <2>1. p \in [n : Int, unit : Units] /\ p.n = of[u] /\ p.unit = u
    OBVIOUS
  <2> HIDE DEF p
  <2>2. all = Append(ws, p)
    <3>1. all = ws \o <<p>>
      BY <1>3 DEF AgePart, p
    <3>2. QED
      BY <1>1, <2>1, <3>1, AppendIsConcat
  <2>3. /\ all \in Seq([n : Int, unit : Units]) /\ Len(all) = Len(ws) + 1
        /\ all[Len(ws) + 1] = p
        /\ \A i \in 1 .. Len(ws) : all[i] = ws[i]
    BY <1>1, <2>1, <2>2, AppendProperties
  <2>4. DOMAIN all = 1 .. Len(ws) + 1
    BY <2>3
  <2>5. ASSUME NEW i \in DOMAIN all
        PROVE  \/ i = Len(ws) + 1 /\ all[i] = p
               \/ i \in DOMAIN ws /\ all[i] = ws[i]
    BY <1>1, <2>3, <2>4
  <2>6. \A i \in DOMAIN all :
          all[i].unit \in us \cup {u} /\ of[all[i].unit] # Unset /\ all[i].n = of[all[i].unit]
    BY <1>3, <2>1, <2>5 DEF GivenOf
  <2>7. ASSUME NEW i \in DOMAIN all, NEW j \in DOMAIN all, all[i].unit = all[j].unit PROVE i = j
    <3>1. \A k \in DOMAIN ws : ws[k].unit # u
      BY DEF GivenOf
    <3>2. CASE i = Len(ws) + 1 /\ all[i] = p
      <4>1. all[j].unit = u
        BY <2>1, <2>7, <3>2
      <4>2. ~(j \in DOMAIN ws /\ all[j] = ws[j])
        BY <3>1, <4>1
      <4>3. QED
        BY <2>5, <3>2, <4>2
    <3>3. CASE i \in DOMAIN ws /\ all[i] = ws[i]
      <4>1. ws[i].unit # u
        BY <3>1, <3>3
      <4>2. ~(all[j] = p)
        BY <2>1, <2>7, <3>3, <4>1
      <4>3. j \in DOMAIN ws /\ all[j] = ws[j]
        BY <2>5, <4>2
      <4>4. QED
        BY <2>7, <3>3, <4>3 DEF GivenOf
    <3>4. QED
      BY <2>5, <3>2, <3>3
  <2>8. ASSUME NEW v \in us \cup {u}, of[v] # Unset PROVE \E i \in DOMAIN all : all[i].unit = v
    <3>1. CASE v = u
      <4>1. Len(ws) + 1 \in DOMAIN all
        BY <1>1, <2>4
      <4>2. QED
        BY <2>1, <2>3, <3>1, <4>1
    <3>2. CASE v \in us
      <4>1. PICK i \in DOMAIN ws : ws[i].unit = v
        BY <2>8, <3>2 DEF GivenOf
      <4>2. i \in DOMAIN all /\ all[i] = ws[i]
        BY <1>1, <2>3, <2>4
      <4>3. QED
        BY <4>1, <4>2
    <3>3. QED
      BY <3>1, <3>2
  <2>9. QED
    BY <2>3, <2>6, <2>7, <2>8 DEF GivenOf
<1>4. QED
  BY <1>2, <1>3

LEMMA WrittenIsGiven ==
  ASSUME NEW of \in [Units -> Int], NEW ws,
         ws = (AgePart(of, "Y") \o AgePart(of, "M")) \o AgePart(of, "D")
  PROVE  GivenOf(of, Units, ws)
<1>1. GivenOf(of, {}, <<>>)
  BY DEF GivenOf
<1>2. PICK y : y = AgePart(of, "Y")
  OBVIOUS
<1>3. y = <<>> \o y
  <2>1. "Y" \in Units /\ of["Y"] \in Int
    BY DEF Units
  <2>4. PICK p \in [n : Int, unit : Units] : p = [n |-> of["Y"], unit |-> "Y"]
    BY <2>1
  <2>5. <<p>> \in Seq([n : Int, unit : Units]) /\ <<>> \in Seq([n : Int, unit : Units])
    BY <2>4
  <2>3. y \in Seq([n : Int, unit : Units])
    BY <1>2, <2>4, <2>5, Zenon DEF AgePart
  <2>2. QED
    BY <2>3, ConcatEmptySeq
<1>4. GivenOf(of, {"Y"}, y)
  <2>1. y = <<>> \o AgePart(of, "Y")
    BY <1>2, <1>3
  <2>2. GivenOf(of, {} \cup {"Y"}, y)
    BY <1>1, <2>1, NextIsGiven DEF Units
  <2>3. QED
    BY <2>2
<1>5. PICK m : m = y \o AgePart(of, "M")
  OBVIOUS
<1>6. GivenOf(of, {"Y", "M"}, m)
  <2>1. GivenOf(of, {"Y"} \cup {"M"}, m)
    BY <1>4, <1>5, NextIsGiven DEF Units
  <2>2. QED
    BY <2>1
<1>7. GivenOf(of, {"Y", "M"} \cup {"D"}, ws)
  BY <1>2, <1>5, <1>6, NextIsGiven DEF Units
<1>8. QED
  BY <1>7 DEF Units

-----------------------------------------------------------------------------
(* The last age is what its line says.                                     *)

\* a is the age of line l, and e what is in errno then.
IsAge(l, err, a, e) == gedcom_parse_age(l, err) = [age |-> a, erange |-> e]
HasBeenRead == \E err \in BOOLEAN : IsAge(age_line, err, age, erange)
AgeInv ==
  /\ erange \in BOOLEAN
  /\ \/ age_line = NoLine /\ age = init_age
     \/ age_line \in AgeLines /\ HasBeenRead

\* What is read of an age that is numeric, a word, or neither.
NumericAge(l, r) ==
  [type |-> IF r.refused THEN "UNRECOGNIZED" ELSE "NUMERIC", mod |-> l.mod, of |-> r.of]
WordAge(l, type) == [type |-> type, mod |-> l.mod, of |-> NoUnits]

LEMMA AgeKinds ==
  ASSUME NEW l, NEW err \in BOOLEAN, NEW a, NEW e, IsAge(l, err, a, e)
  PROVE  /\ l.parts # <<>> => /\ e = parse_numeric_age(l.parts, err).erange
                              /\ a = NumericAge(l, parse_numeric_age(l.parts, err))
         /\ l.parts = <<>> /\ l.word \in Words /\ l.mod = "" => e = err /\ a = WordAge(l, l.word)
         /\ l.parts = <<>> /\ ~(l.word \in Words /\ l.mod = "") => e = err /\ a = WordAge(l, "UNRECOGNIZED")
<1> DEFINE modified == [init_age EXCEPT !.mod = l.mod]
           numeric == parse_numeric_age(l.parts, err)
           answer == gedcom_parse_age(l, err)
<1>1. answer.age = a /\ answer.erange = e
  BY DEF IsAge
<1>2. modified = [type |-> "UNRECOGNIZED", mod |-> l.mod, of |-> NoUnits]
  <2>1. PICK m, f, t, n : m = l.mod /\ f = NoUnits /\ t = "UNRECOGNIZED" /\ n = ""
    OBVIOUS
  <2>2. [[type |-> t, mod |-> n, of |-> f] EXCEPT !.mod = m] = [type |-> t, mod |-> m, of |-> f]
    OBVIOUS
  <2>3. QED
    BY <2>1, <2>2 DEF init_age
<1>3. ASSUME l.parts # <<>>
      PROVE  /\ e = numeric.erange
             /\ a = NumericAge(l, numeric)
  <2>1. answer = [age |-> [modified EXCEPT !.type = IF numeric.refused THEN @ ELSE "NUMERIC", !.of = numeric.of],
                  erange |-> numeric.erange]
    BY <1>3, Zenon DEF gedcom_parse_age
  <2> HIDE DEF answer, numeric
  <2>2. QED
    BY <1>1, <1>2, <2>1 DEF NumericAge
<1>4. ASSUME l.parts = <<>>, l.word \in Words, l.mod = ""
      PROVE  e = err /\ a = WordAge(l, l.word)
  <2>1. answer = [age |-> [modified EXCEPT !.type = l.word], erange |-> err]
    BY <1>4, Zenon DEF gedcom_parse_age
  <2> HIDE DEF answer
  <2>2. QED
    BY <1>1, <1>2, <2>1 DEF WordAge
<1>5. ASSUME l.parts = <<>>, ~(l.word \in Words /\ l.mod = "")
      PROVE  e = err /\ a = WordAge(l, "UNRECOGNIZED")
  <2>1. answer = [age |-> modified, erange |-> err]
    BY <1>5, Zenon DEF gedcom_parse_age
  <2> HIDE DEF answer
  <2>2. QED
    BY <1>1, <1>2, <2>1 DEF WordAge
<1>6. QED
  BY <1>3, <1>4, <1>5

LEMMA AgeIsAnswered ==
  ASSUME NEW l, AgeLine(l), NEW err \in BOOLEAN
  PROVE  \E a, e : e \in BOOLEAN /\ IsAge(l, err, a, e)
<1> DEFINE modified == [init_age EXCEPT !.mod = l.mod]
           numeric == parse_numeric_age(l.parts, err)
<1>1. CASE l.parts # <<>>
  <2>1. gedcom_parse_age(l, err) =
          [age |-> [modified EXCEPT !.type = IF numeric.refused THEN @ ELSE "NUMERIC", !.of = numeric.of],
           erange |-> numeric.erange]
    BY <1>1, Zenon DEF gedcom_parse_age
  <2>2. l.parts \in AgeParts
    BY DEF AgeLine, AgeParts, AgePartSet
  <2>3. numeric.erange \in BOOLEAN
    BY <2>2, AgeIsRead DEF IsReadTo
  <2> HIDE DEF modified, numeric
  <2>4. QED
    BY <2>1, <2>3, Zenon DEF IsAge
<1>2. CASE l.parts = <<>> /\ l.word \in Words /\ l.mod = ""
  <2>1. gedcom_parse_age(l, err) = [age |-> [modified EXCEPT !.type = l.word], erange |-> err]
    BY <1>2, Zenon DEF gedcom_parse_age
  <2> HIDE DEF modified
  <2>2. QED
    BY <2>1 DEF IsAge
<1>3. CASE l.parts = <<>> /\ ~(l.word \in Words /\ l.mod = "")
  <2>1. gedcom_parse_age(l, err) = [age |-> modified, erange |-> err]
    BY <1>3, Zenon DEF gedcom_parse_age
  <2> HIDE DEF modified
  <2>2. QED
    BY <2>1 DEF IsAge
<1>4. QED
  BY <1>1, <1>2, <1>3

LEMMA AInitFits == AInit => AgeInv
  BY DEF AInit, AgeInv

LEMMA ANextFits == AgeInv /\ [ANext]_avars => AgeInv'
<1>1. SUFFICES ASSUME AgeInv, [ANext]_avars PROVE AgeInv'
  OBVIOUS
<1>2. CASE UNCHANGED avars
  BY <1>1, <1>2 DEF AgeInv, HasBeenRead, IsAge, avars
<1>3. ASSUME NEW l \in AgeLines, ParseAge(l) PROVE AgeInv'
  <2>1. erange \in BOOLEAN
    BY <1>1 DEF AgeInv
  <2>2. PICK a, e : e \in BOOLEAN /\ IsAge(l, erange, a, e)
    BY <2>1, AgeIsAnswered, AgeLinesAssumption
  <2>3. age' = a /\ erange' = e /\ age_line' = l
    BY <1>3, <2>2 DEF ParseAge, IsAge
  <2>4. \E err \in BOOLEAN : IsAge(age_line', err, age', erange')
    BY <2>1, <2>2, <2>3
  <2>5. QED
    BY <2>2, <2>3, <2>4 DEF AgeInv, HasBeenRead, IsAge
<1>4. QED
  BY <1>1, <1>2, <1>3 DEF ANext

-----------------------------------------------------------------------------
\* What AgesAreKept says of a line l that was read as a, with e in errno.
SaysSo(l, a) == a.type = "NUMERIC" /\ \A i \in DOMAIN l.parts : a.of[l.parts[i].unit] = l.parts[i].n
Again(l, a, e) ==
  LET again == gedcom_parse_age(gedcom_age_to_string(a, l), e).age
  IN again.type = a.type /\ (a.type # "UNRECOGNIZED" => again = a)
SaidOnce(l, of) ==
  \A u \in Units : of[u] # Unset =>
    \E i \in DOMAIN l.parts : l.parts[i] = [n |-> of[u], unit |-> u]
                              /\ \A j \in DOMAIN l.parts : l.parts[j].unit = u => i = j
AgeIsKept(l, err, a, e) ==
  /\ ~e /\ l.parts # <<>> /\ Says(l) => SaysSo(l, a)
  /\ (a.type = "NUMERIC" => \E u \in Units : a.of[u] # Unset) => Again(l, a, e)
  /\ a.type = "NUMERIC" => SaidOnce(l, a.of)

LEMMA ReadAsSaid ==
  ASSUME NEW l, AgeLine(l), l.parts # <<>>, Says(l), NEW a, NEW r, NEW stop,
         IsStop(l.parts, FALSE, stop), IsReadTo(l.parts, FALSE, stop, r),
         a = [type |-> IF r.refused THEN "UNRECOGNIZED" ELSE "NUMERIC", mod |-> l.mod, of |-> r.of]
  PROVE  SaysSo(l, a) /\ ~r.refused
<1>1. l.parts \in AgeParts /\ Len(l.parts) \in Nat /\ DOMAIN l.parts = 1 .. Len(l.parts)
  <2>1. l.parts \in AgeParts
    BY DEF AgeLine, AgeParts, AgePartSet
  <2>2. QED
    BY <2>1, PartsLength
<1>2. stop = Len(l.parts) + 1
  BY <1>1, SaidIsRead DEF Says
<1>3. ~r.refused
  <2>1. ~(stop <= Len(l.parts))
    BY <1>1, <1>2
  <2>2. QED
    BY <2>1, Zenon DEF IsReadTo
<1>4. ASSUME NEW i \in DOMAIN l.parts PROVE r.of[l.parts[i].unit] = l.parts[i].n
  <2>1. i \in 1 .. (stop - 1) /\ l.parts[i].unit \in Units
    BY <1>1, <1>2 DEF Says
  <2>2. PICK j \in 1 .. (stop - 1) :
          l.parts[j].unit = l.parts[i].unit /\ r.of[l.parts[i].unit] = l.parts[j].n
    BY <2>1 DEF IsReadTo
  <2>3. i = j
    BY <1>1, <1>2, <2>1, <2>2 DEF Says
  <2>4. QED
    BY <2>2, <2>3
<1>5. QED
  BY <1>3, <1>4 DEF SaysSo

LEMMA NumericIsSaid ==
  ASSUME NEW l, AgeLine(l), NEW err \in BOOLEAN, NEW r, NEW stop, IsStop(l.parts, err, stop),
         IsReadTo(l.parts, err, stop, r), ~r.refused, l.parts # <<>>
  PROVE  /\ ~err /\ ~r.erange
         /\ \A u \in Units : r.of[u] # Unset => r.of[u] \in 0 .. INT_MAX
         /\ SaidOnce(l, r.of)
<1> DEFINE parts == l.parts
<1>1. /\ parts \in AgeParts /\ Len(parts) \in Nat /\ DOMAIN parts = 1 .. Len(parts)
      /\ Len(parts) > 0
      /\ \A i \in DOMAIN parts : parts[i].unit = "end" => i = Len(parts)
  <2>1. parts \in AgeParts /\ \A i \in DOMAIN parts : parts[i].unit = "end" => i = Len(parts)
    BY Zenon DEF AgeLine, AgeParts, AgePartSet
  <2>2. QED
    BY <2>1, PartsLength
<1>2. stop \in 1 .. (Len(parts) + 1)
  BY DEF IsStop
<1> HIDE DEF parts
<1>3. stop <= Len(parts) => parts[stop].unit = "end" /\ stop = Len(parts) /\ ~Refuses(parts, stop, err)
  <2>1. stop <= Len(parts) => ~Refuses(parts, stop, err)
    BY DEF IsReadTo, parts
  <2>2. StopsAt(parts, err, stop)
    BY DEF IsStop, parts
  <2>3. QED
    BY <1>1, <1>2, <2>1, <2>2 DEF StopsAt
<1>4. ~err
  <2>1. CASE stop = 1
    BY <1>1, <1>3, <2>1 DEF Refuses
  <2>2. CASE stop # 1
    <3>1. 1 \in 1 .. (stop - 1)
      BY <1>1, <1>2, <2>2
    <3>2. ~StopsAt(parts, err, 1)
      BY <3>1 DEF IsStop, parts
    <3>3. QED
      BY <3>2 DEF StopsAt, Refuses
  <2>3. QED
    BY <2>1, <2>2
<1>5. ~r.erange
  <2>1. stop <= Len(parts) => ~Overflows(parts[stop].n)
    BY <1>3 DEF Refuses
  <2>2. QED
    BY <1>4, <2>1 DEF IsReadTo, parts
<1>6. ASSUME NEW u \in Units, r.of[u] # Unset
      PROVE  /\ r.of[u] \in 0 .. INT_MAX
             /\ \E i \in DOMAIN parts : parts[i] = [n |-> r.of[u], unit |-> u]
                                        /\ \A j \in DOMAIN parts : parts[j].unit = u => i = j
  <2>1. PICK i \in 1 .. (stop - 1) : parts[i].unit = u /\ r.of[u] = parts[i].n
    BY <1>6 DEF IsReadTo, parts
  <2>2. /\ i \in 1 .. Len(parts) /\ parts[i].n \in 0 .. INT_MAX
        /\ \A k \in 1 .. (i - 1) : parts[k].unit # parts[i].unit
    BY <1>1, <2>1, PartsRead DEF parts
  <2>3. parts[i] \in AgePartSet
    BY <1>1, <2>2, ElementOfSeq DEF AgeParts
  <2>4. parts[i] = [n |-> r.of[u], unit |-> u]
    BY <2>1, <2>3 DEF AgePartSet
  <2>5. ASSUME NEW j \in DOMAIN parts, parts[j].unit = u PROVE i = j
    <3>1. parts[j].unit # "end"
      BY <2>5 DEF Units
    <3>2. j \in 1 .. (stop - 1)
      <4>1. j \in 1 .. Len(parts)
        BY <1>1
      <4>2. stop = Len(parts) + 1 \/ (stop = Len(parts) /\ j # stop)
        <5>1. CASE stop <= Len(parts)
          BY <1>3, <3>1, <5>1, Zenon
        <5>2. CASE ~(stop <= Len(parts))
          <6>1. PICK n \in Nat : n = Len(parts)
            BY <1>1
          <6>2. stop \in 1 .. (n + 1) /\ ~(stop <= n)
            BY <1>2, <5>2, <6>1
          <6>3. stop = n + 1
            BY ONLY <6>2, n \in Nat, SMT
          <6>4. QED
            BY <6>1, <6>3
        <5>3. QED
          BY <5>1, <5>2
      <4>3. PICK n \in Nat : n = Len(parts)
        BY <1>1
      <4>4. j \in 1 .. n /\ (stop = n + 1 \/ (stop = n /\ j # stop))
        BY <4>1, <4>2, <4>3
      <4>5. j \in 1 .. (stop - 1)
        BY ONLY <4>4, n \in Nat, SMT
      <4>6. QED
        BY <4>5
    <3>3. \A k \in 1 .. (j - 1) : parts[k].unit # parts[j].unit
      BY <1>1, <3>2, PartsRead DEF parts
    <3>4. QED
      BY <1>1, <2>1, <2>2, <2>5, <3>2, <3>3
  <2>6. QED
    BY <1>1, <2>1, <2>2, <2>4, <2>5
<1>7. QED
  BY <1>4, <1>5, <1>6 DEF parts, SaidOnce

\* What is written of a numeric age is read again.
LEMMA GivenParts ==
  ASSUME NEW of, NEW us, NEW ws, GivenOf(of, us, ws)
  PROVE  ws \in AgeParts
<1>1. ws \in Seq([n : Int, unit : Units]) /\ DOMAIN ws = 1 .. Len(ws) /\ Len(ws) \in Nat
  BY DEF GivenOf
<1>2. \A x \in [n : Int, unit : Units] : x \in AgePartSet
  BY DEF Units, AgePartSet
<1>3. \A i \in 1 .. Len(ws) : ws[i] \in AgePartSet
  BY <1>1, <1>2, ElementOfSeq
<1>4. QED
  BY <1>1, <1>3, SeqDef DEF AgeParts

LEMMA NumericIsReadAgain ==
  ASSUME NEW of \in [Units -> Int], \A u \in Units : of[u] # Unset => of[u] \in 0 .. INT_MAX,
         NEW v \in Units, of[v] # Unset,
         NEW ws, GivenOf(of, Units, ws), NEW r, r = parse_numeric_age(ws, FALSE)
  PROVE  ws # <<>> /\ ~r.refused /\ r.of = of
<1>1. ws \in AgeParts
  BY GivenParts
<1>2. Len(ws) \in Nat /\ DOMAIN ws = 1 .. Len(ws)
  BY <1>1, PartsLength
<1>3. PICK stop : IsStop(ws, FALSE, stop) /\ IsReadTo(ws, FALSE, stop, r)
  BY <1>1, AgeIsRead
<1>4. /\ \A i \in DOMAIN ws : ws[i].n \in 0 .. INT_MAX /\ ws[i].unit \in Units
      /\ \A i, j \in DOMAIN ws : ws[i].unit = ws[j].unit => i = j
  BY DEF GivenOf
<1>5. stop = Len(ws) + 1
  BY <1>1, <1>3, <1>4, SaidIsRead
<1>6. ws # <<>>
  <2>1. PICK i \in DOMAIN ws : ws[i].unit = v
    BY DEF GivenOf
  <2>2. QED
    BY <1>2, <2>1
<1>7. ~r.refused
  <2>1. ~(stop <= Len(ws))
    BY <1>2, <1>5
  <2>2. QED
    BY <1>3, <2>1, Zenon DEF IsReadTo
<1>8. ASSUME NEW u \in Units PROVE r.of[u] = of[u]
  <2>1. CASE of[u] = Unset
    <3>1. ASSUME NEW j \in 1 .. (stop - 1), ws[j].unit = u PROVE FALSE
      <4>1. j \in DOMAIN ws
        BY <1>2, <1>5, <3>1
      <4>2. of[ws[j].unit] # Unset
        BY <4>1 DEF GivenOf
      <4>3. QED
        BY <2>1, <3>1, <4>2
    <3>2. QED
      BY <1>3, <2>1, <3>1 DEF IsReadTo
  <2>2. CASE of[u] # Unset
    <3>1. PICK i \in DOMAIN ws : ws[i].unit = u
      BY <2>2 DEF GivenOf
    <3>2. i \in 1 .. (stop - 1)
      BY <1>2, <1>5
    <3>3. PICK j \in 1 .. (stop - 1) : ws[j].unit = u /\ r.of[u] = ws[j].n
      BY <1>3, <3>1, <3>2 DEF IsReadTo
    <3>4. j \in DOMAIN ws
      BY <1>2, <1>5
    <3>5. QED
      BY <3>3, <3>4 DEF GivenOf
  <2>3. QED
    BY <2>1, <2>2
<1>9. r.of \in [Units -> Int]
  BY <1>3 DEF IsReadTo
<1>10. r.of = of
  <2>1. PICK f \in [Units -> Int] : f = r.of
    BY <1>9
  <2>2. \A u \in Units : f[u] = of[u]
    BY <1>8, <2>1
  <2>3. f = of
    BY ONLY <2>2, f \in [Units -> Int], of \in [Units -> Int]
  <2>4. QED
    BY <2>1, <2>3
<1>11. QED
  BY <1>6, <1>7, <1>10

\* A line that is refused is refused again.
LEMMA RefusedAgain ==
  ASSUME NEW parts \in AgeParts, parts # <<>>, NEW err \in BOOLEAN, NEW r, r = parse_numeric_age(parts, err),
         r.refused, NEW e \in BOOLEAN, err => e, NEW s, s = parse_numeric_age(parts, e)
  PROVE  s.refused
<1>1. CASE e = err
  BY <1>1
<1>2. CASE e /\ ~err
  <2>1. Len(parts) \in Nat /\ Len(parts) > 0
    BY PartsLength
  <2>2. PICK stop : IsStop(parts, e, stop) /\ IsReadTo(parts, e, stop, s)
    BY AgeIsRead
  <2>3. \A i : StopsAt(parts, e, i) /\ Refuses(parts, i, e)
    BY <1>2 DEF StopsAt, Refuses
  <2>4. stop \in 1 .. (Len(parts) + 1) /\ \A j \in 1 .. (stop - 1) : FALSE
    BY <2>2, <2>3 DEF IsStop
  <2>5. stop <= Len(parts)
    <3>1. PICK n \in Nat : n = Len(parts)
      BY <2>1
    <3>2. ~(1 \in 1 .. (stop - 1))
      BY <2>4
    <3>3. n > 0 /\ stop \in 1 .. (n + 1)
      BY <2>1, <2>4, <3>1
    <3>4. stop <= n
      BY ONLY <3>2, <3>3, n \in Nat, SMT
    <3>5. QED
      BY <3>1, <3>4
  <2>6. QED
    BY <2>2, <2>3, <2>5, Zenon DEF IsReadTo
<1>3. QED
  BY <1>1, <1>2

LEMMA LineIsKept ==
  ASSUME NEW l, AgeLine(l), NEW err \in BOOLEAN, NEW a, NEW e \in BOOLEAN,
         IsAge(l, err, a, e)
  PROVE  AgeIsKept(l, err, a, e)
<1>1. l.parts \in AgeParts
  BY DEF AgeLine, AgeParts, AgePartSet
<1>2. CASE l.parts # <<>>
  <2>1. PICK r : /\ r = parse_numeric_age(l.parts, err) /\ e = r.erange
                 /\ a = NumericAge(l, r)
    BY <1>2, AgeKinds
  <2>2. PICK stop : IsStop(l.parts, err, stop) /\ IsReadTo(l.parts, err, stop, r)
    BY <1>1, <2>1, AgeIsRead
  <2>3. a.mod = l.mod /\ a.of = r.of /\ r.of \in [Units -> Int]
    BY <2>1, <2>2 DEF IsReadTo, NumericAge
  <2>4. ASSUME ~e, Says(l) PROVE SaysSo(l, a)
    <3>1. err = FALSE
      BY <2>1, <2>2, <2>4 DEF IsReadTo
    <3>2. QED
      <4>1. IsStop(l.parts, FALSE, stop) /\ IsReadTo(l.parts, FALSE, stop, r)
        BY <2>2, <3>1
      <4>2. QED
        BY <1>2, <2>1, <2>4, <4>1, ReadAsSaid DEF NumericAge
  <2>5. ASSUME a.type = "NUMERIC" PROVE ~r.refused
    BY <2>1, <2>5 DEF NumericAge
  <2>6. ASSUME a.type = "NUMERIC" PROVE SaidOnce(l, a.of)
    <3>1. SaidOnce(l, r.of)
      BY <1>2, <2>2, <2>5, <2>6, NumericIsSaid
    <3>2. QED
      BY <2>3, <3>1
  <2>7. ASSUME ~r.refused, NEW v \in Units, a.of[v] # Unset PROVE Again(l, a, e)
    <3>1. a.type = "NUMERIC"
      BY <2>1, <2>7 DEF NumericAge
    <3>2. e = FALSE /\ \A u \in Units : r.of[u] # Unset => r.of[u] \in 0 .. INT_MAX
      BY <1>2, <2>1, <2>2, <2>7, NumericIsSaid
    <3>3. PICK ws : ws = (AgePart(r.of, "Y") \o AgePart(r.of, "M")) \o AgePart(r.of, "D")
      OBVIOUS
    <3>4. GivenOf(r.of, Units, ws)
      BY <2>3, <3>3, WrittenIsGiven
    <3>5. PICK w : w = gedcom_age_to_string(a, l)
      OBVIOUS
    <3>6. w = [mod |-> a.mod, word |-> "", parts |-> ws]
      <4>1. gedcom_age_to_string(a, l)
              = [mod |-> a.mod, word |-> "",
                 parts |-> (AgePart(a.of, "Y") \o AgePart(a.of, "M")) \o AgePart(a.of, "D")]
        BY <3>1, Zenon DEF gedcom_age_to_string, AgePart
      <4>2. QED
        BY <2>3, <3>3, <3>5, <4>1
    <3>7. PICK s : s = parse_numeric_age(ws, FALSE)
      OBVIOUS
    <3>8. ws # <<>> /\ ~s.refused /\ s.of = r.of
      BY <2>3, <2>7, <3>2, <3>4, <3>7, NumericIsReadAgain
    <3>9. w.mod = l.mod /\ w.parts = ws
      BY <2>3, <3>6
    <3>10. PICK b, f : IsAge(w, FALSE, b, f)
      <4>1. ws \in AgeParts
        BY <3>4, GivenParts
      <4>2. gedcom_parse_age(w, FALSE) =
              [age |-> [[init_age EXCEPT !.mod = w.mod] EXCEPT !.type = IF parse_numeric_age(w.parts, FALSE).refused THEN @ ELSE "NUMERIC",
                                                               !.of = parse_numeric_age(w.parts, FALSE).of],
               erange |-> parse_numeric_age(w.parts, FALSE).erange]
        BY <3>8, <3>9, Zenon DEF gedcom_parse_age
      <4>3. QED
        BY <4>2, Zenon DEF IsAge
    <3>11. b = [type |-> "NUMERIC", mod |-> l.mod, of |-> r.of]
      <4>1. PICK t : /\ t = parse_numeric_age(w.parts, FALSE)
                     /\ b = NumericAge(w, t)
        BY <3>8, <3>9, <3>10, AgeKinds
      <4>2. QED
        BY <3>7, <3>8, <3>9, <4>1 DEF NumericAge
    <3>12. a = b
      BY <2>1, <2>7, <3>11 DEF NumericAge
    <3>13. gedcom_parse_age(gedcom_age_to_string(a, l), e).age = a
      <4>1. gedcom_parse_age(w, e) = [age |-> a, erange |-> f]
        BY <3>2, <3>10, <3>12, Zenon DEF IsAge
      <4>2. QED
        BY <3>5, <4>1
    <3>14. QED
      BY <3>13, Zenon DEF Again
  <2>8. ASSUME r.refused PROVE Again(l, a, e)
    <3>1. a.type = "UNRECOGNIZED"
      BY <2>1, <2>8 DEF NumericAge
    <3>2. gedcom_age_to_string(a, l) = l
      BY <3>1, Zenon DEF gedcom_age_to_string
    <3>3. PICK b, f : IsAge(l, e, b, f)
      BY AgeIsAnswered
    <3>4. PICK s : /\ s = parse_numeric_age(l.parts, e)
                   /\ b = NumericAge(l, s)
      BY <1>2, <3>3, AgeKinds
    <3>5. err => e
      BY <2>1, <2>2 DEF IsReadTo
    <3>6. s.refused
      BY <1>1, <1>2, <2>1, <2>8, <3>4, <3>5, RefusedAgain
    <3>7. b.type = "UNRECOGNIZED"
      BY <3>4, <3>6 DEF NumericAge
    <3>8. gedcom_parse_age(gedcom_age_to_string(a, l), e).age = b
      BY <3>2, <3>3 DEF IsAge
    <3>9. QED
      BY <3>1, <3>7, <3>8, Zenon DEF Again
  <2>9. r.refused \/ a.type = "NUMERIC"
    BY <2>1 DEF NumericAge
  <2>10. QED
    BY <2>4, <2>5, <2>6, <2>7, <2>8, <2>9, Zenon DEF AgeIsKept
<1>3. CASE l.parts = <<>> /\ l.word \in Words /\ l.mod = ""
  <2>1. e = err /\ a = WordAge(l, l.word)
    BY <1>3, AgeKinds
  <2>2. a.type = l.word /\ a.mod = ""
    BY <1>3, <2>1 DEF WordAge
  <2>3. a.type # "UNRECOGNIZED" /\ a.type # "NUMERIC"
    BY <1>3, <2>2 DEF Words
  <2>4. PICK w : w = gedcom_age_to_string(a, l)
    OBVIOUS
  <2>5. w = [mod |-> a.mod, word |-> a.type, parts |-> <<>>]
    BY <2>3, <2>4, Zenon DEF gedcom_age_to_string
  <2>6. w.parts = <<>> /\ w.word = l.word /\ w.mod = ""
    BY <2>2, <2>5
  <2>7. AgeLine(w)
    BY <1>3, <2>2, <2>5, <2>6 DEF AgeLine
  <2>8. PICK b, f : IsAge(w, e, b, f)
    BY <2>7, AgeIsAnswered
  <2>9. b = WordAge(w, w.word)
    BY <1>3, <2>6, <2>8, AgeKinds
  <2>10. b = a
    BY <1>3, <2>1, <2>6, <2>9 DEF WordAge
  <2>11. gedcom_parse_age(gedcom_age_to_string(a, l), e).age = a
    BY <2>4, <2>8, <2>10 DEF IsAge
  <2>12. QED
    BY <1>3, <2>3, <2>11, Zenon DEF AgeIsKept, Again
<1>4. CASE l.parts = <<>> /\ ~(l.word \in Words /\ l.mod = "")
  <2>1. e = err /\ a = WordAge(l, "UNRECOGNIZED")
    BY <1>4, AgeKinds
  <2>2. a.type = "UNRECOGNIZED"
    BY <2>1 DEF WordAge
  <2>3. gedcom_age_to_string(a, l) = l
    BY <2>2, Zenon DEF gedcom_age_to_string
  <2>4. gedcom_parse_age(gedcom_age_to_string(a, l), e).age = a
    BY <2>1, <2>3 DEF IsAge
  <2>5. "UNRECOGNIZED" # "NUMERIC"
    OBVIOUS
  <2>6. QED
    BY <1>4, <2>2, <2>4, <2>5, Zenon DEF AgeIsKept, Again
<1>5. QED
  BY <1>2, <1>3, <1>4

LEMMA InvKeepsAges == AgeInv => AgesAreKept
<1>1. SUFFICES ASSUME AgeInv PROVE AgesAreKept
  OBVIOUS
<1>2. CASE age_line = NoLine /\ age = init_age
  <2>1. age_line.parts = <<>> /\ age.type = "UNRECOGNIZED"
    BY <1>2 DEF NoLine, init_age
  <2>2. QED
    BY <1>2, <2>1 DEF AgesAreKept
<1>3. CASE age_line \in AgeLines /\ HasBeenRead
  <2>1. PICK err \in BOOLEAN : IsAge(age_line, err, age, erange)
    BY <1>3 DEF HasBeenRead
  <2>2. AgeLine(age_line) /\ erange \in BOOLEAN
    BY <1>1, <1>3, AgeLinesAssumption DEF AgeInv
  <2>3. AgeIsKept(age_line, err, age, erange)
    BY <2>1, <2>2, LineIsKept
  <2>4. QED
    BY <2>3 DEF AgeIsKept, AgesAreKept, SaysSo, Again, SaidOnce
<1>4. QED
  BY <1>1, <1>2, <1>3 DEF AgeInv

\* Every age of every line is kept, however many lines are read, and whatever
\* the numbers on them (gedcom_parse_age, gedcom_age_to_string).
THEOREM AgesAreAlwaysKept == ASpec => []AgesAreKept
  BY AInitFits, ANextFits, InvKeepsAges, PTL DEF ASpec
=============================================================================
