------------------------------ MODULE Almanac -------------------------------
(***************************************************************************)
(* What is known of the four calendars without any conversion: the lengths *)
(* of their months and which date follows which.  Dates are                *)
(* <<year, month, day>>; the conversions of Calendar.tla are checked       *)
(* against this.                                                           *)
(***************************************************************************)
EXTENDS Integers, Sequences

\* Years before year 1 count from -1 downwards.
Astronomical(y) == IF y < 0 THEN y + 1 ELSE y
NextYear(y) == IF y = -1 THEN 1 ELSE y + 1

LeapYear(cal, y) ==
  LET a == Astronomical(y)
  IN CASE cal = "GREGORIAN" -> a % 4 = 0 /\ (a % 100 # 0 \/ a % 400 = 0)
       [] cal = "JULIAN" -> a % 4 = 0
       [] cal = "FRENCH_REV" -> a % 4 = 3
       [] cal = "HEBREW" -> (7 * a + 1) % 19 < 7

LastMonth(cal) == IF cal \in {"GREGORIAN", "JULIAN"} THEN 12 ELSE 13

\* The months that a year has: a common Hebrew year has no second Adar.
HasMonth(cal, y, m) == m \in 1..LastMonth(cal) /\ (cal = "HEBREW" /\ m = 7 => LeapYear(cal, y))
FollowingMonth(cal, y, m) == IF HasMonth(cal, y, m + 1) THEN m + 1 ELSE m + 2

\* The days that a month may have; two lengths for Heshvan and Kislev.
Lengths(cal, y, m) ==
  CASE cal \in {"GREGORIAN", "JULIAN"} ->
         IF m = 2 THEN {IF LeapYear(cal, y) THEN 29 ELSE 28}
         ELSE {IF m \in {4, 6, 9, 11} THEN 30 ELSE 31}
    [] cal = "FRENCH_REV" ->
         IF m = 13 THEN {IF LeapYear(cal, y) THEN 6 ELSE 5} ELSE {30}
    [] cal = "HEBREW" ->
         CASE m \in {2, 3} -> {29, 30}
           [] m = 6 -> {IF LeapYear(cal, y) THEN 30 ELSE 29}
           [] m \in {1, 5, 8, 10, 12} -> {30}
           [] OTHER -> {29}

\* Date b may be the day after date a.
Follows(cal, a, b) ==
  \/ b = <<a[1], a[2], a[3] + 1>> /\ \E n \in Lengths(cal, a[1], a[2]) : a[3] < n
  \/ /\ a[3] \in Lengths(cal, a[1], a[2])
     /\ b = IF a[2] = LastMonth(cal) THEN <<NextYear(a[1]), 1, 1>>
            ELSE <<a[1], FollowingMonth(cal, a[1], a[2]), 1>>

\* The date certainly exists.
Exists(cal, y, m, d) ==
  /\ y # 0 /\ HasMonth(cal, y, m) /\ d >= 1
  /\ \A n \in Lengths(cal, y, m) : d <= n
  /\ CASE cal = "GREGORIAN" -> y > -4714
       [] cal = "JULIAN" -> y > -4713
       [] cal = "FRENCH_REV" -> y \in 1..14
       [] cal = "HEBREW" -> y >= 1
=============================================================================
