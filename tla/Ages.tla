-------------------------------- MODULE Ages --------------------------------
(***************************************************************************)
(* Ages (gedcom/age.c).  An age line is its modifier, its word ("" for a   *)
(* numeric age) and the parts of a numeric age, [n, unit].  Int stands for *)
(* INT_MAX, Long for LONG_MAX.                                             *)
(***************************************************************************)
EXTENDS Integers, Sequences

CONSTANTS AgeLines, \* the age lines read
          MaxAges   \* ages read

ASSUME AgesAssumption == MaxAges \in Nat

Units == {"Y", "M", "D"}

\* A numeric age begins with a digit, and only its last number can be at the
\* end of the line.
AgeLine(l) ==
  /\ l = [mod |-> l.mod, word |-> l.word, parts |-> l.parts]
  /\ l.parts \in Seq([n : Int, unit : Units \cup {"end", "other"}])
  /\ l.parts # <<>> => l.word = "" /\ l.parts[1].n >= 0
  /\ \A i \in DOMAIN l.parts : l.parts[i].unit = "end" => i = Len(l.parts)
ASSUME AgeLinesAssumption == \A l \in AgeLines : AgeLine(l)

VARIABLES
  age,    \* the struct age_value of the last line
  erange, \* errno = ERANGE; no function here clears errno
  ages,   \* ages read
  age_line \* the last line

avars == <<age, erange, ages, age_line>>

INT_MAX == 1000
LONG_MAX == 2000
Unset == -1
Words == {"CHILD", "INFANT", "STILLBORN"}
NoLine == [mod |-> "", word |-> "?", parts |-> <<>>]

NoUnits == [u \in Units |-> Unset]
init_age == [type |-> "UNRECOGNIZED", mod |-> "", of |-> NoUnits]

\* (Variant: a unit that comes twice is not noticed.)
NeverGiven(parts, i) == FALSE
\* The fields are -1 until a unit is given: no number is.
GivenBefore(parts, i) == \E j \in 1..(i - 1) : parts[j].unit = parts[i].unit
Overflows(n) == n > LONG_MAX \/ n < -LONG_MAX - 1
Refuses(parts, i, err) ==
  \/ err \/ Overflows(parts[i].n)
  \/ parts[i].n \notin 0..INT_MAX
  \/ parts[i].unit # "end" /\ (parts[i].unit \notin Units \/ GivenBefore(parts, i))

\* Part by part until one is refused; a number at the end of the line needs
\* no unit, and is lost.
parse_numeric_age(parts, err) ==
  LET Stops(i) == i = Len(parts) + 1 \/ parts[i].unit = "end" \/ Refuses(parts, i, err)
      stop == CHOOSE i \in 1..(Len(parts) + 1) : Stops(i) /\ \A j \in 1..(i - 1) : ~Stops(j)
      Read(u) == {j \in 1..(stop - 1) : parts[j].unit = u}
  IN [refused |-> stop <= Len(parts) /\ Refuses(parts, stop, err),
      of |-> [u \in Units |-> IF Read(u) = {} THEN Unset ELSE parts[CHOOSE j \in Read(u) : TRUE].n],
      erange |-> err \/ (stop <= Len(parts) /\ Overflows(parts[stop].n))]

\* The words are compared with the whole line: they take no modifier.
gedcom_parse_age(l, err) ==
  LET modified == [init_age EXCEPT !.mod = l.mod]
      numeric == parse_numeric_age(l.parts, err)
  IN CASE l.parts # <<>> ->
            [age |-> [modified EXCEPT !.type = IF numeric.refused THEN @ ELSE "NUMERIC",
                                      !.of = numeric.of],
             erange |-> numeric.erange]
       [] l.parts = <<>> /\ l.word \in Words /\ l.mod = "" ->
            [age |-> [modified EXCEPT !.type = l.word], erange |-> err]
       [] OTHER -> [age |-> modified, erange |-> err]

\* An unrecognized age is written as its phrase, the line it was read from.
gedcom_age_to_string(a, phrase) ==
  LET Part(u) == IF a.of[u] = Unset THEN <<>> ELSE <<[n |-> a.of[u], unit |-> u]>>
  IN CASE a.type = "UNRECOGNIZED" -> phrase
       [] a.type = "NUMERIC" ->
            [mod |-> a.mod, word |-> "", parts |-> Part("Y") \o Part("M") \o Part("D")]
       [] OTHER -> [mod |-> a.mod, word |-> a.type, parts |-> <<>>]

-----------------------------------------------------------------------------
AInit == age = init_age /\ erange = FALSE /\ ages = 0 /\ age_line = NoLine

ParseAge(l) ==
  LET read == gedcom_parse_age(l, erange)
  IN /\ ages < MaxAges
     /\ ages' = ages + 1
     /\ age' = read.age
     /\ erange' = read.erange
     /\ age_line' = l

ANext == \E l \in AgeLines : ParseAge(l)
ASpec == AInit /\ [][ANext]_avars

-----------------------------------------------------------------------------
\* What the line says: each number is in range and followed by a unit, which
\* no other number has.
Says(l) == /\ \A i \in DOMAIN l.parts : l.parts[i].n \in 0..INT_MAX /\ l.parts[i].unit \in Units
           /\ \A i, j \in DOMAIN l.parts : l.parts[i].unit = l.parts[j].unit => i = j

\* Until a number is beyond the range of long, an age that says so is
\* numeric, with the numbers of the line; and every age is written so that it
\* is read as the same age, unless its only number has no unit.
AgesAreKept ==
  /\ ~erange /\ age_line.parts # <<>> /\ Says(age_line) =>
       /\ age.type = "NUMERIC"
       /\ \A i \in DOMAIN age_line.parts : age.of[age_line.parts[i].unit] = age_line.parts[i].n
  /\ age_line # NoLine /\ (age.type = "NUMERIC" => \E u \in Units : age.of[u] # Unset) =>
       LET again == gedcom_parse_age(gedcom_age_to_string(age, age_line), erange).age
       IN again.type = age.type /\ (age.type # "UNRECOGNIZED" => again = age)
  /\ age.type = "NUMERIC" => \A u \in Units : age.of[u] # Unset =>
       \E i \in DOMAIN age_line.parts : age_line.parts[i] = [n |-> age.of[u], unit |-> u]
                                    /\ \A j \in DOMAIN age_line.parts : age_line.parts[j].unit = u => i = j
=============================================================================
