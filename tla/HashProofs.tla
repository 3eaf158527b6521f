----------------------------- MODULE HashProofs -----------------------------
(***************************************************************************)
(* Proofs about the extendible hash table, for every set of keys, every    *)
(* hash function and every size: that it is well-formed, and that its user *)
(* cannot tell it from a set of keys.                                      *)
(***************************************************************************)
EXTENDS Hash, FiniteSetTheorems, WellFoundedInduction, TLAPS

LEMMA Constants ==
  /\ NoKey \notin Keys /\ hkey \in [Keys -> Nat]
  /\ InitSize \in Nat /\ InitSize > 0 /\ InitSize % 2 = 0
  /\ MaxCount \in Nat /\ Inserts \in Nat
  BY HashAssumption

-----------------------------------------------------------------------------
(* Numbers.                                                                *)

\* A set of naturals has a least element.
LEMMA LeastOf ==
  ASSUME NEW S, S \subseteq Nat, S # {}
  PROVE  \E m \in S : \A i \in S : m <= i
<1> DEFINE R == OpToRel(<, Nat)
<1>1. IsWellFoundedOn(R, Nat)
  BY NatLessThanWellFounded
<1>2. \A k, l \in Nat : l < k => <<l, k>> \in R
  BY DEF OpToRel
<1> HIDE DEF R
<1>3. PICK m \in S : \A i \in S : ~ (<<i, m>> \in R)
  BY <1>1, WFMin
<1>4. ASSUME NEW i \in S PROVE m <= i
  <2>1. i \in Nat /\ m \in Nat
    BY <1>3
  <2>2. ~(i < m)
    BY <2>1, <1>2, <1>3
  <2>3. QED
    BY <2>1, <2>2
<1>5. QED
  BY <1>3, <1>4

LEMMA DivFacts ==
  ASSUME NEW v \in Nat, NEW n \in Nat, n > 0
  PROVE  /\ v % n \in 0 .. n - 1 /\ v \div n \in Nat
         /\ v = (n * (v \div n)) + (v % n)
  OBVIOUS

\* The quotient and the remainder are the only ones.
LEMMA RemainderIs ==
  ASSUME NEW n \in Nat, n > 0, NEW q \in Nat, NEW r \in 0 .. n - 1
  PROVE  ((n * q) + r) % n = r
  OBVIOUS

\* One more bit of a hash value does not change the lower ones.
LEMMA LowerBits ==
  ASSUME NEW v \in Nat, NEW n \in Nat, n > 0
  PROVE  /\ v % (2 * n) \in 0 .. (2 * n) - 1
         /\ (v % (2 * n)) % n = v % n
<1> DEFINE Q == v \div (2 * n)
           r == v % (2 * n)
<1>1. 2 * n \in Nat /\ 2 * n > 0
  OBVIOUS
<1>2. r \in 0 .. (2 * n) - 1 /\ Q \in Nat /\ v = ((2 * n) * Q) + r
  BY <1>1, DivFacts
<1> HIDE DEF Q, r
<1>3. CASE r < n
  <2>1. r \in 0 .. n - 1 /\ 2 * Q \in Nat
    BY <1>2, <1>3
  <2>2. v = (n * (2 * Q)) + r /\ r = (n * 0) + r
    BY <1>2
  <2>3. v % n = r
    BY <2>1, <2>2, RemainderIs
  <2>4. r % n = r
    BY <2>1, <2>2, RemainderIs
  <2>5. QED
    BY <1>2, <2>3, <2>4 DEF r
<1>4. CASE r >= n
  <2>1. r - n \in 0 .. n - 1 /\ (2 * Q) + 1 \in Nat
    BY <1>2, <1>4
  <2>2. v = (n * ((2 * Q) + 1)) + (r - n) /\ r = (n * 1) + (r - n)
    BY <1>2
  <2>3. v % n = r - n
    BY <2>1, <2>2, RemainderIs
  <2>4. ((n * 1) + (r - n)) % n = r - n
    <3>1. 1 \in Nat
      OBVIOUS
    <3>2. QED
      BY <2>1, <3>1, RemainderIs
  <2>5. r % n = r - n
    BY <2>2, <2>4
  <2>6. QED
    BY <1>2, <2>3, <2>5 DEF r
<1>5. r < n \/ r >= n
  BY <1>2
<1>6. QED
  BY <1>3, <1>4, <1>5

-----------------------------------------------------------------------------
(* One chain: a sequence of different keys.                                *)

Distinct(c) == \A i, j \in DOMAIN c : c[i] = c[j] => i = j

\* The key k of the chain and those after it.
From(k, c) == {c[i] : i \in PlaceOf(k, c) .. Len(c)}

LEMMA PlaceFacts ==
  ASSUME NEW c \in Seq(Keys), NEW k \in ToSet(c)
  PROVE  /\ PlaceOf(k, c) \in 1 .. Len(c)
         /\ c[PlaceOf(k, c)] = k
<1>1. \E i \in DOMAIN c : c[i] = k
  BY DEF ToSet
<1>2. PlaceOf(k, c) \in DOMAIN c /\ c[PlaceOf(k, c)] = k
  BY <1>1 DEF PlaceOf
<1>3. QED
  BY <1>2

LEMMA PlaceIs ==
  ASSUME NEW c \in Seq(Keys), Distinct(c), NEW i \in 1 .. Len(c)
  PROVE  c[i] \in ToSet(c) /\ PlaceOf(c[i], c) = i
<1>1. i \in DOMAIN c
  OBVIOUS
<1>2. c[i] \in ToSet(c)
  BY <1>1 DEF ToSet
<1>3. PlaceOf(c[i], c) \in DOMAIN c /\ c[PlaceOf(c[i], c)] = c[i]
  BY <1>2, PlaceFacts
<1>4. QED
  BY <1>1, <1>2, <1>3 DEF Distinct

LEMMA WithoutElement ==
  ASSUME NEW c \in Seq(Keys), NEW k \in ToSet(c)
  PROVE  /\ Without(k, c) \in Seq(Keys)
         /\ Len(Without(k, c)) = Len(c) - 1 /\ Len(c) - 1 \in Nat
         /\ \A j \in 1 .. Len(c) - 1 :
              Without(k, c)[j] = IF j < PlaceOf(k, c) THEN c[j] ELSE c[j + 1]
<1> DEFINE p == PlaceOf(k, c)
           n == Len(c) - 1
<1>1. p \in 1 .. Len(c)
  BY PlaceFacts
<1>2. n \in Nat
  BY <1>1
<1>3. \A j \in 1 .. n : j \in DOMAIN c /\ j + 1 \in DOMAIN c
  BY <1>1
<1>4. \A j \in 1 .. n : (IF j < p THEN c[j] ELSE c[j + 1]) \in Keys
  BY <1>3
<1>5. Without(k, c) = [j \in 1 .. n |-> IF j < p THEN c[j] ELSE c[j + 1]]
  BY DEF Without
<1> HIDE DEF p, n
<1>6. Without(k, c) \in [1 .. n -> Keys]
  BY <1>4, <1>5
<1>7. Without(k, c) \in Seq(Keys) /\ Len(Without(k, c)) = n
  BY <1>2, <1>6
<1>8. QED
  BY <1>2, <1>5, <1>7 DEF p, n

\* Where the keys of a chain are when one is taken out.
LEMMA WithoutPlaces ==
  ASSUME NEW c \in Seq(Keys), Distinct(c), NEW k \in ToSet(c), NEW i \in 1 .. Len(c),
         c[i] # k
  PROVE  LET j == IF i < PlaceOf(k, c) THEN i ELSE i - 1
         IN j \in 1 .. Len(c) - 1 /\ Without(k, c)[j] = c[i]
<1> DEFINE p == PlaceOf(k, c)
<1>1. p \in 1 .. Len(c) /\ c[p] = k
  BY PlaceFacts
<1>2. i # p
  BY <1>1
<1>3. \A j \in 1 .. Len(c) - 1 : Without(k, c)[j] = IF j < p THEN c[j] ELSE c[j + 1]
  BY WithoutElement
<1> HIDE DEF p
<1>4. CASE i < p
  BY <1>1, <1>3, <1>4 DEF p
<1>5. CASE i > p
  <2>1. i - 1 \in 1 .. Len(c) - 1 /\ ~(i - 1 < p) /\ (i - 1) + 1 = i /\ ~(i < p)
    BY <1>1, <1>5
  <2>2. QED
    BY <2>1, <1>3 DEF p
<1>6. QED
  BY <1>1, <1>2, <1>4, <1>5

LEMMA WithoutFacts ==
  ASSUME NEW c \in Seq(Keys), Distinct(c), NEW k \in ToSet(c)
  PROVE  /\ Without(k, c) \in Seq(Keys) /\ Distinct(Without(k, c))
         /\ ToSet(Without(k, c)) = ToSet(c) \ {k}
<1> DEFINE p == PlaceOf(k, c)
           d == Without(k, c)
           old(j) == IF j < p THEN j ELSE j + 1
<1>1. p \in 1 .. Len(c) /\ c[p] = k
  BY PlaceFacts
<1>2. /\ d \in Seq(Keys) /\ Len(d) = Len(c) - 1
      /\ \A j \in 1 .. Len(c) - 1 : d[j] = IF j < p THEN c[j] ELSE c[j + 1]
  BY WithoutElement
<1>3. DOMAIN d = 1 .. Len(c) - 1 /\ DOMAIN c = 1 .. Len(c)
  BY <1>2
<1> HIDE DEF p, d
<1>4. \A j \in DOMAIN d : old(j) \in DOMAIN c /\ old(j) # p /\ d[j] = c[old(j)]
  BY <1>1, <1>2, <1>3
<1>5. \A j, l \in DOMAIN d : old(j) = old(l) => j = l
  BY <1>1, <1>3
<1> HIDE DEF old
<1>6. Distinct(d)
  BY <1>4, <1>5 DEF Distinct
<1>7. ASSUME NEW x \in ToSet(d) PROVE x \in ToSet(c) \ {k}
  <2>1. PICK j \in DOMAIN d : x = d[j]
    BY DEF ToSet
  <2>2. x = c[old(j)] /\ old(j) \in DOMAIN c /\ old(j) # p
    BY <2>1, <1>4
  <2>3. x # k
    BY <2>2, <1>1, <1>3 DEF Distinct
  <2>4. QED
    BY <2>2, <2>3 DEF ToSet
<1>8. ASSUME NEW x \in ToSet(c), x # k PROVE x \in ToSet(d)
  <2>1. PICK i \in 1 .. Len(c) : x = c[i]
    BY <1>3 DEF ToSet
  <2>2. \E j \in 1 .. Len(c) - 1 : d[j] = x
    BY <2>1, <1>8, WithoutPlaces DEF d
  <2>3. QED
    BY <2>2, <1>3 DEF ToSet
<1>9. QED
  BY <1>2, <1>6, <1>7, <1>8 DEF d

\* The keys from another one on are the same without it.
LEMMA WithoutFrom ==
  ASSUME NEW c \in Seq(Keys), Distinct(c), NEW k \in ToSet(c), NEW x \in ToSet(c), x # k
  PROVE  From(x, Without(k, c)) = From(x, c) \ {k}
<1> DEFINE p == PlaceOf(k, c)
           d == Without(k, c)
           a == PlaceOf(x, c)
           new(i) == IF i < p THEN i ELSE i - 1
<1>1. p \in 1 .. Len(c) /\ c[p] = k /\ a \in 1 .. Len(c) /\ c[a] = x
  BY PlaceFacts
<1>2. d \in Seq(Keys) /\ Distinct(d) /\ Len(d) = Len(c) - 1 /\ DOMAIN d = 1 .. Len(c) - 1
  BY WithoutFacts, WithoutElement
<1>3. \A i \in 1 .. Len(c) : c[i] # k => new(i) \in 1 .. Len(c) - 1 /\ d[new(i)] = c[i]
  BY WithoutPlaces
<1>4. \A i \in 1 .. Len(c) : c[i] = k <=> i = p
  BY <1>1 DEF Distinct
<1> HIDE DEF p, d, a
<1>5. PlaceOf(x, d) = new(a)
  <2>1. new(a) \in 1 .. Len(d) /\ d[new(a)] = x
    BY <1>1, <1>2, <1>3
  <2> HIDE DEF new
  <2>2. QED
    BY <2>1, <1>2, PlaceIs
<1>6. ASSUME NEW y \in From(x, d) PROVE y \in From(x, c) \ {k}
  <2>1. PICK j \in new(a) .. Len(d) : y = d[j]
    BY <1>5 DEF From
  <2>2. j \in 1 .. Len(c) - 1
    BY <1>1, <1>2, <1>3, <2>1
  <2>3. PICK i \in 1 .. Len(c) : i # p /\ j = new(i)
    <3>1. CASE j < p
      BY <3>1, <2>2, <1>1
    <3>2. CASE j >= p
      BY <3>2, <2>2, <1>1
    <3>3. QED
      BY <3>1, <3>2, <2>2, <1>1
  <2>4. y = c[i] /\ c[i] # k
    BY <2>1, <2>3, <1>3, <1>4
  <2>5. a # p
    BY <1>1, <1>4
  <2>6. i >= a
    BY <2>1, <2>2, <2>3, <2>5, <1>1
  <2>7. QED
    BY <2>3, <2>4, <2>6, <1>1 DEF From, a
<1>7. ASSUME NEW y \in From(x, c), y # k PROVE y \in From(x, d)
  <2>1. PICK i \in a .. Len(c) : y = c[i]
    BY DEF From, a
  <2>2. i \in 1 .. Len(c) /\ i # p /\ a # p
    BY <2>1, <1>1, <1>4, <1>7
  <2>3. new(i) \in 1 .. Len(c) - 1 /\ d[new(i)] = y
    BY <2>1, <2>2, <1>3, <1>4
  <2>4. new(i) >= new(a)
    BY <2>1, <2>2, <1>1
  <2>5. QED
    BY <2>3, <2>4, <1>2, <1>5, <1>1 DEF From
<1>8. QED
  BY <1>6, <1>7 DEF d

\* The keys from the first on are all; those from the next on are those from
\* this one on, without it.
LEMMA FromFacts ==
  ASSUME NEW c \in Seq(Keys), Distinct(c)
  PROVE  /\ c # <<>> => c[1] \in ToSet(c) /\ From(c[1], c) = ToSet(c)
         /\ \A k \in ToSet(c) :
              /\ k \in From(k, c) /\ From(k, c) \subseteq ToSet(c)
              /\ PlaceOf(k, c) < Len(c) =>
                   /\ c[PlaceOf(k, c) + 1] \in ToSet(c)
                   /\ From(c[PlaceOf(k, c) + 1], c) = From(k, c) \ {k}
              /\ ~(PlaceOf(k, c) < Len(c)) => From(k, c) = {k}
<1>0. DOMAIN c = 1 .. Len(c) /\ Len(c) \in Nat
  OBVIOUS
<1>1. ASSUME c # <<>> PROVE c[1] \in ToSet(c) /\ From(c[1], c) = ToSet(c)
  <2>1. 1 \in 1 .. Len(c)
    BY <1>1
  <2>2. c[1] \in ToSet(c) /\ PlaceOf(c[1], c) = 1
    BY <2>1, PlaceIs
  <2>3. QED
    BY <2>2, <1>0 DEF From, ToSet
<1>2. ASSUME NEW k \in ToSet(c)
      PROVE  /\ k \in From(k, c) /\ From(k, c) \subseteq ToSet(c)
             /\ PlaceOf(k, c) < Len(c) =>
                  /\ c[PlaceOf(k, c) + 1] \in ToSet(c)
                  /\ From(c[PlaceOf(k, c) + 1], c) = From(k, c) \ {k}
             /\ ~(PlaceOf(k, c) < Len(c)) => From(k, c) = {k}
  <2> DEFINE p == PlaceOf(k, c)
  <2>1. p \in 1 .. Len(c) /\ c[p] = k
    BY PlaceFacts
  <2>2. From(k, c) = {c[i] : i \in p .. Len(c)}
    BY DEF From
  <2>3. \A i \in 1 .. Len(c) : c[i] = k => i = p
    BY <2>1 DEF Distinct
  <2> HIDE DEF p
  <2>4. k \in From(k, c)
    BY <2>1, <2>2, <1>0
  <2>5. From(k, c) \subseteq ToSet(c)
    BY <2>1, <2>2, <1>0 DEF ToSet
  <2>6. ASSUME p < Len(c)
        PROVE  c[p + 1] \in ToSet(c) /\ From(c[p + 1], c) = From(k, c) \ {k}
    <3>1. p + 1 \in 1 .. Len(c)
      BY <2>1, <2>6, <1>0
    <3>2. c[p + 1] \in ToSet(c) /\ PlaceOf(c[p + 1], c) = p + 1
      BY <3>1, PlaceIs
    <3>3. From(c[p + 1], c) = {c[i] : i \in p + 1 .. Len(c)}
      BY <3>2 DEF From
    <3>4. ASSUME NEW y \in From(k, c), y # k PROVE y \in {c[i] : i \in p + 1 .. Len(c)}
      <4>1. PICK i \in p .. Len(c) : y = c[i]
        BY <2>2
      <4>2. i # p
        BY <4>1, <3>4, <2>1
      <4>3. i \in p + 1 .. Len(c)
        BY <4>2, <2>1, <1>0
      <4>4. QED
        BY <4>1, <4>3
    <3>5. ASSUME NEW i \in p + 1 .. Len(c) PROVE c[i] \in From(k, c) \ {k}
      <4>1. i \in p .. Len(c) /\ i \in 1 .. Len(c) /\ i # p
        BY <2>1, <1>0
      <4>2. QED
        BY <4>1, <2>2, <2>3
    <3>6. QED
      BY <3>2, <3>3, <3>4, <3>5
  <2>7. ASSUME ~(p < Len(c)) PROVE From(k, c) = {k}
    <3>0. \A m \in Nat : \A q \in 1 .. m : ~(q < m) => q = m
      OBVIOUS
    <3>1. p = Len(c)
      BY <2>1, <2>7, <1>0, <3>0
    <3>2. \A i \in p .. Len(c) : i = p
      BY <3>1, <1>0
    <3>3. p \in p .. Len(c)
      BY <3>1, <1>0
    <3>4. QED
      BY <3>2, <3>3, <2>1, <2>2
  <2>8. QED
    BY <2>4, <2>5, <2>6, <2>7 DEF p
<1>3. QED
  BY <1>1, <1>2

LEMMA ConsFacts ==
  ASSUME NEW c \in Seq(Keys), Distinct(c), NEW k \in Keys, k \notin ToSet(c)
  PROVE  /\ <<k>> \o c \in Seq(Keys) /\ Distinct(<<k>> \o c)
         /\ ToSet(<<k>> \o c) = ToSet(c) \cup {k}
<1> DEFINE d == <<k>> \o c
<1>1. /\ d \in Seq(Keys) /\ Len(d) = Len(c) + 1 /\ DOMAIN d = 1 .. Len(c) + 1
      /\ d[1] = k /\ \A i \in 1 .. Len(c) : d[i + 1] = c[i]
  OBVIOUS
<1>2. Len(c) \in Nat /\ DOMAIN c = 1 .. Len(c) /\ \A i \in 1 .. Len(c) : c[i] # k
  BY DEF ToSet
<1>3. \A i \in DOMAIN d : i = 1 \/ (i - 1 \in 1 .. Len(c) /\ d[i] = c[i - 1])
  <2> HIDE DEF d
  <2>1. \A i \in 1 .. Len(c) + 1 : i = 1 \/ (i - 1 \in 1 .. Len(c) /\ (i - 1) + 1 = i)
    BY <1>2
  <2>2. QED
    BY <2>1, <1>1
<1> HIDE DEF d
<1>4. Distinct(d)
  <2> SUFFICES ASSUME NEW i \in DOMAIN d, NEW j \in DOMAIN d, d[i] = d[j]
               PROVE  i = j
    BY DEF Distinct
  <2>1. i = 1 <=> j = 1
    BY <1>1, <1>2, <1>3
  <2>2. CASE i # 1
    <3>1. i - 1 \in DOMAIN c /\ j - 1 \in DOMAIN c /\ c[i - 1] = c[j - 1]
      BY <1>2, <1>3, <2>1, <2>2
    <3>2. i - 1 = j - 1 /\ i \in Int /\ j \in Int
      BY <3>1, <1>1, <1>2 DEF Distinct
    <3>3. QED
      BY <3>2
  <2>3. QED
    BY <2>1, <2>2
<1>5. ToSet(d) = ToSet(c) \cup {k}
  <2>1. ASSUME NEW x \in ToSet(d) PROVE x \in ToSet(c) \cup {k}
    <3>1. PICK i \in DOMAIN d : x = d[i]
      BY DEF ToSet
    <3>2. QED
      BY <3>1, <1>1, <1>2, <1>3 DEF ToSet
  <2>2. ASSUME NEW x \in ToSet(c) PROVE x \in ToSet(d)
    <3>1. PICK i \in 1 .. Len(c) : x = c[i]
      BY <1>2 DEF ToSet
    <3>2. i + 1 \in DOMAIN d /\ d[i + 1] = x
      BY <3>1, <1>1, <1>2
    <3>3. QED
      BY <3>2 DEF ToSet
  <2>3. 1 \in DOMAIN d
    BY <1>1, <1>2
  <2>4. k \in ToSet(d)
    BY <2>3, <1>1 DEF ToSet
  <2>5. QED
    BY <2>1, <2>2, <2>4
<1>6. QED
  BY <1>1, <1>4, <1>5 DEF d

LEMMA ConcatFacts ==
  ASSUME NEW c \in Seq(Keys), Distinct(c), NEW e \in Seq(Keys), Distinct(e),
         ToSet(c) \cap ToSet(e) = {}
  PROVE  /\ c \o e \in Seq(Keys) /\ Distinct(c \o e)
         /\ ToSet(c \o e) = ToSet(c) \cup ToSet(e)
<1> DEFINE d == c \o e
           n == Len(c)
           m == Len(e)
<1>1. /\ d \in Seq(Keys) /\ DOMAIN d = 1 .. n + m /\ n \in Nat /\ m \in Nat
      /\ \A i \in 1 .. n + m : d[i] = IF i <= n THEN c[i] ELSE e[i - n]
      /\ DOMAIN c = 1 .. n /\ DOMAIN e = 1 .. m
  OBVIOUS
<1> HIDE DEF d, n, m
<1>2. \A i \in DOMAIN d : \/ i <= n /\ i \in DOMAIN c /\ d[i] = c[i]
                          \/ ~(i <= n) /\ i - n \in DOMAIN e /\ d[i] = e[i - n]
  BY <1>1
<1>3. \A i \in DOMAIN c, j \in DOMAIN e : c[i] # e[j]
  BY DEF ToSet
<1>4. Distinct(d)
  <2> SUFFICES ASSUME NEW i \in DOMAIN d, NEW j \in DOMAIN d, d[i] = d[j]
               PROVE  i = j
    BY DEF Distinct
  <2>1. i <= n <=> j <= n
    BY <1>2, <1>3
  <2>2. CASE i <= n
    BY <2>1, <2>2, <1>2 DEF Distinct
  <2>3. CASE ~(i <= n)
    <3>1. i - n = j - n
      BY <2>1, <2>3, <1>2 DEF Distinct
    <3>2. i \in Int /\ j \in Int
      BY <1>1
    <3>3. QED
      BY <3>1, <3>2, <1>1
  <2>4. QED
    BY <2>2, <2>3
<1>5. ASSUME NEW x \in ToSet(d) PROVE x \in ToSet(c) \cup ToSet(e)
  BY <1>2 DEF ToSet
<1>6. ASSUME NEW x \in ToSet(c) PROVE x \in ToSet(d)
  <2>1. PICK i \in 1 .. n : x = c[i]
    BY <1>1 DEF ToSet
  <2>2. i \in DOMAIN d /\ d[i] = x
    BY <2>1, <1>1
  <2>3. QED
    BY <2>2 DEF ToSet
<1>7. ASSUME NEW x \in ToSet(e) PROVE x \in ToSet(d)
  <2>1. PICK i \in 1 .. m : x = e[i]
    BY <1>1 DEF ToSet
  <2>2. n + i \in 1 .. n + m /\ ~(n + i <= n) /\ (n + i) - n = i
    BY <1>1
  <2>3. n + i \in DOMAIN d /\ d[n + i] = x
    BY <2>1, <2>2, <1>1
  <2>4. QED
    BY <2>3 DEF ToSet
<1>8. QED
  BY <1>1, <1>4, <1>5, <1>6, <1>7 DEF d

\* How many places there are from one on tells them apart, and takes every
\* value up to their number.
LEMMA Ranks ==
  ASSUME NEW n \in Nat, NEW S, S \subseteq 1 .. n
  PROVE  /\ IsFiniteSet(S) /\ Cardinality(S) \in Nat
         /\ \A p \in S : Cardinality({q \in S : q >= p}) \in 1 .. Cardinality(S)
         /\ \A p, r \in S : Cardinality({q \in S : q >= p}) = Cardinality({q \in S : q >= r})
                              => p = r
         /\ \A j \in 1 .. Cardinality(S) :
              \E p \in S : Cardinality({q \in S : q >= p}) = j
<1> DEFINE up(p) == {q \in S : q >= p}
           F == [p \in S |-> Cardinality(up(p))]
<1>0. IsFiniteSet(1 .. n)
  BY FS_Interval
<1>1. IsFiniteSet(S) /\ Cardinality(S) \in Nat
  BY <1>0, FS_Subset, FS_CardinalityType
<1>2. ASSUME NEW p \in S
      PROVE  IsFiniteSet(up(p)) /\ Cardinality(up(p)) \in 1 .. Cardinality(S)
  <2>1. up(p) \subseteq S /\ p \in up(p)
    OBVIOUS
  <2>2. IsFiniteSet(up(p)) /\ Cardinality(up(p)) <= Cardinality(S)
    BY <2>1, <1>1, FS_Subset
  <2>3. Cardinality(up(p)) \in Nat /\ Cardinality(up(p)) # 0
    BY <2>1, <2>2, FS_CardinalityType, FS_EmptySet
  <2>4. QED
    BY <2>2, <2>3, <1>1
<1>3. ASSUME NEW p \in S, NEW r \in S, p < r
      PROVE  Cardinality(up(r)) < Cardinality(up(p))
  <2>0. /\ \A x \in S : x \in Int /\ (x >= r => x >= p)
        /\ ~(p >= r) /\ p >= p
    BY <1>3
  <2>1. up(r) \subseteq up(p) /\ p \notin up(r) /\ p \in up(p)
    BY <2>0, <1>3
  <2>2. IsFiniteSet(up(r)) /\ IsFiniteSet(up(p))
    BY <1>2
  <2>3. up(r) # up(p)
    BY <2>1
  <2> HIDE DEF up
  <2>4. Cardinality(up(r)) <= Cardinality(up(p)) /\ Cardinality(up(r)) # Cardinality(up(p))
    BY <2>1, <2>2, <2>3, FS_Subset
  <2>5. Cardinality(up(r)) \in Nat /\ Cardinality(up(p)) \in Nat
    BY <2>2, FS_CardinalityType
  <2>6. QED
    BY <2>4, <2>5
<1>4. ASSUME NEW p \in S, NEW r \in S, Cardinality(up(p)) = Cardinality(up(r))
      PROVE  p = r
  <2>1. p \in Int /\ r \in Int
    OBVIOUS
  <2>2. Cardinality(up(p)) \in Int /\ Cardinality(up(r)) \in Int
    BY <1>2
  <2>3. ~(p < r) /\ ~(r < p)
    BY <1>3, <1>4, <2>2
  <2>4. QED
    BY <2>1, <2>3
<1>5. ASSUME NEW j \in 1 .. Cardinality(S)
      PROVE  \E p \in S : Cardinality(up(p)) = j
  <2>1. F \in Injection(S, 1 .. Cardinality(S))
    BY <1>2, <1>4 DEF Injection, IsInjective
  <2>2. IsFiniteSet(1 .. Cardinality(S)) /\ Cardinality(1 .. Cardinality(S)) = Cardinality(S)
    BY <1>1, FS_Interval
  <2>3. F \in Surjection(S, 1 .. Cardinality(S))
    BY <2>1, <2>2, <1>1, FS_Injection
  <2>4. QED
    BY <2>3 DEF Surjection
<1>6. QED
  BY <1>1, <1>2, <1>4, <1>5

LEMMA ReversedFacts ==
  ASSUME NEW c \in Seq(Keys), Distinct(c), NEW S, S \subseteq DOMAIN c
  PROVE  /\ Reversed(c, S) \in Seq(Keys) /\ Distinct(Reversed(c, S))
         /\ ToSet(Reversed(c, S)) = {c[p] : p \in S}
<1> DEFINE rank(p) == Cardinality({q \in S : q >= p})
           at(j) == CHOOSE p \in S : rank(p) = j
           m == Cardinality(S)
           d == Reversed(c, S)
<1>1. Len(c) \in Nat /\ DOMAIN c = 1 .. Len(c)
  OBVIOUS
<1>2. m \in Nat
  BY <1>1, Ranks
<1>3. \A p \in S : rank(p) \in 1 .. m
  BY <1>1, Ranks
<1>4. \A p, r \in S : rank(p) = rank(r) => p = r
  BY <1>1, Ranks
<1>5. \A j \in 1 .. m : \E p \in S : rank(p) = j
  BY <1>1, Ranks
<1>6. d = [j \in 1 .. m |-> c[at(j)]]
  BY DEF Reversed
<1> HIDE DEF rank, m, d
<1>7. \A j \in 1 .. m : at(j) \in S /\ rank(at(j)) = j
  BY <1>5
<1>8. \A p \in S : at(rank(p)) = p
  BY <1>3, <1>4, <1>7
<1> HIDE DEF at
<1>9. \A j \in 1 .. m : d[j] = c[at(j)] /\ d[j] \in Keys /\ at(j) \in DOMAIN c
  BY <1>6, <1>7
<1>10. d \in [1 .. m -> Keys]
  BY <1>6, <1>9
<1>11. d \in Seq(Keys) /\ DOMAIN d = 1 .. m
  BY <1>2, <1>10
<1>12. Distinct(d)
  BY <1>7, <1>9, <1>11 DEF Distinct
<1>13. ASSUME NEW x \in ToSet(d) PROVE x \in {c[p] : p \in S}
  BY <1>7, <1>9, <1>11 DEF ToSet
<1>14. ASSUME NEW p \in S PROVE c[p] \in ToSet(d)
  BY <1>3, <1>8, <1>9, <1>11 DEF ToSet
<1>15. QED
  BY <1>11, <1>12, <1>13, <1>14 DEF d

-----------------------------------------------------------------------------
(* The numbers of chains that a table can have: the first one, doubled any *)
(* number of times.                                                        *)

Sizes == {m \in Nat : \A S \in SUBSET Nat :
                        InitSize \in S /\ (\A x \in S : 2 * x \in S) => m \in S}

LEMMA SizesGrow ==
  /\ InitSize \in Sizes
  /\ \A m \in Sizes : m \in Nat /\ 2 * m \in Sizes
  BY Constants DEF Sizes

LEMMA SizesFacts ==
  ASSUME NEW m \in Sizes
  PROVE  /\ m \in Nat /\ m >= InitSize /\ m > 0
         /\ \E h \in Nat : m = 2 * h
         /\ m = InitSize \/ \E h \in Sizes : m = 2 * h
<1> DEFINE S == {x \in Sizes : /\ x >= InitSize
                               /\ \E h \in Nat : x = 2 * h
                               /\ x = InitSize \/ \E h \in Sizes : x = 2 * h}
<1>1. S \subseteq Nat
  BY SizesGrow
<1>2. InitSize \in S
  <2>1. \E h \in Nat : InitSize = 2 * h
    <3>1. InitSize \div 2 \in Nat /\ InitSize = (2 * (InitSize \div 2)) + (InitSize % 2)
      BY Constants, DivFacts
    <3>2. InitSize = 2 * (InitSize \div 2)
      BY <3>1, Constants
    <3>3. QED
      BY <3>1, <3>2
  <2>2. InitSize >= InitSize
    BY Constants
  <2>3. QED
    BY <2>1, <2>2, SizesGrow
<1>3. ASSUME NEW x \in S PROVE 2 * x \in S
  <2>1. x \in Sizes /\ x \in Nat /\ x >= InitSize /\ 2 * x \in Sizes
    BY SizesGrow
  <2>2. 2 * x >= InitSize
    BY <2>1, Constants
  <2>3. QED
    BY <2>1, <2>2
<1>4. m \in S
  <2> HIDE DEF S
  <2>1. S \in SUBSET Nat
    BY <1>1
  <2>2. QED
    BY <2>1, <1>2, <1>3 DEF Sizes
<1>5. m \in Nat /\ m >= InitSize /\ m > 0
  BY <1>4, <1>1, Constants
<1>6. QED
  BY <1>4, <1>5

-----------------------------------------------------------------------------
(* The chains of a table.                                                  *)

\* Every key is in the chain of its hash value, once.
Good(t) ==
  /\ t \in Seq(Seq(Keys)) /\ Len(t) \in Sizes
  /\ \A i \in DOMAIN t : Distinct(t[i]) /\ \A k \in ToSet(t[i]) : hkey[k] % Len(t) = i - 1

All(t) == UNION {ToSet(t[i]) : i \in DOMAIN t}
IndexOf(k, n) == (hkey[k] % n) + 1

LEMMA GoodFrom ==
  ASSUME NEW n \in Sizes, NEW u \in [1 .. n -> Seq(Keys)],
         \A i \in 1 .. n : Distinct(u[i]) /\ \A k \in ToSet(u[i]) : hkey[k] % n = i - 1
  PROVE  Good(u) /\ Len(u) = n /\ DOMAIN u = 1 .. n
<1>1. n \in Nat
  BY SizesGrow
<1>2. u \in Seq(Seq(Keys)) /\ Len(u) = n /\ DOMAIN u = 1 .. n
  BY <1>1
<1>3. QED
  BY <1>2 DEF Good

LEMMA GoodFacts ==
  ASSUME NEW t, Good(t)
  PROVE  /\ Len(t) \in Sizes /\ Len(t) \in Nat /\ Len(t) > 0
         /\ DOMAIN t = 1 .. Len(t) /\ t \in [1 .. Len(t) -> Seq(Keys)]
         /\ All(t) \subseteq Keys
         /\ \A i \in 1 .. Len(t) : /\ t[i] \in Seq(Keys) /\ Distinct(t[i])
                                   /\ ToSet(t[i]) \subseteq All(t)
                                   /\ \A k \in ToSet(t[i]) : IndexOf(k, Len(t)) = i
<1>1. Len(t) \in Sizes /\ t \in Seq(Seq(Keys))
  BY DEF Good
<1>2. Len(t) \in Nat /\ Len(t) > 0
  BY <1>1, SizesFacts
<1>3. DOMAIN t = 1 .. Len(t) /\ t \in [1 .. Len(t) -> Seq(Keys)]
  BY <1>1
<1>4. \A i \in 1 .. Len(t) : t[i] \in Seq(Keys) /\ Distinct(t[i])
  BY <1>3 DEF Good
<1>5. ASSUME NEW c \in Seq(Keys) PROVE ToSet(c) \subseteq Keys
  BY DEF ToSet
<1>6. All(t) \subseteq Keys
  BY <1>3, <1>4, <1>5 DEF All
<1>7. \A i \in 1 .. Len(t) : ToSet(t[i]) \subseteq All(t)
  BY <1>3 DEF All
<1>8. ASSUME NEW i \in 1 .. Len(t), NEW k \in ToSet(t[i])
      PROVE  IndexOf(k, Len(t)) = i
  <2>1. hkey[k] % Len(t) = i - 1
    BY <1>3 DEF Good
  <2>2. \A j \in 1 .. Len(t) : (j - 1) + 1 = j
    OBVIOUS
  <2>3. QED
    BY <2>1, <2>2 DEF IndexOf
<1>9. QED
  BY <1>1, <1>2, <1>3, <1>4, <1>6, <1>7, <1>8

LEMMA IndexFacts ==
  ASSUME NEW n \in Nat, n > 0, NEW k \in Keys
  PROVE  /\ hkey[k] \in Nat /\ hkey[k] % n \in 0 .. n - 1
         /\ IndexOf(k, n) \in 1 .. n /\ IndexOf(k, n) - 1 = hkey[k] % n
<1>1. hkey[k] \in Nat
  BY Constants
<1>2. hkey[k] % n \in 0 .. n - 1
  BY <1>1, DivFacts
<1>3. QED
  BY <1>1, <1>2 DEF IndexOf

\* Where a key is, if the table has it.
LEMMA WhereIs ==
  ASSUME NEW t, Good(t), NEW k \in Keys
  PROVE  k \in All(t) <=> k \in ToSet(t[IndexOf(k, Len(t))])
<1>1. IndexOf(k, Len(t)) \in 1 .. Len(t)
  BY GoodFacts, IndexFacts
<1>2. ASSUME k \in All(t) PROVE k \in ToSet(t[IndexOf(k, Len(t))])
  <2>1. PICK i \in 1 .. Len(t) : k \in ToSet(t[i])
    BY <1>2, GoodFacts DEF All
  <2>2. QED
    BY <2>1, GoodFacts
<1>3. QED
  BY <1>1, <1>2, GoodFacts

\* A chain that changes for another one of the same keys, without one or
\* with one more of its own.
LEMMA OneChain ==
  ASSUME NEW t, Good(t), NEW i \in 1 .. Len(t), NEW c \in Seq(Keys), Distinct(c),
         \A k \in ToSet(c) : IndexOf(k, Len(t)) = i
  PROVE  LET u == [t EXCEPT ![i] = c]
         IN /\ Good(u) /\ Len(u) = Len(t)
            /\ \A k \in Keys : k \in All(u) <=> IF IndexOf(k, Len(t)) = i THEN k \in ToSet(c)
                                               ELSE k \in All(t)
<1> DEFINE n == Len(t)
           u == [t EXCEPT ![i] = c]
<1>1. n \in Sizes /\ n \in Nat /\ n > 0 /\ DOMAIN t = 1 .. n /\ t \in [1 .. n -> Seq(Keys)]
  BY GoodFacts
<1>2. u \in [1 .. n -> Seq(Keys)] /\ u[i] = c /\ \A j \in 1 .. n : j # i => u[j] = t[j]
  BY <1>1
<1>3. ASSUME NEW j \in 1 .. n
      PROVE  Distinct(u[j]) /\ \A k \in ToSet(u[j]) : IndexOf(k, n) = j
  BY <1>2, GoodFacts
<1> HIDE DEF n, u
<1>4. ASSUME NEW j \in 1 .. n, NEW k \in ToSet(u[j])
      PROVE  hkey[k] % n = j - 1
  <2>1. u[j] \in Seq(Keys)
    BY <1>2
  <2>2. k \in Keys
    BY <2>1 DEF ToSet
  <2>3. QED
    BY <2>2, <1>1, <1>3, IndexFacts
<1>5. Good(u) /\ Len(u) = n
  BY <1>1, <1>2, <1>3, <1>4, GoodFrom
<1>6. ASSUME NEW k \in Keys
      PROVE  k \in All(u) <=> IF IndexOf(k, n) = i THEN k \in ToSet(c) ELSE k \in All(t)
  <2>1. IndexOf(k, n) \in 1 .. n
    BY <1>1, IndexFacts
  <2>2. k \in All(u) <=> k \in ToSet(u[IndexOf(k, n)])
    BY <1>5, WhereIs
  <2>3. k \in All(t) <=> k \in ToSet(t[IndexOf(k, n)])
    BY WhereIs DEF n
  <2>4. QED
    BY <2>1, <2>2, <2>3, <1>2
<1>7. QED
  BY <1>5, <1>6 DEF n, u

LEMMA PutFacts ==
  ASSUME NEW t, Good(t), NEW k \in Keys, k \notin All(t)
  PROVE  LET i == IndexOf(k, Len(t))
             u == [t EXCEPT ![i] = <<k>> \o t[i]]
         IN i \in DOMAIN t /\ Good(u) /\ Len(u) = Len(t) /\ All(u) = All(t) \cup {k}
<1> DEFINE i == IndexOf(k, Len(t))
           c == <<k>> \o t[i]
           u == [t EXCEPT ![i] = c]
<1>1. i \in 1 .. Len(t) /\ i \in DOMAIN t
  BY GoodFacts, IndexFacts
<1>2. t[i] \in Seq(Keys) /\ Distinct(t[i]) /\ k \notin ToSet(t[i])
  BY <1>1, GoodFacts
<1>3. c \in Seq(Keys) /\ Distinct(c) /\ ToSet(c) = ToSet(t[i]) \cup {k}
  BY <1>2, ConsFacts
<1>4. \A l \in ToSet(c) : IndexOf(l, Len(t)) = i
  BY <1>1, <1>3, GoodFacts
<1> HIDE DEF c, i
<1>5. /\ Good(u) /\ Len(u) = Len(t)
      /\ \A l \in Keys : l \in All(u) <=> IF IndexOf(l, Len(t)) = i THEN l \in ToSet(c)
                                          ELSE l \in All(t)
  BY <1>1, <1>3, <1>4, OneChain
<1>6. All(u) \subseteq Keys /\ All(t) \subseteq Keys
  BY <1>5, GoodFacts
<1> HIDE DEF u
<1>7. \A l \in Keys : l \in All(t) <=> l \in ToSet(t[IndexOf(l, Len(t))])
  BY WhereIs
<1>8. All(u) = All(t) \cup {k}
  BY <1>3, <1>5, <1>6, <1>7 DEF i
<1>9. QED
  BY <1>1, <1>5, <1>8 DEF i, c, u

LEMMA TakeFacts ==
  ASSUME NEW t, Good(t), NEW k \in All(t)
  PROVE  LET i == IndexOf(k, Len(t))
             u == [t EXCEPT ![i] = Without(k, t[i])]
         IN /\ i \in 1 .. Len(t) /\ k \in ToSet(t[i])
            /\ Good(u) /\ Len(u) = Len(t) /\ All(u) = All(t) \ {k}
<1> DEFINE i == IndexOf(k, Len(t))
           c == Without(k, t[i])
           u == [t EXCEPT ![i] = c]
<1>0. k \in Keys
  BY GoodFacts
<1>1. i \in 1 .. Len(t) /\ k \in ToSet(t[i])
  BY <1>0, GoodFacts, IndexFacts, WhereIs
<1>2. t[i] \in Seq(Keys) /\ Distinct(t[i])
  BY <1>1, GoodFacts
<1>3. c \in Seq(Keys) /\ Distinct(c) /\ ToSet(c) = ToSet(t[i]) \ {k}
  BY <1>1, <1>2, WithoutFacts
<1>4. \A l \in ToSet(c) : IndexOf(l, Len(t)) = i
  BY <1>1, <1>3, GoodFacts
<1> HIDE DEF c, i
<1>5. /\ Good(u) /\ Len(u) = Len(t)
      /\ \A l \in Keys : l \in All(u) <=> IF IndexOf(l, Len(t)) = i THEN l \in ToSet(c)
                                          ELSE l \in All(t)
  BY <1>1, <1>3, <1>4, OneChain
<1>6. All(u) \subseteq Keys /\ All(t) \subseteq Keys
  BY <1>5, GoodFacts
<1> HIDE DEF u
<1>7. \A l \in Keys : l \in All(t) <=> l \in ToSet(t[IndexOf(l, Len(t))])
  BY WhereIs
<1>8. All(u) = All(t) \ {k}
  BY <1>3, <1>5, <1>6, <1>7 DEF i
<1>9. QED
  BY <1>1, <1>5, <1>8 DEF i, c, u

-----------------------------------------------------------------------------
(* Growing and shrinking.                                                  *)

\* A table that has the same keys, each where it can be found.
LEMMA SameKeys ==
  ASSUME NEW t, Good(t), NEW u, Good(u),
         \A k \in Keys : k \in ToSet(u[IndexOf(k, Len(u))]) <=> k \in ToSet(t[IndexOf(k, Len(t))])
  PROVE  All(u) = All(t)
<1>1. \A k \in Keys : k \in All(u) <=> k \in All(t)
  BY WhereIs
<1>2. QED
  BY <1>1, GoodFacts

Split(t) ==
  LET n == Len(t)
      Source(i) == t[((i - 1) % n) + 1]
      Half(i) == {j \in DOMAIN Source(i) : hkey[Source(i)[j]] % (2 * n) = i - 1}
  IN [i \in 1 .. 2 * n |-> Reversed(Source(i), Half(i))]

LEMMA SplitFacts ==
  ASSUME NEW t, Good(t)
  PROVE  Good(Split(t)) /\ Len(Split(t)) = 2 * Len(t) /\ All(Split(t)) = All(t)
<1> DEFINE n == Len(t)
           Source(i) == t[((i - 1) % n) + 1]
           Half(i) == {j \in DOMAIN Source(i) : hkey[Source(i)[j]] % (2 * n) = i - 1}
           u == Split(t)
<1>1. n \in Sizes /\ n \in Nat /\ n > 0 /\ 2 * n \in Sizes /\ 2 * n \in Nat /\ 2 * n > 0
  BY GoodFacts, SizesGrow
<1>2. u = [i \in 1 .. 2 * n |-> Reversed(Source(i), Half(i))]
  BY DEF Split
<1> HIDE DEF n, u
<1>3. \A i \in 1 .. 2 * n : ((i - 1) % n) + 1 \in 1 .. n
  <2>1. \A i \in 1 .. 2 * n : i - 1 \in Nat
    BY <1>1
  <2>2. \A i \in 1 .. 2 * n : (i - 1) % n \in 0 .. n - 1
    BY <2>1, <1>1, DivFacts
  <2>3. \A r \in 0 .. n - 1 : r + 1 \in 1 .. n
    BY <1>1
  <2>4. QED
    BY <2>2, <2>3
<1>4. ASSUME NEW i \in 1 .. 2 * n
      PROVE  /\ u[i] \in Seq(Keys) /\ Distinct(u[i])
             /\ \A k \in Keys : k \in ToSet(u[i]) <=>
                  k \in ToSet(Source(i)) /\ hkey[k] % (2 * n) = i - 1
  <2> DEFINE c == Source(i)
             S == Half(i)
  <2>1. c \in Seq(Keys) /\ Distinct(c)
    BY <1>3, GoodFacts DEF n
  <2>2. S \subseteq DOMAIN c
    OBVIOUS
  <2>3. u[i] = Reversed(c, S)
    BY <1>2
  <2>4. S = {j \in DOMAIN c : hkey[c[j]] % (2 * n) = i - 1}
    OBVIOUS
  <2> HIDE DEF c, S
  <2>5. u[i] \in Seq(Keys) /\ Distinct(u[i]) /\ ToSet(u[i]) = {c[p] : p \in S}
    BY <2>1, <2>2, <2>3, ReversedFacts
  <2>6. \A k \in Keys : k \in ToSet(u[i]) <=> k \in ToSet(c) /\ hkey[k] % (2 * n) = i - 1
    BY <2>4, <2>5 DEF ToSet
  <2>7. QED
    BY <2>5, <2>6 DEF c
<1> HIDE DEF Half
<1>5. u \in [1 .. 2 * n -> Seq(Keys)]
  <2>1. u = [i \in 1 .. 2 * n |-> u[i]]
    BY <1>2
  <2>2. \A i \in 1 .. 2 * n : u[i] \in Seq(Keys)
    BY <1>4
  <2>3. QED
    BY <2>1, <2>2
<1>6. ASSUME NEW i \in 1 .. 2 * n
      PROVE  Distinct(u[i]) /\ \A k \in ToSet(u[i]) : hkey[k] % (2 * n) = i - 1
  <2>1. u[i] \in Seq(Keys)
    BY <1>4
  <2>2. ToSet(u[i]) \subseteq Keys
    BY <2>1 DEF ToSet
  <2>3. QED
    BY <2>2, <1>4
<1>7. Good(u) /\ Len(u) = 2 * n
  BY <1>1, <1>5, <1>6, GoodFrom
<1>8. ASSUME NEW k \in Keys
      PROVE  k \in ToSet(u[IndexOf(k, 2 * n)]) <=> k \in ToSet(t[IndexOf(k, n)])
  <2> DEFINE i == IndexOf(k, 2 * n)
  <2>1. i \in 1 .. 2 * n /\ i - 1 = hkey[k] % (2 * n)
    BY <1>1, IndexFacts
  <2>2. (i - 1) % n = hkey[k] % n
    BY <2>1, <1>1, IndexFacts, LowerBits
  <2>3. Source(i) = t[IndexOf(k, n)]
    BY <2>2 DEF IndexOf
  <2> HIDE DEF i, Source
  <2>4. k \in ToSet(u[i]) <=> k \in ToSet(Source(i))
    BY <2>1, <1>4
  <2>5. QED
    BY <2>3, <2>4 DEF i
<1>9. All(u) = All(t)
  BY <1>7, <1>8, SameKeys DEF n
<1>10. QED
  BY <1>7, <1>9 DEF n, u

Folded(t, n) == [i \in 1 .. n |-> t[i] \o t[i + n]]

LEMMA FoldedFacts ==
  ASSUME NEW t, Good(t), NEW n \in Sizes, Len(t) = 2 * n
  PROVE  Good(Folded(t, n)) /\ Len(Folded(t, n)) = n /\ All(Folded(t, n)) = All(t)
<1> DEFINE u == Folded(t, n)
<1>1. n \in Nat /\ n > 0 /\ Len(t) \in Nat
  BY SizesFacts, GoodFacts
<1>2. \A i \in 1 .. n : i \in 1 .. Len(t) /\ i + n \in 1 .. Len(t) /\ i # i + n
  BY <1>1
<1>3. u = [i \in 1 .. n |-> t[i] \o t[i + n]]
  BY DEF Folded
<1> HIDE DEF u
<1>4. ASSUME NEW i \in 1 .. n
      PROVE  /\ u[i] \in Seq(Keys) /\ Distinct(u[i])
             /\ ToSet(u[i]) = ToSet(t[i]) \cup ToSet(t[i + n])
  <2>1. ToSet(t[i]) \cap ToSet(t[i + n]) = {}
    BY <1>2, GoodFacts
  <2>2. /\ t[i] \in Seq(Keys) /\ Distinct(t[i])
        /\ t[i + n] \in Seq(Keys) /\ Distinct(t[i + n])
    BY <1>2, GoodFacts
  <2>3. u[i] = t[i] \o t[i + n]
    BY <1>3
  <2>4. QED
    BY <2>1, <2>2, <2>3, ConcatFacts
<1>5. u \in [1 .. n -> Seq(Keys)]
  <2>1. u = [i \in 1 .. n |-> u[i]]
    BY <1>3
  <2>2. QED
    BY <2>1, <1>4
\* The lower bits of a key that is in one of the two chains.
<1>6. ASSUME NEW k \in Keys
      PROVE  LET i == IndexOf(k, n)
             IN i \in 1 .. n /\ (IndexOf(k, Len(t)) = i \/ IndexOf(k, Len(t)) = i + n)
  <2> DEFINE v == hkey[k]
             w == v % (2 * n)
  <2>1. v \in Nat
    BY <1>1, IndexFacts
  <2>2. w \in 0 .. (2 * n) - 1 /\ w % n = v % n
    BY <2>1, <1>1, LowerBits
  <2>3. w % n = w \/ (w % n = w - n)
    <3> HIDE DEF w, v
    <3>1. CASE w < n
      <4>1. w \in 0 .. n - 1 /\ 0 \in Nat /\ (n * 0) + w = w
        BY <3>1, <2>2, <1>1
      <4>2. ((n * 0) + w) % n = w
        BY <4>1, <1>1, RemainderIs
      <4>3. QED
        BY <4>1, <4>2
    <3>2. CASE ~(w < n)
      <4>1. w - n \in 0 .. n - 1 /\ 1 \in Nat /\ (n * 1) + (w - n) = w
        BY <3>2, <2>2, <1>1
      <4>2. ((n * 1) + (w - n)) % n = w - n
        BY <4>1, <1>1, RemainderIs
      <4>3. QED
        BY <4>1, <4>2
    <3>3. QED
      BY <3>1, <3>2
  <2>4. IndexOf(k, n) = (w % n) + 1 /\ IndexOf(k, Len(t)) = w + 1
    BY <2>2 DEF IndexOf
  <2>5. IndexOf(k, n) \in 1 .. n
    BY <1>1, IndexFacts
  <2> HIDE DEF w, v
  <2>6. QED
    BY <2>2, <2>3, <2>4, <2>5, <1>1
<1>7. ASSUME NEW i \in 1 .. n, NEW k \in ToSet(u[i])
      PROVE  k \in Keys /\ hkey[k] % n = i - 1
  <2>1. k \in ToSet(t[i]) \/ k \in ToSet(t[i + n])
    BY <1>4
  <2>2. k \in Keys /\ (IndexOf(k, Len(t)) = i \/ IndexOf(k, Len(t)) = i + n)
    BY <2>1, <1>2, GoodFacts
  <2>3. IndexOf(k, n) \in 1 .. n /\ (IndexOf(k, Len(t)) = IndexOf(k, n)
                                     \/ IndexOf(k, Len(t)) = IndexOf(k, n) + n)
    BY <2>2, <1>6
  <2>4. IndexOf(k, n) = i
    BY <2>2, <2>3, <1>1
  <2>5. IndexOf(k, n) - 1 = hkey[k] % n
    BY <2>2, <1>1, IndexFacts
  <2>6. QED
    BY <2>2, <2>4, <2>5
<1>8. Good(u) /\ Len(u) = n
  BY <1>4, <1>5, <1>7, GoodFrom
<1>9. ASSUME NEW k \in Keys
      PROVE  k \in ToSet(u[IndexOf(k, n)]) <=> k \in ToSet(t[IndexOf(k, Len(t))])
  <2> DEFINE i == IndexOf(k, n)
  <2>1. i \in 1 .. n /\ (IndexOf(k, Len(t)) = i \/ IndexOf(k, Len(t)) = i + n)
    BY <1>6
  <2> HIDE DEF i
  <2>2. ToSet(u[i]) = ToSet(t[i]) \cup ToSet(t[i + n])
    BY <2>1, <1>4
  <2>3. i \in 1 .. Len(t) /\ i + n \in 1 .. Len(t)
    BY <2>1, <1>2
  <2>4. k \in ToSet(t[i]) => IndexOf(k, Len(t)) = i
    BY <2>3, GoodFacts
  <2>5. k \in ToSet(t[i + n]) => IndexOf(k, Len(t)) = i + n
    BY <2>3, GoodFacts
  <2>6. QED
    BY <2>1, <2>2, <2>4, <2>5 DEF i
<1>10. All(u) = All(t)
  BY <1>8, <1>9, SameKeys
<1>11. QED
  BY <1>8, <1>10 DEF u

-----------------------------------------------------------------------------
(* What a scan has still to return.                                        *)

\* The keys of the chains from number d on, and of those from key k of chain
\* d on.
Rest(t, d) == UNION {ToSet(t[c + 1]) : c \in d .. Len(t) - 1}
LeftFrom(t, d, k) == From(k, t[d + 1]) \cup Rest(t, d + 1)

LEMMA RestFacts ==
  ASSUME NEW t, Good(t)
  PROVE  /\ Rest(t, 0) = All(t)
         /\ \A d \in 0 .. Len(t) : /\ Rest(t, d) \subseteq All(t)
                                   /\ \A k \in Rest(t, d) : hkey[k] % Len(t) >= d
         /\ \A d \in 0 .. Len(t) - 1 : Rest(t, d) = ToSet(t[d + 1]) \cup Rest(t, d + 1)
<1> DEFINE n == Len(t)
<1>1. n \in Nat /\ n > 0 /\ DOMAIN t = 1 .. n
  BY GoodFacts
<1> HIDE DEF n
<1>2. /\ \A i \in 1 .. n : i - 1 \in 0 .. n - 1 /\ (i - 1) + 1 = i
      /\ \A d \in 0 .. n : \A c \in d .. n - 1 : c + 1 \in 1 .. n /\ c \in Nat /\ c >= d
  BY <1>1
<1>3. Rest(t, 0) = All(t)
  <2>1. ASSUME NEW x \in All(t) PROVE x \in Rest(t, 0)
    <3>1. PICK i \in 1 .. n : x \in ToSet(t[i])
      BY <1>1 DEF All
    <3>2. i - 1 \in 0 .. Len(t) - 1 /\ (i - 1) + 1 = i
      BY <1>2 DEF n
    <3>3. QED
      BY <3>1, <3>2 DEF Rest
  <2>2. ASSUME NEW x \in Rest(t, 0) PROVE x \in All(t)
    <3>1. PICK c \in 0 .. n - 1 : x \in ToSet(t[c + 1])
      BY DEF Rest, n
    <3>2. c + 1 \in DOMAIN t
      BY <1>1, <1>2
    <3>3. QED
      BY <3>1, <3>2 DEF All
  <2>3. QED
    BY <2>1, <2>2
<1>4. ASSUME NEW d \in 0 .. n, NEW k \in Rest(t, d)
      PROVE  k \in All(t) /\ hkey[k] % n >= d
  <2>1. PICK c \in d .. n - 1 : k \in ToSet(t[c + 1])
    BY DEF Rest, n
  <2>2. c + 1 \in 1 .. n /\ c \in Nat /\ c >= d
    BY <1>2
  <2>3. k \in All(t) /\ k \in Keys /\ IndexOf(k, n) = c + 1
    BY <2>1, <2>2, GoodFacts DEF n
  <2>4. hkey[k] % n = c
    BY <2>2, <2>3, <1>1, IndexFacts
  <2>5. QED
    BY <2>2, <2>3, <2>4
<1>5. ASSUME NEW d \in 0 .. n - 1
      PROVE  Rest(t, d) = ToSet(t[d + 1]) \cup Rest(t, d + 1)
  <2>1. \A c : c \in d .. n - 1 <=> c = d \/ c \in d + 1 .. n - 1
    BY <1>1
  <2>2. QED
    BY <2>1 DEF Rest, n
<1>6. QED
  BY <1>3, <1>4, <1>5 DEF n

Scans(t) == [chain : 0 .. Len(t) - 1, next : Keys \cup {NoKey}]
LeftOf(t, s) == IF s.next = NoKey THEN {} ELSE LeftFrom(t, s.chain, s.next)
\* The node to return is where the scan says.
OnTrack(t, s) == s \in Scans(t) /\ (s.next # NoKey => s.next \in ToSet(t[s.chain + 1]))

LEMMA LeftIs == Left = LeftOf(hash.table, scan)
  BY DEF Left, LeftOf, LeftFrom, From, Rest, Chain, nchains

LEMMA FirstFromFacts ==
  ASSUME NEW h, Good(h.table), NEW c \in 0 .. Len(h.table), scan \in Scans(h.table)
  PROVE  /\ OnTrack(h.table, FirstFrom(h, c))
         /\ LeftOf(h.table, FirstFrom(h, c)) = Rest(h.table, c)
<1> DEFINE t == h.table
           n == Len(t)
           N == {d \in c .. n - 1 : t[d + 1] # <<>>}
           m == CHOOSE d \in N : \A e \in N : d <= e
           s == FirstFrom(h, c)
<1>1. n \in Nat /\ n > 0 /\ c \in Nat /\ c <= n
  BY GoodFacts
<1>2. s = IF N = {} THEN [scan EXCEPT !.next = NoKey]
          ELSE [chain |-> m, next |-> t[m + 1][1]]
  BY DEF FirstFrom, Chain, nchains
<1> HIDE DEF N, m, s, n
<1>3. \A d \in c .. n - 1 : d \in Nat /\ d \in 0 .. n - 1 /\ d + 1 \in 1 .. n /\ t[d + 1] \in Seq(Keys)
  <2>1. \A d \in c .. n - 1 : d \in Nat /\ d \in 0 .. n - 1 /\ d + 1 \in 1 .. n
    BY <1>1
  <2>2. QED
    BY <2>1, GoodFacts DEF n
<1>4. ToSet(<<>>) = {}
  BY DEF ToSet
<1>5. CASE N = {}
  <2>1. \A d \in c .. n - 1 : t[d + 1] = <<>>
    BY <1>5 DEF N
  <2>2. Rest(t, c) = {}
    BY <2>1, <1>4 DEF Rest, n
  <2>3. s = [scan EXCEPT !.next = NoKey]
    BY <1>2, <1>5
  <2>4. s \in Scans(t) /\ s.next = NoKey
    BY <2>3 DEF Scans
  <2>5. QED
    BY <2>2, <2>4 DEF s, OnTrack, LeftOf
<1>6. CASE N # {}
  <2>1. N \subseteq Nat /\ N \subseteq c .. n - 1
    BY <1>3 DEF N
  <2>2. \E d \in N : \A e \in N : d <= e
    BY <2>1, <1>6, LeastOf
  <2>3. m \in N /\ \A e \in N : m <= e
    BY <2>2 DEF m
  <2>4. m \in c .. n - 1 /\ m \in Nat /\ m \in 0 .. n - 1 /\ m + 1 \in 1 .. n
        /\ t[m + 1] \in Seq(Keys) /\ t[m + 1] # <<>>
    BY <2>1, <2>3, <1>3 DEF N
  <2>5. s = [chain |-> m, next |-> t[m + 1][1]]
    BY <1>2, <1>6
  <2>6. Distinct(t[m + 1])
    BY <2>4, GoodFacts DEF n
  <2>7. t[m + 1][1] \in ToSet(t[m + 1]) /\ From(t[m + 1][1], t[m + 1]) = ToSet(t[m + 1])
    BY <2>4, <2>6, FromFacts
  <2>8. t[m + 1][1] \in Keys /\ t[m + 1][1] # NoKey
    BY <2>4, <2>7, Constants DEF ToSet
  <2>9. OnTrack(t, s)
    BY <2>4, <2>5, <2>7, <2>8 DEF OnTrack, Scans, n
  <2>10. LeftOf(t, s) = ToSet(t[m + 1]) \cup Rest(t, m + 1)
    BY <2>5, <2>7, <2>8 DEF LeftOf, LeftFrom
  <2>11. Rest(t, m) = ToSet(t[m + 1]) \cup Rest(t, m + 1)
    BY <2>4, RestFacts DEF n
  <2>12. Rest(t, c) = Rest(t, m)
    <3>1. ASSUME NEW x \in Rest(t, c) PROVE x \in Rest(t, m)
      <4>1. PICK d \in c .. n - 1 : x \in ToSet(t[d + 1])
        BY DEF Rest, n
      <4>2. t[d + 1] # <<>>
        BY <4>1, <1>4
      <4>3. d \in N
        BY <4>2 DEF N
      <4>4. m <= d
        BY <4>3, <2>3
      <4>5. d \in m .. n - 1
        BY <4>4, <2>4, <1>3, <1>1
      <4>6. QED
        BY <4>1, <4>5 DEF Rest, n
    <3>2. \A d \in m .. n - 1 : d \in c .. n - 1
      BY <2>4, <1>1
    <3>3. Rest(t, m) \subseteq Rest(t, c)
      BY <3>2 DEF Rest, n
    <3>4. QED
      BY <3>1, <3>3
  <2>13. QED
    BY <2>9, <2>10, <2>11, <2>12 DEF s
<1>7. QED
  BY <1>5, <1>6

LEMMA NodeAfterFacts ==
  ASSUME NEW h, Good(h.table), OnTrack(h.table, scan), scan.next # NoKey
  PROVE  /\ scan.next \in LeftOf(h.table, scan)
         /\ OnTrack(h.table, NodeAfter(h, scan.next))
         /\ LeftOf(h.table, NodeAfter(h, scan.next)) = LeftOf(h.table, scan) \ {scan.next}
<1> DEFINE t == h.table
           n == Len(t)
           k == scan.next
           d == scan.chain
           c == t[d + 1]
           p == PlaceOf(k, c)
           s == NodeAfter(h, k)
<1>1. n \in Nat /\ n > 0 /\ d \in 0 .. n - 1 /\ d \in Nat /\ k \in Keys /\ k \in ToSet(c)
  BY GoodFacts, Constants DEF OnTrack, Scans
<1>2. d + 1 \in 1 .. n /\ d + 1 \in 0 .. n
  BY <1>1
<1>3. c \in Seq(Keys) /\ Distinct(c) /\ IndexOf(k, n) = d + 1
  BY <1>1, <1>2, GoodFacts
<1>4. hkey[k] % n = d
  <2>1. IndexOf(k, n) - 1 = hkey[k] % n
    BY <1>1, IndexFacts
  <2>2. (d + 1) - 1 = d
    BY <1>1
  <2>3. QED
    BY <2>1, <2>2, <1>3
<1>5. s = IF p < Len(c) THEN [scan EXCEPT !.next = c[p + 1]] ELSE FirstFrom(h, d + 1)
  BY <1>4 DEF NodeAfter, Chain, ChainOf, nchains
<1>6. k \in From(k, c)
  BY <1>1, <1>3, FromFacts
<1>7. LeftOf(t, scan) = From(k, c) \cup Rest(t, d + 1)
  BY DEF LeftOf, LeftFrom
<1>8. k \notin Rest(t, d + 1)
  <2>1. ~(d >= d + 1)
    BY <1>1
  <2>2. QED
    BY <2>1, <1>2, <1>4, RestFacts
<1>9. CASE p < Len(c)
  <2>1. c[p + 1] \in ToSet(c) /\ From(c[p + 1], c) = From(k, c) \ {k}
    BY <1>1, <1>3, <1>9, FromFacts
  <2>2. c[p + 1] \in Keys /\ c[p + 1] # NoKey
    BY <2>1, <1>3, Constants DEF ToSet
  <2>3. s = [scan EXCEPT !.next = c[p + 1]]
    BY <1>5, <1>9
  <2>4. scan \in Scans(t)
    BY DEF OnTrack
  <2>5. s \in Scans(t) /\ s.chain = d /\ s.next = c[p + 1]
    BY <2>2, <2>3, <2>4 DEF Scans
  <2>6. OnTrack(t, s)
    BY <2>1, <2>5 DEF OnTrack
  <2>7. LeftOf(t, s) = From(c[p + 1], c) \cup Rest(t, d + 1)
    BY <2>2, <2>5 DEF LeftOf, LeftFrom
  <2>8. QED
    BY <2>1, <2>6, <2>7, <1>6, <1>7, <1>8
<1>10. CASE ~(p < Len(c))
  <2>1. From(k, c) = {k}
    BY <1>1, <1>3, <1>10, FromFacts
  <2>2. s = FirstFrom(h, d + 1)
    BY <1>5, <1>10
  <2>3. OnTrack(t, s) /\ LeftOf(t, s) = Rest(t, d + 1)
    BY <2>2, <1>2, FirstFromFacts DEF OnTrack
  <2>4. QED
    BY <2>1, <2>3, <1>7, <1>8
<1>11. QED
  BY <1>9, <1>10

\* Deleting a node that the scan has returned leaves what it has still to
\* return.
LEMMA TakeLeft ==
  ASSUME NEW t, Good(t), NEW s, OnTrack(t, s), NEW k \in All(t), k \notin LeftOf(t, s)
  PROVE  LET i == IndexOf(k, Len(t))
             u == [t EXCEPT ![i] = Without(k, t[i])]
         IN OnTrack(u, s) /\ LeftOf(u, s) = LeftOf(t, s)
<1> DEFINE n == Len(t)
           i == IndexOf(k, n)
           u == [t EXCEPT ![i] = Without(k, t[i])]
           d == s.chain
           x == s.next
<1>1. i \in 1 .. n /\ k \in ToSet(t[i]) /\ Good(u) /\ Len(u) = n
  BY TakeFacts
<1>2. n \in Nat /\ DOMAIN t = 1 .. n
  BY GoodFacts
<1>3. u[i] = Without(k, t[i]) /\ \A j \in 1 .. n : j # i => u[j] = t[j]
  BY <1>1, <1>2
<1>4. t[i] \in Seq(Keys) /\ Distinct(t[i])
  BY <1>1, GoodFacts
<1>5. ASSUME NEW j \in 1 .. n, j # i PROVE k \notin ToSet(t[j])
  BY <1>5, GoodFacts
<1>6. \A j \in 1 .. n : ToSet(u[j]) = ToSet(t[j]) \ {k}
  <2>1. ToSet(u[i]) = ToSet(t[i]) \ {k}
    BY <1>1, <1>3, <1>4, WithoutFacts
  <2>2. QED
    BY <2>1, <1>3, <1>5
<1>7. s \in Scans(u) /\ s \in Scans(t)
  BY <1>1 DEF OnTrack, Scans
<1> HIDE DEF n, i, u
<1>8. CASE x = NoKey
  BY <1>7, <1>8 DEF OnTrack, LeftOf, u, i, n
<1>9. CASE x # NoKey
  <2>1. d \in 0 .. n - 1 /\ x \in ToSet(t[d + 1])
    BY <1>7, <1>9 DEF OnTrack, Scans, n
  <2>2. d + 1 \in 1 .. n
    BY <2>1, <1>2
  <2>3. LeftOf(t, s) = From(x, t[d + 1]) \cup Rest(t, d + 1)
    BY <1>9 DEF LeftOf, LeftFrom
  <2>4. LeftOf(u, s) = From(x, u[d + 1]) \cup Rest(u, d + 1)
    BY <1>9 DEF LeftOf, LeftFrom
  <2>5. x \in From(x, t[d + 1])
    BY <2>1, <2>2, GoodFacts, FromFacts DEF n
  <2>6. x # k
    BY <2>3, <2>5
  <2>7. x \in ToSet(u[d + 1])
    BY <2>1, <2>2, <2>6, <1>6
  <2>8. From(x, u[d + 1]) = From(x, t[d + 1]) \ {k}
    <3>1. CASE d + 1 = i
      <4>1. x \in ToSet(t[i])
        BY <3>1, <2>1
      <4>2. From(x, Without(k, t[i])) = From(x, t[i]) \ {k}
        BY <4>1, <2>6, <1>1, <1>4, WithoutFrom
      <4>3. QED
        BY <4>2, <3>1, <1>3
    <3>2. CASE d + 1 # i
      <4>1. u[d + 1] = t[d + 1]
        BY <3>2, <2>2, <1>3
      <4>2. k \notin From(x, t[d + 1])
        BY <2>3
      <4>3. QED
        BY <4>1, <4>2
    <3>3. QED
      BY <3>1, <3>2
  <2>9. Rest(u, d + 1) = Rest(t, d + 1) \ {k}
    <3>1. \A c \in d + 1 .. n - 1 : c + 1 \in 1 .. n
      BY <2>1, <1>2
    <3>2. Rest(u, d + 1) = UNION {ToSet(u[c + 1]) : c \in d + 1 .. n - 1}
      BY <1>1 DEF Rest
    <3>3. Rest(t, d + 1) = UNION {ToSet(t[c + 1]) : c \in d + 1 .. n - 1}
      BY DEF Rest, n
    <3>4. \A c \in d + 1 .. n - 1 : ToSet(u[c + 1]) = ToSet(t[c + 1]) \ {k}
      BY <3>1, <1>6
    <3>5. \A y : y \in Rest(u, d + 1) <=> \E c \in d + 1 .. n - 1 : y \in ToSet(u[c + 1])
      BY <3>2
    <3>6. \A y : y \in Rest(t, d + 1) <=> \E c \in d + 1 .. n - 1 : y \in ToSet(t[c + 1])
      BY <3>3
    <3>7. \A y : y \in Rest(u, d + 1) <=> y \in Rest(t, d + 1) /\ y # k
      BY <3>4, <3>5, <3>6
    <3>8. QED
      BY <3>7
  <2>10. LeftOf(u, s) = LeftOf(t, s)
    BY <2>3, <2>4, <2>8, <2>9
  <2>11. QED
    BY <2>7, <2>10, <1>7 DEF OnTrack, u, i, n
<1>10. QED
  BY <1>8, <1>9

-----------------------------------------------------------------------------
(* The inductive invariant.                                                *)

HashTables == [table : Seq(Seq(Keys)), nodecount : Nat, lowmark : Nat, highmark : Nat]

\* hash_verify, and the marks of every size.
Verified(h) ==
  /\ h \in HashTables /\ Good(h.table)
  /\ IsFiniteSet(All(h.table)) /\ h.nodecount = Cardinality(All(h.table))
  /\ 2 * h.lowmark = Len(h.table) /\ h.highmark = 2 * Len(h.table)

\* A scan is on its way; the node that it has returned is not among those
\* that are left, and what is freed is one or the other.
Inv ==
  /\ Verified(hash)
  /\ OnTrack(hash.table, scan)
  /\ node \in All(hash.table) \cup {NoKey}
  /\ mode \in {"calls", "scan", "free"} /\ inserts \in 0 .. Inserts
  /\ mode = "calls" => scan = NoScan
  /\ mode # "calls" => node \notin LeftOf(hash.table, scan)
  /\ mode = "free" => All(hash.table) \subseteq LeftOf(hash.table, scan) \cup {node}

LEMMA VerifiedFacts ==
  ASSUME NEW h, Verified(h)
  PROVE  /\ h \in HashTables /\ Good(h.table) /\ Len(h.table) \in Nat
         /\ Members(h) = All(h.table) /\ All(h.table) \subseteq Keys
         /\ NoKey \notin All(h.table)
  BY GoodFacts, Constants DEF Verified, Members, All

LEMMA GrowVerified ==
  ASSUME NEW h, Verified(h)
  PROVE  Verified(grow_table(h)) /\ All(grow_table(h).table) = All(h.table)
<1> DEFINE t == h.table
           u == Split(t)
           g == grow_table(h)
<1>1. Good(u) /\ Len(u) = 2 * Len(t) /\ All(u) = All(t) /\ u \in Seq(Seq(Keys))
  BY VerifiedFacts, SplitFacts DEF Good
<1>2. Len(t) \in Nat /\ Len(t) > 0 /\ h \in HashTables
  BY VerifiedFacts, GoodFacts
<1>3. g = Resized(h, u)
  BY DEF grow_table, Split, nchains
<1>4. NewMarks(h, Len(u)) = [low |-> 2 * h.lowmark, high |-> 2 * h.highmark]
  <2>1. Len(u) > Len(t)
    BY <1>1, <1>2
  <2>2. QED
    BY <2>1 DEF NewMarks, nchains
<1> HIDE DEF u, g
<1>5. g = [h EXCEPT !.table = u, !.lowmark = 2 * h.lowmark, !.highmark = 2 * h.highmark]
  BY <1>3, <1>4 DEF Resized
<1>6. h.lowmark \in Nat /\ h.highmark \in Nat /\ h.nodecount \in Nat
  BY <1>2 DEF HashTables
<1>7. 2 * h.lowmark \in Nat /\ 2 * h.highmark \in Nat
  BY <1>6
<1>8. /\ g \in HashTables /\ g.table = u /\ g.nodecount = h.nodecount
      /\ g.lowmark = 2 * h.lowmark /\ g.highmark = 2 * h.highmark
  BY <1>1, <1>2, <1>5, <1>7 DEF HashTables
<1>9. 2 * g.lowmark = Len(u) /\ g.highmark = 2 * Len(u)
  BY <1>1, <1>2, <1>6, <1>8 DEF Verified
<1>10. QED
  BY <1>1, <1>8, <1>9 DEF Verified, g

LEMMA ShrinkVerified ==
  ASSUME NEW h, Verified(h), Shrinks(h)
  PROVE  Verified(shrink_table(h)) /\ All(shrink_table(h).table) = All(h.table)
<1> DEFINE t == h.table
           g == shrink_table(h)
<1>1. /\ Len(t) \in Nat /\ Len(t) \in Sizes /\ h \in HashTables /\ Good(t)
      /\ 2 * h.lowmark = Len(t) /\ h.highmark = 2 * Len(t)
  BY VerifiedFacts, GoodFacts DEF Verified
<1>2. h.lowmark \in Nat /\ h.highmark \in Nat /\ h.nodecount \in Nat
  BY <1>1 DEF HashTables
<1>3. Len(t) # InitSize
  <2>1. h.lowmark > InitSize
    BY <1>2, Constants DEF Shrinks
  <2>2. QED
    BY <2>1, <1>1, <1>2, Constants
<1>4. PICK m \in Sizes : Len(t) = 2 * m
  BY <1>1, <1>3, SizesFacts
<1>5. PICK q \in Nat : m = 2 * q
  BY SizesFacts
<1>6. m \in Nat /\ m > 0 /\ nchains(h) \div 2 = m
  BY <1>1, <1>4, SizesFacts DEF nchains
<1> DEFINE u == Folded(t, m)
<1>7. Good(u) /\ Len(u) = m /\ All(u) = All(t) /\ u \in Seq(Seq(Keys))
  BY <1>1, <1>4, FoldedFacts DEF Good
<1>8. g = Resized(h, u)
  BY <1>6 DEF shrink_table, Folded
<1> HIDE DEF u, g
<1>9. h.lowmark \div 2 = q /\ h.highmark \div 2 = 2 * m
  BY <1>1, <1>2, <1>4, <1>5, <1>6
<1>10. NewMarks(h, Len(u)) = [low |-> q, high |-> 2 * m]
  <2>1. ~(m > Len(t))
    BY <1>4, <1>6
  <2>2. QED
    BY <2>1, <1>7, <1>9 DEF NewMarks, nchains
<1>11. g = [h EXCEPT !.table = u, !.lowmark = q, !.highmark = 2 * m]
  BY <1>8, <1>10 DEF Resized
<1>12. 2 * m \in Nat
  BY <1>6
<1>13. /\ g \in HashTables /\ g.table = u /\ g.nodecount = h.nodecount
       /\ g.lowmark = q /\ g.highmark = 2 * m
  BY <1>1, <1>7, <1>11, <1>12 DEF HashTables
<1>14. QED
  BY <1>5, <1>7, <1>13 DEF Verified, g

LEMMA PutVerified ==
  ASSUME NEW h, Verified(h), NEW k \in Keys, k \notin All(h.table)
  PROVE  LET g == [h EXCEPT !.table[ChainOf(h, k) + 1] = <<k>> \o @, !.nodecount = @ + 1]
         IN Verified(g) /\ All(g.table) = All(h.table) \cup {k}
<1> DEFINE t == h.table
           i == IndexOf(k, Len(t))
           u == [t EXCEPT ![i] = <<k>> \o t[i]]
           g == [h EXCEPT !.table[ChainOf(h, k) + 1] = <<k>> \o @, !.nodecount = @ + 1]
<1>1. Good(t) /\ h \in HashTables
  BY VerifiedFacts
<1>2. Good(u) /\ Len(u) = Len(t) /\ All(u) = All(t) \cup {k} /\ u \in Seq(Seq(Keys))
  BY <1>1, PutFacts DEF Good
<1>3. ChainOf(h, k) + 1 = i
  BY DEF ChainOf, nchains, IndexOf
<1>4. g = [h EXCEPT !.table = u, !.nodecount = @ + 1]
  BY <1>1, <1>3 DEF HashTables
<1> HIDE DEF u, g
<1>5. h.nodecount \in Nat /\ h.nodecount + 1 \in Nat
  BY <1>1 DEF HashTables
<1>6. /\ g \in HashTables /\ g.table = u /\ g.nodecount = h.nodecount + 1
      /\ g.lowmark = h.lowmark /\ g.highmark = h.highmark
  BY <1>1, <1>2, <1>4, <1>5 DEF HashTables
<1>7. IsFiniteSet(All(u)) /\ Cardinality(All(u)) = h.nodecount + 1
  BY <1>2, FS_AddElement DEF Verified
<1>8. QED
  BY <1>2, <1>6, <1>7 DEF Verified, g

LEMMA TakeVerified ==
  ASSUME NEW h, Verified(h), NEW k \in All(h.table)
  PROVE  LET g == Removed(h, k)
             i == IndexOf(k, Len(h.table))
         IN /\ Verified(g) /\ All(g.table) = All(h.table) \ {k}
            /\ g.table = [h.table EXCEPT ![i] = Without(k, h.table[i])]
<1> DEFINE t == h.table
           i == IndexOf(k, Len(t))
           u == [t EXCEPT ![i] = Without(k, t[i])]
           g == Removed(h, k)
<1>1. Good(t) /\ h \in HashTables
  BY VerifiedFacts
<1>2. Good(u) /\ Len(u) = Len(t) /\ All(u) = All(t) \ {k} /\ u \in Seq(Seq(Keys))
  BY <1>1, TakeFacts DEF Good
<1>3. ChainOf(h, k) + 1 = i
  BY DEF ChainOf, nchains, IndexOf
<1>4. g = [h EXCEPT !.table = u, !.nodecount = @ - 1]
  BY <1>1, <1>3 DEF HashTables, Removed
<1>5. u = [h.table EXCEPT ![i] = Without(k, h.table[i])]
  OBVIOUS
<1> HIDE DEF u, g
<1>6. IsFiniteSet(All(u)) /\ Cardinality(All(u)) = h.nodecount - 1
  BY <1>2, FS_RemoveElement DEF Verified
<1>7. h.nodecount \in Nat /\ h.nodecount - 1 \in Nat
  BY <1>1, <1>6, FS_CardinalityType DEF HashTables
<1>8. /\ g \in HashTables /\ g.table = u /\ g.nodecount = h.nodecount - 1
      /\ g.lowmark = h.lowmark /\ g.highmark = h.highmark
  BY <1>1, <1>2, <1>4, <1>7 DEF HashTables
<1>9. QED
  BY <1>2, <1>5, <1>6, <1>8 DEF Verified, g

-----------------------------------------------------------------------------
(* The actions: each keeps the invariant, and is a step of the table that  *)
(* its user sees.                                                          *)

LEMMA NoScanFacts ==
  ASSUME NEW t, Good(t)
  PROVE  OnTrack(t, NoScan) /\ LeftOf(t, NoScan) = {}
<1>1. Len(t) \in Nat /\ Len(t) > 0
  BY GoodFacts
<1>2. 0 \in 0 .. Len(t) - 1
  BY <1>1
<1>3. QED
  BY <1>2 DEF OnTrack, Scans, LeftOf, NoScan

\* What the user sees, in terms of the chains.
LEMMA Seen ==
  /\ Members(hash) = All(hash.table) /\ Members(hash)' = All(hash'.table)
  /\ Left = LeftOf(hash.table, scan) /\ Left' = LeftOf(hash'.table, scan')
<1>1. Members(hash) = All(hash.table) /\ Members(hash)' = All(hash'.table)
  BY DEF Members, All
<1>2. Left = LeftOf(hash.table, scan)
  BY LeftIs
<1>3. Left' = LeftOf(hash'.table, scan')
  BY DEF Left, LeftOf, LeftFrom, From, Rest, Chain, nchains
<1>4. QED
  BY <1>1, <1>2, <1>3

LEMMA InitOK == Init => Inv /\ IsATable!Init
<1> SUFFICES ASSUME Init PROVE Inv /\ IsATable!Init
  OBVIOUS
<1> DEFINE t == [i \in 1 .. InitSize |-> <<>>]
<1>1. /\ hash = [table |-> t, nodecount |-> 0, highmark |-> InitSize * 2,
                 lowmark |-> InitSize \div 2]
      /\ scan = NoScan /\ mode = "calls" /\ node = NoKey /\ inserts = 0
  BY DEF Init
<1>2. <<>> \in Seq(Keys) /\ ToSet(<<>>) = {} /\ Distinct(<<>>)
  BY DEF ToSet, Distinct
<1>3. t \in [1 .. InitSize -> Seq(Keys)] /\ \A i \in 1 .. InitSize : t[i] = <<>>
  BY <1>2
<1> HIDE DEF t
<1>4. Good(t) /\ Len(t) = InitSize /\ DOMAIN t = 1 .. InitSize
  BY <1>2, <1>3, SizesGrow, GoodFrom
<1>5. All(t) = {}
  BY <1>2, <1>3, <1>4 DEF All
<1>6. \E h \in Nat : InitSize = 2 * h
  BY SizesGrow, SizesFacts
<1>7. InitSize \div 2 \in Nat /\ 2 * (InitSize \div 2) = InitSize /\ InitSize * 2 \in Nat
  BY <1>6, Constants
<1>8. t \in Seq(Seq(Keys))
  BY <1>4 DEF Good
<1>9. Verified(hash) /\ hash.table = t
  <2>1. /\ hash \in HashTables /\ hash.table = t /\ hash.nodecount = 0
        /\ hash.lowmark = InitSize \div 2 /\ hash.highmark = InitSize * 2
    BY <1>1, <1>7, <1>8 DEF HashTables
  <2>2. 2 * hash.lowmark = Len(t) /\ hash.highmark = 2 * Len(t)
    BY <2>1, <1>4, <1>7, Constants
  <2>3. QED
    BY <2>1, <2>2, <1>4, <1>5, FS_EmptySet DEF Verified
<1>10. OnTrack(t, NoScan) /\ LeftOf(t, NoScan) = {}
  BY <1>4, NoScanFacts
<1>11. Inv
  BY <1>1, <1>9, <1>10, Constants DEF Inv
<1>12. IsATable!Init
  BY <1>1, <1>5, <1>9, <1>10, Seen DEF IsATable!Init
<1>13. QED
  BY <1>11, <1>12

LEMMA InsertOK ==
  ASSUME Inv, NEW k \in Keys, hash_insert(k)
  PROVE  Inv' /\ IsATable!Next
<1>1. PICK allocated \in BOOLEAN :
        LET grown == IF hash.nodecount >= hash.highmark /\ allocated THEN grow_table(hash) ELSE hash
        IN hash' = [grown EXCEPT !.table[ChainOf(grown, k) + 1] = <<k>> \o @, !.nodecount = @ + 1]
  BY DEF hash_insert
<1> DEFINE g == IF hash.nodecount >= hash.highmark /\ allocated THEN grow_table(hash) ELSE hash
<1>2. Verified(g) /\ All(g.table) = All(hash.table)
  BY GrowVerified DEF Inv
<1>3. hash' = [g EXCEPT !.table[ChainOf(g, k) + 1] = <<k>> \o @, !.nodecount = @ + 1]
  BY <1>1
<1> HIDE DEF g
<1>4. k \notin All(hash.table) /\ mode = "calls" /\ scan = NoScan
  BY Seen DEF hash_insert, Inv
<1>5. Verified(hash') /\ All(hash'.table) = All(hash.table) \cup {k}
  BY <1>2, <1>3, <1>4, PutVerified
<1>6. scan' = NoScan /\ mode' = "calls" /\ node' = NoKey /\ inserts' \in 0 .. Inserts
  BY <1>4, Constants DEF hash_insert, Inv
<1>7. OnTrack(hash'.table, NoScan) /\ LeftOf(hash'.table, NoScan) = {}
  BY <1>5, NoScanFacts DEF Verified
<1>8. Inv'
  BY <1>5, <1>6, <1>7 DEF Inv
<1>9. IsATable!Insert(k)
  BY <1>5, <1>6, <1>7, Seen DEF IsATable!Insert
<1>10. k \in Keys \ Members(hash)
  BY <1>4, Seen
<1>11. QED
  BY <1>8, <1>9, <1>10 DEF IsATable!Next

LEMMA DeleteOK ==
  ASSUME Inv, NEW k \in Keys, hash_delete(k)
  PROVE  Inv' /\ IsATable!Next
<1> DEFINE g == IF Shrinks(hash) THEN shrink_table(hash) ELSE hash
<1>1. hash' = Removed(g, k) /\ mode = "calls" /\ scan = NoScan /\ k \in All(hash.table)
  BY Seen DEF hash_delete, Inv
<1>2. Verified(g) /\ All(g.table) = All(hash.table)
  BY ShrinkVerified DEF Inv
<1> HIDE DEF g
<1>3. Verified(hash') /\ All(hash'.table) = All(hash.table) \ {k}
  BY <1>1, <1>2, TakeVerified
<1>4. scan' = NoScan /\ mode' = "calls" /\ node' = NoKey /\ inserts' \in 0 .. Inserts
  BY <1>1 DEF hash_delete, Inv
<1>5. OnTrack(hash'.table, NoScan) /\ LeftOf(hash'.table, NoScan) = {}
  BY <1>3, NoScanFacts DEF Verified
<1>6. Inv'
  BY <1>3, <1>4, <1>5 DEF Inv
<1>7. IsATable!Delete(k)
  BY <1>3, <1>4, <1>5, Seen DEF IsATable!Delete
<1>8. QED
  BY <1>1, <1>6, <1>7, Seen DEF IsATable!Next

LEMMA LookupOK ==
  ASSUME Inv, NEW k \in Keys, hash_lookup(k)
  PROVE  Inv' /\ IsATable!Next
<1>1. hash' = hash /\ scan' = scan /\ mode = "calls" /\ mode' = mode /\ inserts' = inserts
      /\ scan = NoScan
  BY DEF hash_lookup, Inv
<1>2. Good(hash.table)
  BY DEF Inv, Verified
<1>3. Chain(hash, ChainOf(hash, k)) = hash.table[IndexOf(k, Len(hash.table))]
  BY DEF Chain, ChainOf, IndexOf, nchains
<1>4. node' = IF k \in All(hash.table) THEN k ELSE NoKey
  BY <1>2, <1>3, WhereIs DEF hash_lookup
<1>5. Inv'
  BY <1>1, <1>4 DEF Inv
<1>6. LeftOf(hash.table, scan) = {}
  BY <1>1, <1>2, NoScanFacts
<1>7. IsATable!Lookup(k)
  BY <1>1, <1>4, <1>6, Seen DEF IsATable!Lookup
<1>8. QED
  BY <1>5, <1>7 DEF IsATable!Next

LEMMA ScanBeginOK ==
  ASSUME Inv, NEW for \in {"scan", "free"}, hash_scan_begin(for)
  PROVE  Inv' /\ IsATable!Next
<1>1. /\ scan' = FirstFrom(hash, 0) /\ mode' = for /\ node' = NoKey
      /\ hash' = hash /\ inserts' = inserts
  BY DEF hash_scan_begin
<1>2. Good(hash.table) /\ scan \in Scans(hash.table) /\ 0 \in 0 .. Len(hash.table)
      /\ NoKey \notin All(hash.table)
  BY GoodFacts, Constants DEF Inv, Verified, OnTrack
<1>3. /\ OnTrack(hash.table, scan')
      /\ LeftOf(hash.table, scan') = All(hash.table)
  BY <1>1, <1>2, FirstFromFacts, RestFacts
<1>4. Inv'
  BY <1>1, <1>2, <1>3 DEF Inv
<1>5. IsATable!ScanBegin
  BY <1>1, <1>3, Seen DEF IsATable!ScanBegin
<1>6. QED
  BY <1>4, <1>5 DEF IsATable!Next

LEMMA ScanNextOK ==
  ASSUME Inv, hash_scan_next
  PROVE  Inv' /\ IsATable!Next
<1>1. /\ mode \in {"scan", "free"} /\ (mode = "free" => node = NoKey) /\ scan.next # NoKey
      /\ node' = scan.next /\ scan' = NodeAfter(hash, scan.next)
      /\ hash' = hash /\ mode' = mode /\ inserts' = inserts
  BY DEF hash_scan_next
<1>2. Good(hash.table) /\ OnTrack(hash.table, scan)
  BY DEF Inv, Verified
<1>3. /\ scan.next \in LeftOf(hash.table, scan)
      /\ OnTrack(hash.table, scan')
      /\ LeftOf(hash.table, scan') = LeftOf(hash.table, scan) \ {scan.next}
  BY <1>1, <1>2, NodeAfterFacts
<1>4. scan.next \in All(hash.table) /\ scan.next \in Keys
  <2>1. scan.next \in ToSet(hash.table[scan.chain + 1]) /\ scan.chain \in 0 .. Len(hash.table) - 1
    BY <1>1, <1>2 DEF OnTrack, Scans
  <2>2. scan.chain + 1 \in 1 .. Len(hash.table)
    BY <2>1, <1>2, GoodFacts
  <2>3. QED
    BY <2>1, <2>2, <1>2, GoodFacts
<1>5. mode = "free" => All(hash.table) \subseteq LeftOf(hash.table, scan)
  <2>1. NoKey \notin All(hash.table)
    BY <1>2, GoodFacts, Constants
  <2>2. QED
    BY <2>1, <1>1 DEF Inv
<1>6. Inv'
  BY <1>1, <1>3, <1>4, <1>5 DEF Inv
<1>7. IsATable!ScanNext(scan.next)
  BY <1>1, <1>3, Seen DEF IsATable!ScanNext
<1>8. QED
  BY <1>4, <1>6, <1>7 DEF IsATable!Next

LEMMA ScanDeleteOK ==
  ASSUME Inv, hash_scan_delete
  PROVE  Inv' /\ IsATable!Next
<1>1. /\ mode \in {"scan", "free"} /\ node # NoKey
      /\ hash' = Removed(hash, node) /\ node' = NoKey
      /\ scan' = scan /\ mode' = mode /\ inserts' = inserts
  BY DEF hash_scan_delete
<1>2. Verified(hash) /\ Good(hash.table) /\ OnTrack(hash.table, scan)
  BY DEF Inv, Verified
<1>3. node \in All(hash.table) /\ node \notin LeftOf(hash.table, scan)
  BY <1>1 DEF Inv
<1>4. /\ Verified(hash') /\ All(hash'.table) = All(hash.table) \ {node}
      /\ hash'.table = [hash.table EXCEPT ![IndexOf(node, Len(hash.table))] =
                          Without(node, hash.table[IndexOf(node, Len(hash.table))])]
  BY <1>1, <1>2, <1>3, TakeVerified
<1>5. /\ OnTrack(hash'.table, scan)
      /\ LeftOf(hash'.table, scan) = LeftOf(hash.table, scan)
  BY <1>2, <1>3, <1>4, TakeLeft
<1>6. NoKey \notin LeftOf(hash.table, scan)
  <2>1. CASE scan.next = NoKey
    BY <2>1 DEF LeftOf
  <2>2. CASE scan.next # NoKey
    <3>1. scan.chain \in 0 .. Len(hash.table) - 1 /\ scan.next \in ToSet(hash.table[scan.chain + 1])
      BY <2>2, <1>2 DEF OnTrack, Scans
    <3>2. /\ scan.chain + 1 \in 1 .. Len(hash.table) /\ scan.chain + 1 \in 0 .. Len(hash.table)
      BY <3>1, <1>2, GoodFacts
    <3>3. From(scan.next, hash.table[scan.chain + 1]) \subseteq Keys
      BY <3>1, <3>2, <1>2, GoodFacts, FromFacts
    <3>4. Rest(hash.table, scan.chain + 1) \subseteq Keys
      BY <3>2, <1>2, GoodFacts, RestFacts
    <3>5. QED
      BY <3>3, <3>4, Constants DEF LeftOf, LeftFrom
  <2>3. QED
    BY <2>1, <2>2
<1>7. Inv'
  BY <1>1, <1>4, <1>5, <1>6 DEF Inv
<1>8. IsATable!ScanDelete
  BY <1>1, <1>4, <1>5, Seen DEF IsATable!ScanDelete
<1>9. QED
  BY <1>7, <1>8 DEF IsATable!Next

\* What an EndScan leaves of the table: a table that was freed had no more
\* nodes.
LEMMA EndScanOK ==
  ASSUME Inv, EndScan
  PROVE  Inv' /\ IsATable!Next
<1> DEFINE t == hash.table
           e == [i \in DOMAIN t |-> <<>>]
<1>1. /\ mode \in {"scan", "free"} /\ scan.next = NoKey /\ (mode = "free" => node = NoKey)
      /\ hash' = (IF mode = "free" THEN [hash EXCEPT !.nodecount = 0,
                                                     !.table = [i \in DOMAIN @ |-> <<>>]]
                  ELSE hash)
      /\ scan' = NoScan /\ mode' = "calls" /\ node' = NoKey /\ inserts' = inserts
  BY DEF EndScan
<1>2. Verified(hash) /\ Good(t) /\ hash \in HashTables /\ NoKey \notin All(t)
  BY VerifiedFacts DEF Inv
<1>3. LeftOf(t, scan) = {}
  BY <1>1 DEF LeftOf
<1>4. Verified(hash') /\ All(hash'.table) = All(t)
  <2>1. CASE mode = "free"
    <3>1. All(t) = {}
      BY <1>1, <1>2, <1>3, <2>1 DEF Inv
    <3>2. hash' = [hash EXCEPT !.nodecount = 0, !.table = e]
      BY <1>1, <1>2, <2>1 DEF HashTables
    <3>3. <<>> \in Seq(Keys) /\ ToSet(<<>>) = {} /\ Distinct(<<>>)
      BY DEF ToSet, Distinct
    <3>4. Len(t) \in Sizes /\ DOMAIN t = 1 .. Len(t)
      BY <1>2, GoodFacts
    <3>5. e \in [1 .. Len(t) -> Seq(Keys)] /\ \A i \in 1 .. Len(t) : e[i] = <<>>
      BY <3>3, <3>4
    <3> HIDE DEF e
    <3>6. Good(e) /\ Len(e) = Len(t) /\ DOMAIN e = 1 .. Len(t)
      BY <3>3, <3>4, <3>5, GoodFrom
    <3>7. All(e) = {}
      BY <3>3, <3>5, <3>6 DEF All
    <3>8. e \in Seq(Seq(Keys))
      BY <3>6 DEF Good
    <3>9. /\ hash' \in HashTables /\ hash'.table = e /\ hash'.nodecount = 0
          /\ hash'.lowmark = hash.lowmark /\ hash'.highmark = hash.highmark
      BY <1>2, <3>2, <3>8 DEF HashTables
    <3>10. QED
      BY <1>2, <3>1, <3>6, <3>7, <3>9, FS_EmptySet DEF Verified
  <2>2. CASE mode # "free"
    BY <1>1, <1>2, <2>2
  <2>3. QED
    BY <2>1, <2>2
<1>5. OnTrack(hash'.table, NoScan) /\ LeftOf(hash'.table, NoScan) = {}
  BY <1>4, NoScanFacts DEF Verified
<1>6. Inv'
  <2>1. inserts' \in 0 .. Inserts
    BY <1>1 DEF Inv
  <2>2. QED
    BY <2>1, <1>1, <1>4, <1>5 DEF Inv
<1>7. IsATable!ScanEnd
  BY <1>1, <1>3, <1>4, <1>5, Seen DEF IsATable!ScanEnd
<1>8. QED
  BY <1>6, <1>7 DEF IsATable!Next

LEMMA StepOK ==
  ASSUME Inv, [Next]_vars
  PROVE  Inv' /\ [IsATable!Next]_<<Members(hash), Left, node>>
<1>1. CASE UNCHANGED vars
  <2>1. /\ hash' = hash /\ scan' = scan /\ mode' = mode /\ node' = node
        /\ inserts' = inserts
    BY <1>1 DEF vars
  <2>2. Inv'
    BY <2>1 DEF Inv
  <2>3. UNCHANGED <<Members(hash), Left, node>>
    BY <2>1, Seen
  <2>4. QED
    BY <2>2, <2>3
<1>2. CASE Next
  <2>1. ASSUME NEW k \in Keys, hash_insert(k) \/ hash_delete(k) \/ hash_lookup(k)
        PROVE  Inv' /\ IsATable!Next
    BY <2>1, InsertOK, DeleteOK, LookupOK
  <2>2. ASSUME hash_scan_begin("scan") \/ hash_scan_begin("free")
        PROVE  Inv' /\ IsATable!Next
    BY <2>2, ScanBeginOK
  <2>3. ASSUME hash_scan_next \/ hash_scan_delete \/ EndScan
        PROVE  Inv' /\ IsATable!Next
    BY <2>3, ScanNextOK, ScanDeleteOK, EndScanOK
  <2>4. QED
    BY <1>2, <2>1, <2>2, <2>3 DEF Next
<1>3. QED
  BY <1>1, <1>2

LEMMA TypesHold == Inv => TypeOK
<1> SUFFICES ASSUME Inv PROVE TypeOK
  OBVIOUS
<1> DEFINE t == hash.table
           n == Len(t)
<1>1. Verified(hash) /\ Good(t) /\ OnTrack(t, scan) /\ Members(hash) = All(t)
  BY Seen DEF Inv, Verified
<1>2. n \in Nat /\ n > 0 /\ DOMAIN t = 1 .. n /\ n \in Sizes
  BY <1>1, GoodFacts
<1>3. \A i \in DOMAIN t : \A j \in DOMAIN t[i] : ChainOf(hash, t[i][j]) = i - 1
  BY <1>1 DEF Good, ToSet, ChainOf, nchains
<1>4. \A i \in DOMAIN t : \A j, l \in DOMAIN t[i] : t[i][j] = t[i][l] => j = l
  BY <1>1 DEF Good, Distinct
<1>5. hash.nodecount = Cardinality(Members(hash))
  BY <1>1 DEF Verified
<1>6. hash.lowmark < hash.highmark /\ hash.highmark = 2 * nchains(hash)
  BY <1>1, <1>2 DEF Verified, HashTables, nchains
<1>7. nchains(hash) >= InitSize
  BY <1>2, SizesFacts DEF nchains
<1>8. scan.chain \in 0 .. nchains(hash) - 1
  BY <1>1 DEF OnTrack, Scans, nchains
<1>9. scan.next \in Members(hash) \cup {NoKey}
  <2>1. CASE scan.next # NoKey
    <3>1. scan.chain + 1 \in 1 .. n /\ scan.next \in ToSet(t[scan.chain + 1])
      BY <2>1, <1>1, <1>2 DEF OnTrack, Scans
    <3>2. QED
      BY <3>1, <1>1, GoodFacts
  <2>2. QED
    BY <2>1
<1>10. /\ node \in Members(hash) \cup {NoKey} /\ mode \in {"calls", "scan", "free"}
       /\ inserts \in 0 .. Inserts
  BY <1>1 DEF Inv
<1>11. QED
  BY <1>3, <1>4, <1>5, <1>6, <1>7, <1>8, <1>9, <1>10 DEF TypeOK

-----------------------------------------------------------------------------
(* The theorems.                                                           *)

\* hash_verify never fails: whatever was inserted, deleted, grown, shrunk or
\* scanned, every node is in the chain of its hash value, once, the nodes are
\* counted, and the marks are those of the size, which is never below
\* INIT_SIZE.
THEOREM HashTypeCorrect == Spec => []TypeOK
<1>1. Init => Inv
  BY InitOK
<1>2. Inv /\ [Next]_vars => Inv'
  BY StepOK
<1>3. QED
  BY <1>1, <1>2, TypesHold, PTL DEF Spec

\* The user of a table cannot tell it from a set of keys: what hash_insert,
\* hash_delete and hash_lookup do does not depend on how the table grew and
\* shrank before, nor on whether it could; a scan hands out every key once,
\* while the user deletes what he was handed, and freeing the table deletes
\* every node first.
THEOREM ImplementsATable == Spec => RefinesTable
<1>1. Init => Inv /\ IsATable!Init
  BY InitOK
<1>2. Inv /\ [Next]_vars => Inv' /\ [IsATable!Next]_<<Members(hash), Left, node>>
  BY StepOK
<1>3. QED
  BY <1>1, <1>2, PTL DEF Spec, RefinesTable, IsATable!Spec

=============================================================================
