---------------------------- MODULE ChainProofs -----------------------------
(***************************************************************************)
(* Proofs about the linked list, for every finite set of elements: while   *)
(* its user does not move an element of a list of two, the pointers always *)
(* are those of a list that holds every allocated element, and who walks   *)
(* along it meets the sequence of module List.                             *)
(***************************************************************************)
EXTENDS Chain, FiniteSetTheorems, WellFoundedInduction, TLAPS

USE ChainAssumption

Less == {p \in Nat \X Nat : p[1] < p[2]}

LEMMA LeastNumber ==
  ASSUME NEW T \in SUBSET Nat, T # {}
  PROVE  \E m \in T : \A k \in T : m <= k
<1>1. Less = OpToRel(<, Nat)
  BY DEF Less, OpToRel
<1>2. IsWellFoundedOn(Less, Nat)
  BY NatLessThanWellFounded, <1>1
<1>3. PICK m \in T : \A k \in T : <<k, m>> \notin Less
  BY <1>2, WFMin
<1>4. \A k \in T : k < m => <<k, m>> \in Less
  BY DEF Less
<1>5. \A k \in T : ~(k < m)
  BY <1>3, <1>4
<1>6. \A k \in T : m <= k
  BY <1>5
<1>7. QED
  BY <1>6

-----------------------------------------------------------------------------
\* The Cardinality bound of WellLinked is no restriction.
LEMMA EntriesBounded ==
  ASSUME NEW n \in Nat, NEW s \in [1..n -> Elt],
         \A i, j \in 1..n : s[i] = s[j] => i = j
  PROVE  n <= Cardinality(Elt)
<1>1. s \in Injection(1..n, Elt)
  BY DEF Injection, IsInjective
<1>2. Cardinality(1..n) <= Cardinality(Elt)
  BY <1>1, FS_Injection
<1>3. Cardinality(1..n) = n
  BY FS_Interval
<1>4. QED
  BY <1>2, <1>3

LEMMA RepresentedIsWellLinked ==
  ASSUME NEW n \in Nat, NEW s \in [1..n -> Elt], Represents(s, n)
  PROVE  WellLinked
<1>1. n <= Cardinality(Elt)
  BY EntriesBounded DEF Represents
<1>2. Cardinality(Elt) \in Nat
  BY FS_CardinalityType
<1>3. n \in 0..Cardinality(Elt)
  BY <1>1, <1>2
<1>4. QED
  BY <1>3 DEF WellLinked

LEMMA RepresentedIsWellLinkedNext ==
  ASSUME NEW n \in Nat, NEW s \in [1..n -> Elt], Represents(s, n)'
  PROVE  WellLinked'
<1>1. n <= Cardinality(Elt)
  BY EntriesBounded DEF Represents
<1>2. Cardinality(Elt) \in Nat
  BY FS_CardinalityType
<1>3. n \in 0..Cardinality(Elt)
  BY <1>1, <1>2
<1>4. QED
  BY <1>3 DEF WellLinked

-----------------------------------------------------------------------------
(* One lemma per macro.                                                    *)

LEMMA LinkKeeps ==
  ASSUME TypeOK, NEW n \in Nat, NEW s \in [1..n -> Elt], Represents(s, n),
         NEW e \in Elt, Link(e)
  PROVE  /\ TypeOK'
         /\ Append(s, e) \in [1..(n + 1) -> Elt] /\ Represents(Append(s, e), n + 1)'
         /\ \A i \in 1..n : s[i] # e
<1> DEFINE t == Append(s, e)
<1>1. t \in [1..(n + 1) -> Elt] /\ n + 1 \in Nat
  <2>1. s \in Seq(Elt) /\ Len(s) = n
    OBVIOUS
  <2>2. t \in Seq(Elt) /\ Len(t) = n + 1
    BY <2>1
  <2> HIDE DEF t
  <2>3. QED
    BY <2>2
<1>2. \A i \in 1..n : s[i] # e /\ s[i] \in Elt
  BY DEF Represents, Link
<1>3. /\ t[n + 1] = e
      /\ \A i \in 1..n : t[i] = s[i]
  OBVIOUS
<1>4. linked' = {t[i] : i \in 1..(n + 1)}
  <2>1. linked' = {s[i] : i \in 1..n} \cup {e}
    BY DEF Link, Represents
  <2>2. 1..(n + 1) = 1..n \cup {n + 1}
    OBVIOUS
  <2>3. QED
    BY <1>3, <2>1, <2>2
<1>5. \A i, j \in 1..(n + 1) : t[i] = t[j] => i = j
  BY <1>2 DEF Represents
<1>6. CASE n = 0
  <2>1. first = NULL /\ first' = e /\ nxt'[e] = NULL /\ prv'[e] = e
    BY <1>6 DEF Link, Represents, TypeOK
  <2>2. TypeOK'
    <3>1. /\ nxt' = [nxt EXCEPT ![e] = NULL] /\ prv' = [prv EXCEPT ![e] = e]
          /\ first' = e /\ linked' = linked \cup {e} /\ outcome' = "ok"
      BY <2>1 DEF Link
    <3>2. QED
      BY <3>1 DEF TypeOK, Pointer
  <2>3. Represents(t, n + 1)'
    BY <1>3, <1>4, <1>5, <1>6, <2>1 DEF Represents
  <2>4. QED
    BY <1>1, <1>2, <2>2, <2>3
<1>7. CASE n > 0
  <2>1. first = s[1] /\ first # NULL /\ prv[first] = s[n] /\ first' = first
    BY <1>2, <1>7 DEF Link, Represents
  <2>2. /\ nxt' = [nxt EXCEPT ![e] = NULL, ![s[n]] = e]
        /\ prv' = [prv EXCEPT ![e] = s[n], ![s[1]] = e]
    BY <2>1 DEF Link, AppendPrev
  <2>3. TypeOK'
    <3>1. s[1] \in linked /\ s[n] \in linked
      BY <1>7 DEF Represents
    <3>2. linked' = linked \cup {e} /\ outcome' = "ok" /\ e \notin linked
      BY DEF Link
    <3>3. \A x \in Elt \ linked' : nxt'[x] = NULL /\ prv'[x] = NULL
      BY <2>2, <3>1, <3>2 DEF TypeOK
    <3>4. QED
      BY <1>2, <1>7, <2>1, <2>2, <3>2, <3>3 DEF TypeOK, Pointer
  <2>4. \A i \in 1..(n + 1) : nxt'[t[i]] = IF i = n + 1 THEN NULL ELSE t[i + 1]
    BY <1>2, <1>3, <1>7, <2>2 DEF Represents, TypeOK
  <2>5. \A i \in 1..(n + 1) :
          prv'[t[i]] = IF i = 1 THEN t[n + 1] ELSE t[i - 1]
    BY <1>2, <1>3, <1>7, <2>2 DEF Represents, TypeOK
  <2>6. Represents(t, n + 1)'
    BY <1>3, <1>4, <1>5, <1>7, <2>1, <2>4, <2>5 DEF Represents
  <2>7. QED
    BY <1>1, <1>2, <2>3, <2>6
<1>8. QED
  BY <1>6, <1>7

\* An element that the search finds is one of the entries.
LEMMA FoundIsEntry ==
  ASSUME TypeOK, NEW n \in Nat, NEW s \in [1..n -> Elt], Represents(s, n),
         NEW e \in Elt, Found(e)
  PROVE  \E i \in 1..n : s[i] = e
<1> DEFINE S == {s[i] : i \in 1..n}
<1>1. S \in SUBSET Elt
  OBVIOUS
<1>2. first \in S
  BY DEF Found, Represents
<1>3. ASSUME NEW x \in S, nxt[x] # NULL
      PROVE  nxt[x] \in S
  <2>1. PICK i \in 1..n : x = s[i]
    OBVIOUS
  <2>2. nxt[x] = s[i + 1] /\ i + 1 \in 1..n
    BY <1>3, <2>1 DEF Represents
  <2>3. QED
    BY <2>2
<1>4. e \in S
  BY <1>1, <1>2, <1>3 DEF Found
<1>5. QED
  BY <1>4

\* The entries without the one at k.
Without(s, n, k) == [i \in 1..(n - 1) |-> IF i < k THEN s[i] ELSE s[i + 1]]

LEMMA UnlinkKeeps ==
  ASSUME TypeOK, NEW n \in Nat, NEW s \in [1..n -> Elt], Represents(s, n),
         NEW e \in Elt, Unlink(e), Found(e)
  PROVE  \E k \in 1..n : /\ TypeOK' /\ s[k] = e
                         /\ Without(s, n, k) \in [1..(n - 1) -> Elt]
                         /\ Represents(Without(s, n, k), n - 1)'
<1>1. PICK k \in 1..n : s[k] = e
  BY FoundIsEntry
<1> DEFINE t == Without(s, n, k)
<1>2. t \in [1..(n - 1) -> Elt] /\ n - 1 \in Nat
  BY DEF Without
<1>3. \A i \in 1..(n - 1) : t[i] = IF i < k THEN s[i] ELSE s[i + 1]
  BY DEF Without
<1>4. \A i, j \in 1..n : s[i] = s[j] => i = j
  BY DEF Represents
<1>5. /\ nxt[e] = IF k = n THEN NULL ELSE s[k + 1]
      /\ prv[e] = IF k = 1 THEN s[n] ELSE s[k - 1]
      /\ first = s[1]
      /\ e = first <=> k = 1
  BY <1>1, <1>4 DEF Represents
<1>6. /\ linked' = linked \ {e}
      /\ first' = FirstWithout(e)
      /\ nxt' = NextWithout(e)
      /\ prv' = PrevWithout(e)
  BY DEF Unlink, NotFound
<1>7. first' = IF n = 1 THEN NULL ELSE t[1]
  BY <1>1, <1>3, <1>5, <1>6 DEF FirstWithout
<1>8. \A i, j \in 1..(n - 1) : t[i] = t[j] => i = j
  BY <1>3, <1>4
<1>9. linked' = {t[i] : i \in 1..(n - 1)}
  <2>1. linked = {s[i] : i \in 1..n}
    BY DEF Represents
  <2>2. ASSUME NEW x \in linked'
        PROVE  x \in {t[i] : i \in 1..(n - 1)}
    <3>1. PICK i \in 1..n : x = s[i] /\ i # k
      BY <1>1, <1>6, <2>1
    <3>2. CASE i < k
      BY <1>3, <3>1, <3>2
    <3>3. CASE i > k
      <4>1. i - 1 \in 1..(n - 1) /\ t[i - 1] = s[i]
        BY <1>3, <3>1, <3>3
      <4>2. QED
        BY <3>1, <4>1
    <3>4. QED
      BY <3>1, <3>2, <3>3
  <2>3. ASSUME NEW i \in 1..(n - 1)
        PROVE  t[i] \in linked'
    <3>1. \E j \in 1..n : t[i] = s[j] /\ j # k
      <4>1. CASE i < k
        BY <1>3, <4>1
      <4>2. CASE ~(i < k)
        BY <1>3, <4>2
      <4>3. QED
        BY <4>1, <4>2
    <3>2. QED
      BY <1>1, <1>4, <1>6, <2>1, <3>1
  <2>4. QED
    BY <2>2, <2>3
<1>10. TypeOK'
  <2>1. nxt' \in [Elt -> Pointer]
    BY <1>6 DEF NextWithout, TypeOK, Pointer
  <2>2. prv' \in [Elt -> Pointer]
    BY <1>6 DEF PrevWithout, TypeOK, Pointer
  <2>3. first' \in Pointer
    BY <1>6 DEF FirstWithout, TypeOK, Pointer
  <2>4. linked' \in SUBSET Elt /\ outcome' = "ok"
    BY DEF Unlink, NotFound, TypeOK
  <2>5. ASSUME NEW x \in Elt \ linked'
        PROVE  nxt'[x] = NULL /\ prv'[x] = NULL
    <3>1. x = e \/ x \notin linked
      BY <1>6
    <3>2. CASE x = e
      BY <1>6, <3>2 DEF NextWithout, PrevWithout, TypeOK
    <3>3. CASE x \notin linked
      <4>1. nxt[x] = NULL /\ prv[x] = NULL
        BY <3>3 DEF TypeOK
      <4>2. k # 1 => x # prv[e]
        BY <1>5, <3>3 DEF Represents
      <4>3. x # nxt[e] /\ x # FirstWithout(e)
        <5>1. nxt[e] # NULL => nxt[e] \in linked
          BY <1>5 DEF Represents
        <5>2. FirstWithout(e) # NULL => FirstWithout(e) \in linked
          BY <5>1, <1>5 DEF Represents, FirstWithout
        <5>3. QED
          BY <3>3, <5>1, <5>2
      <4>4. QED
        BY <1>5, <1>6, <4>1, <4>2, <4>3 DEF NextWithout, PrevWithout, TypeOK
    <3>4. QED
      BY <3>1, <3>2, <3>3
  <2>6. QED
    BY <2>1, <2>2, <2>3, <2>4, <2>5 DEF TypeOK
<1>11. ASSUME NEW i \in 1..(n - 1)
       PROVE  nxt'[t[i]] = IF i = n - 1 THEN NULL ELSE t[i + 1]
  <2>1. nxt' = IF k = 1 THEN [nxt EXCEPT ![e] = NULL]
               ELSE [nxt EXCEPT ![s[k - 1]] = nxt[e], ![e] = NULL]
    BY <1>5, <1>6 DEF NextWithout
  <2>2. t[i] # e /\ t[i] \in Elt
    BY <1>1, <1>3, <1>4
  <2>3. nxt'[t[i]] = IF k # 1 /\ t[i] = s[k - 1] THEN nxt[e] ELSE nxt[t[i]]
    BY <2>1, <2>2 DEF TypeOK
  <2>4. CASE i < k - 1
    <3>1. t[i] = s[i] /\ t[i + 1] = s[i + 1] /\ i + 1 \in 1..(n - 1)
      BY <1>3, <2>4
    <3>2. t[i] # s[k - 1]
      BY <1>4, <2>4, <3>1
    <3>3. nxt[s[i]] = s[i + 1] /\ i # n - 1
      BY <2>4 DEF Represents
    <3>4. QED
      BY <2>3, <3>1, <3>2, <3>3
  <2>5. CASE i = k - 1
    <3>1. k # 1 /\ t[i] = s[k - 1]
      BY <1>3, <2>5
    <3>2. k # n => t[i + 1] = s[k + 1]
      BY <1>3, <2>5
    <3>3. QED
      BY <1>5, <2>3, <2>5, <3>1, <3>2
  <2>6. CASE i >= k
    <3>1. t[i] = s[i + 1] /\ i + 1 \in 1..n
      BY <1>3, <2>6
    <3>2. k # 1 => t[i] # s[k - 1]
      BY <1>4, <2>6, <3>1
    <3>3. nxt[s[i + 1]] = IF i + 1 = n THEN NULL ELSE s[i + 2]
      BY <3>1 DEF Represents
    <3>4. i # n - 1 => t[i + 1] = s[i + 2]
      BY <1>3, <2>6
    <3>5. QED
      BY <2>3, <3>1, <3>2, <3>3, <3>4
  <2>7. QED
    BY <2>4, <2>5, <2>6
<1>12. ASSUME NEW i \in 1..(n - 1)
       PROVE  prv'[t[i]] = IF i = 1 THEN t[n - 1] ELSE t[i - 1]
  <2> DEFINE a == IF k = n THEN 1 ELSE k + 1
  <2>1. prv' = [prv EXCEPT ![s[a]] = prv[e], ![e] = NULL]
    <3>1. CASE k = n
      <4>1. nxt[e] = NULL /\ FirstWithout(e) = s[1]
        BY <1>5, <3>1 DEF FirstWithout
      <4>2. s[1] # NULL
        OBVIOUS
      <4>3. QED
        BY <1>6, <3>1, <4>1, <4>2 DEF PrevWithout
    <3>2. CASE k # n
      <4>1. nxt[e] = s[k + 1] /\ s[k + 1] # NULL
        BY <1>5, <3>2
      <4>2. QED
        BY <1>6, <3>2, <4>1 DEF PrevWithout
    <3>3. QED
      BY <3>1, <3>2
  <2>2. t[i] # e /\ t[i] \in Elt
    BY <1>1, <1>3, <1>4
  <2>3. prv'[t[i]] = IF t[i] = s[a] THEN prv[e] ELSE prv[t[i]]
    BY <2>1, <2>2 DEF TypeOK
  <2>4. CASE i < k
    <3>1. t[i] = s[i] /\ i \in 1..n
      BY <1>3, <2>4
    <3>2. t[i] = s[a] <=> k = n /\ i = 1
      BY <1>4, <2>4, <3>1
    <3>3. CASE k = n /\ i = 1
      <4>1. prv[e] = s[n - 1] /\ t[n - 1] = s[n - 1]
        BY <1>3, <1>5, <2>4, <3>3
      <4>2. QED
        BY <2>3, <3>2, <3>3, <4>1
    <3>4. CASE ~(k = n /\ i = 1)
      <4>1. prv[s[i]] = IF i = 1 THEN s[n] ELSE s[i - 1]
        BY <3>1 DEF Represents
      <4>2. i = 1 => t[n - 1] = s[n]
        BY <1>3, <3>4
      <4>3. i # 1 => t[i - 1] = s[i - 1]
        BY <1>3, <2>4
      <4>4. QED
        BY <2>3, <3>1, <3>2, <3>4, <4>1, <4>2, <4>3
    <3>5. QED
      BY <3>3, <3>4
  <2>5. CASE i >= k
    <3>1. t[i] = s[i + 1] /\ i + 1 \in 1..n
      BY <1>3, <2>5
    <3>2. t[i] = s[a] <=> i = k
      BY <1>4, <2>5, <3>1
    <3>3. prv[s[i + 1]] = s[i]
      BY <3>1 DEF Represents
    <3>4. CASE i = k
      <4>1. i = 1 => t[n - 1] = s[n]
        BY <1>3, <2>5, <3>4
      <4>2. i # 1 => t[i - 1] = s[k - 1]
        BY <1>3, <3>4
      <4>3. QED
        BY <1>5, <2>3, <3>2, <3>4, <4>1, <4>2
    <3>5. CASE i # k
      <4>1. i # 1 /\ t[i - 1] = s[i]
        BY <1>3, <2>5, <3>5
      <4>2. QED
        BY <2>3, <3>1, <3>2, <3>3, <3>5, <4>1
    <3>6. QED
      BY <3>4, <3>5
  <2>6. QED
    BY <2>4, <2>5
<1>13. Represents(t, n - 1)'
  <2>1. first' = IF n - 1 = 0 THEN NULL ELSE t[1]
    BY <1>7
  <2> HIDE DEF t
  <2>2. QED
    BY <1>8, <1>9, <1>11, <1>12, <2>1 DEF Represents
<1>14. QED
  BY <1>1, <1>2, <1>10, <1>13

\* The entries with those at i and j exchanged.
Exchanged(s, i, j) == [s EXCEPT ![i] = s[j], ![j] = s[i]]

\* The case of two elements is the one in which the neighbour after b, through
\* the list head, is b itself.
LEMMA ExchangeKeeps ==
  ASSUME TypeOK, NEW n \in Nat, NEW s \in [1..n -> Elt], Represents(s, n),
         n # 2, NEW k \in 1..(n - 1), Exchange(s[k], s[k + 1]),
         outcome' = "ok"
  PROVE  /\ TypeOK'
         /\ Exchanged(s, k, k + 1) \in [1..n -> Elt]
         /\ Represents(Exchanged(s, k, k + 1), n)'
<1> DEFINE t == Exchanged(s, k, k + 1)
<1>1. t \in [1..n -> Elt] /\ k + 1 \in 1..n /\ n > 2
  BY DEF Exchanged
<1>2. \A i \in 1..n : t[i] = IF i = k THEN s[k + 1]
                             ELSE IF i = k + 1 THEN s[k] ELSE s[i]
  BY <1>1 DEF Exchanged
<1>3. \A i, j \in 1..n : s[i] = s[j] => i = j
  BY DEF Represents
<1>4. \A i \in 1..n : s[i] \in Elt /\ s[i] # NULL
  OBVIOUS
<1> DEFINE after == IF k + 1 = n THEN 1 ELSE k + 2
           tail == IF k = 1 THEN n ELSE k - 1
<1>5. /\ first = s[1]
      /\ s[k] = first <=> k = 1
      /\ nxt[s[k + 1]] = IF k + 1 = n THEN NULL ELSE s[k + 2]
      /\ prv[s[k]] = s[tail]
      /\ after \in 1..n /\ tail \in 1..n
  BY <1>1, <1>3 DEF Represents
<1>6. first' = t[1]
  <2>1. first' = IF k = 1 THEN s[k + 1] ELSE s[1]
    BY <1>5 DEF Exchange
  <2>2. t[1] = IF k = 1 THEN s[k + 1] ELSE s[1]
    BY <1>1, <1>2
  <2>3. QED
    BY <2>1, <2>2
<1>7. nxt' = [(IF k = 1 THEN nxt ELSE [nxt EXCEPT ![s[k - 1]] = s[k + 1]])
                EXCEPT ![s[k]] = nxt[s[k + 1]], ![s[k + 1]] = s[k]]
  BY <1>5 DEF Exchange
<1>8. prv' = [prv EXCEPT ![s[after]] = s[k], ![s[k + 1]] = s[tail],
                         ![s[k]] = s[k + 1]]
  <2>1. s[after] = IF nxt[s[k + 1]] # NULL THEN nxt[s[k + 1]]
                   ELSE IF s[k] = first THEN s[k + 1] ELSE first
    BY <1>1, <1>4, <1>5
  <2>2. QED
    BY <1>5, <2>1 DEF Exchange
<1>9. TypeOK'
  <2>1. nxt[s[k + 1]] \in Pointer /\ s[tail] \in Pointer
    BY <1>1, <1>5 DEF TypeOK, Pointer
  <2>2. nxt' \in [Elt -> Pointer]
    BY <1>1, <1>4, <1>7, <2>1 DEF TypeOK, Pointer
  <2>3. prv' \in [Elt -> Pointer]
    BY <1>1, <1>4, <1>5, <1>8, <2>1 DEF TypeOK, Pointer
  <2>4. first' \in Pointer
    BY <1>1, <1>6 DEF Pointer
  <2>5. linked' \in SUBSET Elt
    BY DEF Exchange, TypeOK
  <2>6. ASSUME NEW x \in Elt \ linked'
        PROVE  nxt'[x] = NULL /\ prv'[x] = NULL
    <3>1. linked' = linked /\ linked = {s[i] : i \in 1..n}
      BY DEF Exchange, Represents
    <3>2. /\ nxt[x] = NULL /\ prv[x] = NULL
          /\ \A i \in 1..n : x # s[i]
      BY <3>1 DEF TypeOK
    <3>3. nxt'[x] = NULL
      BY <1>1, <1>7, <3>2 DEF TypeOK
    <3>4. prv'[x] = NULL
      BY <1>1, <1>5, <1>8, <3>2 DEF TypeOK
    <3>5. QED
      BY <3>3, <3>4
  <2>7. QED
    BY <2>2, <2>3, <2>4, <2>5, <2>6 DEF TypeOK
<1>10. linked' = {t[i] : i \in 1..n}
  <2>1. linked' = {s[i] : i \in 1..n}
    BY DEF Exchange, Represents
  <2>2. \A i \in 1..n : \E j \in 1..n : t[i] = s[j]
    BY <1>1, <1>2
  <2>3. \A i \in 1..n : \E j \in 1..n : s[i] = t[j]
    <3>1. t[k] = s[k + 1] /\ t[k + 1] = s[k]
      BY <1>1, <1>2
    <3>2. \A i \in 1..n : i # k /\ i # k + 1 => t[i] = s[i]
      BY <1>2
    <3> SUFFICES ASSUME NEW i \in 1..n PROVE \E j \in 1..n : s[i] = t[j]
      OBVIOUS
    <3>3. CASE i = k
      BY <1>1, <3>1, <3>3
    <3>4. CASE i = k + 1
      BY <1>1, <3>1, <3>4
    <3>5. CASE i # k /\ i # k + 1
      BY <3>2, <3>5
    <3>6. QED
      BY <3>3, <3>4, <3>5
  <2>4. ASSUME NEW x \in linked' PROVE x \in {t[i] : i \in 1..n}
    <3>1. PICK i \in 1..n : x = s[i]
      BY <2>1
    <3> HIDE DEF t
    <3>2. QED
      BY <2>3, <3>1
  <2>5. ASSUME NEW i \in 1..n PROVE t[i] \in linked'
    <3>1. PICK j \in 1..n : t[i] = s[j]
      BY <2>2
    <3> HIDE DEF t
    <3>2. QED
      BY <2>1, <3>1
  <2> HIDE DEF t
  <2>6. QED
    BY <2>4, <2>5
<1>11. \A i, j \in 1..n : t[i] = t[j] => i = j
  BY <1>1, <1>2, <1>3
<1>12. ASSUME NEW i \in 1..n
       PROVE  nxt'[t[i]] = IF i = n THEN NULL ELSE t[i + 1]
  <2>1. nxt'[s[k + 1]] = s[k]
    BY <1>1, <1>4, <1>7 DEF TypeOK
  <2>2. nxt'[s[k]] = IF k + 1 = n THEN NULL ELSE s[k + 2]
    <3>1. s[k] # s[k + 1]
      BY <1>1, <1>3
    <3>2. QED
      BY <1>1, <1>4, <1>5, <1>7, <3>1 DEF TypeOK
  <2>3. \A j \in 1..n : j # k /\ j # k + 1 =>
          nxt'[s[j]] = IF j = k - 1 THEN s[k + 1] ELSE nxt[s[j]]
    <3> SUFFICES ASSUME NEW j \in 1..n, j # k, j # k + 1
                 PROVE  nxt'[s[j]] = IF j = k - 1 THEN s[k + 1] ELSE nxt[s[j]]
      OBVIOUS
    <3>1. s[j] # s[k] /\ s[j] # s[k + 1]
      BY <1>1, <1>3
    <3>2. k # 1 => (s[j] = s[k - 1] <=> j = k - 1)
      BY <1>1, <1>3
    <3>3. QED
      BY <1>1, <1>4, <1>7, <3>1, <3>2 DEF TypeOK
  <2>4. CASE i = k
    BY <1>1, <1>2, <2>1, <2>4
  <2>5. CASE i = k + 1
    BY <1>1, <1>2, <2>2, <2>5
  <2>6. CASE i # k /\ i # k + 1
    <3>1. t[i] = s[i]
      BY <1>2, <2>6
    <3>2. i = k - 1 => t[i + 1] = s[k + 1] /\ i # n
      BY <1>1, <1>2
    <3>3. i # k - 1 /\ i # n => t[i + 1] = s[i + 1]
      BY <1>1, <1>2, <2>6
    <3>4. nxt[s[i]] = IF i = n THEN NULL ELSE s[i + 1]
      BY DEF Represents
    <3>5. QED
      BY <2>3, <2>6, <3>1, <3>2, <3>3, <3>4
  <2>7. QED
    BY <2>4, <2>5, <2>6
<1>13. ASSUME NEW i \in 1..n
       PROVE  prv'[t[i]] = IF i = 1 THEN t[n] ELSE t[i - 1]
  <2>1. prv'[s[k]] = s[k + 1]
    BY <1>1, <1>4, <1>8 DEF TypeOK
  <2>2. prv'[s[k + 1]] = s[tail]
    <3>1. s[k] # s[k + 1]
      BY <1>1, <1>3
    <3>2. QED
      BY <1>1, <1>4, <1>8, <3>1 DEF TypeOK
  <2>3. \A j \in 1..n : j # k /\ j # k + 1 =>
          prv'[s[j]] = IF j = after THEN s[k] ELSE prv[s[j]]
    <3> SUFFICES ASSUME NEW j \in 1..n, j # k, j # k + 1
                 PROVE  prv'[s[j]] = IF j = after THEN s[k] ELSE prv[s[j]]
      OBVIOUS
    <3>1. s[j] # s[k] /\ s[j] # s[k + 1]
      BY <1>1, <1>3
    <3>2. s[j] = s[after] <=> j = after
      BY <1>3, <1>5
    <3>3. QED
      BY <1>1, <1>4, <1>8, <3>1, <3>2 DEF TypeOK
  <2>4. CASE i = k
    BY <1>1, <1>2, <2>2, <2>4
  <2>5. CASE i = k + 1
    BY <1>1, <1>2, <2>1, <2>5
  <2>6. CASE i # k /\ i # k + 1
    <3>1. t[i] = s[i]
      BY <1>2, <2>6
    <3>2. prv[s[i]] = IF i = 1 THEN s[n] ELSE s[i - 1]
      BY DEF Represents
    <3>3. CASE i = after
      <4>1. i = 1 => t[n] = s[k]
        BY <1>1, <1>2, <3>3
      <4>2. i # 1 => t[i - 1] = s[k]
        BY <1>1, <1>2, <3>3
      <4>3. QED
        BY <2>3, <2>6, <3>1, <3>3, <4>1, <4>2
    <3>4. CASE i # after
      <4>1. i = 1 => t[n] = s[n]
        BY <1>1, <1>2, <2>6, <3>4
      <4>2. i # 1 => t[i - 1] = s[i - 1]
        BY <1>1, <1>2, <2>6, <3>4
      <4>3. QED
        BY <2>3, <2>6, <3>1, <3>2, <3>4, <4>1, <4>2
    <3>5. QED
      BY <3>3, <3>4
  <2>7. QED
    BY <2>4, <2>5, <2>6
<1>14. Represents(t, n)'
  <2>1. first' = IF n = 0 THEN NULL ELSE t[1]
    BY <1>1, <1>6
  <2> HIDE DEF t
  <2>2. QED
    BY <1>10, <1>11, <1>12, <1>13, <2>1 DEF Represents
<1>15. QED
  BY <1>1, <1>9, <1>14

\* The guard of Move counts the elements of the list.
LEMMA EntriesCounted ==
  ASSUME TypeOK, NEW n \in Nat, NEW s \in [1..n -> Elt], Represents(s, n)
  PROVE  Cardinality(linked) = n
<1>1. s \in Bijection(1..n, linked)
  <2>1. s \in [1..n -> linked]
    BY DEF Represents
  <2>2. \A i, j \in 1..n : s[i] = s[j] => i = j
    BY DEF Represents
  <2>3. \A x \in linked : \E i \in 1..n : s[i] = x
    BY DEF Represents
  <2>4. QED
    BY <2>1, <2>2, <2>3 DEF Bijection, Injection, Surjection, IsInjective
<1>2. IsFiniteSet(1..n) /\ Cardinality(1..n) = n
  BY FS_Interval
<1>3. QED
  BY <1>1, <1>2, FS_Bijection DEF ExistsBijection

LEMMA MoveKeeps ==
  ASSUME TypeOK, NEW n \in Nat, NEW s \in [1..n -> Elt], Represents(s, n),
         2 \notin MoveLengths, NEW e \in Elt, NEW up \in BOOLEAN, Move(up, e),
         Found(e)
  PROVE  /\ TypeOK'
         /\ \/ Represents(s, n)'
            \/ \E k \in 1..(n - 1) : /\ e = IF up THEN s[k + 1] ELSE s[k]
                                    /\ Exchanged(s, k, k + 1) \in [1..n -> Elt]
                                    /\ Represents(Exchanged(s, k, k + 1), n)'
<1> DEFINE a == IF up THEN prv[e] ELSE e
           b == IF up THEN e ELSE nxt[e]
<1>1. PICK i \in 1..n : s[i] = e
  BY FoundIsEntry
<1>2. CASE b \in {NULL, first}
  <2>1. UNCHANGED <<first, nxt, prv, linked>> /\ outcome' = "warned"
    BY <1>2 DEF Move, NotFound, pointers
  <2>2. Represents(s, n)' /\ TypeOK'
    BY <2>1 DEF Represents, TypeOK, Pointer
  <2>3. QED
    BY <2>2
<1>3. CASE b \notin {NULL, first}
  <2>1. Exchange(a, b) /\ outcome' = "ok"
    BY <1>3 DEF Move, NotFound
  <2>2. n # 2
    BY EntriesCounted DEF Move
  <2>3. \E k \in 1..(n - 1) : a = s[k] /\ b = s[k + 1]
    <3>1. CASE up
      <4>1. i # 1
        BY <1>1, <1>3, <3>1 DEF Represents
      <4>2. a = s[i - 1] /\ b = s[i] /\ i - 1 \in 1..(n - 1)
        BY <1>1, <3>1, <4>1 DEF Represents
      <4>3. QED
        BY <4>2
    <3>2. CASE ~up
      <4>1. i # n
        BY <1>1, <1>3, <3>2 DEF Represents
      <4>2. a = s[i] /\ b = s[i + 1] /\ i \in 1..(n - 1)
        BY <1>1, <3>2, <4>1 DEF Represents
      <4>3. QED
        BY <4>2
    <3>3. QED
      BY <3>1, <3>2
  <2>4. PICK k \in 1..(n - 1) : a = s[k] /\ b = s[k + 1]
    BY <2>3
  <2>5. Exchange(s[k], s[k + 1])
    BY <2>1, <2>4
  <2>6. e = IF up THEN s[k + 1] ELSE s[k]
    BY <2>4
  <2>7. QED
    BY <2>1, <2>2, <2>5, <2>6, ExchangeKeeps
<1>4. QED
  BY <1>2, <1>3

-----------------------------------------------------------------------------
(* The walk of DESTROY_CHAIN_ELTS reaches every element.  This takes an    *)
(* induction along the list, here on the first element not reached.        *)

LEMMA EntryIsFound ==
  ASSUME TypeOK, NEW n \in Nat, NEW s \in [1..n -> Elt], Represents(s, n),
         NEW i \in 1..n
  PROVE  Found(s[i])
<1>1. first = s[1] /\ first # NULL
  BY DEF Represents
<1>2. ASSUME NEW S \in SUBSET Elt, first \in S,
             \A x \in S : nxt[x] # NULL => nxt[x] \in S
      PROVE  s[i] \in S
  <2> DEFINE Missed == {j \in 1..n : s[j] \notin S}
  <2>1. SUFFICES ASSUME Missed # {} PROVE FALSE
    OBVIOUS
  <2>2. PICK m \in Missed : \A k \in Missed : m <= k
    <3>1. Missed \in SUBSET Nat
      OBVIOUS
    <3> HIDE DEF Missed
    <3>2. QED
      BY <2>1, <3>1, LeastNumber
  <2>3. m \in 1..n /\ m # 1
    BY <1>1, <1>2
  <2>4. m - 1 \in 1..n /\ s[m - 1] \in S
    BY <2>2, <2>3
  <2>5. nxt[s[m - 1]] = s[m] /\ s[m] # NULL
    BY <2>3, <2>4 DEF Represents
  <2>6. QED
    BY <1>2, <2>4, <2>5
<1>3. QED
  BY <1>1, <1>2 DEF Found

LEMMA DestroyKeeps ==
  ASSUME TypeOK, NEW n \in Nat, NEW s \in [1..n -> Elt], Represents(s, n),
         Destroy
  PROVE  TypeOK' /\ <<>> \in [1..0 -> Elt] /\ Represents(<<>>, 0)'
<1>1. linked' = {}
  <2>1. ASSUME NEW e \in linked PROVE Found(e)
    <3>1. PICK i \in 1..n : e = s[i]
      BY DEF Represents
    <3>2. QED
      BY <3>1, EntryIsFound
  <2>2. QED
    BY <2>1 DEF Destroy, TypeOK
<1>2. TypeOK'
  BY <1>1 DEF Destroy, TypeOK, Pointer
<1>3. <<>> \in [1..0 -> Elt]
  OBVIOUS
<1>4. Represents(<<>>, 0)'
  BY <1>1 DEF Represents, Destroy
<1>5. QED
  BY <1>2, <1>3, <1>4

-----------------------------------------------------------------------------
(* Steps between sequences.                                                *)

\* What a call may make of the entries s: what List says of a step.
Changed(s, t) ==
  \/ \E e \in Elt : (\A i \in 1..Len(s) : s[i] # e) /\ t = Append(s, e)
  \/ \E k \in 1..Len(s) : t = Without(s, Len(s), k)
  \/ \E k \in 1..(Len(s) - 1) : t = Exchanged(s, k, k + 1)
  \/ t \in {s, <<>>}

LEMMA EntriesAreChanged ==
  ASSUME 2 \notin MoveLengths, TypeOK, [Next]_vars,
         NEW n \in Nat, NEW s \in [1..n -> Elt], Represents(s, n)
  PROVE  /\ TypeOK'
         /\ \E m \in Nat : \E t \in [1..m -> Elt] : Represents(t, m)' /\ Changed(s, t)
<1>1. Len(s) = n /\ n + 1 \in Nat /\ (n # 0 => n - 1 \in Nat)
  OBVIOUS
<1>2. ASSUME UNCHANGED pointers, outcome' \in {"ok", "warned", "refused"}
      PROVE  TypeOK' /\ Represents(s, n)' /\ Changed(s, s)
  BY <1>2 DEF Represents, TypeOK, Pointer, pointers, Changed
<1>3. ASSUME NEW e \in Elt, Link(e)
      PROVE  /\ TypeOK' /\ Append(s, e) \in [1..(n + 1) -> Elt]
             /\ Represents(Append(s, e), n + 1)' /\ Changed(s, Append(s, e))
  BY <1>1, <1>3, LinkKeeps DEF Changed
<1>4. ASSUME NEW e \in Elt, Unlink(e), Found(e)
      PROVE  \E k \in 1..n : /\ TypeOK' /\ Without(s, n, k) \in [1..(n - 1) -> Elt]
                             /\ Represents(Without(s, n, k), n - 1)'
                             /\ Changed(s, Without(s, n, k))
  BY <1>1, <1>4, UnlinkKeeps DEF Changed
<1>5. ASSUME NEW e \in Elt, NEW up \in BOOLEAN, Move(up, e), Found(e)
      PROVE  \E t \in [1..n -> Elt] : TypeOK' /\ Represents(t, n)' /\ Changed(s, t)
  BY <1>1, <1>5, MoveKeeps DEF Changed
<1>6. ASSUME Destroy
      PROVE  TypeOK' /\ <<>> \in [1..0 -> Elt] /\ Represents(<<>>, 0)' /\ Changed(s, <<>>)
  BY <1>6, DestroyKeeps DEF Changed
<1>7. ASSUME NEW e \in Elt, Link(e)
      PROVE  TypeOK' /\ \E m \in Nat : \E t \in [1..m -> Elt] : Represents(t, m)' /\ Changed(s, t)
  BY <1>1, <1>3, <1>7
<1>8. ASSUME NEW e \in Elt, Unlink(e)
      PROVE  TypeOK' /\ \E m \in Nat : \E t \in [1..m -> Elt] : Represents(t, m)' /\ Changed(s, t)
  <2>1. CASE Found(e)
    <3>1. n - 1 \in Nat
      BY <1>1, <1>4, <1>8, <2>1
    <3>2. QED
      BY <1>4, <1>8, <2>1, <3>1
  <2>2. CASE ~Found(e)
    BY <1>2, <1>8, <2>2 DEF Unlink, NotFound
  <2>3. QED
    BY <2>1, <2>2
<1>9. ASSUME NEW e \in Elt, NEW up \in BOOLEAN, Move(up, e)
      PROVE  TypeOK' /\ \E m \in Nat : \E t \in [1..m -> Elt] : Represents(t, m)' /\ Changed(s, t)
  <2>1. CASE Found(e)
    BY <1>5, <1>9, <2>1
  <2>2. CASE ~Found(e)
    BY <1>2, <1>9, <2>2 DEF Move, NotFound
  <2>3. QED
    BY <2>1, <2>2
<1>10. CASE Destroy
  BY <1>6, <1>10
<1>11. CASE UNCHANGED vars
  BY <1>2, <1>11 DEF vars, pointers, TypeOK
<1>12. QED
  BY <1>7, <1>8, <1>9, <1>10, <1>11 DEF Next

\* Type correctness needs the shape of the list: an element of a list always
\* has a previous one, and so MOVE_CHAIN_ELT never follows NULL.
ListInv == TypeOK /\ WellLinked

LEMMA EmptyList ==
  ASSUME Init
  PROVE  TypeOK /\ <<>> \in [1..0 -> Elt] /\ Represents(<<>>, 0)
<1>1. TypeOK
  BY DEF Init, TypeOK, Pointer
<1>2. Represents(<<>>, 0)
  BY DEF Represents, Init
<1>3. QED
  BY <1>1, <1>2

LEMMA ListInvariant ==
  ASSUME 2 \notin MoveLengths
  PROVE  Spec => []ListInv
<1>1. Init => ListInv
  BY EmptyList, RepresentedIsWellLinked DEF ListInv
<1>2. ListInv /\ [Next]_vars => ListInv'
  <2> SUFFICES ASSUME ListInv, [Next]_vars PROVE ListInv'
    OBVIOUS
  <2>1. TypeOK
    BY DEF ListInv
  <2>2. PICK n \in Nat : \E s \in [1..n -> Elt] : Represents(s, n)
    BY FS_CardinalityType DEF ListInv, WellLinked
  <2>3. PICK s \in [1..n -> Elt] : Represents(s, n)
    BY <2>2
  <2>4. /\ TypeOK'
        /\ \E m \in Nat : \E t \in [1..m -> Elt] : Represents(t, m)'
    BY <2>1, <2>3, EntriesAreChanged
  <2>5. QED
    BY <2>4, RepresentedIsWellLinkedNext DEF ListInv
<1>3. QED
  BY <1>1, <1>2, PTL DEF Spec

\* The list functions never leave a pointer outside the list's elements.
THEOREM ListTypeCorrect ==
  ASSUME 2 \notin MoveLengths
  PROVE  Spec => []TypeOK
<1>1. ListInv => TypeOK
  BY DEF ListInv
<1>2. QED
  BY <1>1, ListInvariant, PTL

\* Every allocated element stays reachable, once and in both directions, and
\* "next" of the last one is NULL, whatever the user of the list calls, as
\* long as he moves no element of a list of two (func_template.h).
THEOREM WellLinkedAlways ==
  ASSUME 2 \notin MoveLengths
  PROVE  Spec => []WellLinked
<1>1. ListInv => WellLinked
  BY DEF ListInv
<1>2. QED
  BY <1>1, ListInvariant, PTL

-----------------------------------------------------------------------------
(* The walk along next reads the entries in their order.                   *)

\* The next fields nx are those of a list with the n entries s, and of
\* elements outside it that lead nowhere.
Linked(nx, s, n) ==
  /\ \A i, j \in 1..n : s[i] = s[j] => i = j
  /\ \A i \in 1..n : nx[s[i]] = IF i = n THEN NULL ELSE s[i + 1]
  /\ \A e \in Elt : e \in {s[i] : i \in 1..n} \/ nx[e] = NULL

\* The entries from i on, but at most m.
Part(s, n, m, i) ==
  [j \in 1..(IF i + m - 1 <= n THEN m ELSE n - i + 1) |-> s[i + j - 1]]

LEMMA ConcatFacts ==
  ASSUME NEW S, NEW a \in Seq(S), NEW b \in Seq(S)
  PROVE  /\ a \o b \in Seq(S) /\ Len(a) \in Nat /\ Len(b) \in Nat
         /\ Len(a \o b) = Len(a) + Len(b)
         /\ \A i \in 1..Len(a) : (a \o b)[i] = a[i]
         /\ \A i \in Len(a) + 1..Len(a) + Len(b) : (a \o b)[i] = b[i - Len(a)]
  OBVIOUS

LEMMA PartFacts ==
  ASSUME NEW n \in Nat, NEW s \in [1..n -> Elt], NEW m \in Nat
  PROVE  /\ \A i \in 1..n + 1 : Part(s, n, 0, i) = <<>>
         /\ Part(s, n, m, n + 1) = <<>>
         /\ m >= n => Part(s, n, m, 1) = s
         /\ m # 0 => \A i \in 1..n : Part(s, n, m, i) = <<s[i]>> \o Part(s, n, m - 1, i + 1)
<1>1. \A i \in 1..n + 1 : Part(s, n, 0, i) = <<>>
  BY DEF Part
<1>2. Part(s, n, m, n + 1) = <<>>
  <2>1. (IF n + 1 + m - 1 <= n THEN m ELSE n - (n + 1) + 1) = 0
    OBVIOUS
  <2>2. QED
    BY <2>1 DEF Part
<1>3. m >= n => Part(s, n, m, 1) = s
  <2>1. SUFFICES ASSUME m >= n PROVE Part(s, n, m, 1) = s
    OBVIOUS
  <2>2. (IF 1 + m - 1 <= n THEN m ELSE n - 1 + 1) = n
    BY <2>1
  <2>3. Part(s, n, m, 1) = [j \in 1..n |-> s[1 + j - 1]]
    BY <2>2 DEF Part
  <2>4. \A j \in 1..n : 1 + j - 1 = j
    OBVIOUS
  <2>5. QED
    BY <2>3, <2>4
<1>4. ASSUME m # 0, NEW i \in 1..n
      PROVE  Part(s, n, m, i) = <<s[i]>> \o Part(s, n, m - 1, i + 1)
  <2> DEFINE p == Part(s, n, m - 1, i + 1)
             k == IF i + m - 1 <= n THEN m ELSE n - i + 1
  <2>1. k \in Nat /\ k >= 1
    BY <1>4
  <2>2. (IF i + 1 + (m - 1) - 1 <= n THEN m - 1 ELSE n - (i + 1) + 1) = k - 1
    BY <1>4
  <2>3. p = [j \in 1..k - 1 |-> s[i + 1 + j - 1]]
    BY <2>2 DEF Part
  <2>4. Part(s, n, m, i) = [j \in 1..k |-> s[i + j - 1]]
    BY DEF Part
  <2>5. k <= n - i + 1
    BY <1>4
  <2> HIDE DEF k, p
  <2>6. \A j \in 1..k - 1 : p[j] = s[i + j] /\ p[j] \in Elt
    <3>1. \A j \in 1..k - 1 : i + 1 + j - 1 = i + j /\ i + j \in 1..n
      BY <2>1, <2>5
    <3>2. QED
      BY <2>3, <3>1
  <2>7. p \in Seq(Elt) /\ Len(p) = k - 1
    BY <2>1, <2>3, <2>6
  <2>8. <<s[i]>> \in Seq(Elt) /\ Len(<<s[i]>>) = 1 /\ <<s[i]>>[1] = s[i]
    OBVIOUS
  <2> DEFINE h == <<s[i]>>
             q == h \o p
  <2> HIDE DEF h
  <2>9. h \in Seq(Elt) /\ Len(h) = 1 /\ h[1] = s[i]
    BY <2>8 DEF h
  <2>10. /\ q \in Seq(Elt) /\ Len(q) = k
         /\ q[1] = s[i]
         /\ \A j \in 2..k : q[j] = p[j - 1]
    <3>1. /\ q \in Seq(Elt)
          /\ Len(q) = Len(h) + Len(p)
          /\ \A j \in 1..Len(h) : q[j] = h[j]
          /\ \A j \in Len(h) + 1..Len(h) + Len(p) : q[j] = p[j - Len(h)]
      BY <2>7, <2>9, ConcatFacts
    <3> HIDE DEF q
    <3>2. QED
      BY <2>1, <2>7, <2>9, <3>1
  <2> HIDE DEF q
  <2>11. \A j \in 1..k : q[j] = s[i + j - 1]
    <3>1. \A j \in 2..k : j - 1 \in 1..k - 1 /\ i + (j - 1) = i + j - 1
      BY <2>1
    <3>2. i + 1 - 1 = i
      OBVIOUS
    <3>3. \A j \in 2..k : q[j] = s[i + j - 1]
      BY <2>6, <2>10, <3>1
    <3>4. \A j \in 1..k : j = 1 \/ j \in 2..k
      BY <2>1
    <3>5. QED
      BY <2>10, <3>2, <3>3, <3>4
  <2>12. q = [j \in 1..k |-> s[i + j - 1]]
    BY <2>1, <2>10, <2>11
  <2>13. QED
    BY <2>4, <2>12 DEF q, h, p
<1>5. QED
  BY <1>1, <1>2, <1>3, <1>4

\* A walk of at most N steps.
IsWalk(f, N, nx) ==
  f = [m \in 0..N |-> [x \in Pointer |->
         IF x = NULL \/ m = 0 THEN <<>> ELSE <<x>> \o f[m - 1][nx[x]]]]

LEMMA WalkExists ==
  ASSUME NEW N \in Nat, NEW nx \in [Elt -> Pointer],
         NEW n \in Nat, NEW s \in [1..n -> Elt], Linked(nx, s, n)
  PROVE  \E f : IsWalk(f, N, nx)
<1> DEFINE At(x) == CHOOSE i \in 1..n : s[i] = x
           In(x) == \E i \in 1..n : s[i] = x
           g(m, x) == IF x = NULL \/ m = 0 THEN <<>>
                      ELSE IF In(x) THEN Part(s, n, m, At(x)) ELSE <<x>>
           f == [m \in 0..N |-> [x \in Pointer |-> g(m, x)]]
<1>1. \A i \in 1..n : At(s[i]) = i /\ In(s[i]) /\ s[i] \in Elt /\ s[i] # NULL
  BY DEF Linked
<1>2. \A m \in 0..N : \A x \in Pointer : f[m][x] = g(m, x)
  OBVIOUS
<1> HIDE DEF At, In
<1>3. ASSUME NEW m \in 0..N, NEW x \in Pointer
      PROVE  g(m, x) = IF x = NULL \/ m = 0 THEN <<>> ELSE <<x>> \o f[m - 1][nx[x]]
  <2>1. CASE x = NULL \/ m = 0
    BY <2>1
  <2>2. CASE x # NULL /\ m # 0
    <3>1. x \in Elt /\ nx[x] \in Pointer /\ m - 1 \in 0..N /\ m \in Nat /\ m - 1 \in Nat
      BY <2>2 DEF Pointer
    <3>2. f[m - 1][nx[x]] = g(m - 1, nx[x])
      BY <1>2, <3>1
    <3>3. CASE In(x)
      <4>1. PICK i \in 1..n : x = s[i]
        BY <3>3 DEF In
      <4>2. g(m, x) = Part(s, n, m, i)
        BY <1>1, <2>2, <3>3, <4>1
      <4>3. Part(s, n, m, i) = <<x>> \o Part(s, n, m - 1, i + 1)
        BY <2>2, <3>1, <4>1, PartFacts
      <4>4. g(m - 1, nx[x]) = Part(s, n, m - 1, i + 1)
        <5>1. CASE i = n
          <6>1. nx[x] = NULL
            BY <4>1, <5>1 DEF Linked
          <6>2. Part(s, n, m - 1, n + 1) = <<>>
            BY <3>1, PartFacts
          <6>3. QED
            BY <5>1, <6>1, <6>2
        <5>2. CASE i # n
          <6>1. nx[x] = s[i + 1] /\ i + 1 \in 1..n /\ i + 1 \in 1..n + 1
            BY <4>1, <5>2 DEF Linked
          <6>2. m - 1 = 0 => Part(s, n, m - 1, i + 1) = <<>>
            BY <3>1, <6>1, PartFacts
          <6>3. QED
            BY <1>1, <6>1, <6>2
        <5>3. QED
          BY <5>1, <5>2
      <4>5. QED
        BY <2>2, <3>2, <4>2, <4>3, <4>4
    <3>4. CASE ~In(x)
      <4>1. nx[x] = NULL
        BY <3>1, <3>4 DEF Linked, In
      <4>2. g(m - 1, nx[x]) = <<>> /\ g(m, x) = <<x>>
        BY <2>2, <3>4, <4>1
      <4>3. <<x>> \o <<>> = <<x>>
        BY <3>1
      <4>4. QED
        BY <2>2, <3>2, <4>2, <4>3
    <3>5. QED
      BY <3>3, <3>4
  <2>3. QED
    BY <2>1, <2>2
<1> HIDE DEF g
<1>4. IsWalk(f, N, nx)
  BY <1>3 DEF IsWalk
<1>5. QED
  BY <1>4

LEMMA WalkIsPart ==
  ASSUME NEW N \in Nat, NEW nx \in [Elt -> Pointer],
         NEW n \in Nat, NEW s \in [1..n -> Elt], Linked(nx, s, n),
         NEW f, IsWalk(f, N, nx)
  PROVE  \A m \in 0..N : \A i \in 1..n : f[m][s[i]] = Part(s, n, m, i)
<1> DEFINE g(k) == [y \in Pointer |->
              IF y = NULL \/ k = 0 THEN <<>> ELSE <<y>> \o f[k - 1][nx[y]]]
<1>a. f = [k \in 0..N |-> g(k)]
  BY Zenon DEF IsWalk
<1> HIDE DEF g
<1>b. \A k \in 0..N : f[k] = g(k)
  BY <1>a
<1>0. \A k \in 0..N : \A x \in Pointer :
        /\ x = NULL \/ k = 0 => f[k][x] = <<>>
        /\ x # NULL /\ k # 0 => f[k][x] = <<x>> \o f[k - 1][nx[x]]
  BY <1>b DEF g
<1> DEFINE Good(m) == \A i \in 1..n : f[m][s[i]] = Part(s, n, m, i)
           Bad == {m \in 0..N : ~Good(m)}
<1>1. SUFFICES ASSUME Bad # {} PROVE FALSE
  OBVIOUS
<1>2. PICK m \in Bad : \A k \in Bad : m <= k
  <2>1. Bad \in SUBSET Nat
    OBVIOUS
  <2> HIDE DEF Bad
  <2>2. QED
    BY <1>1, <2>1, LeastNumber
<1>3. m \in 0..N /\ m \in Nat
  OBVIOUS
<1>4. PICK i \in 1..n : f[m][s[i]] # Part(s, n, m, i)
  OBVIOUS
<1>5. s[i] \in Elt /\ s[i] \in Pointer /\ s[i] # NULL
  BY DEF Pointer
<1>6. f[m][s[i]] = IF m = 0 THEN <<>> ELSE <<s[i]>> \o f[m - 1][nx[s[i]]]
  BY <1>0, <1>3, <1>5
<1>7. m # 0
  BY <1>3, <1>4, <1>6, PartFacts
<1>8. m - 1 \in 0..N /\ m - 1 \in Nat /\ Good(m - 1)
  <2>1. m - 1 \in 0..N /\ m - 1 \in Nat
    BY <1>3, <1>7
  <2>2. m - 1 \notin Bad
    BY <1>2, <1>3, <2>1
  <2>3. QED
    BY <2>1, <2>2
<1>9. f[m - 1][nx[s[i]]] = Part(s, n, m - 1, i + 1)
  <2>1. CASE i = n
    <3>1. nx[s[i]] = NULL
      BY <2>1 DEF Linked
    <3>2. f[m - 1][NULL] = <<>>
      <4>1. NULL \in Pointer
        BY DEF Pointer
      <4> DEFINE k == m - 1
      <4>2. k \in 0..N
        BY <1>8
      <4> HIDE DEF k
      <4>3. f[k][NULL] = <<>>
        BY <1>0, <4>1, <4>2
      <4>4. QED
        BY <4>3 DEF k
    <3>3. Part(s, n, m - 1, n + 1) = <<>>
      BY <1>8, PartFacts
    <3>4. QED
      BY <2>1, <3>1, <3>2, <3>3
  <2>2. CASE i # n
    <3>1. nx[s[i]] = s[i + 1] /\ i + 1 \in 1..n
      BY <2>2 DEF Linked
    <3>2. QED
      BY <1>8, <3>1
  <2>3. QED
    BY <2>1, <2>2
<1>10. Part(s, n, m, i) = <<s[i]>> \o Part(s, n, m - 1, i + 1)
  BY <1>3, <1>7, PartFacts
<1>11. QED
  BY <1>4, <1>6, <1>7, <1>9, <1>10

LEMMA WalkFromNull ==
  ASSUME NEW N \in Nat, NEW nx, NEW f, IsWalk(f, N, nx)
  PROVE  f[N][NULL] = <<>>
<1> DEFINE g(k) == [y \in Pointer |->
              IF y = NULL \/ k = 0 THEN <<>> ELSE <<y>> \o f[k - 1][nx[y]]]
<1>1. f = [k \in 0..N |-> g(k)]
  BY Zenon DEF IsWalk
<1> HIDE DEF g
<1>2. f[N] = g(N)
  BY <1>1
<1>3. NULL \in Pointer
  BY DEF Pointer
<1>4. QED
  BY <1>2, <1>3 DEF g

LEMMA WalkOfList ==
  ASSUME NEW nx \in [Elt -> Pointer], NEW n \in Nat, NEW s \in [1..n -> Elt],
         Linked(nx, s, n), NEW f, IsWalk(f, Cardinality(Elt), nx)
  PROVE  f[Cardinality(Elt)][IF n = 0 THEN NULL ELSE s[1]] = s
<1> DEFINE N == Cardinality(Elt)
<1>1. N \in Nat /\ n <= N /\ N \in 0..N
  BY EntriesBounded, FS_CardinalityType DEF Linked
<1> HIDE DEF N
<1>2. IsWalk(f, N, nx)
  BY DEF N
<1>3. CASE n = 0
  <2>1. f[N][NULL] = <<>>
    BY <1>1, <1>2, WalkFromNull
  <2>2. s = <<>>
    BY <1>3
  <2>3. QED
    BY <1>3, <2>1, <2>2 DEF N
<1>4. CASE n # 0
  <2>1. 1 \in 1..n
    BY <1>4
  <2>2. f[N][s[1]] = Part(s, n, N, 1)
    BY <1>1, <1>2, <2>1, WalkIsPart
  <2>3. Part(s, n, N, 1) = s
    BY <1>1, PartFacts
  <2>4. QED
    BY <1>4, <2>2, <2>3 DEF N
<1>5. QED
  BY <1>3, <1>4

\* What the user of the list reads are its entries, in this state and the next.
LEMMA WalkIsList ==
  \A n \in Nat : \A s \in [1..n -> Elt] :
    TypeOK /\ Represents(s, n) => WalkFrom(first) = s
<1> SUFFICES ASSUME NEW n \in Nat, NEW s \in [1..n -> Elt], TypeOK, Represents(s, n)
             PROVE  WalkFrom(first) = s
  OBVIOUS
<1>1. nxt \in [Elt -> Pointer] /\ Linked(nxt, s, n)
  BY DEF TypeOK, Represents, Linked
<1>2. first = IF n = 0 THEN NULL ELSE s[1]
  BY DEF Represents
<1> DEFINE N == Cardinality(Elt)
           walk == CHOOSE f : IsWalk(f, N, nxt)
<1>3. WalkFrom(first) = walk[N][first]
  BY DEF WalkFrom, IsWalk
<1>4. IsWalk(walk, N, nxt)
  <2>1. N \in Nat
    BY FS_CardinalityType
  <2>2. \E f : IsWalk(f, N, nxt)
    BY <1>1, <2>1, WalkExists
  <2>3. QED
    BY <2>2
<1> HIDE DEF walk
<1>5. walk[N][IF n = 0 THEN NULL ELSE s[1]] = s
  BY <1>1, <1>4, WalkOfList
<1>6. QED
  BY <1>2, <1>3, <1>5

LEMMA WalkIsListNext ==
  (\A n \in Nat : \A s \in [1..n -> Elt] :
     TypeOK /\ Represents(s, n) => WalkFrom(first) = s)'
  BY WalkIsList, PTL

\* What RemoveAt leaves.
LEMMA WithoutIs ==
  ASSUME NEW s \in Seq(Elt), NEW k \in 1..Len(s)
  PROVE  Sequence!Ext!RemoveAt(s, k) = Without(s, Len(s), k)
<1> DEFINE n == Len(s)
           a == SubSeq(s, 1, k - 1)
           b == SubSeq(s, k + 1, n)
           t == Without(s, n, k)
<1>1. n \in Nat /\ k \in 1..n
  OBVIOUS
<1>2. /\ a \in Seq(Elt) /\ Len(a) = k - 1
      /\ \A i \in 1..(k - 1) : a[i] = s[i]
  OBVIOUS
<1>3. /\ b \in Seq(Elt) /\ Len(b) = n - k
      /\ \A i \in 1..(n - k) : b[i] = s[k + i]
  OBVIOUS
<1>4. t = [i \in 1..(n - 1) |-> IF i < k THEN s[i] ELSE s[i + 1]]
  BY DEF Without
<1>5. Sequence!Ext!RemoveAt(s, k) = a \o b
  BY DEF Sequence!Ext!RemoveAt
<1> HIDE DEF n, a, b, t
<1>6. /\ a \o b \in Seq(Elt)
      /\ Len(a \o b) = Len(a) + Len(b)
      /\ \A i \in 1..Len(a) : (a \o b)[i] = a[i]
      /\ \A i \in Len(a) + 1..Len(a) + Len(b) : (a \o b)[i] = b[i - Len(a)]
  BY <1>2, <1>3, ConcatFacts
<1> DEFINE c == a \o b
<1> HIDE DEF c
<1>7. /\ c \in Seq(Elt) /\ Len(c) = n - 1
      /\ \A i \in 1..(k - 1) : c[i] = a[i]
      /\ \A i \in k..(n - 1) : c[i] = b[i - (k - 1)]
  BY <1>1, <1>2, <1>3, <1>6 DEF c
<1>8. ASSUME NEW i \in 1..(n - 1)
      PROVE  c[i] = IF i < k THEN s[i] ELSE s[i + 1]
  <2>1. CASE i < k
    BY <1>1, <1>2, <1>7, <2>1
  <2>2. CASE ~(i < k)
    <3>1. i - (k - 1) \in 1..(n - k) /\ k + (i - (k - 1)) = i + 1 /\ i \in k..(n - 1)
      BY <1>1, <2>2
    <3>2. QED
      BY <1>3, <1>7, <2>2, <3>1
  <2>3. QED
    BY <2>1, <2>2
<1>9. c = [i \in 1..(n - 1) |-> IF i < k THEN s[i] ELSE s[i + 1]]
  BY <1>1, <1>7, <1>8
<1>10. QED
  BY <1>4, <1>5, <1>9 DEF c, t, n

LEMMA ChangeIsListStep ==
  ASSUME NEW n \in Nat, NEW s \in [1..n -> Elt], NEW t,
         WalkFrom(first) = s, WalkFrom(first)' = t, Changed(s, t)
  PROVE  [Sequence!Next]_(WalkFrom(first))
<1>1. s \in Seq(Elt) /\ Len(s) = n
  OBVIOUS
<1>2. ASSUME NEW e \in Elt, \A i \in 1..n : s[i] # e, t = Append(s, e)
      PROVE  Sequence!Add(e)
  BY <1>1, <1>2 DEF Sequence!Add, Sequence!Elements
<1>3. ASSUME NEW k \in 1..n, t = Without(s, n, k)
      PROVE  s[k] \in Elt /\ Sequence!Remove(s[k])
  BY <1>1, <1>3, WithoutIs DEF Sequence!Remove
<1>4. ASSUME NEW k \in 1..(n - 1), t = Exchanged(s, k, k + 1)
      PROVE  s[k] \in Elt /\ Sequence!MoveDown(s[k])
  <2>1. k \in 1..(Len(s) - 1) /\ s[k] \in Elt
    BY <1>1, <1>4
  <2>2. Sequence!Swapped(k, k + 1) = t
    BY <1>4 DEF Sequence!Swapped, Exchanged
  <2>3. QED
    BY <2>1, <2>2 DEF Sequence!MoveDown
<1>5. t = <<>> => Sequence!Destroy
  BY DEF Sequence!Destroy
<1>6. QED
  BY <1>1, <1>2, <1>3, <1>4, <1>5 DEF Changed, Sequence!Next

\* The list is a sequence to its user, who walks along "next" from the first
\* element: gom_add_xref appends, gom_remove_xref takes one element out,
\* gom_move_xref exchanges two neighbours, and nothing else ever changes, as
\* long as he moves no element of a list of two.
THEOREM ImplementsASequence ==
  ASSUME 2 \notin MoveLengths
  PROVE  Spec => IsASequence
<1>1. Init => Sequence!Init
  <2> SUFFICES ASSUME Init PROVE Sequence!Init
    OBVIOUS
  <2>1. TypeOK /\ <<>> \in [1..0 -> Elt] /\ Represents(<<>>, 0)
    BY EmptyList
  <2>2. WalkFrom(first) = <<>>
    BY <2>1, WalkIsList
  <2>3. QED
    BY <2>2 DEF Sequence!Init
<1>2. ListInv /\ [Next]_vars => [Sequence!Next]_(WalkFrom(first))
  <2> SUFFICES ASSUME ListInv, [Next]_vars PROVE [Sequence!Next]_(WalkFrom(first))
    OBVIOUS
  <2>1. TypeOK
    BY DEF ListInv
  <2>2. PICK n \in Nat : \E s \in [1..n -> Elt] : Represents(s, n)
    BY FS_CardinalityType DEF ListInv, WellLinked
  <2>3. PICK s \in [1..n -> Elt] : Represents(s, n)
    BY <2>2
  <2>4. PICK m \in Nat : TypeOK' /\ \E t \in [1..m -> Elt] : Represents(t, m)' /\ Changed(s, t)
    BY <2>1, <2>3, EntriesAreChanged
  <2>5. PICK t \in [1..m -> Elt] : Represents(t, m)' /\ Changed(s, t)
    BY <2>4
  <2>6. WalkFrom(first) = s
    BY <2>1, <2>3, WalkIsList
  <2>7. WalkFrom(first)' = t
    BY <2>4, <2>5, WalkIsListNext
  <2>8. QED
    BY <2>5, <2>6, <2>7, ChangeIsListStep
<1>3. QED
  BY <1>1, <1>2, ListInvariant, PTL DEF Spec, IsASequence, Sequence!Spec
=============================================================================
