----------------------------- MODULE ParserProofs ---------------------------
(***************************************************************************)
(* Proofs about the parser and about the contexts of callbacks, for any    *)
(* number of lines, levels and files, any set of error mechanisms and any  *)
(* subscriptions.                                                          *)
(***************************************************************************)
EXTENDS Callbacks, FiniteSetTheorems, SequenceTheorems, WellFoundedInduction, TLAPS

USE ParserAssumption

-----------------------------------------------------------------------------
(* The inductive invariant, in parts.                                      *)

\* What the stack of the automaton looks like: one line, or "file", is its
\* last element and nothing else is; the bottom is the records of the file or
\* its header; an error stands in a section that allows one, and what is open
\* above it is not counted.
Sym == Section \cup Phase \cup {"file"}
Uncertain == {"error", "error_subs"}
Shape(s) ==
  /\ s \in Seq(Sym)
  /\ \A i \in 1 .. Len(s) :
       /\ i < Len(s) => s[i] \in Section
       /\ i = 1 => s[i] \in Recoverable \cup Phase \cup {"file"}
       /\ s[i] = "records" => i = 1
       /\ s[i] = "file" => Len(s) = 1
       /\ s[i] = "error" => i > 1 /\ s[i - 1] \in Recoverable
       /\ s[i] \in Uncertain =>
            \A j \in i + 1 .. Len(s) : s[j] \in Phase \cup {"error_subs"}
HasError(s) == \E i \in 1 .. Len(s) : s[i] \in {"error", "line_error"}

\* The tag of a line fits the section that the line is in.
Tagged == {"tag", "value", "line", "line_error"}
TagInv ==
  Top \in Tagged =>
    /\ Len(stack) = 1 => tag = "HEAD" /\ Top = "tag"
    /\ tag = "TRLR" => Len(stack) = 2 /\ stack[1] = "records" /\ Top = "tag"
    /\ Below \in Uncertain => tag = "any"
    /\ Below = "invalid_subs" => tag = "invalid"

\* The tokens of a line: closing brackets, an opening one, and no more.
Input == Tag \cup {"OPEN", "CLOSE", "DELIM", "CHAR", "BAD", "EOF"}
InputInv ==
  /\ pending \in Seq(Input)
  /\ \A p \in 1 .. Len(pending) :
       /\ pending[p] = "OPEN" =>
            /\ current_level >= 0
            /\ \A q \in 1 .. p - 1 : pending[q] = "CLOSE"
            /\ \A q \in p + 1 .. Len(pending) : pending[q] \notin {"OPEN", "CLOSE"}
       /\ pending[p] = "CLOSE" =>
            \E q \in p + 1 .. Len(pending) : pending[q] \in {"OPEN", "EOF"}
       /\ pending[p] = "EOF" => p = Len(pending)
Has(tokens) == \E p \in 1 .. Len(pending) : pending[p] \in tokens

\* count_level is never behind the sections on the stack.
CountInv == count_level \in Nat /\ count_level >= Started(stack)

\* Between two files nothing is left but fail and, after a file that was cut
\* off, count_level.
SessionInv ==
  /\ parsing => ~exited
  /\ ~parsing /\ ~exited =>
       /\ stack = <<>> /\ tag = "none"
       /\ pending = <<>> /\ current_level = -1 /\ recovering = 0
       /\ past = {} => count_level = 0

FailInv ==
  /\ recovering > 0 => complained
  /\ fail = 1 => "deferred" \in past
  /\ error_mechanism \in Modes

\* An error inside the file that was not passed over is still on the stack, or
\* is remembered in fail.
Unhandled == HasError(stack) \/ (fail = 1 /\ error_mechanism = "DEFER_FAIL")
InsideInv ==
  parsing /\ inside =>
    /\ complained
    /\ \/ stack = <<"file">> /\ error_mechanism = "IGNORE_ERRORS"
       \/ /\ stack # <<>> /\ stack[1] \in Recoverable
          /\ error_mechanism # "IGNORE_ERRORS" => Unhandled

\* After the first error, until it is passed over, an error is on the stack or
\* the file is given up.
Clean == parsing /\ past = {} /\ ~complained
BrokenInv ==
  parsing /\ past = {} /\ complained =>
    HasError(stack) \/ (stack = <<"file">> /\ count_level = 0)

\* Before the first error, the sections on the stack are those that are
\* counted, and they are as many as the level of the line says.
Open(s) == Len(s) - (IF s # <<>> /\ s[1] = "records" THEN 1 ELSE 0)
CleanInv ==
  Clean =>
    /\ count_level = Started(stack)
    /\ tag \notin {"invalid", "any"}
    /\ \A i \in 1 .. Len(stack) :
         stack[i] \notin {"invalid_subs", "error", "error_subs", "line_error"}
    /\ stack = <<"file">> => count_level = 0
    /\ stack # <<"file">> =>
         /\ count_level = Open(stack) - (IF Top \in Phase THEN 1 ELSE 0)
         /\ \A p \in 1 .. Len(pending) :
              pending[p] = "OPEN" => Open(stack) - (p - 1) = current_level
         /\ ~Has({"OPEN", "BAD", "EOF"}) => Open(stack) = current_level + 1
         /\ Top \in Phase => level = Open(stack) - 1

-----------------------------------------------------------------------------
(* Sequences, and the sections among them that are counted.                *)

LEMMA FrontFacts ==
  ASSUME NEW S, NEW s \in Seq(S), s # <<>>
  PROVE  /\ Len(s) \in Nat \ {0}
         /\ Front(s) \in Seq(S)
         /\ Len(Front(s)) = Len(s) - 1
         /\ \A i \in 1 .. Len(s) - 1 : Front(s)[i] = s[i]
         /\ Last(s) = s[Len(s)] /\ Last(s) \in S
<1>1. Len(s) \in Nat \ {0}
  OBVIOUS
<1>2. Front(s) = SubSeq(s, 1, Len(s) - 1) /\ Last(s) = s[Len(s)]
  BY DEF Front, Last
<1>3. /\ SubSeq(s, 1, Len(s) - 1) \in Seq(S)
      /\ Len(SubSeq(s, 1, Len(s) - 1)) = Len(s) - 1
      /\ \A i \in 1 .. Len(s) - 1 : SubSeq(s, 1, Len(s) - 1)[i] = s[i]
  <2>1. \A i \in 1 .. Len(s) - 1 : s[i] \in S
    BY <1>1
  <2> DEFINE n == Len(s) - 1
  <2>2. n \in Nat /\ 1 \in Int
    BY <1>1
  <2>3. \A i \in 1 .. n : s[i] \in S
    BY <2>1
  <2> HIDE DEF n
  <2>4. /\ SubSeq(s, 1, n) \in Seq(S)
        /\ Len(SubSeq(s, 1, n)) = IF 1 <= n THEN n - 1 + 1 ELSE 0
        /\ \A i \in 1 .. n - 1 + 1 : SubSeq(s, 1, n)[i] = s[1 + i - 1]
    BY <2>2, <2>3, SubSeqProperties
  <2>5. \A i \in 1 .. n : i \in 1 .. n - 1 + 1 /\ 1 + i - 1 = i
    BY <2>2
  <2>6. Len(SubSeq(s, 1, n)) = n
    BY <2>2, <2>4
  <2>7. \A i \in 1 .. n : SubSeq(s, 1, n)[i] = s[i]
    BY <2>4, <2>5
  <2>8. QED
    BY <2>4, <2>6, <2>7 DEF n
<1>4. s[Len(s)] \in S
  BY <1>1
<1>5. QED
  BY <1>1, <1>2, <1>3, <1>4

LEMMA AppendFacts ==
  ASSUME NEW S, NEW s \in Seq(S), NEW x \in S
  PROVE  /\ Append(s, x) \in Seq(S)
         /\ Append(s, x) # <<>>
         /\ Len(Append(s, x)) = Len(s) + 1
         /\ \A i \in 1 .. Len(s) : Append(s, x)[i] = s[i]
         /\ Append(s, x)[Len(s) + 1] = x
         /\ Front(Append(s, x)) = s
         /\ Last(Append(s, x)) = x
  BY DEF Front, Last

LEMMA ReplaceFacts ==
  ASSUME NEW S, NEW s \in Seq(S), NEW x \in S, s # <<>>
  PROVE  LET r == Append(Front(s), x) IN
         /\ r \in Seq(S)
         /\ r # <<>>
         /\ Len(r) = Len(s)
         /\ \A i \in 1 .. Len(s) - 1 : r[i] = s[i]
         /\ r[Len(s)] = x
         /\ Last(r) = x
<1>1. /\ Front(s) \in Seq(S) /\ Len(Front(s)) = Len(s) - 1 /\ Len(s) \in Nat \ {0}
      /\ \A i \in 1 .. Len(s) - 1 : Front(s)[i] = s[i]
  BY FrontFacts
<1> DEFINE r == Append(Front(s), x)
<1>2. /\ r \in Seq(S)
      /\ r # <<>>
      /\ Len(r) = Len(Front(s)) + 1
      /\ \A i \in 1 .. Len(Front(s)) : r[i] = Front(s)[i]
      /\ r[Len(Front(s)) + 1] = x
      /\ Last(r) = x
  BY <1>1, AppendFacts
<1> HIDE DEF r
<1>3. Len(Front(s)) + 1 = Len(s)
  BY <1>1
<1>4. QED
  BY <1>1, <1>2, <1>3 DEF r

LEMMA TailFacts ==
  ASSUME NEW S, NEW s \in Seq(S), s # <<>>
  PROVE  /\ Len(s) \in Nat \ {0}
         /\ Head(s) = s[1]
         /\ Tail(s) \in Seq(S)
         /\ Len(Tail(s)) = Len(s) - 1
         /\ \A i \in 1 .. Len(s) - 1 : Tail(s)[i] = s[i + 1]
  OBVIOUS

CountedIn(s) == {i \in DOMAIN s : s[i] \in Counted}

LEMMA StartedIs ==
  ASSUME NEW s
  PROVE  Started(s) = Cardinality(CountedIn(s))
  BY DEF Started, CountedIn

LEMMA StartedType ==
  ASSUME NEW S, NEW s \in Seq(S)
  PROVE  IsFiniteSet(CountedIn(s)) /\ Started(s) \in Nat
<1>1. IsFiniteSet(1 .. Len(s))
  BY FS_Interval
<1>2. CountedIn(s) \subseteq 1 .. Len(s)
  BY DEF CountedIn
<1>3. IsFiniteSet(CountedIn(s))
  BY <1>1, <1>2, FS_Subset
<1>4. QED
  BY <1>3, StartedIs, FS_CardinalityType

LEMMA StartedEmpty == Started(<<>>) = 0
<1>1. CountedIn(<<>>) = {}
  BY DEF CountedIn
<1>2. QED
  BY <1>1, StartedIs, FS_EmptySet

LEMMA StartedAppend ==
  ASSUME NEW S, NEW s \in Seq(S), NEW x \in S
  PROVE  Started(Append(s, x)) = Started(s) + (IF x \in Counted THEN 1 ELSE 0)
<1>1. Append(s, x) \in Seq(S) /\ Len(Append(s, x)) = Len(s) + 1 /\ Len(s) \in Nat
  BY AppendFacts
<1>2. CASE x \in Counted
  <2>1. CountedIn(Append(s, x)) = CountedIn(s) \cup {Len(s) + 1}
    BY <1>1, <1>2, AppendFacts DEF CountedIn
  <2>2. Len(s) + 1 \notin CountedIn(s)
    BY <1>1 DEF CountedIn
  <2>3. QED
    BY <1>2, <2>1, <2>2, StartedType, StartedIs, FS_AddElement
<1>3. CASE x \notin Counted
  <2>1. CountedIn(Append(s, x)) = CountedIn(s)
    BY <1>1, <1>3, AppendFacts DEF CountedIn
  <2>2. QED
    BY <1>3, <2>1, StartedType, StartedIs
<1>4. QED
  BY <1>2, <1>3

LEMMA StartedFront ==
  ASSUME NEW S, NEW s \in Seq(S), s # <<>>
  PROVE  Started(s) = Started(Front(s)) + (IF Last(s) \in Counted THEN 1 ELSE 0)
<1>1. s = Append(Front(s), Last(s))
  BY DEF Front, Last
<1>2. Last(s) \in S /\ Front(s) \in Seq(S)
  BY FrontFacts
<1>3. QED
  BY <1>1, <1>2, StartedAppend

LEMMA StartedReplace ==
  ASSUME NEW S, NEW s \in Seq(S), NEW x \in S, s # <<>>, Last(s) \notin Counted
  PROVE  Started(Append(Front(s), x)) = Started(s) + (IF x \in Counted THEN 1 ELSE 0)
<1>1. Front(s) \in Seq(S)
  BY FrontFacts
<1>2. Started(s) = Started(Front(s)) + 0
  BY StartedFront
<1>3. Started(Front(s)) \in Nat
  BY <1>1, StartedType
<1>4. QED
  BY <1>1, <1>2, <1>3, StartedAppend

LEMMA StartedPrefix ==
  ASSUME NEW S, NEW s \in Seq(S), NEW m \in 1 .. Len(s)
  PROVE  /\ Started(SubSeq(s, 1, m)) <= Started(s)
         /\ m < Len(s) /\ Last(s) \in Counted => Started(SubSeq(s, 1, m)) <= Started(s) - 1
<1> DEFINE r == SubSeq(s, 1, m)
<1>1. r \in Seq(S) /\ Len(r) = m /\ \A i \in 1 .. m : r[i] = s[i]
  OBVIOUS
<1> HIDE DEF r
<1>2. CountedIn(r) \subseteq CountedIn(s)
  BY <1>1 DEF CountedIn
<1>3. Started(r) <= Started(s)
  BY <1>2, StartedType, StartedIs, FS_Subset
<1>4. ASSUME m < Len(s), Last(s) \in Counted PROVE Started(r) <= Started(s) - 1
  <2> DEFINE f == Front(s)
  <2>1. f \in Seq(S) /\ Len(f) = Len(s) - 1 /\ \A i \in 1 .. Len(s) - 1 : f[i] = s[i]
    BY FrontFacts
  <2>2. Started(s) = Started(f) + 1
    BY <1>4, StartedFront
  <2> HIDE DEF f
  <2>3. CountedIn(r) \subseteq CountedIn(f)
    BY <1>1, <1>4, <2>1 DEF CountedIn
  <2>4. Started(r) <= Started(f)
    BY <2>1, <2>3, StartedType, StartedIs, FS_Subset
  <2>5. Started(r) \in Nat /\ Started(f) \in Nat
    BY <1>1, <2>1, StartedType
  <2>6. QED
    BY <2>2, <2>4, <2>5
<1>5. QED
  BY <1>3, <1>4 DEF r

-----------------------------------------------------------------------------
(* What a step does to the stack.                                          *)

LEMMA UncertainBelow ==
  ASSUME NEW s, Shape(s), NEW i \in 1 .. Len(s) - 1, s[i] \in Uncertain
  PROVE  s[Len(s) - 1] \in Uncertain
  BY DEF Shape, Uncertain, Section, Phase

LEMMA ShapeEnds == Shape(<<>>) /\ Shape(<<"records">>) /\ Shape(<<"file">>)
<1>1. Shape(<<>>)
  BY DEF Shape
<1>2. ASSUME NEW x \in {"records", "file"} PROVE Shape(<<x>>)
  <2>1. x \in Sym
    BY DEF Sym, Section
  <2>2. QED
    BY <2>1 DEF Shape, Uncertain, Recoverable
<1>3. QED
  BY <1>1, <1>2

LEMMA ShapePush ==
  ASSUME NEW s, Shape(s), s = <<>> \/ Last(s) \in Section, NEW p \in Phase
  PROVE  Shape(Append(s, p))
<1> DEFINE r == Append(s, p)
<1>1. s \in Seq(Sym) /\ p \in Sym
  BY DEF Shape, Sym
<1>2. /\ r \in Seq(Sym) /\ Len(r) = Len(s) + 1 /\ Len(s) \in Nat
      /\ \A i \in 1 .. Len(s) : r[i] = s[i]
      /\ r[Len(s) + 1] = p
  BY <1>1, AppendFacts
<1>3. s # <<>> => Len(s) > 0 /\ s[Len(s)] \in Section
  <2>1. s # <<>> => Len(s) \in Nat \ {0} /\ Last(s) = s[Len(s)]
    BY <1>1, FrontFacts
  <2>2. QED
    BY <2>1
<1>4. \A i \in 1 .. Len(s) : s[i] \in Section
  BY <1>2, <1>3 DEF Shape
<1>5. "file" \notin Section /\ Phase \cap Section = {} /\ "file" \notin Phase
  BY DEF Section, Phase
<1> HIDE DEF r
<1>6. ASSUME NEW i \in 1 .. Len(r)
      PROVE  /\ i < Len(r) => r[i] \in Section
             /\ i = 1 => r[i] \in Recoverable \cup Phase \cup {"file"}
             /\ r[i] = "records" => i = 1
             /\ r[i] = "file" => Len(r) = 1
             /\ r[i] = "error" => i > 1 /\ r[i - 1] \in Recoverable
             /\ r[i] \in Uncertain =>
                  \A j \in i + 1 .. Len(r) : r[j] \in Phase \cup {"error_subs"}
  <2>1. CASE i = Len(r)
    BY <1>2, <1>5, <2>1 DEF Uncertain, Section, Phase
  <2>2. CASE i < Len(r)
    <3>1. i \in 1 .. Len(s) /\ r[i] = s[i] /\ s[i] \in Section /\ s[i] # "file"
      BY <2>2, <1>2, <1>4, <1>5
    <3>2. s[i] \in Uncertain => \A j \in i + 1 .. Len(s) : s[j] \in Phase \cup {"error_subs"}
      BY <3>1 DEF Shape
    <3>3. s[i] \in Uncertain => \A j \in i + 1 .. Len(r) : r[j] \in Phase \cup {"error_subs"}
      BY <1>2, <3>2
    <3>4. s[i] = "error" => i > 1 /\ r[i - 1] \in Recoverable
      BY <1>2, <3>1 DEF Shape
    <3>5. (i = 1 => s[i] \in Recoverable \cup Phase \cup {"file"}) /\ (s[i] = "records" => i = 1)
      BY <3>1 DEF Shape
    <3>6. QED
      BY <2>2, <3>1, <3>3, <3>4, <3>5
  <2>3. QED
    BY <2>1, <2>2, <1>2
<1>7. QED
  BY <1>2, <1>6 DEF Shape, r

LEMMA ShapeReplace ==
  ASSUME NEW s, Shape(s), s # <<>>, Last(s) \in Phase,
         NEW x \in Phase \cup {"subs", "user_subs", "invalid_subs", "error_subs"},
         Len(s) = 1 => x \in Phase \cup {"subs"},
         x \notin Phase \cup {"error_subs"} => Len(s) = 1 \/ s[Len(s) - 1] \notin Uncertain
  PROVE  Shape(Append(Front(s), x))
<1> DEFINE r == Append(Front(s), x)
<1>1. s \in Seq(Sym) /\ x \in Sym
  BY DEF Shape, Sym, Section
<1>2. /\ r \in Seq(Sym) /\ Len(r) = Len(s) /\ Len(s) \in Nat \ {0}
      /\ \A i \in 1 .. Len(s) - 1 : r[i] = s[i]
      /\ r[Len(s)] = x
  BY <1>1, ReplaceFacts, FrontFacts
<1>3. x \notin {"file", "records", "error"} /\ (x \in Uncertain => x = "error_subs")
  BY DEF Uncertain, Phase
<1>4. \A i \in 1 .. Len(s) - 1 : s[i] \in Section /\ s[i] # "file"
  BY <1>2 DEF Shape, Section
<1> HIDE DEF r
<1>5. ASSUME NEW i \in 1 .. Len(r)
      PROVE  /\ i < Len(r) => r[i] \in Section
             /\ i = 1 => r[i] \in Recoverable \cup Phase \cup {"file"}
             /\ r[i] = "records" => i = 1
             /\ r[i] = "file" => Len(r) = 1
             /\ r[i] = "error" => i > 1 /\ r[i - 1] \in Recoverable
             /\ r[i] \in Uncertain =>
                  \A j \in i + 1 .. Len(r) : r[j] \in Phase \cup {"error_subs"}
  <2>1. CASE i = Len(r)
    <3>1. r[i] = x /\ (i = 1 => x \in Phase \cup {"subs"})
      BY <1>2, <2>1
    <3>2. QED
      BY <1>2, <1>3, <2>1, <3>1 DEF Recoverable
  <2>2. CASE i < Len(r)
    <3>1. i \in 1 .. Len(s) - 1 /\ r[i] = s[i] /\ s[i] \in Section /\ s[i] # "file"
      BY <2>2, <1>2, <1>4
    <3>2. ASSUME s[i] \in Uncertain, NEW j \in i + 1 .. Len(r)
          PROVE  r[j] \in Phase \cup {"error_subs"}
      <4>1. CASE j = Len(r)
        <5>1. s[Len(s) - 1] \in Uncertain
          BY <3>1, <3>2, UncertainBelow
        <5>2. QED
          BY <1>2, <3>1, <4>1, <5>1
      <4>2. CASE j < Len(r)
        BY <1>2, <3>1, <3>2, <4>2 DEF Shape
      <4>3. QED
        BY <4>1, <4>2, <1>2
    <3>4. s[i] = "error" => i > 1 /\ r[i - 1] \in Recoverable
      BY <1>2, <3>1 DEF Shape
    <3>5. (i = 1 => s[i] \in Recoverable \cup Phase \cup {"file"}) /\ (s[i] = "records" => i = 1)
      BY <3>1, <1>2 DEF Shape
    <3>6. QED
      BY <2>2, <3>1, <3>2, <3>4, <3>5
  <2>3. QED
    BY <2>1, <2>2, <1>2
<1>6. QED
  BY <1>2, <1>5 DEF Shape, r

\* Any prefix of the stack is well-formed, and an error can be put on it where
\* one is allowed.
LEMMA ShapePrefix ==
  ASSUME NEW s, Shape(s), NEW r \in Seq(Sym), Len(r) < Len(s),
         \A i \in 1 .. Len(r) : r[i] = s[i]
  PROVE  Shape(r)
<1>1. Len(s) \in Nat /\ Len(r) \in Nat
  BY DEF Shape
<1>2. \A i \in 1 .. Len(r) : s[i] \in Section /\ s[i] # "file"
  BY <1>1 DEF Shape, Section
<1>3. ASSUME NEW i \in 1 .. Len(r)
      PROVE  /\ i < Len(r) => r[i] \in Section
             /\ i = 1 => r[i] \in Recoverable \cup Phase \cup {"file"}
             /\ r[i] = "records" => i = 1
             /\ r[i] = "file" => Len(r) = 1
             /\ r[i] = "error" => i > 1 /\ r[i - 1] \in Recoverable
             /\ r[i] \in Uncertain =>
                  \A j \in i + 1 .. Len(r) : r[j] \in Phase \cup {"error_subs"}
  <2>1. i \in 1 .. Len(s) /\ r[i] = s[i] /\ s[i] \in Section /\ s[i] # "file"
    BY <1>1, <1>2
  <2>2. ASSUME s[i] \in Uncertain, NEW j \in i + 1 .. Len(r)
        PROVE  r[j] \in Phase \cup {"error_subs"}
    BY <1>1, <2>1, <2>2 DEF Shape
  <2>3. s[i] = "error" => i > 1 /\ r[i - 1] \in Recoverable
    BY <1>1, <2>1 DEF Shape
  <2>4. (i = 1 => s[i] \in Recoverable \cup Phase \cup {"file"}) /\ (s[i] = "records" => i = 1)
    BY <2>1 DEF Shape
  <2>5. QED
    BY <2>1, <2>2, <2>3, <2>4
<1>4. QED
  BY <1>3 DEF Shape

LEMMA ShapeFront ==
  ASSUME NEW s, Shape(s), s # <<>>
  PROVE  Shape(Front(s))
<1>1. s \in Seq(Sym)
  BY DEF Shape
<1>2. /\ Front(s) \in Seq(Sym) /\ Len(s) \in Nat \ {0} /\ Len(Front(s)) = Len(s) - 1
      /\ \A i \in 1 .. Len(s) - 1 : Front(s)[i] = s[i]
  BY <1>1, FrontFacts
<1>3. QED
  BY <1>2, ShapePrefix

LEMMA ShapeErrorOn ==
  ASSUME NEW s, Shape(s), NEW m \in 1 .. Len(s), s[m] \in Recoverable
  PROVE  LET e == Append(SubSeq(s, 1, m), "error") IN
         /\ Shape(e)
         /\ Len(e) = m + 1 /\ e[m + 1] = "error"
         /\ \A i \in 1 .. m : e[i] = s[i]
<1> DEFINE f == SubSeq(s, 1, m)
           e == Append(f, "error")
<1>1. s \in Seq(Sym) /\ "error" \in Sym /\ m \in Nat \ {0} /\ Len(s) \in Nat
  BY DEF Shape, Sym, Section
<1>2. f \in Seq(Sym) /\ Len(f) = m /\ \A i \in 1 .. m : f[i] = s[i]
  BY <1>1
<1> HIDE DEF f
<1>3. /\ e \in Seq(Sym) /\ Len(e) = m + 1
      /\ \A i \in 1 .. m : e[i] = s[i]
      /\ e[m + 1] = "error"
  BY <1>1, <1>2, AppendFacts
<1> HIDE DEF e
<1>4. \A i \in 1 .. m - 1 : s[i] \notin Uncertain
  BY <1>1 DEF Shape, Recoverable, Phase
<1>5. s[m] \notin Uncertain /\ s[m] \in Section /\ s[m] # "file"
  BY DEF Recoverable, Uncertain, Section
<1>6. \A i \in 1 .. m : s[i] \in Section /\ s[i] # "file" /\ s[i] \notin Uncertain
  BY <1>1, <1>4, <1>5 DEF Shape, Section
<1>7. ASSUME NEW i \in 1 .. Len(e)
      PROVE  /\ i < Len(e) => e[i] \in Section
             /\ i = 1 => e[i] \in Recoverable \cup Phase \cup {"file"}
             /\ e[i] = "records" => i = 1
             /\ e[i] = "file" => Len(e) = 1
             /\ e[i] = "error" => i > 1 /\ e[i - 1] \in Recoverable
             /\ e[i] \in Uncertain =>
                  \A j \in i + 1 .. Len(e) : e[j] \in Phase \cup {"error_subs"}
  <2>1. CASE i = m + 1
    BY <1>1, <1>3, <2>1
  <2>2. CASE i <= m
    <3>1. i \in 1 .. m /\ e[i] = s[i] /\ s[i] \in Section /\ s[i] # "file" /\ s[i] \notin Uncertain
      BY <1>3, <1>6, <2>2
    <3>2. s[i] # "error"
      BY <3>1 DEF Uncertain
    <3>3. (i = 1 => s[i] \in Recoverable \cup Phase \cup {"file"}) /\ (s[i] = "records" => i = 1)
      BY <1>1, <3>1 DEF Shape
    <3>4. QED
      BY <3>1, <3>2, <3>3
  <2>3. QED
    BY <2>1, <2>2, <1>1, <1>3
<1>8. Shape(e)
  BY <1>3, <1>7 DEF Shape
<1>9. QED
  BY <1>3, <1>8 DEF e, f

LEMMA TopFacts ==
  ASSUME Shape(stack)
  PROVE  /\ stack \in Seq(Sym) /\ Len(stack) \in Nat
         /\ stack = <<>> <=> Len(stack) = 0
         /\ stack = <<>> <=> Top = "empty"
         /\ stack # <<>> => Top = stack[Len(stack)] /\ Top = Last(stack) /\ Top \in Sym
         /\ Below = IF Len(stack) < 2 THEN "empty" ELSE stack[Len(stack) - 1]
         /\ Len(stack) >= 2 => Below \in Section /\ stack[1] \in Recoverable
<1>1. stack \in Seq(Sym) /\ Len(stack) \in Nat /\ (stack = <<>> <=> Len(stack) = 0)
  BY DEF Shape
<1>2. stack # <<>> => Last(stack) = stack[Len(stack)] /\ Last(stack) \in Sym
  BY <1>1, FrontFacts
<1>3. "empty" \notin Sym
  BY DEF Sym, Section, Phase
<1>4. Below = IF Len(stack) < 2 THEN "empty" ELSE stack[Len(stack) - 1]
  BY DEF Below
<1>5. ASSUME Len(stack) >= 2 PROVE Below \in Section /\ stack[1] \in Recoverable
  <2>1. Len(stack) - 1 \in 1 .. Len(stack) /\ Len(stack) - 1 < Len(stack)
    BY <1>1, <1>5
  <2>2. stack[Len(stack) - 1] \in Section
    BY <2>1 DEF Shape
  <2>3. 1 \in 1 .. Len(stack) /\ 1 < Len(stack)
    BY <1>1, <1>5
  <2>4. stack[1] \in Section /\ stack[1] \in Recoverable \cup Phase \cup {"file"}
    BY <2>3 DEF Shape
  <2>5. QED
    BY <1>4, <1>5, <2>2, <2>4, <1>1 DEF Section, Phase
<1>6. QED
  BY <1>1, <1>2, <1>3, <1>4, <1>5 DEF Top

LEMMA PushedFacts ==
  ASSUME Shape(stack), Top \in Section \cup {"empty"}, NEW p \in Phase
  PROVE  LET r == Append(stack, p) IN
         /\ Shape(r) /\ r # <<>> /\ Len(r) = Len(stack) + 1
         /\ \A i \in 1 .. Len(stack) : r[i] = stack[i]
         /\ r[Len(stack) + 1] = p /\ Last(r) = p
         /\ Started(r) = Started(stack)
<1>1. stack = <<>> \/ Last(stack) \in Section
  BY TopFacts DEF Section
<1>2. p \in Sym /\ p \notin Counted
  BY DEF Sym, Phase, Counted
<1>3. Started(stack) \in Nat
  BY TopFacts, StartedType
<1>4. Started(Append(stack, p)) = Started(stack) + 0
  BY <1>2, TopFacts, StartedAppend
<1>5. QED
  BY <1>1, <1>2, <1>3, <1>4, TopFacts, ShapePush, AppendFacts

LEMMA ReplacedFacts ==
  ASSUME Shape(stack), Top \in Phase,
         NEW x \in Phase \cup {"subs", "user_subs", "invalid_subs", "error_subs"},
         Len(stack) = 1 => x \in Phase \cup {"subs"},
         x \notin Phase \cup {"error_subs"} => Below \notin Uncertain
  PROVE  LET r == Replaced(x) IN
         /\ Shape(r) /\ r # <<>> /\ Len(r) = Len(stack)
         /\ \A i \in 1 .. Len(stack) - 1 : r[i] = stack[i]
         /\ r[Len(stack)] = x /\ Last(r) = x
         /\ Started(r) = Started(stack) + (IF x \in Counted THEN 1 ELSE 0)
<1>1. stack # <<>> /\ Last(stack) \in Phase /\ Last(stack) \notin Counted /\ x \in Sym
  BY TopFacts DEF Phase, Sym, Counted, Section
<1>2. x \notin Phase \cup {"error_subs"} => Len(stack) = 1 \/ stack[Len(stack) - 1] \notin Uncertain
  <2>1. Len(stack) \in Nat /\ Len(stack) # 0
    BY <1>1, TopFacts
  <2>2. Len(stack) # 1 => Below = stack[Len(stack) - 1]
    BY <2>1 DEF Below
  <2>3. QED
    BY <2>2
<1>3. Shape(Replaced(x))
  BY <1>1, <1>2, ShapeReplace DEF Replaced
<1>4. QED
  BY <1>1, <1>3, TopFacts, ReplaceFacts, StartedReplace DEF Replaced

LEMMA PoppedFacts ==
  ASSUME Shape(stack), stack # <<>>
  PROVE  LET r == Front(stack) IN
         /\ Shape(r) /\ Len(r) = Len(stack) - 1
         /\ \A i \in 1 .. Len(stack) - 1 : r[i] = stack[i]
         /\ Started(r) = Started(stack) - (IF Top \in Counted THEN 1 ELSE 0)
<1>1. Started(stack) = Started(Front(stack)) + (IF Top \in Counted THEN 1 ELSE 0)
  BY TopFacts, StartedFront
<1>2. /\ Len(Front(stack)) = Len(stack) - 1
      /\ Front(stack) \in Seq(Sym)
      /\ \A i \in 1 .. Len(stack) - 1 : Front(stack)[i] = stack[i]
  BY TopFacts, FrontFacts
<1>3. Started(Front(stack)) \in Nat
  BY <1>2, StartedType
<1>4. Shape(Front(stack))
  BY ShapeFront
<1>5. QED
  BY <1>1, <1>2, <1>3, <1>4

LEMMA ClosedFacts ==
  ASSUME Shape(stack), Top \in Counted
  PROVE  /\ Shape(AfterClose)
         /\ Started(AfterClose) = Started(stack) - 1
         /\ Len(stack) = 1 => AfterClose = <<"records">>
         /\ Len(stack) # 1 => AfterClose = Front(stack)
<1>1. stack # <<>>
  BY TopFacts DEF Counted
<1>2. CASE Len(stack) = 1
  <2>1. Started(Front(stack)) = Started(stack) - 1 /\ Front(stack) = <<>>
    BY <1>1, <1>2, TopFacts, PoppedFacts, FrontFacts
  <2>2. Started(<<"records">>) = 0
    <3>1. "records" \notin Counted /\ <<>> \in Seq(Sym) /\ "records" \in Sym
      BY DEF Counted, Sym, Section
    <3>2. Started(Append(<<>>, "records")) = Started(<<>>) + 0
      BY <3>1, StartedAppend
    <3>3. Append(<<>>, "records") = <<"records">>
      OBVIOUS
    <3>4. QED
      BY <3>2, <3>3, StartedEmpty
  <2>3. AfterClose = <<"records">>
    BY <1>2 DEF AfterClose
  <2>4. QED
    BY <1>2, <2>1, <2>2, <2>3, StartedEmpty, ShapeEnds
<1>3. CASE Len(stack) # 1
  <2>1. AfterClose = Front(stack)
    BY <1>3 DEF AfterClose
  <2>2. QED
    BY <1>1, <1>3, <2>1, PoppedFacts
<1>4. QED
  BY <1>2, <1>3

LEMMA MaxFacts ==
  ASSUME NEW n \in Nat, NEW S, S \subseteq 0 .. n, S # {}
  PROVE  Max(S) \in S /\ \A i \in S : i <= Max(S)
<1> DEFINE T == {k \in Nat : n - k \in S}
           R == OpToRel(<, Nat)
<1>1. T \subseteq Nat
  OBVIOUS
<1>2. T # {}
  <2>1. PICK i \in S : i \in 0 .. n
    OBVIOUS
  <2>2. n - i \in Nat /\ n - (n - i) = i
    BY <2>1
  <2>3. n - i \in T
    BY <2>1, <2>2
  <2>4. QED
    BY <2>3
<1> HIDE DEF T
<1>3. IsWellFoundedOn(R, Nat)
  BY NatLessThanWellFounded
<1>4. \A k, l \in Nat : l < k => <<l, k>> \in R
  BY DEF OpToRel
<1> HIDE DEF R
<1>5. PICK t \in T : \A u \in T : ~ (<<u, t>> \in R)
  BY <1>1, <1>2, <1>3, WFMin
<1>6. ASSUME NEW u \in T PROVE t <= u
  <2>1. u \in Nat /\ t \in Nat
    BY <1>1, <1>5
  <2>2. ~(u < t)
    BY <2>1, <1>4, <1>5
  <2>3. QED
    BY <2>1, <2>2
<1>7. n - t \in S /\ t \in Nat
  BY <1>5 DEF T
<1>8. ASSUME NEW j \in S PROVE j <= n - t
  <2>1. j \in 0 .. n
    OBVIOUS
  <2>2. n - j \in Nat /\ n - (n - j) = j
    BY <2>1
  <2>3. n - j \in T
    BY <2>2 DEF T
  <2>4. QED
    BY <2>1, <2>3, <1>6, <1>7
<1>9. \A j \in S : n - t >= j
  BY <1>7, <1>8
<1>10. \E x \in S : \A j \in S : x >= j
  BY <1>7, <1>9
<1>11. Max(S) \in S /\ \A j \in S : Max(S) >= j
  BY <1>10 DEF Max
<1>12. QED
  BY <1>11

\* Where a syntax error, or a YYERROR, leads.
LEMMA ErrorCases ==
  ASSUME Shape(stack)
  PROVE  \/ /\ Top \in {"line", "line_error"}
            /\ ErrorShifted = Replaced("line_error")
         \/ /\ Top \notin {"line", "line_error"}
            /\ ErrorShifted = <<"file">>
            /\ \A i \in 1 .. Len(stack) : stack[i] \notin Recoverable
         \/ /\ Top \notin {"line", "line_error"}
            /\ \E m \in 1 .. Len(stack) :
                 /\ stack[m] \in Recoverable
                 /\ ErrorShifted = Append(SubSeq(stack, 1, m), "error")
<1> DEFINE at == {0} \cup {i \in DOMAIN stack : stack[i] \in Recoverable}
<1>1. DOMAIN stack = 1 .. Len(stack) /\ Len(stack) \in Nat
  BY TopFacts
<1>2. at \subseteq 0 .. Len(stack) /\ at # {}
  BY <1>1
<1>3. Max(at) \in at /\ \A i \in at : i <= Max(at)
  BY <1>1, <1>2, MaxFacts
<1>4. ErrorShifted = IF Top \in {"line", "line_error"} THEN Replaced("line_error")
                     ELSE IF Max(at) = 0 THEN <<"file">>
                     ELSE Append(SubSeq(stack, 1, Max(at)), "error")
  BY DEF ErrorShifted
<1>5. Max(at) # 0 => Max(at) \in 1 .. Len(stack) /\ stack[Max(at)] \in Recoverable
  BY <1>1, <1>3
<1>6. Max(at) = 0 => \A i \in 1 .. Len(stack) : stack[i] \notin Recoverable
  BY <1>1, <1>3
<1> HIDE DEF at
<1>7. QED
  BY <1>4, <1>5, <1>6

LEMMA ErrorFacts ==
  ASSUME Shape(stack)
  PROVE  LET e == ErrorShifted IN
         /\ Shape(e) /\ e # <<>>
         /\ Started(e) <= Started(stack)
         /\ Top = "user_subs" /\ e # <<"file">> => Started(e) <= Started(stack) - 1
         /\ e # <<"file">> => HasError(e)
         /\ Len(stack) >= 1 /\ stack[1] \in Recoverable =>
              e # <<"file">> /\ e[1] \in Recoverable
         /\ Last(e) \in {"error", "line_error", "file"}
         /\ Last(e) = "line_error" =>
              /\ Top \in {"line", "line_error"} /\ Len(e) = Len(stack)
              /\ \A i \in 1 .. Len(stack) - 1 : e[i] = stack[i]
<1> DEFINE e == ErrorShifted
<1>0. Started(stack) \in Nat
  BY TopFacts, StartedType
<1>1. CASE Top \in {"line", "line_error"} /\ e = Replaced("line_error")
  <2>1. Top \in Phase /\ "line_error" \in Phase /\ "line_error" \notin Counted
    BY <1>1 DEF Phase, Counted
  <2>2. /\ Shape(e) /\ e # <<>> /\ Len(e) = Len(stack)
        /\ \A i \in 1 .. Len(stack) - 1 : e[i] = stack[i]
        /\ e[Len(stack)] = "line_error" /\ Last(e) = "line_error"
        /\ Started(e) = Started(stack) + 0
    BY <1>1, <2>1, ReplacedFacts
  <2>3. stack # <<>> /\ Len(stack) \in Nat \ {0} /\ stack[Len(stack)] \notin Recoverable
    BY <1>1, TopFacts DEF Recoverable
  <2>4. HasError(e)
    BY <2>2, <2>3 DEF HasError
  <2>5. stack[1] \in Recoverable => Len(stack) # 1 /\ e[1] = stack[1]
    BY <2>2, <2>3
  <2>6. e # <<"file">>
    BY <2>2, <2>3
  <2>7. QED
    BY <1>0, <1>1, <2>2, <2>4, <2>5, <2>6
<1>2. CASE /\ Top \notin {"line", "line_error"} /\ e = <<"file">>
           /\ \A i \in 1 .. Len(stack) : stack[i] \notin Recoverable
  <2>1. Started(e) = 0 /\ Shape(e)
    <3>1. "file" \notin Counted /\ <<>> \in Seq(Sym) /\ "file" \in Sym
      BY DEF Counted, Sym
    <3>2. Started(Append(<<>>, "file")) = Started(<<>>) + 0
      BY <3>1, StartedAppend
    <3>3. Append(<<>>, "file") = <<"file">>
      OBVIOUS
    <3>4. QED
      BY <1>2, <3>2, <3>3, StartedEmpty, ShapeEnds
  <2>2. Len(stack) >= 1 => stack[1] \notin Recoverable
    BY <1>2, TopFacts
  <2>3. Last(e) = "file" /\ e # <<>>
    BY <1>2 DEF Last
  <2>4. QED
    BY <1>0, <1>2, <2>1, <2>2, <2>3
<1>3. ASSUME Top \notin {"line", "line_error"}, NEW m \in 1 .. Len(stack),
             stack[m] \in Recoverable, e = Append(SubSeq(stack, 1, m), "error")
      PROVE  /\ Shape(e) /\ e # <<>>
             /\ Started(e) <= Started(stack)
             /\ Top = "user_subs" => Started(e) <= Started(stack) - 1
             /\ HasError(e)
             /\ Len(stack) >= 1 /\ stack[1] \in Recoverable =>
                  e # <<"file">> /\ e[1] \in Recoverable
             /\ Last(e) = "error"
  <2>1. /\ Shape(e) /\ Len(e) = m + 1 /\ e[m + 1] = "error"
        /\ \A i \in 1 .. m : e[i] = stack[i]
    BY <1>3, ShapeErrorOn
  <2>2. stack \in Seq(Sym) /\ Len(stack) \in Nat /\ m \in Nat \ {0} /\ "error" \in Sym
    BY TopFacts DEF Sym, Section
  <2>3. SubSeq(stack, 1, m) \in Seq(Sym)
    BY <2>2
  <2>4. Started(e) = Started(SubSeq(stack, 1, m)) + 0 /\ Started(SubSeq(stack, 1, m)) \in Nat
    BY <1>3, <2>2, <2>3, StartedAppend, StartedType DEF Counted
  <2>5. Started(SubSeq(stack, 1, m)) <= Started(stack)
    BY <2>2, StartedPrefix
  <2>6. ASSUME Top = "user_subs" PROVE Started(SubSeq(stack, 1, m)) <= Started(stack) - 1
    <3>1. stack # <<>> /\ stack[Len(stack)] = "user_subs" /\ Last(stack) = "user_subs"
      BY <2>6, TopFacts
    <3>2. m < Len(stack)
      BY <1>3, <2>2, <3>1 DEF Recoverable
    <3>3. QED
      BY <2>2, <3>1, <3>2, StartedPrefix DEF Counted
  <2>7. HasError(e)
    BY <2>1, <2>2 DEF HasError
  <2>8. e[1] = stack[1] /\ Len(e) # 1 /\ e # <<>>
    BY <2>1, <2>2
  <2>9. Last(e) = "error"
    BY <2>1, <2>2 DEF Last
  <2>10. QED
    BY <2>1, <2>4, <2>5, <2>6, <2>7, <2>8, <2>9
<1> HIDE DEF e
<1>4. Len(<<"file">>) = 1
  OBVIOUS
<1>5. QED
  BY <1>1, <1>2, <1>3, ErrorCases DEF e

-----------------------------------------------------------------------------
(* What an error does.                                                     *)

\* The parse is over.
Ended ==
  /\ parsing' = FALSE
  /\ stack' = <<>> /\ tag' = "none" /\ level' = 0 /\ recovering' = 0
  /\ pending' = <<>> /\ current_level' = -1 /\ lines' = 0

LEMMA EndEffect ==
  ASSUME NEW r, End(r)
  PROVE  Ended /\ result' = r
  BY DEF End, Ended

\* HANDLE_ERROR returns, or goes on.
HandledAtOnce ==
  /\ error_mechanism = "IMMED_FAIL"
  /\ Ended /\ result' = 1
  /\ count_level' = 0
  /\ fail' = fail /\ past' = past
PassedOn(s, t, c) ==
  /\ error_mechanism \in {"DEFER_FAIL", "IGNORE_ERRORS"}
  /\ fail' = IF error_mechanism = "DEFER_FAIL" THEN 1 ELSE fail
  /\ past' = past \cup {IF error_mechanism = "DEFER_FAIL" THEN "deferred" ELSE "ignored"}
  /\ stack' = s /\ tag' = t /\ count_level' = c /\ recovering' = 0
  /\ pending' = Tail(pending)
  /\ parsing' = parsing /\ result' = result /\ level' = level
  /\ current_level' = current_level /\ lines' = lines

LEMMA HandleErrorEffect ==
  ASSUME NEW s, NEW t, NEW c, HandleError(s, t, c), error_mechanism \in Modes
  PROVE  /\ complained' = TRUE /\ inside' = (inside \/ Inside)
         /\ error_mechanism' = error_mechanism /\ exited' = exited
         /\ HandledAtOnce \/ PassedOn(s, t, c)
<1>1. /\ complained' = TRUE /\ inside' = (inside \/ Inside)
      /\ error_mechanism' = error_mechanism /\ exited' = exited
  BY DEF HandleError, Report
<1>2. error_mechanism \in {"IMMED_FAIL", "DEFER_FAIL", "IGNORE_ERRORS"}
  OBVIOUS
<1>3. CASE Immediate
  <2>1. End(1) /\ count_level' = CleanUp /\ UNCHANGED <<fail, past>>
    BY <1>3 DEF HandleError
  <2>2. HandledAtOnce
    BY <1>3, <2>1, EndEffect DEF HandledAtOnce, Immediate, CleanUp
  <2>3. QED
    BY <1>1, <2>2
<1>4. CASE ~Immediate
  <2>1. /\ fail' = Fail
        /\ past' = past \cup PassedOver
        /\ stack' = s /\ tag' = t /\ count_level' = c
        /\ recovering' = 0
        /\ pending' = Tail(pending)
        /\ UNCHANGED <<parsing, result, level, current_level, lines>>
    BY <1>4 DEF HandleError
  <2>2. PassedOver = {IF error_mechanism = "DEFER_FAIL" THEN "deferred" ELSE "ignored"}
    BY <1>2, <1>4 DEF PassedOver, Immediate
  <2>3. PassedOn(s, t, c)
    BY <1>2, <1>4, <2>1, <2>2 DEF PassedOn, Immediate, Fail
  <2>4. QED
    BY <1>1, <2>3
<1>5. QED
  BY <1>3, <1>4

LEMMA RaiseEffect ==
  ASSUME NEW p, Raise(p)
  PROVE  /\ complained' = TRUE /\ inside' = (inside \/ Inside)
         /\ stack' = ErrorShifted /\ tag' = "none" /\ recovering' = 3 /\ pending' = p
         /\ error_mechanism' = error_mechanism /\ fail' = fail /\ past' = past
         /\ count_level' = count_level /\ parsing' = parsing /\ result' = result
         /\ exited' = exited /\ level' = level
         /\ current_level' = current_level /\ lines' = lines
  BY DEF Raise, Report

-----------------------------------------------------------------------------
(* The ways in which a step changes the stack.                             *)

Pushes == Top \in Section \cup {"empty"} /\ stack' = Append(stack, "open")
Replaces(x) ==
  /\ Top \in Phase
  /\ Len(stack) = 1 => x \in Phase \cup {"subs"}
  /\ x \notin Phase \cup {"error_subs"} => Below \notin Uncertain
  /\ stack' = Replaced(x)
Shifts == stack' = ErrorShifted
Closed == Top \in Counted /\ stack' = AfterClose
Pops == Top \in {"invalid_subs", "error", "error_subs"} /\ stack' = Front(stack)

Replacing == Phase \cup {"subs", "user_subs", "invalid_subs", "error_subs"}

LEMMA AtLeastTwo ==
  ASSUME NEW n \in Nat, n # 0, n # 1
  PROVE  n >= 2
  OBVIOUS

\* Open tells how many brackets are open.
LEMMA PushesEffect ==
  ASSUME Shape(stack), Pushes
  PROVE  /\ Shape(stack') /\ stack' # <<>> /\ Len(stack') = Len(stack) + 1
         /\ Top' = "open" /\ Below' = Top
         /\ Started(stack') = Started(stack)
         /\ Open(stack') = Open(stack) + 1
         /\ \A i \in 1 .. Len(stack) : stack'[i] = stack[i]
         /\ stack'[Len(stack')] = "open"
         /\ HasError(stack') = HasError(stack)
<1>1. "open" \in Phase
  BY DEF Phase
<1>2. /\ Shape(stack') /\ stack' # <<>> /\ Len(stack') = Len(stack) + 1
      /\ \A i \in 1 .. Len(stack) : stack'[i] = stack[i]
      /\ stack'[Len(stack) + 1] = "open" /\ Last(stack') = "open"
      /\ Started(stack') = Started(stack)
  BY <1>1, PushedFacts DEF Pushes
<1>3. Len(stack) \in Nat /\ (stack = <<>> <=> Len(stack) = 0)
  BY TopFacts
<1>4. Top' = "open"
  BY <1>2 DEF Top
<1>5. Below' = Top
  <2>1. CASE stack = <<>>
    BY <1>2, <1>3, <2>1 DEF Below, Top
  <2>2. CASE stack # <<>>
    BY <1>2, <1>3, <2>2, TopFacts DEF Below
  <2>3. QED
    BY <2>1, <2>2
<1>6. Open(stack') = Open(stack) + 1
  BY <1>2, <1>3 DEF Open
<1>7. HasError(stack') = HasError(stack)
  BY <1>2, <1>3 DEF HasError
<1>8. QED
  BY <1>2, <1>4, <1>5, <1>6, <1>7

LEMMA ReplacesEffect ==
  ASSUME Shape(stack), NEW x \in Replacing, Replaces(x)
  PROVE  /\ Shape(stack') /\ stack' # <<>> /\ stack # <<>> /\ Len(stack') = Len(stack)
         /\ Top' = x /\ Below' = Below
         /\ Started(stack') = Started(stack) + (IF x \in Counted THEN 1 ELSE 0)
         /\ Open(stack') = Open(stack)
         /\ \A i \in 1 .. Len(stack) - 1 : stack'[i] = stack[i]
         /\ stack'[Len(stack')] = x
         /\ Top # "line_error" /\ x # "line_error" => HasError(stack') = HasError(stack)
<1>1. /\ Shape(stack') /\ stack' # <<>> /\ Len(stack') = Len(stack)
      /\ \A i \in 1 .. Len(stack) - 1 : stack'[i] = stack[i]
      /\ stack'[Len(stack)] = x /\ Last(stack') = x
      /\ Started(stack') = Started(stack) + (IF x \in Counted THEN 1 ELSE 0)
  BY ReplacedFacts DEF Replaces, Replacing
<1>2. /\ Len(stack) \in Nat \ {0} /\ stack # <<>>
      /\ Top = stack[Len(stack)]
  BY TopFacts DEF Replaces, Phase
<1>3. Top' = x
  BY <1>1 DEF Top
<1>4. Below' = Below
  BY <1>1, <1>2 DEF Below
<1>5. Open(stack') = Open(stack)
  <2>1. Len(stack) = 1 => stack[1] # "records" /\ stack'[1] # "records"
    BY <1>1, <1>2 DEF Replaces, Phase, Replacing
  <2>2. Len(stack) # 1 => stack'[1] = stack[1]
    BY <1>1, <1>2
  <2>3. QED
    BY <1>1, <1>2, <2>1, <2>2 DEF Open
<1>6. ASSUME Top # "line_error", x # "line_error" PROVE HasError(stack') = HasError(stack)
  <2>1. stack[Len(stack)] \notin {"error", "line_error"} /\ stack'[Len(stack)] \notin {"error", "line_error"}
    BY <1>1, <1>2, <1>6 DEF Replaces, Phase, Replacing
  <2>2. QED
    BY <1>1, <1>2, <2>1 DEF HasError
<1>7. QED
  BY <1>1, <1>2, <1>3, <1>4, <1>5, <1>6

LEMMA PopsEffect ==
  ASSUME Shape(stack), Pops
  PROVE  /\ Shape(stack') /\ stack' # <<>> /\ Len(stack') = Len(stack) - 1 /\ Len(stack) >= 2
         /\ Top' = Below /\ Below \in Section
         /\ Started(stack') = Started(stack)
         /\ \A i \in 1 .. Len(stack) - 1 : stack'[i] = stack[i]
         /\ stack[1] \in Recoverable
         /\ Top # "error" => HasError(stack') = HasError(stack)
<1>1. /\ Len(stack) \in Nat /\ Len(stack) # 0 /\ stack # <<>>
      /\ Top = stack[Len(stack)]
  BY TopFacts DEF Pops
<1>2. Len(stack) # 1
  BY <1>1 DEF Shape, Pops, Recoverable, Phase
<1>3. /\ Shape(stack') /\ Len(stack') = Len(stack) - 1
      /\ \A i \in 1 .. Len(stack) - 1 : stack'[i] = stack[i]
      /\ Started(stack') = Started(stack) - (IF Top \in Counted THEN 1 ELSE 0)
  BY <1>1, PoppedFacts DEF Pops
<1>4. Started(stack) \in Nat
  BY TopFacts, StartedType
<1>5. Started(stack') = Started(stack)
  BY <1>3, <1>4 DEF Pops, Counted
<1>6. stack' # <<>>
  BY <1>1, <1>2, <1>3
<1>7. Len(stack) >= 2 /\ Below = stack[Len(stack) - 1]
  <2>1. Len(stack) >= 2
    BY <1>1, <1>2, AtLeastTwo
  <2>2. QED
    BY <2>1, TopFacts
<1>8. Last(stack') = stack[Len(stack) - 1]
  BY <1>1, <1>2, <1>3 DEF Last
<1>9. Top' = Below
  BY <1>6, <1>7, <1>8 DEF Top
<1>10. stack[1] \in Recoverable /\ Below \in Section
  BY <1>7, TopFacts
<1>11. ASSUME Top # "error" PROVE HasError(stack') = HasError(stack)
  <2>1. stack[Len(stack)] \notin {"error", "line_error"}
    BY <1>1, <1>11 DEF Pops
  <2>2. QED
    BY <1>1, <1>3, <2>1 DEF HasError
<1>12. QED
  BY <1>3, <1>5, <1>6, <1>7, <1>9, <1>10, <1>11

LEMMA ClosedEffect ==
  ASSUME Shape(stack), Closed
  PROVE  /\ Shape(stack') /\ stack' # <<>> /\ stack # <<>>
         /\ Top' \in Section
         /\ Started(stack') = Started(stack) - 1
         /\ Open(stack') = Open(stack) - 1
         /\ stack' # <<"file">>
         /\ stack[1] \in Recoverable => stack'[1] \in Recoverable
         /\ HasError(stack') = HasError(stack)
         /\ \A i \in 1 .. Len(stack') : stack'[i] \in {"records", stack[i]}
<1>1. /\ Len(stack) \in Nat /\ Len(stack) # 0 /\ stack # <<>>
      /\ Top = stack[Len(stack)]
  BY TopFacts DEF Closed, Counted
<1>2. Shape(stack') /\ Started(stack') = Started(stack) - 1
  BY ClosedFacts DEF Closed
<1>3. stack[Len(stack)] \in {"subs", "user_subs"}
  BY <1>1 DEF Closed, Counted
<1>4. CASE Len(stack) = 1
  <2>1. stack' = <<"records">>
    BY <1>4, ClosedFacts DEF Closed
  <2>2. Top' = "records" /\ stack' # <<>> /\ stack'[1] = "records" /\ Len(stack') = 1
    BY <2>1 DEF Top, Last
  <2>3. Open(stack') = Open(stack) - 1
    BY <1>1, <1>3, <1>4, <2>2 DEF Open
  <2>4. ~HasError(stack') /\ ~HasError(stack)
    BY <1>1, <1>3, <1>4, <2>2 DEF HasError
  <2>5. stack' # <<"file">> /\ "records" \in Recoverable /\ "records" \in Section
    BY <2>2 DEF Recoverable, Section
  <2>6. \A i \in 1 .. Len(stack') : stack'[i] \in {"records", stack[i]}
    BY <2>2
  <2>7. HasError(stack') = HasError(stack)
    BY <2>4 DEF HasError
  <2>8. QED
    BY <1>1, <1>2, <2>2, <2>3, <2>5, <2>6, <2>7
<1>5. CASE Len(stack) # 1
  <2>1. stack' = Front(stack)
    BY <1>5, ClosedFacts DEF Closed
  <2>2. /\ Len(stack') = Len(stack) - 1
        /\ \A i \in 1 .. Len(stack) - 1 : stack'[i] = stack[i]
    BY <1>1, <2>1, PoppedFacts
  <2>3. stack' # <<>> /\ Last(stack') = stack[Len(stack) - 1]
    BY <1>1, <1>5, <2>2 DEF Last
  <2>4. Top' = Below /\ Below \in Section /\ stack[1] \in Recoverable
    <3>1. Len(stack) >= 2
      BY <1>1, <1>5, AtLeastTwo
    <3>2. Below = stack[Len(stack) - 1] /\ Below \in Section /\ stack[1] \in Recoverable
      BY <3>1, TopFacts
    <3>3. QED
      BY <2>3, <3>2 DEF Top
  <2>5. Open(stack') = Open(stack) - 1
    BY <1>1, <1>5, <2>2, <2>3 DEF Open
  <2>6. HasError(stack') = HasError(stack)
    BY <1>1, <1>3, <2>2 DEF HasError
  <2>7. stack'[1] = stack[1]
    BY <1>1, <1>5, <2>2
  <2>8. stack' # <<"file">>
    BY <2>4, <2>7 DEF Recoverable
  <2>9. QED
    BY <1>1, <1>2, <2>2, <2>3, <2>4, <2>5, <2>6, <2>7, <2>8
<1>6. QED
  BY <1>4, <1>5

LEMMA Moves ==
  ASSUME Shape(stack), TagInv, error_mechanism \in Modes
  PROVE  /\ OpenLine => Pushes
         /\ Delimiter => Replaces("delim") \/ Replaces("value")
         /\ ReadTag => Replaces("tag")
         /\ InvalidTag => HandledAtOnce \/ Replaces("tag")
         /\ Characters => Replaces("line")
         /\ CharactersAfterError => HandledAtOnce \/ Replaces("line")
         /\ StartSection => Replaces("subs") \/ Replaces("user_subs")
         /\ StartUncounted => Replaces("invalid_subs") \/ Replaces("error_subs")
         /\ UndefinedTag \/ MissingValue \/ SyntaxError \/ Discard => Shifts
         /\ CloseInvalid => Shifts \/ Pops
         /\ CloseError => HandledAtOnce \/ Pops
         /\ CloseErrorSection => Pops
         /\ CloseSection => Closed
         /\ CloseSectionWithError => HandledAtOnce \/ Closed
<1> USE DEF Phase
<1>1. OpenLine => Pushes
  BY DEF OpenLine, Pushes
<1>2. Delimiter => Replaces("delim") \/ Replaces("value")
  BY DEF Delimiter, Replaces
<1>3. ReadTag => Replaces("tag")
  BY DEF ReadTag, Replaces
<1>4. InvalidTag => HandledAtOnce \/ Replaces("tag")
  BY HandleErrorEffect DEF InvalidTag, Replaces, PassedOn
<1>5. Characters => Replaces("line")
  BY DEF Characters, Replaces
<1>6. CharactersAfterError => HandledAtOnce \/ Replaces("line")
  BY HandleErrorEffect DEF CharactersAfterError, Replaces, PassedOn
<1>7. ASSUME LineComplete
      PROVE  Top \in Phase /\ Top \in Tagged
  BY <1>7 DEF LineComplete, Tagged
<1>8. ASSUME StartSection PROVE Replaces("subs") \/ Replaces("user_subs")
  <2>1. /\ Top \in Phase /\ Top \in Tagged
        /\ tag \in {"HEAD", "std", "user", "mandatory"}
        /\ stack' = Replaced(IF tag = "user" THEN "user_subs" ELSE "subs")
    BY <1>7, <1>8 DEF StartSection
  <2>2. /\ Below \notin Uncertain
        /\ Len(stack) = 1 => tag # "user"
    BY <2>1 DEF TagInv
  <2>3. CASE tag = "user"
    BY <2>1, <2>2, <2>3 DEF Replaces
  <2>4. CASE tag # "user"
    BY <2>1, <2>2, <2>4 DEF Replaces
  <2>5. QED
    BY <2>3, <2>4
<1>9. ASSUME StartUncounted PROVE Replaces("invalid_subs") \/ Replaces("error_subs")
  <2>1. /\ Top \in Phase /\ Top \in Tagged
        /\ tag \in {"invalid", "any"}
        /\ stack' = Replaced(IF tag = "any" THEN "error_subs" ELSE "invalid_subs")
    BY <1>7, <1>9 DEF StartUncounted
  <2>2. /\ Len(stack) # 1
        /\ tag = "invalid" => Below \notin Uncertain
    BY <2>1 DEF TagInv
  <2>3. CASE tag = "any"
    BY <2>1, <2>2, <2>3 DEF Replaces
  <2>4. CASE tag = "invalid"
    BY <2>1, <2>2, <2>4 DEF Replaces
  <2>5. QED
    BY <2>1, <2>3, <2>4
<1>10. UndefinedTag \/ MissingValue \/ SyntaxError \/ Discard => Shifts
  BY RaiseEffect DEF UndefinedTag, MissingValue, SyntaxError, Discard, Shifts
<1>11. CloseInvalid => Shifts \/ Pops
  BY RaiseEffect DEF CloseInvalid, Shifts, Pops
<1>12. CloseError => HandledAtOnce \/ Pops
  BY HandleErrorEffect DEF CloseError, PassedOn, Pops
<1>13. CloseErrorSection => Pops
  BY DEF CloseErrorSection, Pops
<1>14. CloseSection => Closed
  BY DEF CloseSection, Closed
<1>15. CloseSectionWithError => HandledAtOnce \/ Closed
  BY HandleErrorEffect DEF CloseSectionWithError, PassedOn, Closed, Counted
<1>16. QED
  BY <1>1, <1>2, <1>3, <1>4, <1>5, <1>6, <1>8, <1>9, <1>10, <1>11, <1>12, <1>13, <1>14, <1>15

-----------------------------------------------------------------------------
(* Every step keeps the invariant.                                         *)

LEMMA ShapeKept ==
  ASSUME Shape(stack), TagInv, error_mechanism \in Modes, [Next]_parserVars
  PROVE  Shape(stack)'
<1>1. ASSUME NEW l \in 0 .. MaxLevel, NEW t \in Tag \cup {"none"}, NEW v \in Value,
             ReadLine(l, t, v)
      PROVE  Shape(stack)'
  BY <1>1 DEF ReadLine, lineVars, pastVars
<1>2. CASE ReadEnd
  BY <1>2 DEF ReadEnd, lineVars, pastVars
<1>3. CASE OpenLine
  BY <1>3, Moves, PushesEffect
<1>4. CASE Delimiter
  BY <1>4, Moves, ReplacesEffect DEF Replacing, Phase
<1>5. CASE ReadTag
  BY <1>5, Moves, ReplacesEffect DEF Replacing, Phase
<1>6. CASE InvalidTag
  BY <1>6, Moves, ShapeEnds, ReplacesEffect DEF HandledAtOnce, Ended, Replacing, Phase
<1>7. CASE UndefinedTag
  BY <1>7, Moves, ErrorFacts DEF Shifts
<1>8. CASE Characters
  BY <1>8, Moves, ReplacesEffect DEF Replacing, Phase
<1>9. CASE CharactersAfterError
  BY <1>9, Moves, ShapeEnds, ReplacesEffect DEF HandledAtOnce, Ended, Replacing, Phase
<1>10. CASE StartUncounted
  BY <1>10, Moves, ReplacesEffect DEF Replacing, Phase
<1>11. CASE MissingValue
  BY <1>11, Moves, ErrorFacts DEF Shifts
<1>12. CASE CloseInvalid
  BY <1>12, Moves, PopsEffect, ErrorFacts DEF Shifts
<1>13. CASE CloseError
  BY <1>13, Moves, ShapeEnds, PopsEffect DEF HandledAtOnce, Ended
<1>14. CASE CloseErrorSection
  BY <1>14, Moves, PopsEffect
<1>15. CASE CloseTrailer
  BY <1>15, ShapeEnds, EndEffect DEF CloseTrailer, NextIs, Token, Shift, Quietly, pastVars,
      Ended
<1>16. CASE Accept
  BY <1>16, ShapeEnds, EndEffect DEF Accept, NextIs, Token, pastVars, Ended
<1>17. CASE SyntaxError
  BY <1>17, Moves, ErrorFacts DEF Shifts
<1>18. CASE Discard
  BY <1>18, Moves, ErrorFacts DEF Shifts
<1>19. CASE GiveUp
  BY <1>19, ShapeEnds, EndEffect DEF GiveUp, CannotRecover, Token, Ended
<1>20. CASE StartSection
  BY <1>20, Moves, ReplacesEffect DEF Replacing, Phase
<1>21. CASE CloseSection
  BY <1>21, Moves, ClosedEffect
<1>22. CASE CloseSectionWithError
  BY <1>22, Moves, ShapeEnds, ClosedEffect DEF HandledAtOnce, Ended
<1>23. ASSUME NEW mechanism \in Modes, SetErrorHandling(mechanism)
      PROVE  Shape(stack)'
  BY <1>23 DEF SetErrorHandling, lexVars, lineVars, pastVars
<1>24. CASE ParseFile
  BY <1>24 DEF ParseFile, lexVars, lineVars
<1>25. CASE Restart
  BY <1>25, ShapeEnds, EndEffect DEF Restart, Ended
<1>26. CASE UNCHANGED parserVars
  BY <1>26 DEF parserVars
<1>27. QED
  BY <1>1, <1>2, <1>3, <1>4, <1>5, <1>6, <1>7, <1>8, <1>9, <1>10, <1>11, <1>12, <1>13,
      <1>14, <1>15, <1>16, <1>17, <1>18, <1>19, <1>20, <1>21, <1>22, <1>23, <1>24, <1>25,
      <1>26 DEF Next, Step, QuietStep

\* Nothing is counted when nothing is open.
LEMMA NothingStarted == Started(<<>>) = 0 /\ Started(<<"file">>) = 0
<1>1. "file" \notin Counted /\ <<>> \in Seq(Sym) /\ "file" \in Sym
  BY DEF Counted, Sym
<1>2. Started(Append(<<>>, "file")) = Started(<<>>) + 0
  BY <1>1, StartedAppend
<1>3. Append(<<>>, "file") = <<"file">>
  OBVIOUS
<1>4. QED
  BY <1>2, <1>3, StartedEmpty

LEMMA EndedStarted ==
  ASSUME stack' = <<>> \/ stack' = <<"file">>
  PROVE  Started(stack') = 0
  BY NothingStarted

LEMMA StartedNat ==
  ASSUME Shape(stack)
  PROVE  Started(stack) \in Nat
  BY StartedType DEF Shape

\* What a syntax error leaves of count_level.
LEMMA AfterErrorFacts ==
  ASSUME Shape(stack), CountInv, Shifts
  PROVE  /\ AfterError \in Nat /\ AfterError >= Started(stack')
         /\ stack' = <<"file">> => AfterError = 0
         /\ AfterError <= count_level
<1>1. Started(stack) \in Nat /\ count_level \in Nat /\ count_level >= Started(stack)
  BY TopFacts, StartedType DEF CountInv
<1>2. CASE ErrorShifted = <<"file">>
  BY <1>1, <1>2, NothingStarted DEF AfterError, CleanUp, Shifts
<1>3. CASE ErrorShifted # <<"file">>
  <2>1. ErrorShifted \in Seq(Sym)
    BY ErrorFacts DEF Shape
  <2>2. Started(ErrorShifted) \in Nat /\ Started(ErrorShifted) <= Started(stack)
    BY <2>1, ErrorFacts, StartedType
  <2>3. Top = "user_subs" => Started(ErrorShifted) <= Started(stack) - 1
    BY <1>3, ErrorFacts
  <2>4. QED
    BY <1>1, <1>3, <2>2, <2>3 DEF AfterError, Pop, Shifts
<1>4. QED
  BY <1>2, <1>3

\* Lemmas for the kinds of step.
LEMMA CountWhenEnded ==
  ASSUME Ended, count_level' = 0 \/ count_level' = count_level, CountInv
  PROVE  CountInv'
<1>1. Started(stack') = 0
  BY EndedStarted DEF Ended
<1>2. QED
  BY <1>1 DEF CountInv

LEMMA CountWhenClosed ==
  ASSUME Shape(stack), Closed, count_level' = count_level - 1, CountInv
  PROVE  CountInv'
<1>1. Started(stack') = Started(stack) - 1 /\ Shape(stack')
  BY ClosedEffect
<1>2. Started(stack') \in Nat
  BY <1>1, StartedType DEF Shape
<1>3. QED
  BY <1>1, <1>2, StartedNat DEF CountInv

LEMMA CountWhenKept ==
  ASSUME Shape(stack), CountInv, count_level' = count_level,
         Pops \/ Shifts \/ \E x \in Replacing \ Counted : Replaces(x)
  PROVE  CountInv'
<1>1. CASE Pops
  BY <1>1, StartedNat, PopsEffect DEF CountInv
<1>2. CASE Shifts
  <2>1. Started(stack') <= Started(stack) /\ Shape(stack')
    BY <1>2, ErrorFacts DEF Shifts
  <2>2. Started(stack') \in Nat
    BY <2>1, StartedType DEF Shape
  <2>3. QED
    BY <2>1, <2>2, StartedNat DEF CountInv
<1>3. ASSUME NEW x \in Replacing \ Counted, Replaces(x) PROVE CountInv'
  BY <1>3, StartedNat, ReplacesEffect DEF CountInv
<1>4. QED
  BY <1>1, <1>2, <1>3

LEMMA CountKept ==
  ASSUME Shape(stack), Shape(stack)', TagInv, CountInv, error_mechanism \in Modes,
      [Next]_parserVars
  PROVE  CountInv'
<1>1. ASSUME NEW l \in 0 .. MaxLevel, NEW t \in Tag \cup {"none"}, NEW v \in Value,
             ReadLine(l, t, v)
      PROVE  CountInv'
  BY <1>1 DEF ReadLine, lineVars, pastVars, CountInv
<1>2. CASE ReadEnd
  BY <1>2 DEF ReadEnd, lineVars, pastVars, CountInv
<1>3. CASE OpenLine
  BY <1>3, Moves, StartedNat, PushesEffect DEF CountInv, OpenLine
<1>4. CASE Delimiter
  BY <1>4, Moves, StartedNat, ReplacesEffect DEF CountInv, Replacing, Phase, Counted, Delimiter
<1>5. CASE ReadTag
  BY <1>5, Moves, StartedNat, ReplacesEffect DEF CountInv, Replacing, Phase, Counted, ReadTag
<1>6. CASE InvalidTag
  <2>1. HandledAtOnce \/ (Replaces("tag") /\ count_level' = count_level)
    BY <1>6, Moves, HandleErrorEffect DEF InvalidTag, PassedOn
  <2>2. QED
    BY <2>1, CountWhenEnded, CountWhenKept DEF HandledAtOnce, Replacing, Phase, Counted
<1>7. CASE UndefinedTag
  <2>1. Shifts /\ count_level' = count_level
    BY <1>7, Moves, RaiseEffect DEF UndefinedTag
  <2>2. QED
    BY <2>1, CountWhenKept
<1>8. CASE Characters
  BY <1>8, Moves, StartedNat, ReplacesEffect DEF CountInv, Replacing, Phase, Counted, Characters
<1>9. CASE CharactersAfterError
  <2>1. HandledAtOnce \/ (Replaces("line") /\ count_level' = count_level)
    BY <1>9, Moves, HandleErrorEffect DEF CharactersAfterError, PassedOn
  <2>2. QED
    BY <2>1, CountWhenEnded, CountWhenKept DEF HandledAtOnce, Replacing, Phase, Counted
<1>10. CASE StartUncounted
  BY <1>10, Moves, StartedNat, ReplacesEffect DEF CountInv, Replacing, Phase, Counted, StartUncounted
<1>11. CASE MissingValue
  <2>1. Shifts /\ count_level' = count_level
    BY <1>11, Moves, RaiseEffect DEF MissingValue
  <2>2. QED
    BY <2>1, CountWhenKept
<1>12. CASE CloseInvalid
  <2>1. (Shifts \/ Pops) /\ count_level' = count_level
    BY <1>12, Moves, RaiseEffect DEF CloseInvalid
  <2>2. QED
    BY <2>1, CountWhenKept
<1>13. CASE CloseError
  <2>1. HandledAtOnce \/ (Pops /\ count_level' = count_level)
    BY <1>13, Moves, HandleErrorEffect DEF CloseError, PassedOn
  <2>2. QED
    BY <2>1, CountWhenEnded, CountWhenKept DEF HandledAtOnce
<1>14. CASE CloseErrorSection
  BY <1>14, Moves, StartedNat, PopsEffect DEF CountInv, CloseErrorSection
<1>15. CASE CloseTrailer
  <2>1. count_level' = count_level
    BY <1>15 DEF CloseTrailer
  <2>2. Ended \/ stack' = <<"file">>
    BY <1>15, EndEffect DEF CloseTrailer
  <2>3. stack' = <<"file">> => Started(stack') = 0
    BY EndedStarted
  <2>4. QED
    BY <2>1, <2>2, <2>3, CountWhenEnded DEF CountInv
<1>16. CASE Accept
  BY <1>16, CountWhenEnded, EndEffect DEF Accept
<1>17. CASE SyntaxError
  BY <1>17, Moves, AfterErrorFacts DEF CountInv, SyntaxError
<1>18. CASE Discard
  BY <1>18, Moves, AfterErrorFacts DEF CountInv, Discard
<1>19. CASE GiveUp
  BY <1>19, CountWhenEnded, EndEffect DEF GiveUp, CannotRecover
<1>20. CASE StartSection
  BY <1>20, Moves, StartedNat, ReplacesEffect DEF CountInv, Replacing, Phase, Counted, StartSection
<1>21. CASE CloseSection
  BY <1>21, Moves, CountWhenClosed DEF CloseSection, Pop
<1>22. CASE CloseSectionWithError
  <2>1. HandledAtOnce \/ (Closed /\ count_level' = count_level - 1)
    BY <1>22, Moves, HandleErrorEffect DEF CloseSectionWithError, PassedOn, Pop
  <2>2. QED
    BY <2>1, CountWhenEnded, CountWhenClosed DEF HandledAtOnce
<1>23. ASSUME NEW mechanism \in Modes, SetErrorHandling(mechanism)
      PROVE  CountInv'
  BY <1>23 DEF SetErrorHandling, lexVars, lineVars, pastVars, CountInv
<1>24. CASE ParseFile
  BY <1>24 DEF ParseFile, lexVars, lineVars, CountInv
<1>25. CASE Restart
  BY <1>25, CountWhenEnded, EndEffect DEF Restart
<1>26. CASE UNCHANGED parserVars
  BY <1>26 DEF parserVars, CountInv
<1>27. QED
  BY <1>1, <1>2, <1>3, <1>4, <1>5, <1>6, <1>7, <1>8, <1>9, <1>10, <1>11, <1>12, <1>13,
      <1>14, <1>15, <1>16, <1>17, <1>18, <1>19, <1>20, <1>21, <1>22, <1>23, <1>24, <1>25,
      <1>26 DEF Next, Step, QuietStep

LEMMA ShiftsEffect ==
  ASSUME Shape(stack), Shifts
  PROVE  /\ Shape(stack') /\ stack' # <<>>
         /\ Top' \in {"error", "line_error", "file"}
         /\ Top' = "line_error" => Top \in {"line", "line_error"}
         /\ Top' = "line_error" =>
              /\ Len(stack') = Len(stack) /\ Below' = Below /\ stack # <<>>
              /\ \A i \in 1 .. Len(stack) - 1 : stack'[i] = stack[i]
         /\ stack' # <<"file">> => HasError(stack')
         /\ Top' = Last(ErrorShifted)
<1>1. /\ Shape(stack') /\ stack' # <<>>
      /\ Last(stack') \in {"error", "line_error", "file"}
      /\ stack' # <<"file">> => HasError(stack')
  BY ErrorFacts DEF Shifts
<1>2. Top' = Last(stack')
  BY <1>1 DEF Top
<1>3. ASSUME Last(stack') = "line_error"
      PROVE  /\ Top \in {"line", "line_error"} /\ Len(stack') = Len(stack)
             /\ \A i \in 1 .. Len(stack) - 1 : stack'[i] = stack[i]
  BY <1>3, ErrorFacts DEF Shifts
<1>4. ASSUME Last(stack') = "line_error" PROVE Below' = Below /\ stack # <<>>
  BY <1>3, <1>4, TopFacts DEF Below
<1>5. QED
  BY <1>1, <1>2, <1>3, <1>4 DEF Shifts

\* No line is on top.
LEMMA TagWhenNoLine ==
  ASSUME Shape(stack),
         Ended \/ stack' = <<"file">> \/ Pops \/ Closed \/ Pushes
           \/ (Shifts /\ Top \notin {"line", "line_error"})
           \/ \E x \in Replacing \ Tagged : Replaces(x)
  PROVE  TagInv'
<1>1. CASE Ended
  BY <1>1 DEF Ended, TagInv, Top, Tagged
<1>2. CASE stack' = <<"file">>
  BY <1>2 DEF TagInv, Top, Tagged, Last
<1>3. CASE Pops
  BY <1>3, PopsEffect DEF TagInv, Tagged, Section
<1>4. CASE Closed
  BY <1>4, ClosedEffect DEF TagInv, Tagged, Section
<1>5. CASE Pushes
  BY <1>5, PushesEffect DEF TagInv, Tagged
<1>6. CASE Shifts /\ Top \notin {"line", "line_error"}
  BY <1>6, ShiftsEffect DEF TagInv, Tagged
<1>7. ASSUME NEW x \in Replacing \ Tagged, Replaces(x) PROVE TagInv'
  BY <1>7, ReplacesEffect DEF TagInv
<1>8. QED
  BY <1>1, <1>2, <1>3, <1>4, <1>5, <1>6, <1>7

\* The line goes on.
LEMMA TagWhenLine ==
  ASSUME Shape(stack), TagInv, Top \in Tagged, tag' = tag,
         Top = "tag" => tag \notin {"HEAD", "TRLR"},
         \/ \E x \in {"value", "line"} : Replaces(x)
         \/ Shifts
  PROVE  TagInv'
<1>1. /\ Top \in Tagged
      /\ Len(stack) = 1 => tag = "HEAD" /\ Top = "tag"
      /\ tag = "TRLR" => Top = "tag"
      /\ Below \in Uncertain => tag = "any"
      /\ Below = "invalid_subs" => tag = "invalid"
  BY DEF TagInv
<1>2. Len(stack) # 1 /\ tag # "TRLR"
  BY <1>1
<1>3. ASSUME NEW x \in {"value", "line"}, Replaces(x) PROVE TagInv'
  <2>1. Len(stack') = Len(stack) /\ Below' = Below
    BY <1>3, ReplacesEffect DEF Replacing, Phase
  <2>2. QED
    BY <1>1, <1>2, <2>1 DEF TagInv
<1>4. CASE Shifts
  <2>1. CASE Top' = "line_error"
    BY <1>1, <1>2, <1>4, <2>1, ShiftsEffect DEF TagInv
  <2>2. CASE Top' # "line_error"
    BY <1>4, <2>2, ShiftsEffect DEF TagInv, Tagged
  <2>3. QED
    BY <2>1, <2>2
<1>5. QED
  BY <1>3, <1>4

\* A tag is read.
LEMMA TagWhenRead ==
  ASSUME Shape(stack), Top = "delim", Token \in Tag, Replaces("tag"),
         tag' = Kind(Token), Kind(Token) # "none"
  PROVE  TagInv'
<1>1. Len(stack') = Len(stack) /\ Below' = Below /\ Top' = "tag" /\ stack # <<>>
      /\ \A i \in 1 .. Len(stack) - 1 : stack'[i] = stack[i]
  BY ReplacesEffect DEF Replacing, Phase
<1>2. Len(stack) \in Nat /\ Len(stack) # 0
  BY <1>1, TopFacts
<1>3. ASSUME Len(stack) = 1 PROVE tag' = "HEAD"
  <2>1. Below = "empty"
    BY <1>3 DEF Below
  <2>2. QED
    BY <2>1 DEF Kind
<1>4. ASSUME Kind(Token) = "TRLR" PROVE Len(stack) = 2 /\ stack[1] = "records"
  <2>1. Below = "records"
    BY <1>4 DEF Kind
  <2>2. Len(stack) # 1
    BY <1>2, <2>1 DEF Below
  <2>3. Len(stack) >= 2
    BY <1>2, <2>2, AtLeastTwo
  <2>4. stack[Len(stack) - 1] = "records" /\ Len(stack) - 1 \in 1 .. Len(stack)
    BY <1>2, <2>1, <2>3, TopFacts
  <2>5. Len(stack) - 1 = 1
    BY <2>4 DEF Shape
  <2>6. Len(stack) = 2
    BY <1>2, <2>5
  <2>7. QED
    BY <2>4, <2>5, <2>6
<1>5. ASSUME Below \in Uncertain PROVE Kind(Token) = "any"
  BY <1>5 DEF Kind, Uncertain
<1>6. ASSUME Below = "invalid_subs" PROVE Kind(Token) = "invalid"
  BY <1>6 DEF Kind
<1>7. stack[1] = "records" /\ Len(stack) = 2 => stack'[1] = "records"
  BY <1>1
<1>8. QED
  BY <1>1, <1>3, <1>4, <1>5, <1>6, <1>7 DEF TagInv

LEMMA TagKept ==
  ASSUME Shape(stack), TagInv, error_mechanism \in Modes, [Next]_parserVars
  PROVE  TagInv'
<1>1. ASSUME NEW l \in 0 .. MaxLevel, NEW t \in Tag \cup {"none"}, NEW v \in Value,
             ReadLine(l, t, v)
      PROVE  TagInv'
  BY <1>1 DEF TagInv, Top, Below, ReadLine, lineVars
<1>2. CASE ReadEnd
  BY <1>2 DEF TagInv, Top, Below, ReadEnd, lineVars
<1>3. CASE OpenLine
  BY <1>3, Moves, TagWhenNoLine
<1>4. CASE Delimiter
  <2>1. \/ Replaces("delim")
        \/ Replaces("value") /\ Top = "tag" /\ tag \notin {"HEAD", "TRLR"} /\ tag' = tag
    BY <1>4, Moves DEF Delimiter, Replaces, Replaced, lineVars, Phase
  <2>2. QED
    BY <2>1, TagWhenNoLine, TagWhenLine DEF Tagged, Replacing, Phase
<1>5. CASE ReadTag
  BY <1>5, Moves, TagWhenRead DEF ReadTag, NextIs
<1>6. CASE InvalidTag
  <2>1. \/ HandledAtOnce
        \/ Replaces("tag") /\ tag' = "invalid" /\ Kind(Token) = "invalid"
             /\ Top = "delim" /\ Token \in Tag
    BY <1>6, Moves, HandleErrorEffect DEF InvalidTag, PassedOn, NextIs
  <2>2. QED
    BY <2>1, TagWhenNoLine, TagWhenRead DEF HandledAtOnce
<1>7. CASE UndefinedTag
  BY <1>7, Moves, TagWhenNoLine DEF UndefinedTag
<1>8. CASE Characters
  BY <1>8, Moves, TagWhenLine DEF Characters, lineVars, Tagged
<1>9. CASE CharactersAfterError
  <2>1. HandledAtOnce \/ (Replaces("line") /\ tag' = tag /\ Top = "line_error")
    BY <1>9, Moves, HandleErrorEffect DEF CharactersAfterError, PassedOn
  <2>2. QED
    BY <2>1, TagWhenNoLine, TagWhenLine DEF HandledAtOnce, Tagged
<1>10. CASE StartUncounted
  BY <1>10, Moves, TagWhenNoLine DEF Replacing, Tagged
<1>11. CASE MissingValue
  BY <1>11, Moves, TagWhenNoLine DEF MissingValue
<1>12. CASE CloseInvalid
  BY <1>12, Moves, TagWhenNoLine DEF CloseInvalid
<1>13. CASE CloseError
  BY <1>13, Moves, TagWhenNoLine DEF HandledAtOnce
<1>14. CASE CloseErrorSection
  BY <1>14, Moves, TagWhenNoLine
<1>15. CASE CloseTrailer
  BY <1>15, EndEffect, TagWhenNoLine DEF CloseTrailer
<1>16. CASE Accept
  BY <1>16, EndEffect, TagWhenNoLine DEF Accept
<1>17. CASE SyntaxError
  <2>1. Shifts /\ tag' = IF Last(ErrorShifted) = "line_error" THEN tag ELSE "none"
    BY <1>17, Moves DEF SyntaxError
  <2>2. CASE Top \in {"line", "line_error"}
    <3>1. CASE Last(ErrorShifted) = "line_error"
      BY <2>1, <2>2, <3>1, TagWhenLine DEF Tagged
    <3>2. CASE Last(ErrorShifted) # "line_error"
      BY <2>1, <3>2, ShiftsEffect DEF TagInv, Tagged
    <3>3. QED
      BY <3>1, <3>2
  <2>3. CASE Top \notin {"line", "line_error"}
    BY <2>1, <2>3, TagWhenNoLine
  <2>4. QED
    BY <2>2, <2>3
<1>18. CASE Discard
  <2>1. Shifts /\ tag' = IF Last(ErrorShifted) = "line_error" THEN tag ELSE "none"
    BY <1>18, Moves DEF Discard
  <2>2. CASE Top \in {"line", "line_error"}
    <3>1. CASE Last(ErrorShifted) = "line_error"
      BY <2>1, <2>2, <3>1, TagWhenLine DEF Tagged
    <3>2. CASE Last(ErrorShifted) # "line_error"
      BY <2>1, <3>2, ShiftsEffect DEF TagInv, Tagged
    <3>3. QED
      BY <3>1, <3>2
  <2>3. CASE Top \notin {"line", "line_error"}
    BY <2>1, <2>3, TagWhenNoLine
  <2>4. QED
    BY <2>2, <2>3
<1>19. CASE GiveUp
  BY <1>19, EndEffect, TagWhenNoLine DEF GiveUp, CannotRecover
<1>20. CASE StartSection
  BY <1>20, Moves, TagWhenNoLine DEF Replacing, Tagged
<1>21. CASE CloseSection
  BY <1>21, Moves, TagWhenNoLine
<1>22. CASE CloseSectionWithError
  BY <1>22, Moves, TagWhenNoLine DEF HandledAtOnce
<1>23. ASSUME NEW mechanism \in Modes, SetErrorHandling(mechanism)
      PROVE  TagInv'
  BY <1>23 DEF TagInv, Top, Below, SetErrorHandling, lineVars
<1>24. CASE ParseFile
  BY <1>24 DEF TagInv, Top, Below, ParseFile, lineVars
<1>25. CASE Restart
  BY <1>25, EndEffect, TagWhenNoLine DEF Restart
<1>26. CASE UNCHANGED parserVars
  BY <1>26 DEF TagInv, Top, Below, parserVars
<1>27. QED
  BY <1>1, <1>2, <1>3, <1>4, <1>5, <1>6, <1>7, <1>8, <1>9, <1>10, <1>11, <1>12, <1>13,
      <1>14, <1>15, <1>16, <1>17, <1>18, <1>19, <1>20, <1>21, <1>22, <1>23, <1>24, <1>25,
      <1>26 DEF Next, Step, QuietStep

LEMMA ConcatFacts ==
  ASSUME NEW S, NEW a \in Seq(S), NEW b \in Seq(S)
  PROVE  /\ a \o b \in Seq(S) /\ Len(a) \in Nat /\ Len(b) \in Nat
         /\ Len(a \o b) = Len(a) + Len(b)
         /\ \A i \in 1 .. Len(a) : (a \o b)[i] = a[i]
         /\ \A i \in Len(a) + 1 .. Len(a) + Len(b) : (a \o b)[i] = b[i - Len(a)]
  OBVIOUS

\* What a line, or the end of the file, gives the parser.
Plain == Tag \cup {"DELIM", "CHAR", "BAD"}

LEMMA RestOfLine ==
  ASSUME NEW t \in Tag \cup {"none"}, NEW v \in Value
  PROVE  (IF t = "none" THEN <<>> ELSE <<"DELIM", t>> \o v) \in Seq(Plain)
<1>1. "DELIM" \in Plain /\ "CHAR" \in Plain /\ "BAD" \in Plain
  BY DEF Plain
<1>2. v \in Seq(Plain)
  <2>1. <<>> \in Seq(Plain)
    OBVIOUS
  <2>2. <<"DELIM", "CHAR">> \in Seq(Plain)
    BY <1>1
  <2>3. <<"DELIM", "CHAR", "BAD">> \in Seq(Plain)
    BY <1>1
  <2>4. <<"BAD">> \in Seq(Plain)
    BY <1>1
  <2>5. QED
    BY <2>1, <2>2, <2>3, <2>4 DEF Value
<1>3. ASSUME t # "none" PROVE <<"DELIM", t>> \o v \in Seq(Plain)
  <2>1. t \in Plain
    BY <1>3 DEF Plain
  <2>2. <<"DELIM", t>> \in Seq(Plain)
    BY <1>1, <2>1
  <2>3. QED
    BY <1>2, <2>2
<1>4. <<>> \in Seq(Plain)
  OBVIOUS
<1>5. QED
  BY <1>3, <1>4

LEMMA ReadEffect ==
  ASSUME NEW l \in 0 .. MaxLevel, NEW t \in Tag \cup {"none"}, NEW v \in Value,
         ReadLine(l, t, v), current_level \in -1 .. MaxLevel
  PROVE  /\ pending' \in Seq(Input) /\ current_level' = l
         /\ \/ /\ Len(pending') >= 1 /\ pending'[1] = "BAD"
               /\ \A p \in 1 .. Len(pending') : pending'[p] \in Plain
            \/ \E n \in Nat :
                 /\ n = current_level + 1 - l /\ Len(pending') >= n + 1
                 /\ \A p \in 1 .. n : pending'[p] = "CLOSE"
                 /\ pending'[n + 1] = "OPEN"
                 /\ \A p \in n + 2 .. Len(pending') : pending'[p] \in Plain
<1> DEFINE rest == IF t = "none" THEN <<>> ELSE <<"DELIM", t>> \o v
           b == Brackets(l)
<1>1. rest \in Seq(Plain)
  BY RestOfLine
<1>2. pending' = b \o rest /\ current_level' = l
  BY DEF ReadLine
<1> HIDE DEF rest, b
<1>3. rest \in Seq(Input) /\ Len(rest) \in Nat
  BY <1>1 DEF Plain, Input
<1>4. \A i \in 1 .. Len(rest) : rest[i] \in Plain
  BY <1>1
<1>5. CASE l > current_level + 1
  <2>1. b = <<"BAD">>
    BY <1>5 DEF b, Brackets
  <2>2. b \in Seq(Input) /\ Len(b) = 1 /\ b[1] = "BAD" /\ "BAD" \in Plain
    BY <2>1 DEF Input, Plain
  <2>3. /\ b \o rest \in Seq(Input) /\ Len(b \o rest) = 1 + Len(rest)
        /\ (b \o rest)[1] = "BAD"
        /\ \A p \in 2 .. 1 + Len(rest) : (b \o rest)[p] = rest[p - 1]
    <3> DEFINE r == b \o rest
    <3>1. /\ r \in Seq(Input) /\ Len(r) = Len(b) + Len(rest)
          /\ \A i \in 1 .. Len(b) : r[i] = b[i]
          /\ \A i \in Len(b) + 1 .. Len(b) + Len(rest) : r[i] = rest[i - Len(b)]
      <4>1. b \in Seq(Input) /\ rest \in Seq(Input)
        BY <1>3, <2>2
      <4> HIDE DEF r
      <4>2. QED
        BY <4>1, ConcatFacts DEF r
    <3> HIDE DEF r
    <3>2. QED
      BY <1>3, <2>2, <3>1 DEF r
  <2>4. ASSUME NEW p \in 1 .. 1 + Len(rest) PROVE (b \o rest)[p] \in Plain
    <3>1. CASE p = 1
      BY <2>2, <2>3, <3>1
    <3>2. CASE p # 1
      <4>1. p \in 2 .. 1 + Len(rest) /\ p - 1 \in 1 .. Len(rest)
        BY <1>3, <3>2
      <4>2. QED
        BY <1>4, <2>3, <4>1
    <3>3. QED
      BY <3>1, <3>2
  <2>5. QED
    BY <1>2, <1>3, <2>3, <2>4
<1>6. CASE ~ (l > current_level + 1)
  <2> DEFINE n == current_level + 1 - l
             c == Closes(n)
  <2>1. n \in Nat
    BY <1>6
  <2>2. b = c \o <<"OPEN">>
    BY <1>6 DEF b, Brackets
  <2> HIDE DEF n
  <2>3. c \in Seq(Input) /\ Len(c) = n /\ \A i \in 1 .. n : c[i] = "CLOSE"
    BY <2>1 DEF Closes, Input
  <2> HIDE DEF c
  <2>4. <<"OPEN">> \in Seq(Input) /\ Len(<<"OPEN">>) = 1 /\ <<"OPEN">>[1] = "OPEN"
    BY DEF Input
  <2>5. /\ b \in Seq(Input) /\ Len(b) = n + 1 /\ b[n + 1] = "OPEN"
        /\ \A i \in 1 .. n : b[i] = "CLOSE"
    BY <2>1, <2>2, <2>3, <2>4
  <2>6. /\ b \o rest \in Seq(Input) /\ Len(b \o rest) = n + 1 + Len(rest)
        /\ \A p \in 1 .. n + 1 : (b \o rest)[p] = b[p]
        /\ \A p \in n + 2 .. n + 1 + Len(rest) : (b \o rest)[p] = rest[p - (n + 1)]
    BY <1>3, <2>1, <2>5
  <2>7. ASSUME NEW p \in n + 2 .. n + 1 + Len(rest) PROVE (b \o rest)[p] \in Plain
    <3>1. p - (n + 1) \in 1 .. Len(rest)
      BY <1>3, <2>1
    <3>2. QED
      BY <1>4, <2>6, <3>1
  <2>8. /\ \A p \in 1 .. n : pending'[p] = "CLOSE"
        /\ pending'[n + 1] = "OPEN"
    BY <1>2, <2>1, <2>5, <2>6
  <2>9. Len(pending') >= n + 1 /\ \A p \in n + 2 .. Len(pending') : pending'[p] \in Plain
    BY <1>2, <1>3, <2>1, <2>6, <2>7
  <2>10. n = current_level + 1 - l
    BY DEF n
  <2>11. QED
    BY <1>2, <2>1, <2>6, <2>8, <2>9, <2>10
<1>7. QED
  BY <1>5, <1>6

LEMMA EndOfFileEffect ==
  ASSUME ReadEnd
  PROVE  /\ pending' \in Seq(Input)
         /\ \/ Len(pending') = 1 /\ pending'[1] = "EOF"
            \/ Len(pending') = 2 /\ pending'[1] = "CLOSE" /\ pending'[2] = "EOF"
<1> DEFINE c == IF lines = 0 THEN <<>> ELSE <<"CLOSE">>
           e == <<"EOF">>
<1>1. pending' = c \o e
  BY DEF ReadEnd
<1>2. /\ c \in Seq(Input)
      /\ Len(c) = 0 \/ (Len(c) = 1 /\ c[1] = "CLOSE")
  <2>1. CASE lines = 0
    <3>1. c = <<>>
      BY <2>1
    <3>2. QED
      BY <3>1
  <2>2. CASE lines # 0
    <3>1. c = <<"CLOSE">> /\ "CLOSE" \in Input
      BY <2>2 DEF Input
    <3>2. QED
      BY <3>1
  <2>3. QED
    BY <2>1, <2>2
<1>3. e \in Seq(Input) /\ Len(e) = 1 /\ e[1] = "EOF"
  BY DEF Input
<1> HIDE DEF c, e
<1>4. /\ c \o e \in Seq(Input) /\ Len(c \o e) = Len(c) + 1
      /\ \A i \in 1 .. Len(c) : (c \o e)[i] = c[i]
      /\ (c \o e)[Len(c) + 1] = e[1]
  <2> DEFINE r == c \o e
  <2>1. /\ r \in Seq(Input) /\ Len(c) \in Nat /\ Len(r) = Len(c) + Len(e)
        /\ \A i \in 1 .. Len(c) : r[i] = c[i]
        /\ \A i \in Len(c) + 1 .. Len(c) + Len(e) : r[i] = e[i - Len(c)]
    BY <1>2, <1>3, ConcatFacts
  <2> HIDE DEF r
  <2>2. QED
    BY <1>2, <1>3, <2>1 DEF r
<1>5. QED
  BY <1>1, <1>2, <1>3, <1>4

LEMMA InputWhenRead ==
  ASSUME NEW l \in 0 .. MaxLevel, NEW t \in Tag \cup {"none"}, NEW v \in Value,
         ReadLine(l, t, v), current_level \in -1 .. MaxLevel
  PROVE  InputInv'
<1>1. pending' \in Seq(Input) /\ current_level' = l /\ Len(pending') \in Nat
  BY ReadEffect
<1>2. \A x \in Plain : x \notin {"OPEN", "CLOSE", "EOF"}
  BY DEF Plain, Tag
<1>3. CASE /\ Len(pending') >= 1 /\ pending'[1] = "BAD"
           /\ \A p \in 1 .. Len(pending') : pending'[p] \in Plain
  BY <1>1, <1>2, <1>3 DEF InputInv
<1>4. ASSUME NEW n \in Nat, Len(pending') >= n + 1,
             \A p \in 1 .. n : pending'[p] = "CLOSE",
             pending'[n + 1] = "OPEN",
             \A p \in n + 2 .. Len(pending') : pending'[p] \in Plain
      PROVE  InputInv'
  <2>1. ASSUME NEW p \in 1 .. Len(pending')
        PROVE  /\ pending'[p] = "OPEN" => p = n + 1
               /\ pending'[p] = "CLOSE" => p <= n
               /\ pending'[p] # "EOF"
    <3>1. CASE p <= n
      BY <1>4, <3>1
    <3>2. CASE p = n + 1
      BY <1>4, <3>2
    <3>3. CASE p > n + 1
      <4>1. p \in n + 2 .. Len(pending')
        BY <1>1, <3>3
      <4>2. QED
        BY <1>2, <1>4, <4>1
    <3>4. QED
      BY <3>1, <3>2, <3>3
  <2>2. \A p \in n + 2 .. Len(pending') : pending'[p] \notin {"OPEN", "CLOSE"}
    BY <1>2, <1>4
  <2>3. l >= 0 /\ n + 1 \in 1 .. Len(pending')
    BY <1>1, <1>4
  <2>4. ASSUME NEW p \in 1 .. Len(pending'), pending'[p] = "OPEN"
        PROVE  /\ current_level' >= 0
               /\ \A q \in 1 .. p - 1 : pending'[q] = "CLOSE"
               /\ \A q \in p + 1 .. Len(pending') : pending'[q] \notin {"OPEN", "CLOSE"}
    <3>1. p = n + 1
      BY <2>1, <2>4
    <3>2. QED
      BY <1>1, <1>4, <2>2, <2>3, <3>1
  <2>5. ASSUME NEW p \in 1 .. Len(pending'), pending'[p] = "CLOSE"
        PROVE  \E q \in p + 1 .. Len(pending') : pending'[q] \in {"OPEN", "EOF"}
    <3>1. n + 1 \in p + 1 .. Len(pending')
      BY <1>1, <2>1, <2>3, <2>5
    <3>2. QED
      BY <1>4, <3>1
  <2>6. QED
    BY <1>1, <2>1, <2>4, <2>5 DEF InputInv
<1>5. QED
  BY <1>3, <1>4, ReadEffect

LEMMA InputAtTheEnd ==
  ASSUME ReadEnd
  PROVE  InputInv'
<1>1. /\ pending' \in Seq(Input)
      /\ \/ Len(pending') = 1 /\ pending'[1] = "EOF"
         \/ Len(pending') = 2 /\ pending'[1] = "CLOSE" /\ pending'[2] = "EOF"
  BY EndOfFileEffect
<1>2. CASE Len(pending') = 1 /\ pending'[1] = "EOF"
  BY <1>1, <1>2 DEF InputInv
<1>3. CASE Len(pending') = 2 /\ pending'[1] = "CLOSE" /\ pending'[2] = "EOF"
  <2>1. \A p \in 1 .. Len(pending') : p = 1 \/ p = 2
    BY <1>3
  <2>2. 2 \in 2 .. Len(pending')
    BY <1>3
  <2>3. QED
    BY <1>1, <1>3, <2>1, <2>2 DEF InputInv
<1>4. QED
  BY <1>1, <1>2, <1>3

LEMMA InputWhenTaken ==
  ASSUME InputInv, pending # <<>>, pending' = Tail(pending),
         current_level' = current_level
  PROVE  InputInv'
<1>1. /\ Len(pending) \in Nat \ {0} /\ pending' \in Seq(Input)
      /\ Len(pending') = Len(pending) - 1
      /\ \A i \in 1 .. Len(pending) - 1 : pending'[i] = pending[i + 1]
  BY TailFacts DEF InputInv
<1>2. ASSUME NEW p \in 1 .. Len(pending'), pending'[p] = "OPEN"
      PROVE  /\ current_level' >= 0
             /\ \A q \in 1 .. p - 1 : pending'[q] = "CLOSE"
             /\ \A q \in p + 1 .. Len(pending') : pending'[q] \notin {"OPEN", "CLOSE"}
  <2>1. p \in Nat /\ p + 1 \in 1 .. Len(pending) /\ pending[p + 1] = "OPEN"
    BY <1>1, <1>2
  <2>2. /\ current_level >= 0
        /\ \A q \in 1 .. p : pending[q] = "CLOSE"
        /\ \A q \in p + 2 .. Len(pending) : pending[q] \notin {"OPEN", "CLOSE"}
    BY <2>1 DEF InputInv
  <2>3. \A q \in 1 .. p - 1 : q + 1 \in 1 .. p /\ q \in 1 .. Len(pending) - 1
    BY <1>1, <2>1
  <2>4. \A q \in p + 1 .. Len(pending') :
          q + 1 \in p + 2 .. Len(pending) /\ q \in 1 .. Len(pending) - 1
    BY <1>1, <2>1
  <2>5. QED
    BY <1>1, <2>2, <2>3, <2>4
<1>3. ASSUME NEW p \in 1 .. Len(pending'), pending'[p] = "CLOSE"
      PROVE  \E q \in p + 1 .. Len(pending') : pending'[q] \in {"OPEN", "EOF"}
  <2>1. p \in Nat /\ p + 1 \in 1 .. Len(pending) /\ pending[p + 1] = "CLOSE"
    BY <1>1, <1>3
  <2>2. PICK q \in p + 2 .. Len(pending) : pending[q] \in {"OPEN", "EOF"}
    BY <2>1 DEF InputInv
  <2>3. q - 1 \in p + 1 .. Len(pending') /\ q - 1 \in 1 .. Len(pending) - 1 /\ q - 1 + 1 = q
    BY <1>1, <2>1
  <2>4. QED
    BY <1>1, <2>2, <2>3
<1>4. ASSUME NEW p \in 1 .. Len(pending'), pending'[p] = "EOF"
      PROVE  p = Len(pending')
  <2>1. p \in Nat /\ p + 1 \in 1 .. Len(pending) /\ pending[p + 1] = "EOF"
    BY <1>1, <1>4
  <2>2. p + 1 = Len(pending)
    BY <2>1 DEF InputInv
  <2>3. Len(pending') = Len(pending) - 1 /\ Len(pending) \in Nat
    BY <1>1
  <2>4. QED
    BY <2>1, <2>2, <2>3
<1>5. QED
  BY <1>1, <1>2, <1>3, <1>4 DEF InputInv

LEMMA InputWhenEnded ==
  ASSUME pending' = <<>>
  PROVE  InputInv'
  BY DEF InputInv

LEMMA InputWhenKept ==
  ASSUME InputInv, pending' = pending, current_level' = current_level
  PROVE  InputInv'
  BY DEF InputInv

\* Apart from the lexer, a step takes one token, takes none, or is the last.
Taken == pending # <<>> /\ pending' = Tail(pending) /\ current_level' = current_level
Untouched == pending' = pending /\ current_level' = current_level

LEMMA LexerMoves ==
  ASSUME error_mechanism \in Modes, Next,
         ~ReadEnd,
         ~\E l \in 0 .. MaxLevel, t \in Tag \cup {"none"}, v \in Value : ReadLine(l, t, v)
  PROVE  Taken \/ Untouched \/ Ended
<1>1. CASE OpenLine
  BY <1>1 DEF Taken, Untouched, OpenLine, NextIs, Shift
<1>2. CASE Delimiter
  BY <1>2 DEF Taken, Untouched, Delimiter, NextIs, Shift
<1>3. CASE ReadTag
  BY <1>3 DEF Taken, Untouched, ReadTag, NextIs, Shift
<1>4. CASE InvalidTag
  BY <1>4, HandleErrorEffect DEF Taken, Untouched, InvalidTag, NextIs, HandledAtOnce,
      PassedOn
<1>5. CASE UndefinedTag
  BY <1>5, RaiseEffect DEF Taken, Untouched, UndefinedTag, NextIs
<1>6. CASE Characters
  BY <1>6 DEF Taken, Untouched, Characters, NextIs, Shift
<1>7. CASE CharactersAfterError
  BY <1>7, HandleErrorEffect DEF Taken, Untouched, CharactersAfterError, NextIs,
      HandledAtOnce, PassedOn
<1>8. CASE StartUncounted
  BY <1>8 DEF Taken, Untouched, StartUncounted, Keep, lexVars
<1>9. CASE MissingValue
  BY <1>9, RaiseEffect DEF Taken, Untouched, MissingValue
<1>10. CASE CloseInvalid
  BY <1>10, RaiseEffect DEF Taken, Untouched, CloseInvalid, NextIs, Shift
<1>11. CASE CloseError
  BY <1>11, HandleErrorEffect DEF Taken, Untouched, CloseError, NextIs, HandledAtOnce,
      PassedOn
<1>12. CASE CloseErrorSection
  BY <1>12 DEF Taken, Untouched, CloseErrorSection, NextIs, Shift
<1>13. CASE CloseTrailer
  BY <1>13, EndEffect DEF Taken, Untouched, CloseTrailer, NextIs, Shift
<1>14. CASE Accept
  BY <1>14, EndEffect DEF Taken, Untouched, Accept
<1>15. CASE SyntaxError
  BY <1>15 DEF Taken, Untouched, SyntaxError, lexVars
<1>16. CASE Discard
  BY <1>16 DEF Taken, Untouched, Discard, DropToken
<1>17. CASE GiveUp
  BY <1>17, EndEffect DEF Taken, Untouched, GiveUp, CannotRecover
<1>18. CASE StartSection
  BY <1>18 DEF Taken, Untouched, StartSection, Keep, lexVars
<1>19. CASE CloseSection
  BY <1>19 DEF Taken, Untouched, CloseSection, NextIs, Shift
<1>20. CASE CloseSectionWithError
  BY <1>20, HandleErrorEffect DEF Taken, Untouched, CloseSectionWithError, NextIs,
      HandledAtOnce, PassedOn
<1>21. ASSUME NEW mechanism \in Modes, SetErrorHandling(mechanism)
      PROVE  Taken \/ Untouched \/ Ended
  BY <1>21 DEF Taken, Untouched, SetErrorHandling, lexVars
<1>22. CASE ParseFile
  BY <1>22 DEF Taken, Untouched, ParseFile, lexVars
<1>23. CASE Restart
  BY <1>23, EndEffect DEF Taken, Untouched, Restart
<1>24. QED
  BY <1>1, <1>2, <1>3, <1>4, <1>5, <1>6, <1>7, <1>8, <1>9, <1>10, <1>11, <1>12, <1>13,
      <1>14, <1>15, <1>16, <1>17, <1>18, <1>19, <1>20, <1>21, <1>22, <1>23 DEF Next, Step,
      QuietStep

LEMMA InputKept ==
  ASSUME InputInv, error_mechanism \in Modes, current_level \in -1 .. MaxLevel,
         [Next]_parserVars
  PROVE  InputInv'
<1>1. CASE UNCHANGED parserVars
  BY <1>1, InputWhenKept DEF parserVars
<1>2. CASE \E l \in 0 .. MaxLevel, t \in Tag \cup {"none"}, v \in Value : ReadLine(l, t, v)
  BY <1>2, InputWhenRead
<1>3. CASE ReadEnd
  BY <1>3, InputAtTheEnd
<1>4. CASE Taken \/ Untouched \/ Ended
  BY <1>4, InputWhenTaken, InputWhenKept, InputWhenEnded DEF Taken, Untouched, Ended
<1>5. QED
  BY <1>1, <1>2, <1>3, <1>4, LexerMoves

-----------------------------------------------------------------------------
(* The types of the variables.                                             *)

FlagsInv ==
  /\ error_mechanism \in Modes
  /\ fail \in {0, 1}
  /\ parsing \in BOOLEAN /\ exited \in BOOLEAN
  /\ complained \in BOOLEAN /\ inside \in BOOLEAN
  /\ result \in {0, 1}
  /\ past \subseteq Past

NumbersInv ==
  /\ tag \in Tag \cup {"any", "none"}
  /\ level \in 0 .. MaxLevel
  /\ current_level \in -1 .. MaxLevel
  /\ recovering \in 0 .. 3
  /\ lines \in 0 .. MaxLines

LEMMA FlagsWhenHandled ==
  ASSUME FlagsInv, NEW s, NEW t, NEW c, HandleError(s, t, c)
  PROVE  FlagsInv'
<1>1. error_mechanism \in Modes
  BY DEF FlagsInv
<1>2. /\ complained' = TRUE /\ inside' = (inside \/ Inside)
      /\ error_mechanism' = error_mechanism /\ exited' = exited
      /\ HandledAtOnce \/ PassedOn(s, t, c)
  BY <1>1, HandleErrorEffect
<1>3. fail' \in {0, 1} /\ parsing' \in BOOLEAN /\ result' \in {0, 1} /\ past' \subseteq Past
  BY <1>2 DEF FlagsInv, HandledAtOnce, PassedOn, Ended, Past
<1>4. QED
  BY <1>2, <1>3 DEF FlagsInv

LEMMA FlagsWhenRaised ==
  ASSUME FlagsInv, NEW p, Raise(p)
  PROVE  FlagsInv'
  BY RaiseEffect DEF FlagsInv

LEMMA FlagsWhenEnded ==
  ASSUME FlagsInv, NEW r \in {0, 1}, End(r),
         error_mechanism' = error_mechanism, fail' \in {0, 1}, exited' \in BOOLEAN,
         complained' \in BOOLEAN, inside' \in BOOLEAN, past' \subseteq Past
  PROVE  FlagsInv'
  BY EndEffect DEF FlagsInv, Ended

LEMMA FlagsKept ==
  ASSUME FlagsInv, [Next]_parserVars
  PROVE  FlagsInv'
<1>1. ASSUME NEW l \in 0 .. MaxLevel, NEW t \in Tag \cup {"none"}, NEW v \in Value,
             ReadLine(l, t, v)
      PROVE  FlagsInv'
  BY <1>1 DEF ReadLine, lineVars, pastVars, FlagsInv
<1>2. CASE ReadEnd
  BY <1>2 DEF ReadEnd, lineVars, pastVars, FlagsInv
<1>3. CASE OpenLine
  BY <1>3 DEF OpenLine, NextIs, Token, Shift, Quietly, pastVars, FlagsInv
<1>4. CASE Delimiter
  BY <1>4 DEF Delimiter, NextIs, Token, Shift, Quietly, lineVars, pastVars, FlagsInv
<1>5. CASE ReadTag
  BY <1>5 DEF ReadTag, NextIs, Token, Shift, Quietly, pastVars, FlagsInv
<1>6. CASE InvalidTag
  BY <1>6, FlagsWhenHandled DEF InvalidTag, FlagsInv
<1>7. CASE UndefinedTag
  BY <1>7, FlagsWhenRaised DEF UndefinedTag
<1>8. CASE Characters
  BY <1>8 DEF Characters, NextIs, Token, Shift, Quietly, lineVars, pastVars, FlagsInv
<1>9. CASE CharactersAfterError
  BY <1>9, FlagsWhenHandled DEF CharactersAfterError, FlagsInv
<1>10. CASE StartUncounted
  BY <1>10 DEF StartUncounted, NextIs, Token, Keep, Quietly, lexVars, pastVars,
      LineComplete, FlagsInv
<1>11. CASE MissingValue
  BY <1>11, FlagsWhenRaised DEF MissingValue
<1>12. CASE CloseInvalid
  <2>1. CASE Below = "user_subs"
    BY <1>12, <2>1, FlagsWhenRaised DEF CloseInvalid
  <2>2. CASE Below # "user_subs"
    BY <1>12, <2>2 DEF CloseInvalid, Quietly, pastVars, FlagsInv
  <2>3. QED
    BY <2>1, <2>2
<1>13. CASE CloseError
  BY <1>13, FlagsWhenHandled DEF CloseError, FlagsInv
<1>14. CASE CloseErrorSection
  BY <1>14 DEF CloseErrorSection, NextIs, Token, Shift, Quietly, lineVars, pastVars,
      FlagsInv
<1>15. CASE CloseTrailer
  <2>1. CASE fail = 1
    BY <1>15, <2>1, FlagsWhenEnded DEF CloseTrailer, pastVars, FlagsInv
  <2>2. CASE fail # 1
    BY <1>15, <2>2 DEF CloseTrailer, Quietly, pastVars, FlagsInv
  <2>3. QED
    BY <2>1, <2>2
<1>16. CASE Accept
  BY <1>16, FlagsWhenEnded DEF Accept, pastVars, FlagsInv
<1>17. CASE SyntaxError
  <2>1. UNCHANGED <<error_mechanism, fail, parsing, result, exited, past>>
    BY <1>17 DEF SyntaxError
  <2>2. complained' \in BOOLEAN /\ inside' \in BOOLEAN
    BY <1>17 DEF SyntaxError, Report, FlagsInv
  <2>3. QED
    BY <2>1, <2>2 DEF FlagsInv
<1>18. CASE Discard
  BY <1>18 DEF Discard, Token, Quietly, pastVars, FlagsInv
<1>19. CASE GiveUp
  BY <1>19, FlagsWhenEnded DEF GiveUp, CannotRecover, Past, FlagsInv
<1>20. CASE StartSection
  <2>1. exited' \in BOOLEAN /\ parsing' \in BOOLEAN
    BY <1>20 DEF StartSection
  <2>2. UNCHANGED <<error_mechanism, fail, result, pastVars>>
    BY <1>20 DEF StartSection
  <2>3. QED
    BY <2>1, <2>2 DEF FlagsInv, pastVars
<1>21. CASE CloseSection
  BY <1>21 DEF CloseSection, NextIs, Token, Shift, Quietly, lineVars, pastVars, FlagsInv
<1>22. CASE CloseSectionWithError
  BY <1>22, FlagsWhenHandled DEF CloseSectionWithError, FlagsInv
<1>23. ASSUME NEW mechanism \in Modes, SetErrorHandling(mechanism)
      PROVE  FlagsInv'
  BY <1>23 DEF SetErrorHandling, lexVars, lineVars, pastVars, FlagsInv
<1>24. CASE ParseFile
  BY <1>24 DEF ParseFile, lexVars, lineVars, FlagsInv
<1>25. CASE Restart
  BY <1>25, FlagsWhenEnded DEF Restart, FlagsInv
<1>26. CASE UNCHANGED parserVars
  BY <1>26 DEF parserVars, FlagsInv
<1>27. QED
  BY <1>1, <1>2, <1>3, <1>4, <1>5, <1>6, <1>7, <1>8, <1>9, <1>10, <1>11, <1>12, <1>13,
      <1>14, <1>15, <1>16, <1>17, <1>18, <1>19, <1>20, <1>21, <1>22, <1>23, <1>24, <1>25,
      <1>26 DEF Next, Step, QuietStep

LEMMA RecoveringWhenShifted ==
  ASSUME recovering \in 0 .. 3, Shift
  PROVE  recovering' \in 0 .. 3 /\ UNCHANGED <<current_level, lines>>
  BY DEF Shift

LEMMA NumbersWhenHandled ==
  ASSUME NumbersInv, NEW s, NEW t \in Tag \cup {"any", "none"}, NEW c,
         HandleError(s, t, c), error_mechanism \in Modes
  PROVE  NumbersInv'
<1>1. HandledAtOnce \/ PassedOn(s, t, c)
  BY HandleErrorEffect
<1>2. QED
  BY <1>1 DEF NumbersInv, HandledAtOnce, PassedOn, Ended

LEMMA NumbersWhenRaised ==
  ASSUME NumbersInv, NEW p, Raise(p)
  PROVE  NumbersInv'
<1>1. /\ tag' = "none" /\ recovering' = 3
      /\ level' = level /\ current_level' = current_level /\ lines' = lines
  BY RaiseEffect
<1>2. QED
  BY <1>1 DEF NumbersInv

LEMMA NumbersWhenEnded ==
  ASSUME NumbersInv, NEW r, End(r)
  PROVE  NumbersInv'
<1>1. /\ tag' = "none" /\ level' = 0 /\ recovering' = 0
      /\ current_level' = -1 /\ lines' = 0
  BY EndEffect DEF Ended
<1>2. QED
  BY <1>1 DEF NumbersInv

LEMMA KindType ==
  ASSUME NEW t \in Tag
  PROVE  Kind(t) \in Tag \cup {"any", "none"}
  BY DEF Kind, Tag

LEMMA OpenFirst ==
  ASSUME InputInv, pending # <<>>, Token = "OPEN"
  PROVE  current_level >= 0
<1>1. pending[1] = "OPEN" /\ 1 \in 1 .. Len(pending)
  BY TailFacts DEF InputInv, Token
<1>2. QED
  BY <1>1 DEF InputInv

LEMMA NumbersKept ==
  ASSUME FlagsInv, NumbersInv, InputInv, error_mechanism \in Modes,
         [Next]_parserVars
  PROVE  NumbersInv'
<1>1. ASSUME NEW l \in 0 .. MaxLevel, NEW t \in Tag \cup {"none"}, NEW v \in Value,
             ReadLine(l, t, v)
      PROVE  NumbersInv'
  <2>1. current_level' = l /\ lines' = lines + 1 /\ lines < MaxLines
        /\ UNCHANGED <<lineVars, recovering>>
    BY <1>1 DEF ReadLine
  <2>2. QED
    BY <2>1 DEF NumbersInv, lineVars
<1>2. CASE ReadEnd
  BY <1>2 DEF ReadEnd, lineVars, pastVars, NumbersInv
<1>3. CASE OpenLine
  <2>1. /\ pending # <<>> /\ Token = "OPEN" /\ level' = current_level
        /\ tag' = "none" /\ Shift
    BY <1>3 DEF OpenLine, NextIs
  <2>2. current_level >= 0
    BY <2>1, OpenFirst
  <2>3. level' \in 0 .. MaxLevel
    BY <2>1, <2>2 DEF NumbersInv
  <2>4. QED
    BY <2>1, <2>3, RecoveringWhenShifted DEF NumbersInv
<1>4. CASE Delimiter
  BY <1>4, RecoveringWhenShifted DEF Delimiter, lineVars, NumbersInv
<1>5. CASE ReadTag
  <2>1. tag' \in Tag \cup {"any", "none"}
    BY <1>5, KindType DEF ReadTag, NextIs
  <2>2. Shift /\ level' = level
    BY <1>5 DEF ReadTag
  <2>3. QED
    BY <2>1, <2>2, RecoveringWhenShifted DEF NumbersInv
<1>6. CASE InvalidTag
  <2>1. tag \in Tag \cup {"any", "none"} /\ "invalid" \in Tag
    BY DEF NumbersInv, Tag
  <2>2. QED
    BY <1>6, <2>1, NumbersWhenHandled DEF InvalidTag
<1>7. CASE UndefinedTag
  BY <1>7, NumbersWhenRaised DEF UndefinedTag
<1>8. CASE Characters
  BY <1>8, RecoveringWhenShifted DEF Characters, lineVars, NumbersInv
<1>9. CASE CharactersAfterError
  <2>1. tag \in Tag \cup {"any", "none"} /\ "invalid" \in Tag
    BY DEF NumbersInv, Tag
  <2>2. QED
    BY <1>9, <2>1, NumbersWhenHandled DEF CharactersAfterError
<1>10. CASE StartUncounted
  BY <1>10 DEF StartUncounted, NextIs, Token, Keep, Quietly, lexVars, pastVars,
      LineComplete, NumbersInv
<1>11. CASE MissingValue
  BY <1>11, NumbersWhenRaised DEF MissingValue
<1>12. CASE CloseInvalid
  <2>1. CASE Below = "user_subs"
    BY <1>12, <2>1, NumbersWhenRaised DEF CloseInvalid
  <2>2. CASE Below # "user_subs"
    BY <1>12, <2>2, RecoveringWhenShifted DEF CloseInvalid, lineVars, NumbersInv
  <2>3. QED
    BY <2>1, <2>2
<1>13. CASE CloseError
  <2>1. tag \in Tag \cup {"any", "none"} /\ "invalid" \in Tag
    BY DEF NumbersInv, Tag
  <2>2. QED
    BY <1>13, <2>1, NumbersWhenHandled DEF CloseError
<1>14. CASE CloseErrorSection
  BY <1>14, RecoveringWhenShifted DEF CloseErrorSection, lineVars, NumbersInv
<1>15. CASE CloseTrailer
  <2>1. CASE fail = 1
    BY <1>15, <2>1, NumbersWhenEnded DEF CloseTrailer
  <2>2. CASE fail # 1
    BY <1>15, <2>2, RecoveringWhenShifted DEF CloseTrailer, NumbersInv
  <2>3. QED
    BY <2>1, <2>2
<1>16. CASE Accept
  BY <1>16, NumbersWhenEnded DEF Accept
<1>17. CASE SyntaxError
  BY <1>17 DEF SyntaxError, lexVars, NumbersInv
<1>18. CASE Discard
  BY <1>18 DEF Discard, Token, Quietly, pastVars, NumbersInv
<1>19. CASE GiveUp
  BY <1>19, NumbersWhenEnded DEF GiveUp, CannotRecover
<1>20. CASE StartSection
  BY <1>20 DEF StartSection, NextIs, Token, Keep, lexVars, pastVars, LineComplete,
      NumbersInv
<1>21. CASE CloseSection
  BY <1>21, RecoveringWhenShifted DEF CloseSection, lineVars, NumbersInv
<1>22. CASE CloseSectionWithError
  <2>1. tag \in Tag \cup {"any", "none"} /\ "invalid" \in Tag
    BY DEF NumbersInv, Tag
  <2>2. QED
    BY <1>22, <2>1, NumbersWhenHandled DEF CloseSectionWithError
<1>23. ASSUME NEW mechanism \in Modes, SetErrorHandling(mechanism)
      PROVE  NumbersInv'
  BY <1>23 DEF SetErrorHandling, lexVars, lineVars, pastVars, NumbersInv
<1>24. CASE ParseFile
  BY <1>24 DEF ParseFile, lexVars, lineVars, NumbersInv
<1>25. CASE Restart
  BY <1>25, NumbersWhenEnded DEF Restart
<1>26. CASE UNCHANGED parserVars
  BY <1>26 DEF parserVars, NumbersInv
<1>27. QED
  BY <1>1, <1>2, <1>3, <1>4, <1>5, <1>6, <1>7, <1>8, <1>9, <1>10, <1>11, <1>12, <1>13,
      <1>14, <1>15, <1>16, <1>17, <1>18, <1>19, <1>20, <1>21, <1>22, <1>23, <1>24, <1>25,
      <1>26 DEF Next, Step, QuietStep

-----------------------------------------------------------------------------
(* Errors and the session.                                                 *)

LEMMA FailWhenShifted ==
  ASSUME FailInv, recovering \in 0 .. 3, Shift \/ Keep, Quietly
  PROVE  FailInv'
<1>1. recovering' > 0 => recovering > 0
  BY DEF Shift, Keep, lexVars
<1>2. QED
  BY <1>1 DEF FailInv, Quietly, pastVars

LEMMA FailWhenHandled ==
  ASSUME FailInv, NEW s, NEW t, NEW c, HandleError(s, t, c)
  PROVE  FailInv'
<1>1. error_mechanism \in Modes
  BY DEF FailInv
<1>2. /\ complained' = TRUE /\ error_mechanism' = error_mechanism
      /\ HandledAtOnce \/ PassedOn(s, t, c)
  BY <1>1, HandleErrorEffect
<1>3. QED
  BY <1>1, <1>2 DEF FailInv, HandledAtOnce, PassedOn, Ended

LEMMA FailWhenRaised ==
  ASSUME FailInv, NEW p, Raise(p)
  PROVE  FailInv'
  BY RaiseEffect DEF FailInv

LEMMA FailWhenEnded ==
  ASSUME FailInv, NEW r, End(r), error_mechanism' = error_mechanism,
         fail' = 0 \/ (fail' = fail /\ past \subseteq past')
  PROVE  FailInv'
<1>1. recovering' = 0
  BY EndEffect DEF Ended
<1>2. QED
  BY <1>1 DEF FailInv

LEMMA FailKept ==
  ASSUME FailInv, SessionInv, recovering \in 0 .. 3, [Next]_parserVars
  PROVE  FailInv'
<1>1. ASSUME NEW l \in 0 .. MaxLevel, NEW t \in Tag \cup {"none"}, NEW v \in Value,
             ReadLine(l, t, v)
      PROVE  FailInv'
  BY <1>1 DEF ReadLine, lineVars, pastVars, FailInv
<1>2. CASE ReadEnd
  BY <1>2 DEF ReadEnd, lineVars, pastVars, FailInv
<1>3. CASE OpenLine
  BY <1>3, FailWhenShifted DEF OpenLine
<1>4. CASE Delimiter
  BY <1>4, FailWhenShifted DEF Delimiter
<1>5. CASE ReadTag
  BY <1>5, FailWhenShifted DEF ReadTag
<1>6. CASE InvalidTag
  BY <1>6, FailWhenHandled DEF InvalidTag
<1>7. CASE UndefinedTag
  BY <1>7, FailWhenRaised DEF UndefinedTag
<1>8. CASE Characters
  BY <1>8, FailWhenShifted DEF Characters
<1>9. CASE CharactersAfterError
  BY <1>9, FailWhenHandled DEF CharactersAfterError
<1>10. CASE StartUncounted
  BY <1>10, FailWhenShifted DEF StartUncounted
<1>11. CASE MissingValue
  BY <1>11, FailWhenRaised DEF MissingValue
<1>12. CASE CloseInvalid
  BY <1>12, FailWhenRaised, FailWhenShifted DEF CloseInvalid
<1>13. CASE CloseError
  BY <1>13, FailWhenHandled DEF CloseError
<1>14. CASE CloseErrorSection
  BY <1>14, FailWhenShifted DEF CloseErrorSection
<1>15. CASE CloseTrailer
  BY <1>15, FailWhenEnded, FailWhenShifted DEF CloseTrailer, pastVars
<1>16. CASE Accept
  BY <1>16, FailWhenEnded DEF Accept, pastVars
<1>17. CASE SyntaxError
  BY <1>17 DEF SyntaxError, Report, FailInv
<1>18. CASE Discard
  BY <1>18 DEF Discard, Quietly, pastVars, FailInv
<1>19. CASE GiveUp
  BY <1>19, FailWhenEnded DEF GiveUp, CannotRecover, pastVars
<1>20. CASE StartSection
  BY <1>20 DEF StartSection, Keep, lexVars, pastVars, FailInv
<1>21. CASE CloseSection
  BY <1>21, FailWhenShifted DEF CloseSection
<1>22. CASE CloseSectionWithError
  BY <1>22, FailWhenHandled DEF CloseSectionWithError
<1>23. ASSUME NEW mechanism \in Modes, SetErrorHandling(mechanism)
      PROVE  FailInv'
  BY <1>23 DEF SetErrorHandling, lexVars, lineVars, pastVars, FailInv
<1>24. CASE ParseFile
  <2>1. recovering' = 0
    BY <1>24 DEF ParseFile, SessionInv
  <2>2. QED
    BY <1>24, <2>1 DEF ParseFile, FailInv
<1>25. CASE Restart
  BY <1>25, FailWhenEnded DEF Restart, pastVars
<1>26. CASE UNCHANGED parserVars
  BY <1>26 DEF parserVars, FailInv
<1>27. QED
  BY <1>1, <1>2, <1>3, <1>4, <1>5, <1>6, <1>7, <1>8, <1>9, <1>10, <1>11, <1>12, <1>13,
      <1>14, <1>15, <1>16, <1>17, <1>18, <1>19, <1>20, <1>21, <1>22, <1>23, <1>24, <1>25,
      <1>26 DEF Next, Step, QuietStep

\* A parse that goes on.
LEMMA SessionWhenParsing ==
  ASSUME parsing' = TRUE, exited' = FALSE
  PROVE  SessionInv'
  BY DEF SessionInv

LEMMA SessionWhenEnded ==
  ASSUME Ended, past' = {} => count_level' = 0
  PROVE  SessionInv'
  BY DEF SessionInv, Ended

LEMMA SessionWhenHandled ==
  ASSUME SessionInv, FlagsInv, parsing, NEW s, NEW t, NEW c, HandleError(s, t, c)
  PROVE  SessionInv'
<1>1. exited' = FALSE /\ parsing = TRUE
  BY HandleErrorEffect DEF SessionInv, FlagsInv
<1>2. HandledAtOnce \/ PassedOn(s, t, c)
  BY HandleErrorEffect DEF FlagsInv
<1>3. QED
  BY <1>1, <1>2, SessionWhenParsing, SessionWhenEnded DEF HandledAtOnce, PassedOn

LEMMA SessionWhenGoesOn ==
  ASSUME SessionInv, FlagsInv, parsing, parsing' = parsing, exited' = exited
  PROVE  SessionInv'
  BY SessionWhenParsing DEF SessionInv, FlagsInv

LEMMA FileOnTop ==
  ASSUME Shape(stack), Top = "file"
  PROVE  stack = <<"file">>
<1>1. stack # <<>> /\ stack[Len(stack)] = "file" /\ Len(stack) \in Nat
  BY TopFacts
<1>2. Len(stack) = 1
  BY <1>1 DEF Shape
<1>3. stack \in Seq(Sym)
  BY DEF Shape
<1>4. QED
  BY <1>1, <1>2, <1>3

LEMMA SessionKept ==
  ASSUME SessionInv, FlagsInv, Shape(stack), CountInv, FailInv, CleanInv, BrokenInv,
      [Next]_parserVars
  PROVE  SessionInv'
<1>1. ASSUME NEW l \in 0 .. MaxLevel, NEW t \in Tag \cup {"none"}, NEW v \in Value,
             ReadLine(l, t, v)
      PROVE  SessionInv'
  BY <1>1, SessionWhenGoesOn DEF ReadLine
<1>2. CASE ReadEnd
  BY <1>2, SessionWhenGoesOn DEF ReadEnd
<1>3. CASE OpenLine
  BY <1>3, SessionWhenGoesOn DEF OpenLine, NextIs, Quietly
<1>4. CASE Delimiter
  BY <1>4, SessionWhenGoesOn DEF Delimiter, NextIs, Quietly
<1>5. CASE ReadTag
  BY <1>5, SessionWhenGoesOn DEF ReadTag, NextIs, Quietly
<1>6. CASE InvalidTag
  BY <1>6, SessionWhenHandled DEF InvalidTag, NextIs
<1>7. CASE UndefinedTag
  BY <1>7, RaiseEffect, SessionWhenGoesOn DEF UndefinedTag, NextIs
<1>8. CASE Characters
  BY <1>8, SessionWhenGoesOn DEF Characters, NextIs, Quietly
<1>9. CASE CharactersAfterError
  BY <1>9, SessionWhenHandled DEF CharactersAfterError, NextIs
<1>10. CASE StartUncounted
  BY <1>10, SessionWhenGoesOn DEF StartUncounted, Quietly, LineComplete, NextIs
<1>11. CASE MissingValue
  BY <1>11, RaiseEffect, SessionWhenGoesOn DEF MissingValue, LineComplete, NextIs
<1>12. CASE CloseInvalid
  BY <1>12, RaiseEffect, SessionWhenGoesOn DEF CloseInvalid, Quietly, NextIs
<1>13. CASE CloseError
  BY <1>13, SessionWhenHandled DEF CloseError, NextIs
<1>14. CASE CloseErrorSection
  BY <1>14, SessionWhenGoesOn DEF CloseErrorSection, NextIs, Quietly
<1>15. CASE CloseTrailer
  <2>1. CASE fail = 1
    BY <1>15, <2>1, EndEffect, SessionWhenEnded DEF CloseTrailer, pastVars, FailInv
  <2>2. CASE fail # 1
    BY <1>15, <2>2, SessionWhenGoesOn DEF CloseTrailer, Quietly, NextIs
  <2>3. QED
    BY <2>1, <2>2
<1>16. CASE Accept
  <2>1. /\ Ended /\ parsing /\ Top = "file"
        /\ count_level' = count_level /\ past' = past
    BY <1>16, EndEffect DEF Accept, NextIs, pastVars
  <2>2. stack = <<"file">>
    BY <2>1, FileOnTop
  <2>3. ~HasError(stack)
    BY <2>2 DEF HasError
  <2>4. past = {} => count_level = 0
    BY <2>1, <2>2, <2>3 DEF Clean, CleanInv, BrokenInv, FlagsInv
  <2>5. QED
    BY <2>1, <2>4, SessionWhenEnded
<1>17. CASE SyntaxError
  BY <1>17, SessionWhenGoesOn DEF SyntaxError
<1>18. CASE Discard
  BY <1>18, SessionWhenGoesOn DEF Discard, Quietly
<1>19. CASE GiveUp
  <2>1. /\ Ended /\ count_level' = count_level
        /\ past' = IF count_level > 0 THEN past \cup {"cut"} ELSE past
    BY <1>19, EndEffect DEF GiveUp, CannotRecover
  <2>2. past' = {} => count_level = 0
    BY <2>1 DEF CountInv
  <2>3. QED
    BY <2>1, <2>2, SessionWhenEnded
<1>20. CASE StartSection
  <2>1. parsing' = ~exited' /\ exited' \in BOOLEAN
    BY <1>20 DEF StartSection
  <2>2. QED
    BY <2>1 DEF SessionInv
<1>21. CASE CloseSection
  BY <1>21, SessionWhenGoesOn DEF CloseSection, NextIs, Quietly
<1>22. CASE CloseSectionWithError
  BY <1>22, SessionWhenHandled DEF CloseSectionWithError, NextIs
<1>23. ASSUME NEW mechanism \in Modes, SetErrorHandling(mechanism)
      PROVE  SessionInv'
  BY <1>23 DEF SetErrorHandling, SessionInv, lineVars, lexVars, pastVars
<1>24. CASE ParseFile
  BY <1>24, SessionWhenParsing DEF ParseFile, FlagsInv
<1>25. CASE Restart
  BY <1>25, EndEffect, SessionWhenEnded DEF Restart
<1>26. CASE UNCHANGED parserVars
  BY <1>26 DEF parserVars, SessionInv
<1>27. QED
  BY <1>1, <1>2, <1>3, <1>4, <1>5, <1>6, <1>7, <1>8, <1>9, <1>10, <1>11, <1>12, <1>13,
      <1>14, <1>15, <1>16, <1>17, <1>18, <1>19, <1>20, <1>21, <1>22, <1>23, <1>24, <1>25,
      <1>26 DEF Next, Step, QuietStep

-----------------------------------------------------------------------------
(* Errors stay on the stack until they are handled.                        *)

\* The bottom of the stack stays what it is.
Carries ==
  /\ stack' # <<>>
  /\ stack # <<>> /\ stack[1] \in Recoverable => stack'[1] \in Recoverable
  /\ stack = <<"file">> => stack' = <<"file">>

LEMMA AnythingButFile ==
  ASSUME Shape(stack), Top # "file"
  PROVE  stack # <<"file">>
<1>1. ASSUME stack = <<"file">> PROVE FALSE
  BY <1>1 DEF Top, Last
<1>2. QED
  BY <1>1

LEMMA NotAtTheBottom ==
  ASSUME Shape(stack), stack # <<>>, Len(stack) # 1
  PROVE  Len(stack) >= 2
<1>1. Len(stack) \in Nat /\ Len(stack) # 0
  BY TopFacts
<1>2. QED
  BY <1>1, AtLeastTwo

LEMMA ErrorsStay ==
  ASSUME Shape(stack), Shifts, HasError(stack)
  PROVE  HasError(stack') /\ stack' # <<"file">> /\ Top # "user_subs"
<1>1. PICK i \in 1 .. Len(stack) : stack[i] \in {"error", "line_error"}
  BY DEF HasError
<1>2. Len(stack) \in Nat \ {0} /\ stack # <<>> /\ Top = stack[Len(stack)]
  BY <1>1, TopFacts
<1>3. stack[i] = "line_error" => i = Len(stack)
  BY <1>1, <1>2 DEF Shape, Section
<1>4. stack[i] = "error" => i - 1 \in 1 .. Len(stack) /\ stack[i - 1] \in Recoverable
  BY <1>1, <1>2 DEF Shape
<1>5. CASE Top \in {"line", "line_error"} /\ ErrorShifted = Replaced("line_error")
  <2>1. "line_error" \in Phase /\ Top \in Phase
    BY <1>5 DEF Phase
  <2>2. stack'[Len(stack)] = "line_error" /\ Len(stack') = Len(stack)
    BY <1>5, <2>1, ReplacedFacts DEF Shifts
  <2>3. HasError(stack')
    BY <1>2, <2>2 DEF HasError
  <2>4. stack' # <<"file">>
    BY <1>2, <2>2
  <2>5. QED
    BY <1>5, <2>3, <2>4
<1>6. CASE Top \notin {"line", "line_error"}
  <2>1. stack[i] = "error"
    BY <1>1, <1>2, <1>3, <1>6
  <2>2. i - 1 \in 1 .. Len(stack) /\ stack[i - 1] \in Recoverable
    BY <1>4, <2>1
  <2>3. ErrorShifted # <<"file">>
    <3>1. PICK m \in 1 .. Len(stack) : /\ stack[m] \in Recoverable
                                      /\ ErrorShifted = Append(SubSeq(stack, 1, m), "error")
      BY <1>6, <2>2, ErrorCases
    <3>2. Len(ErrorShifted) = m + 1
      BY <3>1, ShapeErrorOn
    <3>3. QED
      BY <3>2
  <2>4. Top # "user_subs"
    <3>1. i < Len(stack) => stack[Len(stack)] \in Phase \cup {"error_subs"}
      BY <1>1, <1>2, <2>1 DEF Shape, Uncertain
    <3>2. QED
      BY <1>2, <2>1, <3>1 DEF Phase
  <2>5. QED
    BY <2>3, <2>4, ErrorFacts DEF Shifts
<1>7. QED
  BY <1>5, <1>6, ErrorCases

LEMMA ShiftsCarry ==
  ASSUME Shape(stack), Shifts
  PROVE  Carries /\ (stack' = <<"file">> \/ HasError(stack'))
<1>1. /\ stack' # <<>>
      /\ stack' = <<"file">> \/ HasError(stack')
      /\ Len(stack) >= 1 /\ stack[1] \in Recoverable => stack'[1] \in Recoverable
  BY ErrorFacts DEF Shifts
<1>2. stack # <<>> => Len(stack) >= 1
  BY TopFacts
<1>3. ASSUME stack = <<"file">> PROVE stack' = <<"file">>
  <2>1. Top = "file" /\ Len(stack) = 1 /\ stack[1] = "file"
    BY <1>3 DEF Top, Last
  <2>2. \A i \in 1 .. Len(stack) : stack[i] \notin Recoverable
    BY <2>1 DEF Recoverable
  <2>3. QED
    BY <2>1, <2>2, ErrorCases DEF Shifts
<1>4. QED
  BY <1>1, <1>2, <1>3 DEF Carries

LEMMA OthersCarry ==
  ASSUME Shape(stack), Pushes \/ Pops \/ Closed \/ \E x \in Replacing : Replaces(x)
  PROVE  Carries /\ stack # <<"file">>
<1>1. Top # "file"
  BY DEF Pushes, Pops, Closed, Replaces, Section, Counted, Phase
<1>2. stack # <<"file">>
  BY <1>1, AnythingButFile
<1>3. Len(stack) \in Nat /\ (stack # <<>> => Len(stack) >= 1)
  BY TopFacts
<1>4. CASE Pushes
  <2>1. stack' # <<>> /\ \A i \in 1 .. Len(stack) : stack'[i] = stack[i]
    BY <1>4, PushesEffect
  <2>2. QED
    BY <1>2, <1>3, <2>1 DEF Carries
<1>5. CASE Pops
  <2>1. stack' # <<>> /\ Len(stack) >= 2 /\ \A i \in 1 .. Len(stack) - 1 : stack'[i] = stack[i]
    BY <1>5, PopsEffect
  <2>2. QED
    BY <1>2, <1>3, <2>1 DEF Carries
<1>6. CASE Closed
  BY <1>2, <1>6, ClosedEffect DEF Carries
<1>7. ASSUME NEW x \in Replacing, Replaces(x) PROVE Carries
  <2>1. stack' # <<>> /\ stack # <<>> /\ \A i \in 1 .. Len(stack) - 1 : stack'[i] = stack[i]
    BY <1>7, ReplacesEffect
  <2>2. CASE Len(stack) = 1
    <3>1. stack[1] \notin Recoverable
      BY <1>7, <2>1, <2>2, TopFacts DEF Replaces, Phase, Recoverable
    <3>2. QED
      BY <1>2, <2>1, <3>1 DEF Carries
  <2>3. CASE Len(stack) # 1
    <3>1. 1 \in 1 .. Len(stack) - 1
      <4>1. Len(stack) >= 2
        BY <2>1, <2>3, NotAtTheBottom
      <4>2. QED
        BY <1>3, <4>1
    <3>2. stack'[1] = stack[1]
      BY <2>1, <3>1
    <3>3. QED
      BY <1>2, <2>1, <3>2 DEF Carries
  <2>4. QED
    BY <2>2, <2>3
<1>8. QED
  BY <1>2, <1>4, <1>5, <1>6, <1>7

LEMMA ErrorsKept ==
  ASSUME Shape(stack),
         \/ Pushes \/ Closed \/ (Pops /\ Top # "error")
         \/ Top # "line_error" /\ \E x \in Replacing \ {"line_error"} : Replaces(x)
  PROVE  HasError(stack') = HasError(stack)
  BY PushesEffect, ClosedEffect, PopsEffect, ReplacesEffect

-----------------------------------------------------------------------------
(* InsideInv and BrokenInv.                                                *)

\* The step reports an error.
LEMMA InsideWhenReported ==
  ASSUME InsideInv, parsing, complained' = TRUE, inside' = (inside \/ Inside),
         error_mechanism' = error_mechanism, Carries,
         \/ stack' = <<"file">> \/ HasError(stack')
         \/ error_mechanism = "DEFER_FAIL" /\ fail' = 1
         \/ error_mechanism = "IGNORE_ERRORS"
  PROVE  InsideInv'
<1> SUFFICES ASSUME inside'
             PROVE  \/ stack' = <<"file">> /\ error_mechanism' = "IGNORE_ERRORS"
                    \/ /\ stack' # <<>> /\ stack'[1] \in Recoverable
                       /\ error_mechanism' # "IGNORE_ERRORS" =>
                            HasError(stack') \/ (fail' = 1 /\ error_mechanism' = "DEFER_FAIL")
  BY DEF InsideInv, Unhandled
<1>1. CASE stack = <<"file">> /\ error_mechanism = "IGNORE_ERRORS"
  BY <1>1 DEF Carries
<1>2. CASE stack # <<>> /\ stack[1] \in Recoverable
  <2>1. stack' # <<>> /\ stack'[1] \in Recoverable
    BY <1>2 DEF Carries
  <2>2. stack' # <<"file">>
    BY <2>1 DEF Recoverable
  <2>3. QED
    BY <2>1, <2>2
<1>3. CASE inside
  BY <1>1, <1>2, <1>3 DEF InsideInv
<1>4. CASE Inside
  BY <1>2, <1>4 DEF Inside, Recoverable
<1>5. QED
  BY <1>3, <1>4

\* The step reports nothing.
LEMMA InsideWhenQuiet ==
  ASSUME InsideInv, parsing, complained' = complained, inside' = inside,
         error_mechanism' = error_mechanism, fail' = fail, Carries,
         HasError(stack) => HasError(stack')
  PROVE  InsideInv'
<1> SUFFICES ASSUME inside
             PROVE  /\ complained
                    /\ \/ stack' = <<"file">> /\ error_mechanism' = "IGNORE_ERRORS"
                       \/ /\ stack' # <<>> /\ stack'[1] \in Recoverable
                          /\ error_mechanism' # "IGNORE_ERRORS" =>
                               HasError(stack') \/ (fail' = 1 /\ error_mechanism' = "DEFER_FAIL")
  BY DEF InsideInv, Unhandled
<1>1. complained
  BY DEF InsideInv
<1>2. CASE stack = <<"file">> /\ error_mechanism = "IGNORE_ERRORS"
  BY <1>1, <1>2 DEF Carries
<1>3. CASE /\ stack # <<>> /\ stack[1] \in Recoverable
           /\ error_mechanism # "IGNORE_ERRORS" =>
                HasError(stack) \/ (fail = 1 /\ error_mechanism = "DEFER_FAIL")
  BY <1>1, <1>3 DEF Carries
<1>4. QED
  BY <1>2, <1>3 DEF InsideInv, Unhandled

LEMMA InsideWhenOver ==
  ASSUME parsing' = FALSE
  PROVE  InsideInv'
  BY DEF InsideInv

LEMMA InsideWhenHandled ==
  ASSUME InsideInv, parsing, FlagsInv, NEW s, NEW t, NEW c, HandleError(s, t, c),
         HandledAtOnce \/ Carries
  PROVE  InsideInv'
<1>1. /\ complained' = TRUE /\ inside' = (inside \/ Inside)
      /\ error_mechanism' = error_mechanism
      /\ HandledAtOnce \/ PassedOn(s, t, c)
  BY HandleErrorEffect DEF FlagsInv
<1>2. CASE HandledAtOnce
  BY <1>2, InsideWhenOver DEF HandledAtOnce, Ended
<1>3. CASE PassedOn(s, t, c) /\ Carries
  <2>1. \/ error_mechanism = "DEFER_FAIL" /\ fail' = 1
        \/ error_mechanism = "IGNORE_ERRORS"
    BY <1>3 DEF PassedOn
  <2>2. QED
    BY <1>1, <1>3, <2>1, InsideWhenReported
<1>4. QED
  BY <1>1, <1>2, <1>3

\* At the trailer no error is on the stack.
LEMMA TrailerFacts ==
  ASSUME Shape(stack), TagInv, Top = "tag", tag = "TRLR"
  PROVE  /\ ~HasError(stack) /\ stack # <<"file">>
         /\ Len(stack) = 2 /\ stack[1] = "records" /\ stack[2] = "tag"
<1>1. Len(stack) = 2 /\ stack[1] = "records"
  BY DEF TagInv, Tagged
<1>2. stack[2] = "tag"
  BY <1>1, TopFacts
<1>3. \A i \in 1 .. Len(stack) : i = 1 \/ i = 2
  BY <1>1
<1>4. ~HasError(stack)
  BY <1>1, <1>2, <1>3 DEF HasError
<1>5. QED
  BY <1>1, <1>2, <1>4

LEMMA InsideKept ==
  ASSUME InsideInv, FlagsInv, Shape(stack), TagInv, [Next]_parserVars
  PROVE  InsideInv'
<1>1. ASSUME NEW l \in 0 .. MaxLevel, NEW t \in Tag \cup {"none"}, NEW v \in Value,
             ReadLine(l, t, v)
      PROVE  InsideInv'
  BY <1>1 DEF ReadLine, pastVars, InsideInv, Unhandled
<1>2. CASE ReadEnd
  BY <1>2 DEF ReadEnd, pastVars, InsideInv, Unhandled
<1>3. CASE OpenLine
  <2>1. Pushes /\ parsing /\ Quietly
    BY <1>3, Moves DEF FlagsInv, OpenLine, NextIs
  <2>2. HasError(stack') = HasError(stack) /\ Carries
    BY <2>1, ErrorsKept, OthersCarry
  <2>3. QED
    BY <2>1, <2>2, InsideWhenQuiet DEF Quietly, pastVars
<1>4. CASE Delimiter
  <2>1. Replaces("delim") \/ Replaces("value")
    BY <1>4, Moves DEF FlagsInv
  <2>2. parsing /\ Top # "line_error" /\ Top # "error" /\ Quietly
    BY <1>4 DEF Delimiter, NextIs
  <2>3. HasError(stack') = HasError(stack)
    BY <2>1, <2>2, ErrorsKept DEF Replacing, Phase
  <2>4. Carries
    BY <2>1, OthersCarry DEF Replacing, Phase
  <2>5. QED
    BY <2>2, <2>3, <2>4, InsideWhenQuiet DEF Quietly, pastVars
<1>5. CASE ReadTag
  <2>1. Replaces("tag")
    BY <1>5, Moves DEF FlagsInv
  <2>2. parsing /\ Top # "line_error" /\ Top # "error" /\ Quietly
    BY <1>5 DEF ReadTag, NextIs
  <2>3. HasError(stack') = HasError(stack)
    BY <2>1, <2>2, ErrorsKept DEF Replacing, Phase
  <2>4. Carries
    BY <2>1, OthersCarry DEF Replacing, Phase
  <2>5. QED
    BY <2>2, <2>3, <2>4, InsideWhenQuiet DEF Quietly, pastVars
<1>6. CASE InvalidTag
  <2>1. HandledAtOnce \/ Replaces("tag")
    BY <1>6, Moves DEF FlagsInv
  <2>2. HandledAtOnce \/ Carries
    BY <2>1, OthersCarry DEF Replacing, Phase
  <2>3. QED
    BY <1>6, <2>2, InsideWhenHandled DEF InvalidTag, NextIs
<1>7. CASE UndefinedTag
  <2>1. Shifts /\ parsing
    BY <1>7, Moves DEF FlagsInv, UndefinedTag, NextIs
  <2>2. /\ complained' = TRUE /\ inside' = (inside \/ Inside)
        /\ error_mechanism' = error_mechanism
    BY <1>7, RaiseEffect DEF UndefinedTag
  <2>3. QED
    BY <2>1, <2>2, ShiftsCarry, InsideWhenReported
<1>8. CASE Characters
  <2>1. Replaces("line")
    BY <1>8, Moves DEF FlagsInv
  <2>2. parsing /\ Top # "line_error" /\ Top # "error" /\ Quietly
    BY <1>8 DEF Characters, NextIs
  <2>3. HasError(stack') = HasError(stack)
    BY <2>1, <2>2, ErrorsKept DEF Replacing, Phase
  <2>4. Carries
    BY <2>1, OthersCarry DEF Replacing, Phase
  <2>5. QED
    BY <2>2, <2>3, <2>4, InsideWhenQuiet DEF Quietly, pastVars
<1>9. CASE CharactersAfterError
  <2>1. HandledAtOnce \/ Replaces("line")
    BY <1>9, Moves DEF FlagsInv
  <2>2. HandledAtOnce \/ Carries
    BY <2>1, OthersCarry DEF Replacing, Phase
  <2>3. QED
    BY <1>9, <2>2, InsideWhenHandled DEF CharactersAfterError, NextIs
<1>10. CASE StartUncounted
  <2>1. Replaces("invalid_subs") \/ Replaces("error_subs")
    BY <1>10, Moves DEF FlagsInv
  <2>2. parsing /\ Top # "line_error" /\ Top # "error" /\ Quietly
    BY <1>10 DEF StartUncounted, LineComplete, NextIs
  <2>3. HasError(stack') = HasError(stack)
    BY <2>1, <2>2, ErrorsKept DEF Replacing, Phase
  <2>4. Carries
    BY <2>1, OthersCarry DEF Replacing, Phase
  <2>5. QED
    BY <2>2, <2>3, <2>4, InsideWhenQuiet DEF Quietly, pastVars
<1>11. CASE MissingValue
  <2>1. Shifts /\ parsing
    BY <1>11, Moves DEF FlagsInv, MissingValue, LineComplete, NextIs
  <2>2. /\ complained' = TRUE /\ inside' = (inside \/ Inside)
        /\ error_mechanism' = error_mechanism
    BY <1>11, RaiseEffect DEF MissingValue
  <2>3. QED
    BY <2>1, <2>2, ShiftsCarry, InsideWhenReported
<1>12. CASE CloseInvalid
  <2>1. CASE Below = "user_subs"
    <3>1. Shifts /\ parsing
      BY <1>12, <2>1, RaiseEffect DEF CloseInvalid, NextIs, Shifts
    <3>2. /\ complained' = TRUE /\ inside' = (inside \/ Inside)
          /\ error_mechanism' = error_mechanism
      BY <1>12, <2>1, RaiseEffect DEF CloseInvalid
    <3>3. QED
      BY <3>1, <3>2, ShiftsCarry, InsideWhenReported
  <2>2. CASE Below # "user_subs"
    <3>1. Pops /\ Top # "error" /\ parsing /\ Quietly
      BY <1>12, <2>2 DEF CloseInvalid, NextIs, Pops
    <3>2. HasError(stack') = HasError(stack) /\ Carries
      BY <3>1, ErrorsKept, OthersCarry
    <3>3. QED
      BY <3>1, <3>2, InsideWhenQuiet DEF Quietly, pastVars
  <2>3. QED
    BY <2>1, <2>2
<1>13. CASE CloseError
  <2>1. HandledAtOnce \/ Pops
    BY <1>13, Moves DEF FlagsInv
  <2>2. HandledAtOnce \/ Carries
    BY <2>1, OthersCarry DEF Replacing, Phase
  <2>3. QED
    BY <1>13, <2>2, InsideWhenHandled DEF CloseError, NextIs
<1>14. CASE CloseErrorSection
  <2>1. Pops
    BY <1>14, Moves DEF FlagsInv
  <2>2. parsing /\ Top # "line_error" /\ Top # "error" /\ Quietly
    BY <1>14 DEF CloseErrorSection, NextIs
  <2>3. HasError(stack') = HasError(stack)
    BY <2>1, <2>2, ErrorsKept DEF Replacing, Phase
  <2>4. Carries
    BY <2>1, OthersCarry DEF Replacing, Phase
  <2>5. QED
    BY <2>2, <2>3, <2>4, InsideWhenQuiet DEF Quietly, pastVars
<1>15. CASE CloseTrailer
  <2>1. CASE fail = 1
    BY <1>15, <2>1, EndEffect, InsideWhenOver DEF CloseTrailer, Ended
  <2>2. CASE fail # 1
    <3>1. /\ parsing /\ Top = "tag" /\ tag = "TRLR" /\ Quietly
          /\ stack' = <<"file">>
      BY <1>15, <2>2 DEF CloseTrailer, NextIs
    <3>2. ~HasError(stack) /\ stack # <<"file">>
      BY <3>1, TrailerFacts
    <3>3. inside => complained /\ error_mechanism = "IGNORE_ERRORS"
      BY <2>2, <3>1, <3>2 DEF InsideInv, Unhandled
    <3>4. QED
      BY <3>1, <3>3 DEF InsideInv, Quietly, pastVars
  <2>3. QED
    BY <2>1, <2>2
<1>16. CASE Accept
  BY <1>16, EndEffect, InsideWhenOver DEF Accept, Ended
<1>17. CASE SyntaxError
  <2>1. Shifts /\ parsing
    BY <1>17, Moves DEF FlagsInv, SyntaxError
  <2>2. error_mechanism' = error_mechanism /\ fail' = fail
    BY <1>17 DEF SyntaxError
  <2>3. CASE recovering = 0
    <3>1. complained' = TRUE /\ inside' = (inside \/ Inside)
      BY <1>17, <2>3 DEF SyntaxError, Report
    <3>2. QED
      BY <2>1, <2>2, <3>1, ShiftsCarry, InsideWhenReported
  <2>4. CASE recovering # 0
    <3>1. complained' = complained /\ inside' = inside
      BY <1>17, <2>4 DEF SyntaxError
    <3>2. QED
      BY <2>1, <2>2, <3>1, ShiftsCarry, ErrorsStay, InsideWhenQuiet
  <2>5. QED
    BY <2>3, <2>4
<1>18. CASE Discard
  <2>1. Shifts /\ parsing /\ Quietly
    BY <1>18, Moves DEF FlagsInv, Discard
  <2>2. QED
    BY <2>1, ShiftsCarry, ErrorsStay, InsideWhenQuiet DEF Quietly, pastVars
<1>19. CASE GiveUp
  BY <1>19, EndEffect, InsideWhenOver DEF GiveUp, CannotRecover, Ended
<1>20. CASE StartSection
  <2>1. Replaces("subs") \/ Replaces("user_subs")
    BY <1>20, Moves DEF FlagsInv
  <2>2. /\ parsing /\ Top # "line_error"
        /\ UNCHANGED <<error_mechanism, fail, result, pastVars>>
    BY <1>20 DEF StartSection, LineComplete, NextIs
  <2>3. HasError(stack') = HasError(stack)
    BY <2>1, <2>2, ErrorsKept DEF Replacing, Phase
  <2>4. Carries
    BY <2>1, OthersCarry DEF Replacing, Phase
  <2>5. QED
    BY <2>2, <2>3, <2>4, InsideWhenQuiet DEF pastVars
<1>21. CASE CloseSection
  <2>1. Closed
    BY <1>21, Moves DEF FlagsInv
  <2>2. parsing /\ Top # "line_error" /\ Top # "error" /\ Quietly
    BY <1>21 DEF CloseSection, NextIs, Counted
  <2>3. HasError(stack') = HasError(stack)
    BY <2>1, <2>2, ErrorsKept DEF Replacing, Phase
  <2>4. Carries
    BY <2>1, OthersCarry DEF Replacing, Phase
  <2>5. QED
    BY <2>2, <2>3, <2>4, InsideWhenQuiet DEF Quietly, pastVars
<1>22. CASE CloseSectionWithError
  <2>1. HandledAtOnce \/ Closed
    BY <1>22, Moves DEF FlagsInv
  <2>2. HandledAtOnce \/ Carries
    BY <2>1, OthersCarry DEF Replacing, Phase
  <2>3. QED
    BY <1>22, <2>2, InsideWhenHandled DEF CloseSectionWithError, NextIs
<1>23. ASSUME NEW mechanism \in Modes, SetErrorHandling(mechanism)
      PROVE  InsideInv'
  BY <1>23, InsideWhenOver DEF SetErrorHandling, FlagsInv
<1>24. CASE ParseFile
  BY <1>24 DEF ParseFile, InsideInv
<1>25. CASE Restart
  BY <1>25, EndEffect, InsideWhenOver DEF Restart, Ended
<1>26. CASE UNCHANGED parserVars
  BY <1>26 DEF parserVars, InsideInv, Unhandled
<1>27. QED
  BY <1>1, <1>2, <1>3, <1>4, <1>5, <1>6, <1>7, <1>8, <1>9, <1>10, <1>11, <1>12, <1>13,
      <1>14, <1>15, <1>16, <1>17, <1>18, <1>19, <1>20, <1>21, <1>22, <1>23, <1>24, <1>25,
      <1>26 DEF Next, Step, QuietStep

LEMMA BrokenWhenPassedOver ==
  ASSUME parsing' = FALSE \/ past' # {}
  PROVE  BrokenInv'
  BY DEF BrokenInv

LEMMA BrokenWhenHandled ==
  ASSUME FlagsInv, NEW s, NEW t, NEW c, HandleError(s, t, c)
  PROVE  BrokenInv'
<1>1. HandledAtOnce \/ PassedOn(s, t, c)
  BY HandleErrorEffect DEF FlagsInv
<1>2. QED
  BY <1>1, BrokenWhenPassedOver DEF HandledAtOnce, Ended, PassedOn

\* What is reported now is on the stack, or the file is given up.
LEMMA BrokenWhenShifted ==
  ASSUME Shape(stack), Shifts, stack' = <<"file">> => count_level' = 0
  PROVE  BrokenInv'
  BY ShiftsCarry DEF BrokenInv

LEMMA BrokenWhenQuiet ==
  ASSUME BrokenInv, parsing, complained' = complained, past' = past,
         HasError(stack') = HasError(stack), stack # <<"file">>
  PROVE  BrokenInv'
  BY DEF BrokenInv

\* A YYERROR is never raised at the bottom of the stack.
LEMMA RaisedInside ==
  ASSUME Shape(stack), Shifts, Len(stack) >= 2
  PROVE  stack' # <<"file">>
<1>1. stack[1] \in Recoverable
  BY TopFacts
<1>2. ErrorShifted # <<"file">>
  BY <1>1, ErrorFacts
<1>3. QED
  BY <1>2 DEF Shifts

LEMMA BrokenKept ==
  ASSUME BrokenInv, FlagsInv, Shape(stack), TagInv, CountInv, [Next]_parserVars
  PROVE  BrokenInv'
<1>1. ASSUME NEW l \in 0 .. MaxLevel, NEW t \in Tag \cup {"none"}, NEW v \in Value,
             ReadLine(l, t, v)
      PROVE  BrokenInv'
  BY <1>1 DEF ReadLine, pastVars, BrokenInv
<1>2. CASE ReadEnd
  BY <1>2 DEF ReadEnd, pastVars, BrokenInv
<1>3. CASE OpenLine
  <2>1. Pushes /\ parsing /\ Quietly
    BY <1>3, Moves DEF FlagsInv, OpenLine, NextIs
  <2>2. HasError(stack') = HasError(stack) /\ stack # <<"file">>
    BY <2>1, ErrorsKept, OthersCarry
  <2>3. QED
    BY <2>1, <2>2, BrokenWhenQuiet DEF Quietly, pastVars
<1>4. CASE Delimiter
  <2>1. Replaces("delim") \/ Replaces("value")
    BY <1>4, Moves DEF FlagsInv
  <2>2. parsing /\ Top # "line_error" /\ Top # "error" /\ Quietly
    BY <1>4 DEF Delimiter, NextIs
  <2>3. HasError(stack') = HasError(stack)
    BY <2>1, <2>2, ErrorsKept DEF Replacing, Phase
  <2>4. stack # <<"file">>
    BY <2>1, OthersCarry DEF Replacing, Phase
  <2>5. QED
    BY <2>2, <2>3, <2>4, BrokenWhenQuiet DEF Quietly, pastVars
<1>5. CASE ReadTag
  <2>1. Replaces("tag")
    BY <1>5, Moves DEF FlagsInv
  <2>2. parsing /\ Top # "line_error" /\ Top # "error" /\ Quietly
    BY <1>5 DEF ReadTag, NextIs
  <2>3. HasError(stack') = HasError(stack)
    BY <2>1, <2>2, ErrorsKept DEF Replacing, Phase
  <2>4. stack # <<"file">>
    BY <2>1, OthersCarry DEF Replacing, Phase
  <2>5. QED
    BY <2>2, <2>3, <2>4, BrokenWhenQuiet DEF Quietly, pastVars
<1>6. CASE InvalidTag
  BY <1>6, BrokenWhenHandled DEF InvalidTag
<1>7. CASE UndefinedTag
  <2>1. Shifts /\ Top = "delim" /\ Kind(Token) = "undefined"
    BY <1>7, Moves DEF FlagsInv, UndefinedTag
  <2>2. Below # "empty"
    BY <2>1 DEF Kind
  <2>3. Len(stack) # 1 /\ stack # <<>>
    BY <2>1, <2>2, TopFacts DEF Below
  <2>4. QED
    BY <2>1, <2>3, NotAtTheBottom, RaisedInside, BrokenWhenShifted
<1>8. CASE Characters
  <2>1. Replaces("line")
    BY <1>8, Moves DEF FlagsInv
  <2>2. parsing /\ Top # "line_error" /\ Top # "error" /\ Quietly
    BY <1>8 DEF Characters, NextIs
  <2>3. HasError(stack') = HasError(stack)
    BY <2>1, <2>2, ErrorsKept DEF Replacing, Phase
  <2>4. stack # <<"file">>
    BY <2>1, OthersCarry DEF Replacing, Phase
  <2>5. QED
    BY <2>2, <2>3, <2>4, BrokenWhenQuiet DEF Quietly, pastVars
<1>9. CASE CharactersAfterError
  BY <1>9, BrokenWhenHandled DEF CharactersAfterError
<1>10. CASE StartUncounted
  <2>1. Replaces("invalid_subs") \/ Replaces("error_subs")
    BY <1>10, Moves DEF FlagsInv
  <2>2. parsing /\ Top # "line_error" /\ Top # "error" /\ Quietly
    BY <1>10 DEF StartUncounted, LineComplete, NextIs
  <2>3. HasError(stack') = HasError(stack)
    BY <2>1, <2>2, ErrorsKept DEF Replacing, Phase
  <2>4. stack # <<"file">>
    BY <2>1, OthersCarry DEF Replacing, Phase
  <2>5. QED
    BY <2>2, <2>3, <2>4, BrokenWhenQuiet DEF Quietly, pastVars
<1>11. CASE MissingValue
  <2>1. Shifts /\ Top = "tag" /\ tag = "mandatory"
    BY <1>11, Moves DEF FlagsInv, MissingValue
  <2>2. Len(stack) # 1 /\ stack # <<>>
    BY <2>1, TopFacts DEF TagInv, Tagged
  <2>3. QED
    BY <2>1, <2>2, NotAtTheBottom, RaisedInside, BrokenWhenShifted
<1>12. CASE CloseInvalid
  <2>1. Top = "invalid_subs"
    BY <1>12 DEF CloseInvalid
  <2>2. CASE Below = "user_subs"
    <3>1. Shifts
      BY <1>12, <2>2, RaiseEffect DEF CloseInvalid, Shifts
    <3>2. Len(stack) # 1 /\ stack # <<>>
      BY <2>1, <2>2, TopFacts DEF Below
    <3>3. QED
      BY <3>1, <3>2, NotAtTheBottom, RaisedInside, BrokenWhenShifted
  <2>3. CASE Below # "user_subs"
    <3>1. Pops /\ Top # "error" /\ parsing /\ Quietly
      BY <1>12, <2>3 DEF CloseInvalid, NextIs, Pops
    <3>2. HasError(stack') = HasError(stack) /\ stack # <<"file">>
      BY <3>1, ErrorsKept, OthersCarry
    <3>3. QED
      BY <3>1, <3>2, BrokenWhenQuiet DEF Quietly, pastVars
  <2>4. QED
    BY <2>2, <2>3
<1>13. CASE CloseError
  BY <1>13, BrokenWhenHandled DEF CloseError
<1>14. CASE CloseErrorSection
  <2>1. Pops
    BY <1>14, Moves DEF FlagsInv
  <2>2. parsing /\ Top # "line_error" /\ Top # "error" /\ Quietly
    BY <1>14 DEF CloseErrorSection, NextIs
  <2>3. HasError(stack') = HasError(stack)
    BY <2>1, <2>2, ErrorsKept DEF Replacing, Phase
  <2>4. stack # <<"file">>
    BY <2>1, OthersCarry DEF Replacing, Phase
  <2>5. QED
    BY <2>2, <2>3, <2>4, BrokenWhenQuiet DEF Quietly, pastVars
<1>15. CASE CloseTrailer
  <2>1. CASE fail = 1
    BY <1>15, <2>1, EndEffect, BrokenWhenPassedOver DEF CloseTrailer, Ended
  <2>2. CASE fail # 1
    <3>1. parsing /\ Top = "tag" /\ tag = "TRLR" /\ Quietly
      BY <1>15, <2>2 DEF CloseTrailer, NextIs
    <3>2. ~HasError(stack) /\ stack # <<"file">>
      BY <3>1, TrailerFacts
    <3>3. QED
      BY <3>1, <3>2 DEF BrokenInv, Quietly, pastVars
  <2>3. QED
    BY <2>1, <2>2
<1>16. CASE Accept
  BY <1>16, EndEffect, BrokenWhenPassedOver DEF Accept, Ended
<1>17. CASE SyntaxError
  <2>1. Shifts /\ count_level' = AfterError
    BY <1>17, Moves DEF FlagsInv, SyntaxError
  <2>2. QED
    BY <2>1, AfterErrorFacts, BrokenWhenShifted
<1>18. CASE Discard
  <2>1. Shifts /\ count_level' = AfterError
    BY <1>18, Moves DEF FlagsInv, Discard
  <2>2. QED
    BY <2>1, AfterErrorFacts, BrokenWhenShifted
<1>19. CASE GiveUp
  BY <1>19, EndEffect, BrokenWhenPassedOver DEF GiveUp, CannotRecover, Ended
<1>20. CASE StartSection
  <2>1. Replaces("subs") \/ Replaces("user_subs")
    BY <1>20, Moves DEF FlagsInv
  <2>2. /\ parsing /\ Top # "line_error"
        /\ UNCHANGED <<error_mechanism, fail, result, pastVars>>
    BY <1>20 DEF StartSection, LineComplete, NextIs
  <2>3. HasError(stack') = HasError(stack)
    BY <2>1, <2>2, ErrorsKept DEF Replacing, Phase
  <2>4. stack # <<"file">>
    BY <2>1, OthersCarry DEF Replacing, Phase
  <2>5. QED
    BY <2>2, <2>3, <2>4, BrokenWhenQuiet DEF pastVars
<1>21. CASE CloseSection
  <2>1. Closed
    BY <1>21, Moves DEF FlagsInv
  <2>2. parsing /\ Top # "line_error" /\ Top # "error" /\ Quietly
    BY <1>21 DEF CloseSection, NextIs, Counted
  <2>3. HasError(stack') = HasError(stack)
    BY <2>1, <2>2, ErrorsKept DEF Replacing, Phase
  <2>4. stack # <<"file">>
    BY <2>1, OthersCarry DEF Replacing, Phase
  <2>5. QED
    BY <2>2, <2>3, <2>4, BrokenWhenQuiet DEF Quietly, pastVars
<1>22. CASE CloseSectionWithError
  BY <1>22, BrokenWhenHandled DEF CloseSectionWithError
<1>23. ASSUME NEW mechanism \in Modes, SetErrorHandling(mechanism)
      PROVE  BrokenInv'
  BY <1>23, BrokenWhenPassedOver DEF SetErrorHandling, FlagsInv
<1>24. CASE ParseFile
  BY <1>24 DEF ParseFile, BrokenInv
<1>25. CASE Restart
  BY <1>25, EndEffect, BrokenWhenPassedOver DEF Restart, Ended
<1>26. CASE UNCHANGED parserVars
  BY <1>26 DEF parserVars, BrokenInv
<1>27. QED
  BY <1>1, <1>2, <1>3, <1>4, <1>5, <1>6, <1>7, <1>8, <1>9, <1>10, <1>11, <1>12, <1>13,
      <1>14, <1>15, <1>16, <1>17, <1>18, <1>19, <1>20, <1>21, <1>22, <1>23, <1>24, <1>25,
      <1>26 DEF Next, Step, QuietStep

-----------------------------------------------------------------------------
(* Before the first error.                                                 *)

\* No error section is on a clean stack, and no line that is not counted.
LEMMA CleanStack ==
  ASSUME Clean, CleanInv, Shape(stack)
  PROVE  /\ Top \notin {"invalid_subs", "error", "error_subs", "line_error"}
         /\ Below \notin {"invalid_subs", "error", "error_subs", "line_error"}
         /\ tag \notin {"invalid", "any"}
<1>1. \A i \in 1 .. Len(stack) :
        stack[i] \notin {"invalid_subs", "error", "error_subs", "line_error"}
  BY DEF CleanInv
<1>2. stack # <<>> => Len(stack) \in 1 .. Len(stack) /\ Top = stack[Len(stack)]
  BY TopFacts
<1>3. ~(Len(stack) < 2) => Len(stack) - 1 \in 1 .. Len(stack)
  BY TopFacts
<1>4. Top \notin {"invalid_subs", "error", "error_subs", "line_error"}
  BY <1>1, <1>2 DEF Top
<1>5. Below \notin {"invalid_subs", "error", "error_subs", "line_error"}
  BY <1>1, <1>3 DEF Below
<1>6. QED
  BY <1>4, <1>5 DEF CleanInv

\* Where nothing went wrong, this is what can happen next.
LEMMA CleanSteps ==
  ASSUME Next, Clean', CleanInv, FailInv, FlagsInv, SessionInv, Shape(stack),
         recovering \in 0 .. 3
  PROVE  \/ ParseFile
         \/ /\ Clean
            /\ \/ \E l \in 0 .. MaxLevel, t \in Tag \cup {"none"}, v \in Value : ReadLine(l, t, v)
               \/ ReadEnd \/ OpenLine \/ Delimiter \/ ReadTag \/ Characters
               \/ StartSection \/ CloseSection
               \/ CloseTrailer /\ stack' = <<"file">>
<1>1. parsing' = TRUE /\ past' = {} /\ ~complained'
  BY DEF Clean
<1>2. ~InvalidTag /\ ~CharactersAfterError /\ ~CloseError /\ ~CloseSectionWithError
  BY <1>1, HandleErrorEffect DEF FlagsInv, InvalidTag, CharactersAfterError, CloseError,
       CloseSectionWithError
<1>3. ~UndefinedTag /\ ~MissingValue
  BY <1>1, RaiseEffect DEF UndefinedTag, MissingValue
<1>4. ~Accept /\ ~GiveUp
  BY <1>1, EndEffect DEF Accept, GiveUp, CannotRecover, Ended
<1>5. ~Restart
  BY <1>1 DEF Restart
<1>6. ASSUME NEW mechanism \in Modes PROVE ~SetErrorHandling(mechanism)
  BY <1>1 DEF SetErrorHandling
<1>7. ~SyntaxError
  <2>1. ASSUME SyntaxError PROVE FALSE
    <3>1. recovering # 0 /\ complained' = complained
      BY <1>1, <2>1 DEF SyntaxError, Report
    <3>2. QED
      BY <1>1, <3>1 DEF FailInv
  <2>2. QED
    BY <2>1
<1>8. ~Discard
  <2>1. Discard => recovering > 0 /\ complained' = complained
    BY DEF Discard, Quietly, pastVars
  <2>2. QED
    BY <1>1, <2>1 DEF FailInv
<1>9. CloseInvalid \/ CloseErrorSection \/ StartUncounted => Clean
  <2>1. CloseInvalid \/ CloseErrorSection \/ StartUncounted => Quietly /\ parsing
    BY <1>1, RaiseEffect DEF CloseInvalid, CloseErrorSection, StartUncounted, LineComplete, NextIs
  <2>2. QED
    BY <1>1, <2>1 DEF Quietly, pastVars, Clean
<1>10. ~CloseInvalid /\ ~CloseErrorSection /\ ~StartUncounted
  BY <1>9, CleanStack DEF CloseInvalid, CloseErrorSection, StartUncounted
<1>11. StartSection => Clean
  BY <1>1 DEF StartSection, LineComplete, NextIs, pastVars, Clean
<1>12. CloseTrailer => Clean /\ stack' = <<"file">>
  BY <1>1, EndEffect DEF CloseTrailer, Ended, Quietly, NextIs, pastVars, Clean
<1>13. OpenLine \/ Delimiter \/ ReadTag \/ Characters \/ CloseSection => Clean
  <2>1. OpenLine \/ Delimiter \/ ReadTag \/ Characters \/ CloseSection => Quietly /\ parsing
    BY DEF OpenLine, Delimiter, ReadTag, Characters, CloseSection, NextIs
  <2>2. QED
    BY <1>1, <2>1 DEF Quietly, pastVars, Clean
<1>14. ASSUME NEW l \in 0 .. MaxLevel, NEW t \in Tag \cup {"none"}, NEW v \in Value,
             ReadLine(l, t, v)
      PROVE  Clean
  BY <1>1, <1>14 DEF ReadLine, pastVars, Clean
<1>15. ReadEnd => Clean
  BY <1>1 DEF ReadEnd, pastVars, Clean
<1>16. QED
  BY <1>2, <1>3, <1>4, <1>5, <1>6, <1>7, <1>8, <1>9, <1>10, <1>11, <1>12, <1>13, <1>14,
      <1>15 DEF Next, Step, QuietStep

\* The two halves of CleanInv: the stack, and what the lexer's level says.
CleanStackInv ==
  /\ count_level = Started(stack)
  /\ tag \notin {"invalid", "any"}
  /\ \A i \in 1 .. Len(stack) :
       stack[i] \notin {"invalid_subs", "error", "error_subs", "line_error"}
  /\ stack = <<"file">> => count_level = 0
CleanLevelInv ==
  stack # <<"file">> =>
    /\ count_level = Open(stack) - (IF Top \in Phase THEN 1 ELSE 0)
    /\ \A p \in 1 .. Len(pending) :
         pending[p] = "OPEN" => Open(stack) - (p - 1) = current_level
    /\ ~Has({"OPEN", "BAD", "EOF"}) => Open(stack) = current_level + 1
    /\ Top \in Phase => level = Open(stack) - 1

LEMMA CleanHalves == CleanInv <=> (Clean => CleanStackInv /\ CleanLevelInv)
  BY DEF CleanInv, CleanStackInv, CleanLevelInv

LEMMA OpenType ==
  ASSUME Shape(stack)
  PROVE  Open(stack) \in Int
  BY TopFacts DEF Open

\* A line is read where the last one ended.
LEMMA CleanWhenRead ==
  ASSUME NEW l \in 0 .. MaxLevel, NEW t \in Tag \cup {"none"}, NEW v \in Value,
         ReadLine(l, t, v), current_level \in -1 .. MaxLevel, Shape(stack),
         CleanStackInv, CleanLevelInv
  PROVE  CleanStackInv' /\ CleanLevelInv'
<1>1. /\ UNCHANGED <<count_level, stack, tag, level>>
      /\ pending = <<>> /\ current_level' = l
  BY DEF ReadLine, lineVars
<1>2. CleanStackInv' /\ Top' = Top
  BY <1>1 DEF CleanStackInv, Top
<1>3. SUFFICES ASSUME stack # <<"file">>
               PROVE  /\ \A p \in 1 .. Len(pending') :
                           pending'[p] = "OPEN" => Open(stack) - (p - 1) = l
                      /\ \E p \in 1 .. Len(pending') : pending'[p] \in {"OPEN", "BAD", "EOF"}
  BY <1>1, <1>2 DEF CleanLevelInv, Has
<1>4. ~Has({"OPEN", "BAD", "EOF"})
  BY <1>1 DEF Has
<1>5. Open(stack) = current_level + 1
  BY <1>3, <1>4 DEF CleanLevelInv
<1>6. Len(pending') \in Nat
  BY ReadEffect
<1>7. \A x \in Plain : x # "OPEN" /\ x # "CLOSE"
  BY DEF Plain, Tag
<1>8. CASE /\ Len(pending') >= 1 /\ pending'[1] = "BAD"
           /\ \A p \in 1 .. Len(pending') : pending'[p] \in Plain
  BY <1>6, <1>7, <1>8
<1>9. ASSUME NEW n \in Nat, n = current_level + 1 - l, Len(pending') >= n + 1,
             \A p \in 1 .. n : pending'[p] = "CLOSE",
             pending'[n + 1] = "OPEN",
             \A p \in n + 2 .. Len(pending') : pending'[p] \in Plain
      PROVE  /\ \A p \in 1 .. Len(pending') :
                  pending'[p] = "OPEN" => Open(stack) - (p - 1) = l
             /\ \E p \in 1 .. Len(pending') : pending'[p] \in {"OPEN", "BAD", "EOF"}
  <2>1. ASSUME NEW p \in 1 .. Len(pending'), pending'[p] = "OPEN" PROVE p = n + 1
    <3>1. ~(p <= n)
      BY <1>9, <2>1
    <3>2. ~(p > n + 1)
      <4>1. p > n + 1 => p \in n + 2 .. Len(pending')
        BY <1>6
      <4>2. QED
        BY <1>7, <1>9, <2>1, <4>1
    <3>3. QED
      BY <3>1, <3>2
  <2>2. n + 1 \in 1 .. Len(pending')
    BY <1>6, <1>9
  <2>3. QED
    BY <1>5, <1>9, <2>1, <2>2
<1>10. QED
  BY <1>8, <1>9, ReadEffect

LEMMA CleanAtTheEnd ==
  ASSUME ReadEnd, CleanStackInv, CleanLevelInv
  PROVE  CleanStackInv' /\ CleanLevelInv'
<1>1. UNCHANGED <<count_level, stack, tag, level, current_level>>
  BY DEF ReadEnd, lineVars
<1>2. CleanStackInv' /\ Top' = Top
  BY <1>1 DEF CleanStackInv, Top
<1>3. /\ Len(pending') \in Nat
      /\ \A p \in 1 .. Len(pending') : pending'[p] # "OPEN"
      /\ \E p \in 1 .. Len(pending') : pending'[p] = "EOF"
  <2>1. CASE Len(pending') = 1 /\ pending'[1] = "EOF"
    BY <2>1
  <2>2. CASE Len(pending') = 2 /\ pending'[1] = "CLOSE" /\ pending'[2] = "EOF"
    <3>1. \A p \in 1 .. Len(pending') : p = 1 \/ p = 2
      BY <2>2
    <3>2. 2 \in 1 .. Len(pending')
      BY <2>2
    <3>3. QED
      BY <2>2, <3>1, <3>2
  <2>3. QED
    BY <2>1, <2>2, EndOfFileEffect
<1>4. QED
  BY <1>1, <1>2, <1>3 DEF CleanLevelInv, Has

\* The next token is taken.
LEMMA TokenTaken ==
  ASSUME InputInv, pending # <<>>, pending' = Tail(pending)
  PROVE  /\ Len(pending) \in Nat \ {0} /\ Token = pending[1]
         /\ Len(pending') = Len(pending) - 1
         /\ \A p \in 1 .. Len(pending') :
              p + 1 \in 1 .. Len(pending) /\ pending'[p] = pending[p + 1]
         /\ \A p \in 2 .. Len(pending) :
              p - 1 \in 1 .. Len(pending') /\ pending'[p - 1] = pending[p]
<1>1. /\ Len(pending) \in Nat \ {0} /\ Head(pending) = pending[1]
      /\ Len(pending') = Len(pending) - 1
      /\ \A i \in 1 .. Len(pending) - 1 : pending'[i] = pending[i + 1]
  BY TailFacts DEF InputInv
<1>2. \A p \in 1 .. Len(pending') :
        p \in 1 .. Len(pending) - 1 /\ p + 1 \in 1 .. Len(pending)
  BY <1>1
<1>3. \A p \in 2 .. Len(pending) :
        p - 1 \in 1 .. Len(pending') /\ p - 1 \in 1 .. Len(pending) - 1 /\ p - 1 + 1 = p
  BY <1>1
<1>4. QED
  BY <1>1, <1>2, <1>3 DEF Token

\* An opening bracket is taken, or a token behind it: there is no other.
LEMMA NoOtherBracket ==
  ASSUME InputInv, pending # <<>>, pending' = Tail(pending), Token # "CLOSE"
  PROVE  \A p \in 1 .. Len(pending') : pending'[p] # "OPEN"
<1> SUFFICES ASSUME NEW p \in 1 .. Len(pending'), pending'[p] = "OPEN"
             PROVE  FALSE
  OBVIOUS
<1>1. p \in Nat /\ p >= 1 /\ p + 1 \in 1 .. Len(pending) /\ pending[p + 1] = "OPEN"
  BY TokenTaken
<1>2. \A q \in 1 .. p : pending[q] = "CLOSE"
  BY <1>1 DEF InputInv
<1>3. pending[1] = "CLOSE"
  BY <1>1, <1>2
<1>4. QED
  BY <1>3, TokenTaken

LEMMA StillExpected ==
  ASSUME InputInv, pending # <<>>, pending' = Tail(pending),
         Token \notin {"OPEN", "BAD", "EOF"}
  PROVE  Has({"OPEN", "BAD", "EOF"})' <=> Has({"OPEN", "BAD", "EOF"})
<1>1. ASSUME NEW p \in 1 .. Len(pending), pending[p] \in {"OPEN", "BAD", "EOF"}
      PROVE  \E q \in 1 .. Len(pending') : pending'[q] \in {"OPEN", "BAD", "EOF"}
  <2>1. p # 1
    BY <1>1, TokenTaken
  <2>2. p \in 2 .. Len(pending)
    BY <2>1, TokenTaken
  <2>3. QED
    BY <1>1, <2>2, TokenTaken
<1>2. ASSUME NEW q \in 1 .. Len(pending'), pending'[q] \in {"OPEN", "BAD", "EOF"}
      PROVE  \E p \in 1 .. Len(pending) : pending[p] \in {"OPEN", "BAD", "EOF"}
  BY <1>2, TokenTaken
<1>3. QED
  BY <1>1, <1>2 DEF Has

LEMMA CleanWhenOpened ==
  ASSUME OpenLine, InputInv, Shape(stack), CleanStackInv, CleanLevelInv,
         current_level \in -1 .. MaxLevel
  PROVE  CleanStackInv' /\ CleanLevelInv'
<1>1. /\ pending # <<>> /\ Token = "OPEN" /\ pending' = Tail(pending)
      /\ current_level' = current_level
      /\ level' = current_level /\ tag' = "none" /\ count_level' = count_level
      /\ Pushes
  BY DEF OpenLine, NextIs, Shift, Pushes
<1>2. /\ stack' # <<>> /\ Len(stack') = Len(stack) + 1 /\ Top' = "open"
      /\ Started(stack') = Started(stack) /\ Open(stack') = Open(stack) + 1
      /\ \A i \in 1 .. Len(stack) : stack'[i] = stack[i]
      /\ stack'[Len(stack) + 1] = "open"
  BY <1>1, PushesEffect, PushedFacts DEF Pushes, Phase
<1>3. stack # <<"file">> /\ stack' # <<"file">>
  <2>1. stack # <<"file">>
    BY <1>1, OthersCarry
  <2>2. QED
    BY <1>2, <2>1 DEF Top, Last
<1>4. CleanStackInv'
  <2>1. \A i \in 1 .. Len(stack') :
          stack'[i] \notin {"invalid_subs", "error", "error_subs", "line_error"}
    <3>1. \A i \in 1 .. Len(stack') : i \in 1 .. Len(stack) \/ i = Len(stack) + 1
      BY <1>2, TopFacts
    <3>2. QED
      BY <1>2, <3>1 DEF CleanStackInv
  <2>2. QED
    BY <1>1, <1>2, <1>3, <2>1 DEF CleanStackInv
<1>5. Open(stack) = current_level /\ count_level = Open(stack)
  <2>1. 1 \in 1 .. Len(pending) /\ pending[1] = "OPEN"
    BY <1>1, TokenTaken
  <2>2. Open(stack) - (1 - 1) = current_level
    BY <1>3, <2>1 DEF CleanLevelInv
  <2>3. Top \notin Phase
    BY <1>1 DEF Pushes, Section, Phase
  <2>4. count_level = Open(stack) - 0
    BY <1>3, <2>3 DEF CleanLevelInv
  <2>5. QED
    BY <2>2, <2>4, OpenType
<1>6. \A p \in 1 .. Len(pending') : pending'[p] # "OPEN"
  BY <1>1, NoOtherBracket
<1>7. "open" \in Phase
  BY DEF Phase
<1>8. QED
  BY <1>1, <1>2, <1>3, <1>4, <1>5, <1>6, <1>7, OpenType DEF CleanLevelInv

\* Inside the line.
LEMMA CleanWhenReplaced ==
  ASSUME NEW x \in Phase, x # "line_error", Replaces(x),
         InputInv, Shape(stack), CleanStackInv, CleanLevelInv,
         pending # <<>>, Token \in Tag \cup {"DELIM", "CHAR"},
         pending' = Tail(pending), current_level' = current_level,
         level' = level, count_level' = count_level,
         tag' \notin {"invalid", "any"}
  PROVE  CleanStackInv' /\ CleanLevelInv'
<1>1. /\ stack' # <<>> /\ stack # <<>> /\ Len(stack') = Len(stack) /\ Top' = x
      /\ Started(stack') = Started(stack) + 0
      /\ Open(stack') = Open(stack)
      /\ \A i \in 1 .. Len(stack) - 1 : stack'[i] = stack[i]
      /\ stack'[Len(stack')] = x
  BY ReplacesEffect DEF Replacing, Phase, Counted
<1>2. stack # <<"file">> /\ stack' # <<"file">>
  <2>1. stack # <<"file">>
    BY OthersCarry DEF Replacing
  <2>2. x # "file"
    BY DEF Phase
  <2>3. QED
    BY <1>1, <2>1, <2>2 DEF Top, Last
<1>3. Started(stack) \in Nat
  BY StartedNat
<1>4. \A i \in 1 .. Len(stack') :
        stack'[i] \notin {"invalid_subs", "error", "error_subs", "line_error"}
  <2>1. \A i \in 1 .. Len(stack') : i \in 1 .. Len(stack) - 1 \/ i = Len(stack')
    BY <1>1, TopFacts
  <2>2. \A i \in 1 .. Len(stack) - 1 : i \in 1 .. Len(stack)
    BY TopFacts
  <2>3. QED
    BY <1>1, <2>1, <2>2 DEF CleanStackInv, Phase
<1>5. CleanStackInv'
  BY <1>1, <1>2, <1>3, <1>4 DEF CleanStackInv
<1>6. Token \notin {"OPEN", "BAD", "EOF", "CLOSE"}
  BY DEF Tag
<1>7. \A p \in 1 .. Len(pending') : pending'[p] # "OPEN"
  BY <1>6, NoOtherBracket
<1>8. Has({"OPEN", "BAD", "EOF"})' <=> Has({"OPEN", "BAD", "EOF"})
  BY <1>6, StillExpected
<1>9. Top \in Phase
  BY DEF Replaces
<1>10. /\ count_level = Open(stack) - 1 /\ level = Open(stack) - 1
       /\ ~Has({"OPEN", "BAD", "EOF"}) => Open(stack) = current_level + 1
  BY <1>2, <1>9 DEF CleanLevelInv
<1>11. QED
  BY <1>1, <1>2, <1>5, <1>7, <1>8, <1>10 DEF CleanLevelInv

LEMMA CleanWhenStarted ==
  ASSUME StartSection, Replaces("subs") \/ Replaces("user_subs"),
         Shape(stack), CleanStackInv, CleanLevelInv
  PROVE  CleanStackInv' /\ CleanLevelInv'
<1>1. /\ pending' = pending /\ current_level' = current_level
      /\ count_level' = count_level + 1 /\ tag' = "none"
  BY DEF StartSection, Keep, lexVars
<1>2. PICK x \in Counted : Replaces(x)
  BY DEF Counted
<1>3. /\ stack' # <<>> /\ stack # <<>> /\ Len(stack') = Len(stack) /\ Top' = x
      /\ Started(stack') = Started(stack) + 1
      /\ Open(stack') = Open(stack)
      /\ \A i \in 1 .. Len(stack) - 1 : stack'[i] = stack[i]
      /\ stack'[Len(stack')] = x
  BY <1>2, ReplacesEffect DEF Replacing, Counted
<1>4. stack # <<"file">> /\ stack' # <<"file">>
  <2>1. stack # <<"file">>
    BY <1>2, OthersCarry DEF Replacing, Counted
  <2>2. x # "file"
    BY <1>2 DEF Counted
  <2>3. QED
    BY <1>3, <2>1, <2>2 DEF Top, Last
<1>5. \A i \in 1 .. Len(stack') :
        stack'[i] \notin {"invalid_subs", "error", "error_subs", "line_error"}
  <2>1. \A i \in 1 .. Len(stack') : i \in 1 .. Len(stack) - 1 \/ i = Len(stack')
    BY <1>3, TopFacts
  <2>2. \A i \in 1 .. Len(stack) - 1 : i \in 1 .. Len(stack)
    BY TopFacts
  <2>3. QED
    BY <1>3, <2>1, <2>2 DEF CleanStackInv, Counted
<1>6. CleanStackInv'
  BY <1>1, <1>3, <1>4, <1>5 DEF CleanStackInv
<1>7. Top \in Phase /\ Top' \notin Phase
  BY <1>2, <1>3 DEF Replaces, Counted, Phase
<1>8. /\ count_level = Open(stack) - 1
      /\ \A p \in 1 .. Len(pending) :
           pending[p] = "OPEN" => Open(stack) - (p - 1) = current_level
      /\ ~Has({"OPEN", "BAD", "EOF"}) => Open(stack) = current_level + 1
  BY <1>4, <1>7 DEF CleanLevelInv
<1>9. Has({"OPEN", "BAD", "EOF"})' <=> Has({"OPEN", "BAD", "EOF"})
  BY <1>1 DEF Has
<1>10. count_level' = Open(stack') - 0
  BY <1>1, <1>3, <1>8, OpenType
<1>11. QED
  BY <1>1, <1>3, <1>4, <1>6, <1>7, <1>8, <1>9, <1>10 DEF CleanLevelInv

LEMMA CleanWhenClosed ==
  ASSUME CloseSection, Closed, InputInv, Shape(stack), CleanStackInv, CleanLevelInv
  PROVE  CleanStackInv' /\ CleanLevelInv'
<1>1. /\ pending # <<>> /\ Token = "CLOSE"
      /\ pending' = Tail(pending) /\ current_level' = current_level
      /\ count_level' = count_level - 1 /\ tag' = tag
  BY DEF CloseSection, NextIs, Shift, Pop, lineVars
<1>2. /\ Shape(stack') /\ stack' # <<>> /\ Top' \in Section
      /\ Started(stack') = Started(stack) - 1
      /\ Open(stack') = Open(stack) - 1 /\ stack' # <<"file">>
      /\ \A i \in 1 .. Len(stack') : stack'[i] \in {"records", stack[i]}
  BY ClosedEffect
<1>3. stack # <<"file">>
  BY OthersCarry
<1>4. \A i \in 1 .. Len(stack') :
        stack'[i] \notin {"invalid_subs", "error", "error_subs", "line_error"}
  <2>1. Len(stack') <= Len(stack)
    <3>1. CASE Len(stack) = 1
      <4>1. stack' = <<"records">>
        BY <3>1, ClosedFacts DEF Closed
      <4>2. QED
        BY <3>1, <4>1
    <3>2. CASE Len(stack) # 1
      <4>1. stack' = Front(stack) /\ stack # <<>>
        BY <3>2, ClosedFacts, TopFacts DEF Closed, Counted
      <4>2. QED
        BY <4>1, PoppedFacts, TopFacts
    <3>3. QED
      BY <3>1, <3>2
  <2>2. \A i \in 1 .. Len(stack') : i \in 1 .. Len(stack)
    BY <2>1, TopFacts, <1>2 DEF Shape
  <2>3. QED
    BY <1>2, <2>2 DEF CleanStackInv
<1>5. CleanStackInv'
  BY <1>1, <1>2, <1>4 DEF CleanStackInv
<1>6. Top \notin Phase /\ Top' \notin Phase
  BY <1>2 DEF Closed, Counted, Phase, Section
<1>7. /\ count_level = Open(stack) - 0
      /\ \A p \in 1 .. Len(pending) :
           pending[p] = "OPEN" => Open(stack) - (p - 1) = current_level
  BY <1>3, <1>6 DEF CleanLevelInv
<1>8. ASSUME NEW p \in 1 .. Len(pending'), pending'[p] = "OPEN"
      PROVE  Open(stack') - (p - 1) = current_level
  <2>1. p + 1 \in 1 .. Len(pending) /\ pending[p + 1] = "OPEN"
    BY <1>1, <1>8, TokenTaken
  <2>2. Open(stack) - ((p + 1) - 1) = current_level
    BY <1>7, <2>1
  <2>3. QED
    BY <1>2, <2>2, OpenType
<1>9. Has({"OPEN", "BAD", "EOF"})'
  <2>1. 1 \in 1 .. Len(pending) /\ pending[1] = "CLOSE"
    BY <1>1, TokenTaken
  <2>2. PICK q \in 2 .. Len(pending) : pending[q] \in {"OPEN", "EOF"}
    BY <2>1 DEF InputInv
  <2>3. q - 1 \in 1 .. Len(pending') /\ pending'[q - 1] = pending[q]
    BY <1>1, <2>2, TokenTaken
  <2>4. QED
    BY <2>2, <2>3 DEF Has
<1>10. count_level' = Open(stack') - 0
  BY <1>1, <1>2, <1>7, OpenType
<1>11. QED
  BY <1>1, <1>5, <1>6, <1>8, <1>9, <1>10 DEF CleanLevelInv

LEMMA CleanAtTheTrailer ==
  ASSUME CloseTrailer, stack' = <<"file">>, Shape(stack), TagInv,
         CleanStackInv, CleanLevelInv, fail # 1
  PROVE  CleanStackInv' /\ CleanLevelInv'
<1>1. Top = "tag" /\ tag = "TRLR" /\ tag' = "none" /\ count_level' = count_level
  BY DEF CloseTrailer
<1>2. stack # <<"file">> /\ Len(stack) = 2 /\ stack[1] = "records" /\ Top \in Phase
  BY <1>1, TrailerFacts DEF Phase
<1>3. Open(stack) = 1
  BY <1>2 DEF Open
<1>4. count_level = 0
  BY <1>2, <1>3 DEF CleanLevelInv
<1>5. Started(stack') = 0
  BY EndedStarted
<1>6. \A i \in 1 .. Len(stack') : stack'[i] = "file"
  OBVIOUS
<1>7. QED
  BY <1>1, <1>4, <1>5, <1>6 DEF CleanStackInv, CleanLevelInv

LEMMA CleanAtTheStart ==
  ASSUME ParseFile, SessionInv, past' = {}
  PROVE  CleanStackInv' /\ CleanLevelInv'
<1>1. /\ stack' = <<>> /\ tag' = "none" /\ pending' = <<>> /\ current_level' = -1
      /\ count_level' = 0
  BY DEF ParseFile, SessionInv, lineVars, lexVars
<1>2. Started(stack') = 0
  BY <1>1, EndedStarted
<1>3. CleanStackInv'
  BY <1>1, <1>2 DEF CleanStackInv
<1>4. Top' = "empty" /\ Open(stack') = 0 /\ ~Has({"OPEN"})'
  BY <1>1 DEF Top, Open, Has
<1>5. "empty" \notin Phase
  BY DEF Phase
<1>6. \A p \in 1 .. Len(pending') : FALSE
  BY <1>1
<1>7. QED
  BY <1>1, <1>3, <1>4, <1>5, <1>6 DEF CleanLevelInv

LEMMA CleanKept ==
  ASSUME CleanInv, FailInv, FlagsInv, NumbersInv, SessionInv, InputInv, TagInv,
         Shape(stack), [Next]_parserVars
  PROVE  CleanInv'
<1>1. CASE UNCHANGED parserVars
  <2>1. Top' = Top /\ Has({"OPEN", "BAD", "EOF"})' = Has({"OPEN", "BAD", "EOF"})
    BY <1>1 DEF parserVars, Top, Has
  <2>2. QED
    BY <1>1, <2>1 DEF parserVars, CleanInv, Clean
<1>2. ASSUME Next, Clean' PROVE CleanStackInv' /\ CleanLevelInv'
  <2>1. recovering \in 0 .. 3 /\ current_level \in -1 .. MaxLevel
    BY DEF NumbersInv
  <2>2. CASE ParseFile
    BY <1>2, <2>2, CleanAtTheStart DEF Clean
  <2>3. CASE Clean
    <3>1. CleanStackInv /\ CleanLevelInv
      BY <2>3, CleanHalves
    <3>2. /\ Below \notin {"invalid_subs", "error", "error_subs", "line_error"}
          /\ tag \notin {"invalid", "any"}
      BY <2>3, CleanStack
    <3>3. error_mechanism \in Modes
      BY DEF FlagsInv
    <3>4. ASSUME NEW l \in 0 .. MaxLevel, NEW t \in Tag \cup {"none"}, NEW v \in Value,
                 ReadLine(l, t, v)
          PROVE  CleanStackInv' /\ CleanLevelInv'
      BY <2>1, <3>1, <3>4, CleanWhenRead
    <3>5. CASE ReadEnd
      BY <3>1, <3>5, CleanAtTheEnd
    <3>6. CASE OpenLine
      BY <2>1, <3>1, <3>6, CleanWhenOpened
    <3>7. CASE Delimiter
      <4>1. /\ Replaces("delim") \/ Replaces("value")
            /\ pending # <<>> /\ Token = "DELIM" /\ pending' = Tail(pending)
            /\ current_level' = current_level /\ level' = level /\ tag' = tag
            /\ count_level' = count_level
        BY <3>3, <3>7, Moves DEF Delimiter, NextIs, Shift, lineVars
      <4>2. "delim" \in Phase /\ "value" \in Phase
        BY DEF Phase
      <4>3. QED
        BY <3>1, <3>2, <4>1, <4>2, CleanWhenReplaced
    <3>8. CASE ReadTag
      <4>1. /\ Replaces("tag") /\ Token \in Tag
            /\ pending # <<>> /\ pending' = Tail(pending)
            /\ current_level' = current_level /\ level' = level /\ tag' = Kind(Token)
            /\ count_level' = count_level /\ Kind(Token) # "invalid"
        BY <3>3, <3>8, Moves DEF ReadTag, NextIs, Shift
      <4>2. Kind(Token) # "any"
        BY <3>2, <4>1 DEF Kind, Tag
      <4>3. "tag" \in Phase
        BY DEF Phase
      <4>4. QED
        BY <3>1, <4>1, <4>2, <4>3, CleanWhenReplaced
    <3>9. CASE Characters
      <4>1. /\ Replaces("line") /\ Token \in {"CHAR", "DELIM"}
            /\ pending # <<>> /\ pending' = Tail(pending)
            /\ current_level' = current_level /\ level' = level /\ tag' = tag
            /\ count_level' = count_level
        BY <3>3, <3>9, Moves DEF Characters, NextIs, Shift, lineVars
      <4>2. "line" \in Phase
        BY DEF Phase
      <4>3. QED
        BY <3>1, <3>2, <4>1, <4>2, CleanWhenReplaced
    <3>10. CASE StartSection
      BY <3>1, <3>3, <3>10, Moves, CleanWhenStarted
    <3>11. CASE CloseSection
      BY <3>1, <3>3, <3>11, Moves, CleanWhenClosed
    <3>12. CASE CloseTrailer /\ stack' = <<"file">>
      <4>1. fail # 1
        BY <2>3 DEF FailInv, Clean
      <4>2. QED
        BY <3>1, <3>12, <4>1, CleanAtTheTrailer
    <3>13. QED
      BY <1>2, <2>1, <2>2, <3>4, <3>5, <3>6, <3>7, <3>8, <3>9, <3>10, <3>11, <3>12,
         CleanSteps
  <2>4. QED
    BY <1>2, <2>1, <2>2, <2>3, CleanSteps
<1>3. CASE Next
  <2>1. Clean' => CleanStackInv' /\ CleanLevelInv'
    BY <1>2, <1>3
  <2>2. QED
    BY <2>1 DEF CleanInv, CleanStackInv, CleanLevelInv
<1>4. QED
  BY <1>1, <1>3

-----------------------------------------------------------------------------
(* The theorems.                                                           *)

Inv ==
  /\ FlagsInv /\ NumbersInv
  /\ Shape(stack) /\ TagInv /\ InputInv /\ CountInv
  /\ SessionInv /\ FailInv /\ InsideInv /\ BrokenInv /\ CleanInv

LEMMA InitInv == Init => Inv
<1> SUFFICES ASSUME Init
             PROVE  Inv
  OBVIOUS
<1>1. /\ FlagsInv /\ NumbersInv
      /\ SessionInv /\ FailInv /\ InsideInv /\ BrokenInv /\ CleanInv
  <2>1. FlagsInv
    BY DEF Init, FlagsInv
  <2>2. NumbersInv
    BY DEF Init, NumbersInv
  <2>3. SessionInv
    BY DEF Init, SessionInv
  <2>4. FailInv
    BY DEF Init, FailInv
  <2>5. InsideInv /\ BrokenInv /\ CleanInv
    BY DEF Init, InsideInv, BrokenInv, CleanInv, Clean
  <2>6. QED
    BY <2>1, <2>2, <2>3, <2>4, <2>5
<1>2. Shape(stack) /\ Top = "empty"
  BY ShapeEnds DEF Init, Top
<1>3. TagInv
  BY <1>2 DEF TagInv, Tagged
<1>4. InputInv
  BY DEF Init, InputInv
<1>5. CountInv
  BY StartedEmpty DEF Init, CountInv
<1>6. QED
  BY <1>1, <1>2, <1>3, <1>4, <1>5 DEF Inv

LEMMA InvKept ==
  ASSUME Inv, [Next]_parserVars
  PROVE  Inv'
<1>1. /\ FlagsInv /\ NumbersInv
      /\ Shape(stack) /\ TagInv /\ InputInv /\ CountInv
      /\ SessionInv /\ FailInv /\ InsideInv /\ BrokenInv /\ CleanInv
  BY DEF Inv
<1>2. /\ error_mechanism \in Modes /\ recovering \in 0 .. 3
      /\ current_level \in -1 .. MaxLevel
  BY <1>1 DEF FlagsInv, NumbersInv
<1>3. FlagsInv' /\ NumbersInv'
  BY <1>1, <1>2, FlagsKept, NumbersKept
<1>4. Shape(stack)'
  BY <1>1, <1>2, ShapeKept
<1>5. TagInv' /\ InputInv'
  BY <1>1, <1>2, TagKept, InputKept
<1>6. CountInv'
  BY <1>1, <1>2, <1>4, CountKept
<1>7. SessionInv' /\ FailInv'
  BY <1>1, <1>2, SessionKept, FailKept
<1>8. InsideInv' /\ BrokenInv'
  BY <1>1, InsideKept, BrokenKept
<1>9. CleanInv'
  BY <1>1, CleanKept
<1>10. QED
  BY <1>3, <1>4, <1>5, <1>6, <1>7, <1>8, <1>9 DEF Inv

LEMMA InvAlways == Spec => []Inv
<1>1. Inv /\ [Next]_parserVars => Inv'
  BY InvKept
<1>2. QED
  BY <1>1, InitInv, PTL DEF Spec

LEMMA InvTypes == Inv => TypeOK
<1> SUFFICES ASSUME Inv
             PROVE  TypeOK
  OBVIOUS
<1>1. FlagsInv /\ NumbersInv /\ CountInv /\ Shape(stack)
  BY DEF Inv
<1>2. error_mechanism \in {"IMMED_FAIL", "DEFER_FAIL", "IGNORE_ERRORS"}
  BY <1>1 DEF FlagsInv
<1>3. \A i \in DOMAIN stack :
        stack[i] \in IF i < Len(stack) THEN Section ELSE Section \cup Phase \cup {"file"}
  <2>1. DOMAIN stack = 1 .. Len(stack) /\ \A i \in 1 .. Len(stack) : stack[i] \in Sym
    BY <1>1, TopFacts
  <2>2. QED
    BY <1>1, <2>1 DEF Shape, Sym
<1>4. QED
  BY <1>1, <1>2, <1>3 DEF FlagsInv, NumbersInv, CountInv, TypeOK

LEMMA InvCounts == Inv => CountsMatchSections
  BY DEF Inv, CountInv, CleanInv, Clean, CountsMatchSections

\* The stack of the automaton holds sections and at most one line, on top of
\* them, and the static variables have their types, whatever the files hold
\* (gedcom.y).
THEOREM TypeCorrect == Spec => []TypeOK
  BY InvTypes, InvAlways, PTL

\* The count arrays are those of the sections on the stack, until the first
\* error that is passed over or the first file that is cut off; while the
\* parser recovers there are never fewer (START, POP and clean_up, gedcom.y).
THEOREM CountsMatchSectionsAlways == Spec => []CountsMatchSections
  BY InvCounts, InvAlways, PTL

-----------------------------------------------------------------------------
(* What errors do.                                                         *)

\* How a parse ends.
EndsNow ==
  \/ result' = 1 /\ complained' /\ error_mechanism = "IMMED_FAIL"
  \/ CloseTrailer /\ fail = 1
  \/ Accept \/ GiveUp
  \/ StartSection /\ exited'

LEMMA HowParsesEnd ==
  ASSUME Next, FlagsInv, SessionInv, parsing, ~parsing'
  PROVE  EndsNow
<1>1. parsing = TRUE /\ parsing' # TRUE /\ exited = FALSE
  BY DEF FlagsInv, SessionInv
<1>2. ASSUME NEW l \in 0 .. MaxLevel, NEW t \in Tag \cup {"none"}, NEW v \in Value,
             ReadLine(l, t, v)
      PROVE  EndsNow
  BY <1>1, <1>2 DEF ReadLine
<1>3. CASE ReadEnd
  BY <1>1, <1>3 DEF ReadEnd
<1>4. CASE OpenLine
  BY <1>1, <1>4 DEF OpenLine, Quietly
<1>5. CASE Delimiter
  BY <1>1, <1>5 DEF Delimiter, Quietly
<1>6. CASE ReadTag
  BY <1>1, <1>6 DEF ReadTag, Quietly
<1>7. CASE InvalidTag
  BY <1>1, <1>7, HandleErrorEffect DEF InvalidTag, FlagsInv, HandledAtOnce, PassedOn, EndsNow, Immediate
<1>8. CASE UndefinedTag
  BY <1>1, <1>8, RaiseEffect DEF UndefinedTag
<1>9. CASE Characters
  BY <1>1, <1>9 DEF Characters, Quietly
<1>10. CASE CharactersAfterError
  BY <1>1, <1>10, HandleErrorEffect DEF CharactersAfterError, FlagsInv, HandledAtOnce, PassedOn, EndsNow, Immediate
<1>11. CASE StartUncounted
  BY <1>1, <1>11 DEF StartUncounted, Quietly
<1>12. CASE MissingValue
  BY <1>1, <1>12, RaiseEffect DEF MissingValue
<1>13. CASE CloseInvalid
  BY <1>1, <1>13, RaiseEffect DEF CloseInvalid, Quietly
<1>14. CASE CloseError
  BY <1>1, <1>14, HandleErrorEffect DEF CloseError, FlagsInv, HandledAtOnce, PassedOn, EndsNow, Immediate
<1>15. CASE CloseErrorSection
  BY <1>1, <1>15 DEF CloseErrorSection, Quietly
<1>16. CASE CloseTrailer
  BY <1>1, <1>16 DEF CloseTrailer, Quietly, EndsNow
<1>17. CASE Accept
  BY <1>17 DEF EndsNow
<1>18. CASE SyntaxError
  BY <1>1, <1>18 DEF SyntaxError
<1>19. CASE Discard
  BY <1>1, <1>19 DEF Discard, Quietly
<1>20. CASE GiveUp
  BY <1>20 DEF EndsNow
<1>21. CASE StartSection
  BY <1>1, <1>21 DEF StartSection, EndsNow
<1>22. CASE CloseSection
  BY <1>1, <1>22 DEF CloseSection, Quietly
<1>23. CASE CloseSectionWithError
  BY <1>1, <1>23, HandleErrorEffect DEF CloseSectionWithError, FlagsInv, HandledAtOnce, PassedOn, EndsNow, Immediate
<1>24. ASSUME NEW mechanism \in Modes, SetErrorHandling(mechanism)
      PROVE  EndsNow
  BY <1>1, <1>24 DEF SetErrorHandling
<1>25. CASE ParseFile
  BY <1>1, <1>25 DEF ParseFile
<1>26. CASE Restart
  BY <1>1, <1>26 DEF Restart
<1>27. QED
  BY <1>1, <1>2, <1>3, <1>4, <1>5, <1>6, <1>7, <1>8, <1>9, <1>10, <1>11, <1>12, <1>13,
      <1>14, <1>15, <1>16, <1>17, <1>18, <1>19, <1>20, <1>21, <1>22, <1>23, <1>24, <1>25,
      <1>26 DEF Next, Step, QuietStep

\* What a parse may fail for.
FailsFor ==
  \/ complained' /\ error_mechanism # "IGNORE_ERRORS"
  \/ complained' /\ CannotRecover
  \/ "deferred" \in past

LEMMA ResultStep ==
  ASSUME Inv, Next
  PROVE  parsing /\ ~parsing' /\ ~exited' =>
           /\ inside' /\ error_mechanism # "IGNORE_ERRORS" => result' = 1
           /\ result' = 1 => FailsFor
<1> SUFFICES ASSUME parsing, ~parsing', ~exited'
             PROVE  /\ inside' /\ error_mechanism # "IGNORE_ERRORS" => result' = 1
                    /\ result' = 1 => FailsFor
  OBVIOUS
<1>1. CASE result' = 1 /\ complained' /\ error_mechanism = "IMMED_FAIL"
  BY <1>1 DEF FailsFor
<1>2. CASE CloseTrailer /\ fail = 1
  <2>1. result' = 1 /\ past' = past
    BY <1>2, EndEffect DEF CloseTrailer, pastVars
  <2>2. QED
    BY <2>1, <1>2 DEF Inv, FailInv, FailsFor
<1>3. CASE Accept
  <2>1. result' = 0 /\ inside' = inside /\ Top = "file"
    BY <1>3, EndEffect DEF Accept, pastVars
  <2>2. stack = <<"file">>
    BY <2>1, FileOnTop DEF Inv
  <2>3. stack[1] \notin Recoverable
    BY <2>2 DEF Recoverable
  <2>4. QED
    BY <2>1, <2>3 DEF Inv, InsideInv
<1>4. CASE GiveUp
  <2>1. result' = 1 /\ complained' = complained /\ recovering = 3 /\ CannotRecover
    BY <1>4, EndEffect DEF GiveUp, CannotRecover
  <2>2. QED
    BY <2>1 DEF Inv, FailInv, FailsFor
<1>5. QED
  BY <1>1, <1>2, <1>3, <1>4, HowParsesEnd DEF Inv, EndsNow

\* Behind an error no section is started or closed.
LEMMA NothingStartsInError ==
  ASSUME Shape(stack), TagInv, HasError(stack)
  PROVE  ~StartSection /\ Top \notin Counted
<1>1. PICK i \in 1 .. Len(stack) : stack[i] \in {"error", "line_error"}
  BY DEF HasError
<1>2. Len(stack) \in Nat \ {0} /\ stack # <<>> /\ Top = stack[Len(stack)]
  BY <1>1, TopFacts
<1>3. stack[i] = "line_error" => i = Len(stack)
  BY <1>1, <1>2 DEF Shape, Section
<1>4. ASSUME i < Len(stack)
      PROVE  /\ stack[Len(stack)] \in Phase \cup {"error_subs"}
             /\ Below \in Uncertain
  <2>1. stack[i] = "error" /\ stack[i] \in Uncertain
    BY <1>1, <1>3, <1>4 DEF Uncertain
  <2>2. Len(stack) \in i + 1 .. Len(stack) /\ i \in 1 .. Len(stack) - 1
    BY <1>2, <1>4
  <2>3. stack[Len(stack)] \in Phase \cup {"error_subs"}
    BY <2>1, <2>2 DEF Shape
  <2>4. stack[Len(stack) - 1] \in Uncertain
    BY <2>1, <2>2, UncertainBelow
  <2>5. Below = stack[Len(stack) - 1]
    BY <1>2, <2>2 DEF Below
  <2>6. QED
    BY <2>3, <2>4, <2>5
<1>5. Top \notin Counted
  BY <1>1, <1>2, <1>4 DEF Counted, Phase
<1>6. ASSUME StartSection PROVE FALSE
  <2>1. Top \in {"line", "tag"} /\ tag \in {"HEAD", "std", "user", "mandatory"}
    BY <1>6 DEF StartSection, LineComplete
  <2>2. i < Len(stack)
    BY <1>1, <1>2, <2>1
  <2>3. tag = "any"
    BY <1>4, <2>1, <2>2 DEF TagInv, Tagged
  <2>4. QED
    BY <2>1, <2>3
<1>7. QED
  BY <1>5, <1>6

LEMMA FileIsNoSection ==
  ASSUME Shape(stack), stack = <<"file">>
  PROVE  ~StartSection /\ Top \notin Counted /\ ErrorShifted = <<"file">>
<1>1. Top = "file"
  BY DEF Top, Last
<1>2. ~StartSection
  BY <1>1 DEF StartSection, LineComplete
<1>3. Top \notin Counted
  BY <1>1 DEF Counted
<1>4. \A i \in 1 .. Len(stack) : stack[i] \notin Recoverable
  <2>1. Len(stack) = 1 /\ stack[1] = "file"
    OBVIOUS
  <2>2. QED
    BY <2>1 DEF Recoverable
<1>5. ErrorShifted = <<"file">>
  BY <1>1, <1>4, ErrorCases
<1>6. QED
  BY <1>2, <1>3, <1>5

\* The steps that count.
CountsNow ==
  \/ count_level' = count_level
  \/ StartSection
  \/ Top \in Counted /\ CloseSection
  \/ Shifts /\ count_level' = AfterError
  \/ parsing' = FALSE
  \/ error_mechanism # "IMMED_FAIL"

LEMMA HowCountsChange ==
  ASSUME Next, FlagsInv, Shape(stack), TagInv
  PROVE  CountsNow
<1>1. error_mechanism \in Modes
  BY DEF FlagsInv
<1>2. ASSUME NEW l \in 0 .. MaxLevel, NEW t \in Tag \cup {"none"}, NEW v \in Value,
             ReadLine(l, t, v)
      PROVE  CountsNow
  BY <1>2 DEF ReadLine, CountsNow
<1>3. CASE ReadEnd
  BY <1>3 DEF ReadEnd, CountsNow
<1>4. CASE OpenLine
  BY <1>4 DEF OpenLine, CountsNow
<1>5. CASE Delimiter
  BY <1>5 DEF Delimiter, CountsNow
<1>6. CASE ReadTag
  BY <1>6 DEF ReadTag, CountsNow
<1>7. CASE InvalidTag
  BY <1>1, <1>7, HandleErrorEffect DEF InvalidTag, HandledAtOnce, Ended, PassedOn, CountsNow
<1>8. CASE UndefinedTag
  BY <1>8, RaiseEffect DEF UndefinedTag, CountsNow
<1>9. CASE Characters
  BY <1>9 DEF Characters, CountsNow
<1>10. CASE CharactersAfterError
  BY <1>1, <1>10, HandleErrorEffect DEF CharactersAfterError, HandledAtOnce, Ended, PassedOn, CountsNow
<1>11. CASE StartUncounted
  BY <1>11 DEF StartUncounted, CountsNow
<1>12. CASE MissingValue
  BY <1>12, RaiseEffect DEF MissingValue, CountsNow
<1>13. CASE CloseInvalid
  BY <1>13, RaiseEffect DEF CloseInvalid, CountsNow
<1>14. CASE CloseError
  BY <1>1, <1>14, HandleErrorEffect DEF CloseError, HandledAtOnce, Ended, PassedOn, CountsNow
<1>15. CASE CloseErrorSection
  BY <1>15 DEF CloseErrorSection, CountsNow
<1>16. CASE CloseTrailer
  BY <1>16 DEF CloseTrailer, CountsNow
<1>17. CASE Accept
  BY <1>17 DEF Accept, CountsNow
<1>18. CASE SyntaxError
  BY <1>18, <1>1, Moves DEF SyntaxError, CountsNow
<1>19. CASE Discard
  BY <1>19, <1>1, Moves DEF Discard, CountsNow
<1>20. CASE GiveUp
  BY <1>20 DEF GiveUp, CannotRecover, CountsNow
<1>21. CASE StartSection
  BY <1>21 DEF CountsNow
<1>22. CASE CloseSection
  BY <1>22 DEF CloseSection, CountsNow
<1>23. CASE CloseSectionWithError
  BY <1>1, <1>23, HandleErrorEffect DEF CloseSectionWithError, HandledAtOnce, Ended, PassedOn, CountsNow
<1>24. ASSUME NEW mechanism \in Modes, SetErrorHandling(mechanism)
      PROVE  CountsNow
  BY <1>24 DEF SetErrorHandling, CountsNow
<1>25. CASE ParseFile
  BY <1>25 DEF ParseFile, CountsNow
<1>26. CASE Restart
  BY <1>26 DEF Restart, CountsNow
<1>27. QED
  BY <1>1, <1>2, <1>3, <1>4, <1>5, <1>6, <1>7, <1>8, <1>9, <1>10, <1>11, <1>12, <1>13,
      <1>14, <1>15, <1>16, <1>17, <1>18, <1>19, <1>20, <1>21, <1>22, <1>23, <1>24, <1>25,
      <1>26 DEF Next, Step, QuietStep

LEMMA ImmediateStep ==
  ASSUME Inv, Next
  PROVE  parsing /\ complained /\ error_mechanism = "IMMED_FAIL" /\ past = {}
           => count_level' = count_level \/ ~parsing'
<1> SUFFICES ASSUME parsing, complained, error_mechanism = "IMMED_FAIL", past = {}
             PROVE  count_level' = count_level \/ ~parsing'
  OBVIOUS
<1>1. Shape(stack) /\ TagInv /\ FlagsInv /\ CountInv
  BY DEF Inv
<1>2. CountsNow
  BY <1>1, HowCountsChange
<1>3. CASE HasError(stack)
  <2>1. ~StartSection /\ Top \notin Counted
    BY <1>1, <1>3, NothingStartsInError
  <2>2. ASSUME Shifts, count_level' = AfterError PROVE count_level' = count_level
    <3>1. ErrorShifted # <<"file">> /\ Top # "user_subs"
      BY <1>1, <1>3, <2>2, ErrorsStay DEF Shifts
    <3>2. QED
      BY <2>2, <3>1 DEF AfterError
  <2>3. QED
    BY <1>2, <2>1, <2>2 DEF CountsNow
<1>4. CASE stack = <<"file">> /\ count_level = 0
  <2>1. ~StartSection /\ Top \notin Counted /\ ErrorShifted = <<"file">>
    BY <1>1, <1>4, FileIsNoSection
  <2>2. AfterError = 0
    BY <2>1 DEF AfterError, CleanUp
  <2>3. QED
    BY <1>2, <1>4, <2>1, <2>2 DEF CountsNow
<1>5. QED
  BY <1>3, <1>4 DEF Inv, BrokenInv

\* exit(1): only when a section is started, and then the counts were out of
\* step with the levels.
LEMMA ExitStep ==
  ASSUME Inv, Next, MaxLevel < MaxGedcLevel
  PROVE  exited' => past' # {}
<1> SUFFICES ASSUME exited', past' = {}
             PROVE  FALSE
  OBVIOUS
<1>1. /\ Shape(stack) /\ TagInv /\ FlagsInv /\ NumbersInv /\ CountInv
      /\ SessionInv /\ BrokenInv /\ CleanInv
  BY DEF Inv
<1>2. StartSection
  <2>1. ~Restart /\ ~(exited /\ parsing) /\ exited \in BOOLEAN
    BY <1>1 DEF Restart, SessionInv, FlagsInv
  <2>2. ~ParseFile /\ \A mechanism \in Modes : ~SetErrorHandling(mechanism)
    BY DEF ParseFile, SetErrorHandling
  <2>3. error_mechanism \in Modes
    BY <1>1 DEF FlagsInv
  <2>4. ASSUME NEW l \in 0 .. MaxLevel, NEW t \in Tag \cup {"none"}, NEW v \in Value,
                 ReadLine(l, t, v)
          PROVE  FALSE
    BY <2>1, <2>4 DEF ReadLine
  <2>5. ~ReadEnd
    BY <2>1 DEF ReadEnd
  <2>6. ~OpenLine
    BY <2>1 DEF OpenLine, NextIs, Quietly
  <2>7. ~Delimiter
    BY <2>1 DEF Delimiter, NextIs, Quietly
  <2>8. ~ReadTag
    BY <2>1 DEF ReadTag, NextIs, Quietly
  <2>9. ~InvalidTag
    BY <2>1, <2>3, HandleErrorEffect DEF InvalidTag, NextIs
  <2>10. ~UndefinedTag
    BY <2>1, RaiseEffect DEF UndefinedTag, NextIs
  <2>11. ~Characters
    BY <2>1 DEF Characters, NextIs, Quietly
  <2>12. ~CharactersAfterError
    BY <2>1, <2>3, HandleErrorEffect DEF CharactersAfterError, NextIs
  <2>13. ~StartUncounted
    BY <2>1 DEF StartUncounted, LineComplete, NextIs, Quietly
  <2>14. ~MissingValue
    BY <2>1, RaiseEffect DEF MissingValue, LineComplete, NextIs
  <2>15. ~CloseInvalid
    BY <2>1, RaiseEffect DEF CloseInvalid, NextIs, Quietly
  <2>16. ~CloseError
    BY <2>1, <2>3, HandleErrorEffect DEF CloseError, NextIs
  <2>17. ~CloseErrorSection
    BY <2>1 DEF CloseErrorSection, NextIs, Quietly
  <2>18. ~CloseTrailer
    BY <2>1 DEF CloseTrailer, NextIs, Quietly
  <2>19. ~Accept
    BY <2>1 DEF Accept, NextIs
  <2>20. ~SyntaxError
    BY <2>1 DEF SyntaxError
  <2>21. ~Discard
    BY <2>1 DEF Discard, Quietly
  <2>22. ~GiveUp
    BY <2>1 DEF GiveUp, CannotRecover
  <2>23. ~CloseSection
    BY <2>1 DEF CloseSection, NextIs, Quietly
  <2>24. ~CloseSectionWithError
    BY <2>1, <2>3, HandleErrorEffect DEF CloseSectionWithError, NextIs
  <2>25. QED
    BY <2>1, <2>2, <2>3, <2>4, <2>5, <2>6, <2>7, <2>8, <2>9, <2>10, <2>11, <2>12, <2>13,
      <2>14, <2>15, <2>16, <2>17, <2>18, <2>19, <2>20, <2>21, <2>22, <2>23, <2>24 DEF Next,
      Step, QuietStep
<1>3. /\ parsing /\ past = {} /\ Top \in Phase /\ Top \in Tagged
      /\ count_level' = count_level + 1
      /\ exited' = (count_level' # level + 1 \/ count_level' > MaxGedcLevel)
  BY <1>2 DEF StartSection, LineComplete, NextIs, pastVars, Phase, Tagged
<1>4. ~complained
  <2>1. ~HasError(stack)
    BY <1>1, <1>2, NothingStartsInError
  <2>2. stack # <<"file">>
    BY <1>1, <1>2, FileIsNoSection
  <2>3. QED
    BY <1>1, <1>3, <2>1, <2>2 DEF BrokenInv
<1>5. stack # <<"file">>
  BY <1>1, <1>2, FileIsNoSection
<1>6. count_level = Open(stack) - 1 /\ level = Open(stack) - 1
  BY <1>1, <1>3, <1>4, <1>5 DEF CleanInv, Clean
<1>7. level \in 0 .. MaxLevel
  BY <1>1 DEF NumbersInv
<1>8. Open(stack) \in Int
  BY <1>1, OpenType
<1>9. count_level' = level + 1 /\ ~(count_level' > MaxGedcLevel)
  BY <1>3, <1>6, <1>7, <1>8
<1>10. QED
  BY <1>3, <1>9

\* What the properties about errors say of a step.
ErrorStep ==
  /\ exited' => past' # {}
  /\ parsing /\ ~parsing' /\ ~exited' =>
       /\ inside' /\ error_mechanism # "IGNORE_ERRORS" => result' = 1
       /\ result' = 1 => FailsFor
  /\ parsing /\ complained /\ error_mechanism = "IMMED_FAIL" /\ past = {}
       => count_level' = count_level \/ ~parsing'

LEMMA StepHandlesErrors ==
  ASSUME Inv, [Next]_parserVars, MaxLevel < MaxGedcLevel
  PROVE  [ErrorStep]_parserVars
  BY ExitStep, ResultStep, ImmediateStep DEF ErrorStep

LEMMA ErrorStepIs == [][ErrorStep]_parserVars => ErrorsAreHandled
<1>1. [ErrorStep]_parserVars =>
             /\ [exited' => past' # {}]_parserVars
             /\ [parsing /\ ~parsing' /\ ~exited' =>
                   /\ inside' /\ error_mechanism # "IGNORE_ERRORS" => result' = 1
                   /\ result' = 1 => FailsFor]_parserVars
             /\ [parsing /\ complained /\ error_mechanism = "IMMED_FAIL" /\ past = {}
                   => count_level' = count_level \/ ~parsing']_parserVars
  BY DEF ErrorStep
<1>2. QED
  BY <1>1, PTL DEF ErrorsAreHandled, ExitHasReason, ResultIsTrue, ImmediateFailure, FailsFor

\* What errors do (HANDLE_ERROR, gedcom.y).  An error in the file makes the
\* parse fail unless it is to be ignored; a parse fails only for an error of its
\* own that is not to be ignored, or, whatever the mechanism, because the file
\* ends during a recovery or because an earlier file deferred an error: two
\* exceptions to gedcom.h.in:267-271, "IGNORE_ERRORS: return success always".
\* Callbacks stop at an error under IMMED_FAIL, and the process ends only after
\* errors that were passed over.  The levels must stay below MAXGEDCLEVEL: the
\* lexer accepts that level too, for which push_countarray has no room.
THEOREM ErrorsAreHandledAlways ==
  ASSUME MaxLevel < MaxGedcLevel
  PROVE  Spec => ErrorsAreHandled
<1>1. Inv /\ [Next]_parserVars => [ErrorStep]_parserVars
  BY StepHandlesErrors
<1>2. QED
  BY <1>1, InvAlways, ErrorStepIs, PTL DEF Spec


-----------------------------------------------------------------------------
(* The place of a section among those that are counted.                    *)

Upto(s, i) == {k \in CountedIn(s) : k <= i}
Place(s, i) == Cardinality(Upto(s, i))

LEMMA PlaceType ==
  ASSUME NEW s \in Seq(Sym), NEW i \in Int
  PROVE  /\ IsFiniteSet(Upto(s, i))
         /\ Place(s, i) \in Nat /\ Started(s) \in Nat
         /\ Place(s, i) <= Started(s)
<1>1. IsFiniteSet(CountedIn(s)) /\ Started(s) \in Nat
  BY StartedType
<1>2. Upto(s, i) \subseteq CountedIn(s)
  BY DEF Upto
<1>3. IsFiniteSet(Upto(s, i)) /\ Cardinality(Upto(s, i)) <= Cardinality(CountedIn(s))
  BY <1>1, <1>2, FS_Subset
<1>4. QED
  BY <1>1, <1>3, StartedIs, FS_CardinalityType DEF Place

LEMMA PlaceBefore ==
  ASSUME NEW s \in Seq(Sym), NEW i \in Int, NEW j \in CountedIn(s), i < j
  PROVE  Place(s, i) + 1 <= Place(s, j)
<1>1. CountedIn(s) \subseteq Int
  BY DEF CountedIn
<1>2. IsFiniteSet(Upto(s, i)) /\ IsFiniteSet(Upto(s, j))
  BY <1>1, PlaceType
<1>3. j \notin Upto(s, i) /\ Upto(s, i) \cup {j} \subseteq Upto(s, j)
  BY <1>1 DEF Upto
<1>4. Cardinality(Upto(s, i) \cup {j}) = Place(s, i) + 1
  BY <1>2, <1>3, FS_AddElement DEF Place
<1>5. Cardinality(Upto(s, i) \cup {j}) <= Place(s, j)
  BY <1>2, <1>3, FS_Subset DEF Place
<1>6. QED
  BY <1>4, <1>5

LEMMA PlaceOfLast ==
  ASSUME NEW s \in Seq(Sym), NEW i \in Int, \A k \in CountedIn(s) : k <= i
  PROVE  Place(s, i) = Started(s)
<1>1. Upto(s, i) = CountedIn(s)
  BY DEF Upto
<1>2. QED
  BY <1>1, StartedIs DEF Place

\* Two stacks have the same sections up to m.
Agree(r, s, m) == \A i \in 1 .. m : i \in DOMAIN r /\ i \in DOMAIN s /\ r[i] = s[i]

LEMMA PlaceSame ==
  ASSUME NEW r \in Seq(Sym), NEW s \in Seq(Sym), NEW m \in Int, Agree(r, s, m),
         NEW i \in Int, i <= m
  PROVE  Place(r, i) = Place(s, i)
<1>1. CountedIn(r) \subseteq Nat \ {0} /\ CountedIn(s) \subseteq Nat \ {0}
  BY DEF CountedIn
<1>2. \A k \in 1 .. m : k \in CountedIn(r) <=> k \in CountedIn(s)
  BY DEF Agree, CountedIn
<1>3. Upto(r, i) = Upto(s, i)
  BY <1>1, <1>2 DEF Upto
<1>4. QED
  BY <1>3 DEF Place

-----------------------------------------------------------------------------
(* Steps in which no section is started.                                   *)

\* Sections that were open and counted still are, up to some place; above it
\* none is.
Cut(m) ==
  /\ Agree(stack', stack, m)
  /\ \A i \in DOMAIN stack' : i > m => stack'[i] \notin Counted

NothingStarts ==
  \/ stack' = stack \/ stack' = <<>> \/ stack' = <<"file">>
  \/ Pushes \/ Pops \/ Closed \/ Shifts
  \/ \E x \in Replacing \ Counted : Replaces(x)

LEMMA StackIsCut ==
  ASSUME Shape(stack), NothingStarts
  PROVE  \E m \in 0 .. Len(stack) : Cut(m)
<1>1. Len(stack) \in Nat /\ DOMAIN stack = 1 .. Len(stack)
  BY TopFacts
<1>2. CASE stack' = stack
  <2>1. Cut(Len(stack))
    BY <1>1, <1>2 DEF Cut, Agree
  <2>2. QED
    BY <1>1, <2>1
<1>3. CASE stack' = <<>> \/ stack' = <<"file">>
  <2>1. Cut(0)
    BY <1>3 DEF Cut, Agree, Counted
  <2>2. QED
    BY <1>1, <2>1
<1>4. CASE Pushes
  <2>1. /\ stack' \in Seq(Sym) /\ Len(stack') = Len(stack) + 1
        /\ \A i \in 1 .. Len(stack) : stack'[i] = stack[i]
        /\ stack'[Len(stack')] = "open"
    BY <1>4, PushesEffect DEF Shape
  <2>2. Cut(Len(stack))
    BY <1>1, <2>1 DEF Cut, Agree, Counted
  <2>3. QED
    BY <1>1, <2>2
<1>5. CASE Pops
  <2>1. /\ stack' \in Seq(Sym) /\ Len(stack') = Len(stack) - 1 /\ Len(stack) >= 2
        /\ \A i \in 1 .. Len(stack) - 1 : stack'[i] = stack[i]
    BY <1>5, PopsEffect DEF Shape
  <2>2. Cut(Len(stack) - 1)
    BY <1>1, <2>1 DEF Cut, Agree
  <2>3. QED
    BY <1>1, <2>1, <2>2
<1>6. CASE Closed
  <2>1. stack # <<>> /\ Len(stack) # 0
    BY <1>6, ClosedEffect, TopFacts
  <2>2. CASE Len(stack) = 1
    <3>1. stack' = <<"records">>
      BY <1>6, <2>2, ClosedFacts DEF Closed
    <3>2. Cut(0)
      BY <3>1 DEF Cut, Agree, Counted
    <3>3. QED
      BY <1>1, <3>2
  <2>3. CASE Len(stack) # 1
    <3>1. stack' = Front(stack)
      BY <1>6, <2>3, ClosedFacts DEF Closed
    <3>2. /\ stack' \in Seq(Sym) /\ Len(stack') = Len(stack) - 1
          /\ \A i \in 1 .. Len(stack) - 1 : stack'[i] = stack[i]
      BY <2>1, <3>1, PoppedFacts DEF Shape
    <3>3. Cut(Len(stack) - 1)
      BY <1>1, <3>2 DEF Cut, Agree
    <3>4. QED
      BY <1>1, <2>1, <3>3
  <2>4. QED
    BY <2>2, <2>3
<1>7. ASSUME NEW x \in Replacing \ Counted, Replaces(x)
      PROVE  \E m \in 0 .. Len(stack) : Cut(m)
  <2>1. /\ stack' \in Seq(Sym) /\ Len(stack') = Len(stack) /\ stack # <<>>
        /\ \A i \in 1 .. Len(stack) - 1 : stack'[i] = stack[i]
        /\ stack'[Len(stack')] = x
    BY <1>7, ReplacesEffect DEF Shape
  <2>2. Cut(Len(stack) - 1)
    BY <1>1, <1>7, <2>1 DEF Cut, Agree
  <2>3. QED
    BY <1>1, <2>1, <2>2, TopFacts
<1>8. CASE Shifts
  <2>1. CASE Top \in {"line", "line_error"} /\ ErrorShifted = Replaced("line_error")
    <3>1. Top \in Phase /\ "line_error" \in Phase /\ "line_error" \notin Counted
      BY <2>1 DEF Phase, Counted
    <3>2. /\ stack' \in Seq(Sym) /\ Len(stack') = Len(stack)
          /\ \A i \in 1 .. Len(stack) - 1 : stack'[i] = stack[i]
          /\ stack'[Len(stack)] = "line_error"
      BY <1>8, <2>1, <3>1, ReplacedFacts DEF Shifts, Shape
    <3>3. Len(stack) # 0
      BY <2>1, TopFacts
    <3>4. Cut(Len(stack) - 1)
      BY <1>1, <3>1, <3>2, <3>3 DEF Cut, Agree
    <3>5. QED
      BY <1>1, <3>3, <3>4
  <2>2. CASE ErrorShifted = <<"file">>
    BY <1>3, <1>8, <2>2 DEF Shifts
  <2>3. ASSUME NEW m \in 1 .. Len(stack), stack[m] \in Recoverable,
               ErrorShifted = Append(SubSeq(stack, 1, m), "error")
        PROVE  \E n \in 0 .. Len(stack) : Cut(n)
    <3>1. /\ stack' \in Seq(Sym) /\ Len(stack') = m + 1 /\ stack'[m + 1] = "error"
          /\ \A i \in 1 .. m : stack'[i] = stack[i]
      BY <1>8, <2>3, ShapeErrorOn DEF Shifts, Shape
    <3>2. Cut(m)
      BY <1>1, <3>1 DEF Cut, Agree, Counted
    <3>3. QED
      BY <1>1, <3>2
  <2>4. QED
    BY <2>1, <2>2, <2>3, ErrorCases
<1>9. QED
  BY <1>2, <1>3, <1>4, <1>5, <1>6, <1>7, <1>8 DEF NothingStarts

\* Sections that are still counted without being open.
Drift == count_level - Started(stack)

\* What such a step does to the count.
Shrinks ==
  /\ NothingStarts
  /\ count_level' <= count_level
  /\ count_level' = 0 \/ Drift' >= Drift
  /\ exited' = exited

LEMMA CountShrinks ==
  ASSUME Shape(stack), CountInv,
         \/ stack' = stack /\ count_level' = count_level
         \/ (Ended \/ stack' = <<"file">>) /\ count_level' \in {0, count_level}
         \/ /\ Pushes \/ Pops \/ Shifts \/ \E x \in Replacing \ Counted : Replaces(x)
            /\ count_level' = count_level
         \/ Closed /\ count_level' = count_level - 1
         \/ Shifts /\ count_level' = AfterError
  PROVE  /\ NothingStarts
         /\ count_level' <= count_level
         /\ count_level' = 0 \/ Drift' >= Drift
<1>1. /\ count_level \in Nat /\ Started(stack) \in Nat
      /\ Started(stack) <= count_level
  BY StartedNat DEF CountInv
<1>2. CASE stack' = stack /\ count_level' = count_level
  BY <1>1, <1>2 DEF NothingStarts, Drift
<1>3. CASE (Ended \/ stack' = <<"file">>) /\ count_level' \in {0, count_level}
  <2>1. Started(stack') = 0
    BY <1>3, EndedStarted DEF Ended
  <2>2. NothingStarts
    BY <1>3 DEF NothingStarts, Ended
  <2>3. QED
    BY <1>1, <1>3, <2>1, <2>2 DEF Drift
<1>4. CASE Pushes /\ count_level' = count_level
  BY <1>1, <1>4, PushesEffect DEF NothingStarts, Drift
<1>5. CASE Pops /\ count_level' = count_level
  BY <1>1, <1>5, PopsEffect DEF NothingStarts, Drift
<1>6. CASE Shifts /\ count_level' = count_level
  <2>1. Started(stack') <= Started(stack) /\ Shape(stack')
    BY <1>6, ErrorFacts DEF Shifts
  <2>2. Started(stack') \in Nat
    BY <2>1, StartedType DEF Shape
  <2>3. QED
    BY <1>1, <1>6, <2>1, <2>2 DEF NothingStarts, Drift
<1>7. ASSUME NEW x \in Replacing \ Counted, Replaces(x), count_level' = count_level
      PROVE  /\ NothingStarts
             /\ count_level' <= count_level
             /\ Drift' >= Drift
  <2>1. Started(stack') = Started(stack) + 0
    BY <1>7, ReplacesEffect
  <2>2. QED
    BY <1>1, <1>7, <2>1 DEF NothingStarts, Drift
<1>8. CASE Closed /\ count_level' = count_level - 1
  BY <1>1, <1>8, ClosedEffect DEF NothingStarts, Drift
<1>9. CASE Shifts /\ count_level' = AfterError
  <2>1. Started(stack') <= Started(stack) /\ Shape(stack')
    BY <1>9, ErrorFacts DEF Shifts
  <2>2. Started(stack') \in Nat
    BY <2>1, StartedType DEF Shape
  <2>3. CASE ErrorShifted = <<"file">>
    BY <1>1, <1>9, <2>3 DEF NothingStarts, AfterError, CleanUp
  <2>4. CASE ErrorShifted # <<"file">> /\ Top = "user_subs"
    <3>1. Started(stack') <= Started(stack) - 1
      BY <1>9, <2>4, ErrorFacts DEF Shifts
    <3>2. count_level' = count_level - 1
      BY <1>9, <2>4 DEF AfterError, Pop
    <3>3. QED
      BY <1>1, <1>9, <2>2, <3>1, <3>2 DEF NothingStarts, Drift
  <2>5. CASE ErrorShifted # <<"file">> /\ Top # "user_subs"
    <3>1. count_level' = count_level
      BY <1>9, <2>5 DEF AfterError
    <3>2. QED
      BY <1>1, <1>9, <2>1, <2>2, <3>1 DEF NothingStarts, Drift
  <2>6. QED
    BY <2>3, <2>4, <2>5
<1>10. QED
  BY <1>2, <1>3, <1>4, <1>5, <1>6, <1>7, <1>8, <1>9

LEMMA HandledShrinks ==
  ASSUME Inv, NEW s, NEW t, NEW c, HandleError(s, t, c),
         \/ c = count_level /\ \E x \in Replacing \ Counted : s = Replaced(x) /\ (stack' = s => Replaces(x))
         \/ c = count_level /\ s = Front(stack) /\ (stack' = s => Pops)
         \/ c = count_level - 1 /\ s = AfterClose /\ (stack' = s => Closed)
  PROVE  Shrinks
<1>1. Shape(stack) /\ CountInv /\ error_mechanism \in Modes
  BY DEF Inv, FlagsInv
<1>2. exited' = exited /\ (HandledAtOnce \/ PassedOn(s, t, c))
  BY <1>1, HandleErrorEffect
<1>3. CASE HandledAtOnce
  BY <1>1, <1>2, <1>3, CountShrinks DEF HandledAtOnce, Shrinks
<1>4. CASE PassedOn(s, t, c)
  <2>1. stack' = s /\ count_level' = c
    BY <1>4 DEF PassedOn
  <2>2. QED
    BY <1>1, <1>2, <2>1, CountShrinks DEF Shrinks
<1>5. QED
  BY <1>2, <1>3, <1>4

LEMMA StepShrinks ==
  ASSUME Inv,
         \/ QuietStep \/ CloseSection \/ CloseSectionWithError
         \/ \E mechanism \in Modes : SetErrorHandling(mechanism)
         \/ ParseFile
  PROVE  Shrinks
<1> USE DEF Replacing, Phase, Counted
<1>0. /\ Shape(stack) /\ CountInv /\ TagInv /\ error_mechanism \in Modes
      /\ SessionInv /\ FlagsInv
  BY DEF Inv, FlagsInv
<1>1. ASSUME NEW l \in 0 .. MaxLevel, NEW t \in Tag \cup {"none"}, NEW v \in Value,
             ReadLine(l, t, v)
      PROVE  Shrinks
  BY <1>0, <1>1, CountShrinks DEF ReadLine, Shrinks
<1>2. CASE ReadEnd
  BY <1>0, <1>2, CountShrinks DEF ReadEnd, Shrinks
<1>3. CASE OpenLine
  BY <1>0, <1>3, Moves, CountShrinks DEF OpenLine, Quietly, Shrinks
<1>4. CASE Delimiter
  BY <1>0, <1>4, Moves, CountShrinks DEF Delimiter, Quietly, Shrinks
<1>5. CASE ReadTag
  BY <1>0, <1>5, Moves, CountShrinks DEF ReadTag, Quietly, Shrinks
<1>6. CASE InvalidTag
  BY <1>6, HandledShrinks DEF InvalidTag, Replaces
<1>7. CASE UndefinedTag
  BY <1>0, <1>7, Moves, RaiseEffect, CountShrinks DEF UndefinedTag, Shrinks
<1>8. CASE Characters
  BY <1>0, <1>8, Moves, CountShrinks DEF Characters, Quietly, Shrinks
<1>9. CASE CharactersAfterError
  BY <1>9, HandledShrinks DEF CharactersAfterError, Replaces
<1>10. CASE StartUncounted
  BY <1>0, <1>10, Moves, CountShrinks DEF StartUncounted, Quietly, Shrinks
<1>11. CASE MissingValue
  BY <1>0, <1>11, Moves, RaiseEffect, CountShrinks DEF MissingValue, Shrinks
<1>12. CASE CloseInvalid
  <2>1. (Shifts \/ Pops) /\ count_level' = count_level /\ exited' = exited
    BY <1>0, <1>12, Moves, RaiseEffect DEF CloseInvalid, Quietly
  <2>2. QED
    BY <1>0, <2>1, CountShrinks DEF Shrinks
<1>13. CASE CloseError
  BY <1>13, HandledShrinks DEF CloseError, Pops
<1>14. CASE CloseErrorSection
  BY <1>0, <1>14, Moves, CountShrinks DEF CloseErrorSection, Quietly, Shrinks
<1>15. CASE CloseTrailer
  <2>1. count_level' = count_level /\ exited' = exited
    BY <1>15 DEF CloseTrailer, Quietly
  <2>2. Ended \/ stack' = <<"file">>
    BY <1>15, EndEffect DEF CloseTrailer
  <2>3. QED
    BY <1>0, <2>1, <2>2, CountShrinks DEF Shrinks
<1>16. CASE Accept
  BY <1>0, <1>16, EndEffect, CountShrinks DEF Accept, Shrinks
<1>17. CASE SyntaxError
  BY <1>0, <1>17, Moves, CountShrinks DEF SyntaxError, Shrinks
<1>18. CASE Discard
  BY <1>0, <1>18, Moves, CountShrinks DEF Discard, Quietly, Shrinks
<1>19. CASE GiveUp
  BY <1>0, <1>19, EndEffect, CountShrinks DEF GiveUp, CannotRecover, Shrinks
<1>20. CASE CloseSection
  BY <1>0, <1>20, Moves, CountShrinks DEF CloseSection, Pop, Quietly, Shrinks
<1>21. CASE CloseSectionWithError
  BY <1>21, HandledShrinks DEF CloseSectionWithError, Pop, Closed
<1>22. ASSUME NEW mechanism \in Modes, SetErrorHandling(mechanism)
      PROVE  Shrinks
  BY <1>0, <1>22, CountShrinks DEF SetErrorHandling, Shrinks
<1>23. CASE ParseFile
  BY <1>0, <1>23, CountShrinks DEF ParseFile, Shrinks
<1>24. QED
  BY <1>1, <1>2, <1>3, <1>4, <1>5, <1>6, <1>7, <1>8, <1>9, <1>10, <1>11, <1>12, <1>13,
      <1>14, <1>15, <1>16, <1>17, <1>18, <1>19, <1>20, <1>21, <1>22, <1>23 DEF QuietStep

-----------------------------------------------------------------------------
(* The inductive invariant.                                                *)

Indices == 0 .. MaxLevel + 2

StacksInv ==
  /\ ctxt_stack \in [Indices -> Nat \cup {Left, Freed}]
  /\ ctxt_stack[0] = Null
  /\ DOMAIN selves = DOMAIN stack

\* A section that is counted stands in one that is, or is a record.
NestInv ==
  \A i \in CountedIn(stack) : i = 1 \/ stack[i - 1] \in Counted \cup {"records"}

\* There is room for one more context.
LevelInv ==
  /\ count_level <= MaxLevel + 2
  /\ ~exited => count_level <= MaxLevel + 1

\* A context on the stack belongs to an open section with a callback, which is
\* no deeper than its context.
OwnerInv ==
  \A n \in Indices : ctxt_stack[n] > 0 =>
    /\ ctxt_stack[n] \in CountedIn(stack)
    /\ selves[ctxt_stack[n]] = ctxt_stack[n]
    /\ Place(stack, ctxt_stack[n]) <= n

\* The context of an open section is on the stack, and leaves room for those of
\* the open sections in it.
HeldInv ==
  \A i \in CountedIn(stack) : selves[i] = i =>
    \E n \in 1 .. Place(stack, i) + Drift : ctxt_stack[n] = i

\* Above the context of a section are those of the sections in it.
OrderInv ==
  \A n \in 0 .. count_level : \A k \in 0 .. n :
    ctxt_stack[k] > 0 => ctxt_stack[n] = Left \/ ctxt_stack[n] >= ctxt_stack[k]

\* What was freed, and what is given up, is there only if sections were given up
\* that are still counted; and what was freed is at the bottom.
FreedInv == \A n \in Indices : ctxt_stack[n] = Freed => n <= Drift
LeftInv == Drift = 0 => \A n \in 0 .. count_level : ctxt_stack[n] # Left

ContextInv ==
  /\ StacksInv /\ NestInv /\ LevelInv
  /\ OwnerInv /\ HeldInv /\ OrderInv /\ FreedInv /\ LeftInv

\* The numbers that the invariant speaks of.
NumbersAreRight ==
  /\ Shape(stack) /\ stack \in Seq(Sym) /\ Len(stack) \in Nat
  /\ DOMAIN stack = 1 .. Len(stack) /\ CountedIn(stack) \subseteq 1 .. Len(stack)
  /\ count_level \in Nat /\ Started(stack) \in Nat /\ Drift \in Nat
  /\ count_level = Started(stack) + Drift
  /\ MaxLevel \in Nat /\ 0 .. count_level \subseteq Indices

LEMMA Numbers == Inv /\ LevelInv => NumbersAreRight
<1> SUFFICES ASSUME Inv, LevelInv
             PROVE  NumbersAreRight
  OBVIOUS
<1>1. Shape(stack) /\ CountInv
  BY DEF Inv
<1>2. stack \in Seq(Sym) /\ Len(stack) \in Nat /\ Started(stack) \in Nat
  BY <1>1, TopFacts, StartedNat
<1>3. CountedIn(stack) \subseteq 1 .. Len(stack)
  BY <1>2 DEF CountedIn
<1>4. count_level \in Nat /\ count_level >= Started(stack)
  BY <1>1 DEF CountInv
<1>5. MaxLevel \in Nat /\ 0 .. count_level \subseteq Indices
  BY <1>4, ParserAssumption DEF LevelInv, Indices
<1>6. Drift \in Nat /\ count_level = Started(stack) + Drift
  BY <1>2, <1>4 DEF Drift
<1>7. QED
  BY <1>1, <1>2, <1>3, <1>4, <1>5, <1>6 DEF NumbersAreRight

LEMMA NumbersNext == (Inv /\ LevelInv => NumbersAreRight)'
  BY Numbers, PTL

LEMMA InitContext == CInit => ContextInv
<1> SUFFICES ASSUME CInit
             PROVE  ContextInv
  OBVIOUS
<1>1. /\ Init /\ stack = <<>> /\ count_level = 0 /\ selves = <<>>
      /\ ctxt_stack = [n \in Indices |-> Null]
  BY DEF CInit, Init, Indices
<1>2. CountedIn(stack) = {}
  BY <1>1 DEF CountedIn
<1>3. MaxLevel \in Nat /\ 0 \in Indices
  BY ParserAssumption DEF Indices
<1>4. StacksInv
  BY <1>1, <1>3 DEF StacksInv, Null
<1>5. \A n \in Indices : ctxt_stack[n] = 0
  BY <1>1 DEF Null
<1>6. NestInv /\ HeldInv
  BY <1>2 DEF NestInv, HeldInv
<1>7. LevelInv
  BY <1>1, <1>3 DEF LevelInv
<1>8. OwnerInv /\ FreedInv
  BY <1>5 DEF OwnerInv, FreedInv, Freed
<1>9. \A n \in 0 .. count_level : n = 0 /\ \A k \in 0 .. n : k = 0
  BY <1>1
<1>10. OrderInv /\ LeftInv
  BY <1>3, <1>5, <1>9 DEF OrderInv, LeftInv, Left
<1>11. QED
  BY <1>4, <1>6, <1>7, <1>8, <1>10 DEF ContextInv

-----------------------------------------------------------------------------
(* A step in which no section is started keeps the invariant.              *)

\* What becomes of a context.
LEMMA AfterFacts ==
  ASSUME NEW c
  PROVE  /\ After(c) \in {c, Left}
         /\ ~(c > 0) => After(c) = c
         /\ c > 0 /\ c \in CountedIn(stack') => After(c) = c
         /\ c > 0 /\ c \notin CountedIn(stack') => After(c) = Left
<1>1. CASE c > 0
  BY <1>1 DEF After, CountedIn
<1>2. CASE ~(c > 0)
  BY <1>2 DEF After
<1>3. QED
  BY <1>1, <1>2

LEMMA NoCallbackEffect ==
  ASSUME NoCallback, StacksInv, count_level' \in Nat
  PROVE  /\ StacksInv'
         /\ \A n \in Indices : ctxt_stack'[n] = IF n > count_level' THEN Null ELSE After(ctxt_stack[n])
         /\ \A i \in CountedIn(stack') : i \in DOMAIN stack => selves'[i] = After(selves[i])
<1>1. DOMAIN ctxt_stack = Indices /\ 0 \in Indices
  BY ParserAssumption DEF StacksInv, Indices
<1>2. ctxt_stack' = [n \in Indices |-> IF n > count_level' THEN Null ELSE After(ctxt_stack[n])]
  BY <1>1 DEF NoCallback, Stacks
<1>3. selves' = [i \in DOMAIN stack' |->
                  IF i \in DOMAIN selves /\ stack'[i] \in Counted THEN After(selves[i]) ELSE Null]
  BY DEF NoCallback, Stacks
<1>4. ASSUME NEW n \in Indices
      PROVE  ctxt_stack'[n] \in Nat \cup {Left, Freed}
  <2>1. ctxt_stack[n] \in Nat \cup {Left, Freed}
    BY DEF StacksInv
  <2>2. After(ctxt_stack[n]) \in {ctxt_stack[n], Left}
    BY AfterFacts
  <2>3. QED
    BY <1>2, <2>1, <2>2 DEF Null
<1>5. ctxt_stack' \in [Indices -> Nat \cup {Left, Freed}]
  BY <1>2, <1>4
<1>6. ctxt_stack'[0] = Null
  <2>1. ctxt_stack[0] = 0
    BY DEF StacksInv, Null
  <2>2. After(ctxt_stack[0]) = 0
    BY <2>1, AfterFacts
  <2>3. QED
    BY <1>1, <1>2, <2>2 DEF Null
<1>7. StacksInv'
  BY <1>3, <1>5, <1>6 DEF StacksInv
<1>8. \A i \in CountedIn(stack') : i \in DOMAIN stack => selves'[i] = After(selves[i])
  BY <1>3 DEF StacksInv, CountedIn
<1>9. QED
  BY <1>2, <1>7, <1>8

LEMMA ShrunkKept ==
  ASSUME Inv, Inv', ContextInv, Shrinks, NoCallback
  PROVE  ContextInv'
<1>1. /\ StacksInv /\ NestInv /\ LevelInv
      /\ OwnerInv /\ HeldInv /\ OrderInv /\ FreedInv /\ LeftInv
  BY DEF ContextInv
<1>3. /\ Shape(stack) /\ stack \in Seq(Sym) /\ Len(stack) \in Nat
      /\ DOMAIN stack = 1 .. Len(stack) /\ CountedIn(stack) \subseteq 1 .. Len(stack)
      /\ count_level \in Nat /\ Started(stack) \in Nat /\ Drift \in Nat
      /\ count_level = Started(stack) + Drift
      /\ MaxLevel \in Nat /\ 0 .. count_level \subseteq Indices
  BY <1>1, Numbers DEF NumbersAreRight
<1>2. LevelInv'
  <2>1. count_level' \in Nat /\ count_level' <= count_level /\ exited' = exited
    BY DEF Inv, CountInv, Shrinks
  <2>2. QED
    BY <1>1, <1>3, <2>1 DEF LevelInv
<1>4. /\ stack' \in Seq(Sym) /\ Len(stack') \in Nat
      /\ DOMAIN stack' = 1 .. Len(stack') /\ CountedIn(stack') \subseteq 1 .. Len(stack')
      /\ count_level' \in Nat /\ Started(stack') \in Nat /\ Drift' \in Nat
      /\ count_level' = Started(stack') + Drift'
      /\ 0 .. count_level' \subseteq Indices
  BY <1>2, NumbersNext DEF NumbersAreRight, Indices
<1>5. /\ count_level' <= count_level
      /\ count_level' # 0 => Drift' >= Drift
  BY DEF Shrinks
<1>6. PICK m \in 0 .. Len(stack) : Cut(m)
  BY <1>3, StackIsCut DEF Shrinks
<1>7. ASSUME NEW i \in CountedIn(stack')
      PROVE  /\ i <= m /\ i \in 1 .. m /\ i \in CountedIn(stack) /\ i \in DOMAIN stack
             /\ Place(stack', i) = Place(stack, i)
             /\ count_level' # 0
  <2>1. i \in DOMAIN stack' /\ stack'[i] \in Counted /\ i \in Int /\ i >= 1
    BY <1>4 DEF CountedIn
  <2>2. i <= m /\ m \in Int
    BY <1>6, <2>1 DEF Cut
  <2>3. i \in 1 .. m /\ i \in CountedIn(stack) /\ i \in DOMAIN stack
    BY <1>6, <2>1, <2>2 DEF Cut, Agree, CountedIn
  <2>4. Place(stack', i) = Place(stack, i)
    BY <1>3, <1>4, <1>6, <2>1, <2>2, PlaceSame DEF Cut
  <2>5. Place(stack', 0) + 1 <= Place(stack', i)
    BY <1>4, <2>1, PlaceBefore
  <2>6. Place(stack', 0) \in Nat /\ Place(stack', i) \in Nat /\ Place(stack', i) <= Started(stack')
    BY <1>4, <2>1, PlaceType
  <2>7. QED
    BY <1>4, <2>2, <2>3, <2>4, <2>5, <2>6
<1>8. ASSUME NEW i \in CountedIn(stack), i <= m
      PROVE  i \in CountedIn(stack')
  BY <1>3, <1>6, <1>8 DEF Cut, Agree, CountedIn
<1>9. /\ StacksInv'
      /\ \A n \in Indices : ctxt_stack'[n] = IF n > count_level' THEN Null ELSE After(ctxt_stack[n])
      /\ \A i \in CountedIn(stack') : i \in DOMAIN stack => selves'[i] = After(selves[i])
  BY <1>1, <1>4, NoCallbackEffect
\* The contexts that are left.
<1>10. ASSUME NEW n \in Indices
       PROVE  /\ ctxt_stack[n] \in Int
              /\ ctxt_stack'[n] > 0 =>
                   /\ ctxt_stack'[n] = ctxt_stack[n] /\ n <= count_level'
                   /\ ctxt_stack[n] \in CountedIn(stack')
              /\ ctxt_stack'[n] = Freed => ctxt_stack[n] = Freed /\ n <= count_level'
              /\ ctxt_stack'[n] = Left /\ ctxt_stack[n] # Left =>
                   ctxt_stack[n] > 0 /\ ctxt_stack[n] \notin CountedIn(stack')
              /\ n <= count_level' => ctxt_stack'[n] \in {ctxt_stack[n], Left}
  <2>1. ctxt_stack[n] \in Int
    BY <1>1 DEF StacksInv, Left, Freed
  <2>2. n \in Int
    BY <1>3 DEF Indices
  <2>3. ctxt_stack'[n] = IF n > count_level' THEN Null ELSE After(ctxt_stack[n])
    BY <1>9
  <2>4. /\ After(ctxt_stack[n]) \in {ctxt_stack[n], Left}
        /\ ~(ctxt_stack[n] > 0) => After(ctxt_stack[n]) = ctxt_stack[n]
        /\ ctxt_stack[n] > 0 /\ ctxt_stack[n] \in CountedIn(stack') => After(ctxt_stack[n]) = ctxt_stack[n]
        /\ ctxt_stack[n] > 0 /\ ctxt_stack[n] \notin CountedIn(stack') => After(ctxt_stack[n]) = Left
    BY AfterFacts
  <2>5. QED
    BY <1>4, <2>1, <2>2, <2>3, <2>4 DEF Null, Left, Freed
<1>11. NestInv'
  <2>1. ASSUME NEW i \in CountedIn(stack'), i # 1
        PROVE  stack'[i - 1] \in Counted \cup {"records"}
    <3>1. i \in CountedIn(stack) /\ i \in 1 .. m
      BY <1>7
    <3>2. i - 1 \in 1 .. m
      BY <2>1, <3>1
    <3>3. stack'[i - 1] = stack[i - 1]
      BY <1>6, <3>2 DEF Cut, Agree
    <3>4. QED
      BY <1>1, <2>1, <3>1, <3>3 DEF NestInv
  <2>2. QED
    BY <2>1 DEF NestInv
<1>12. OwnerInv'
  <2>1. ASSUME NEW n \in Indices, ctxt_stack'[n] > 0
        PROVE  /\ ctxt_stack'[n] \in CountedIn(stack')
               /\ selves'[ctxt_stack'[n]] = ctxt_stack'[n]
               /\ Place(stack', ctxt_stack'[n]) <= n
    <3> DEFINE j == ctxt_stack[n]
    <3>1. ctxt_stack'[n] = j /\ j > 0 /\ j \in CountedIn(stack')
      BY <1>10, <2>1
    <3>2. selves[j] = j /\ Place(stack, j) <= n
      BY <1>1, <3>1 DEF OwnerInv
    <3> HIDE DEF j
    <3>3. j \in DOMAIN stack /\ Place(stack', j) = Place(stack, j)
      BY <1>7, <3>1
    <3>4. selves'[j] = After(selves[j])
      BY <1>9, <3>1, <3>3
    <3>5. After(j) = j
      BY <3>1, AfterFacts
    <3>6. QED
      BY <3>1, <3>2, <3>3, <3>4, <3>5
  <2>2. QED
    BY <2>1 DEF OwnerInv, Indices
<1>13. HeldInv'
  <2>1. ASSUME NEW i \in CountedIn(stack'), selves'[i] = i
        PROVE  \E n \in 1 .. Place(stack', i) + Drift' : ctxt_stack'[n] = i
    <3>1. /\ i \in CountedIn(stack) /\ i \in DOMAIN stack /\ i > 0 /\ i \in Int
          /\ Place(stack', i) = Place(stack, i) /\ count_level' # 0
      BY <1>7
    <3>2. After(selves[i]) = i
      BY <1>9, <2>1, <3>1
    <3>3. selves[i] = i
      BY <3>1, <3>2, AfterFacts DEF Left
    <3>4. PICK n \in 1 .. Place(stack, i) + Drift : ctxt_stack[n] = i
      BY <1>1, <3>1, <3>3 DEF HeldInv
    <3>5. Place(stack', i) \in Nat /\ Place(stack', i) <= Started(stack')
      BY <1>4, <3>1, PlaceType
    <3>6. n \in 1 .. Place(stack', i) + Drift' /\ n <= count_level' /\ n \in 0 .. count_level'
      <4>1. Drift \in Nat /\ Drift' \in Nat /\ Drift' >= Drift
        BY <1>3, <1>4, <1>5, <3>1
      <4>2. n \in Nat /\ n >= 1 /\ n <= Place(stack', i) + Drift
        BY <3>1, <3>4, <3>5, <4>1
      <4>3. n <= Place(stack', i) + Drift'
        BY <3>5, <4>1, <4>2
      <4>4. count_level' \in Nat /\ count_level' >= Place(stack', i) + Drift'
        BY <1>4, <3>5, <4>1
      <4>5. QED
        BY <3>5, <4>1, <4>2, <4>3, <4>4
    <3>7. ctxt_stack'[n] = After(ctxt_stack[n])
      BY <1>4, <1>9, <3>6
    <3>8. After(i) = i
      BY <2>1, <3>1, AfterFacts
    <3>9. QED
      BY <3>4, <3>6, <3>7, <3>8
  <2>2. QED
    BY <2>1 DEF HeldInv
<1>14. OrderInv'
  <2>1. ASSUME NEW n \in 0 .. count_level', NEW k \in 0 .. n, ctxt_stack'[k] > 0
        PROVE  ctxt_stack'[n] = Left \/ ctxt_stack'[n] >= ctxt_stack'[k]
    <3>1. n \in Indices /\ k \in Indices /\ n \in 0 .. count_level /\ n <= count_level'
      <4>1. n \in 0 .. count_level' /\ k \in 0 .. count_level'
        BY <1>4, <2>1
      <4>2. n \in Indices /\ k \in Indices
        BY <1>4, <4>1
      <4>3. count_level \in Nat /\ count_level' \in Nat /\ count_level' <= count_level
        BY <1>3, <1>4, <1>5
      <4>4. QED
        BY <4>1, <4>2, <4>3
    <3>2. ctxt_stack'[k] = ctxt_stack[k] /\ ctxt_stack[k] > 0
      BY <1>10, <2>1, <3>1
    <3>3. ctxt_stack[n] = Left \/ ctxt_stack[n] >= ctxt_stack[k]
      BY <1>1, <3>1, <3>2 DEF OrderInv
    <3>4. ctxt_stack'[n] \in {ctxt_stack[n], Left}
      BY <1>10, <3>1
    <3>5. QED
      BY <3>2, <3>3, <3>4
  <2>2. QED
    BY <2>1 DEF OrderInv
<1>15. FreedInv'
  <2>1. ASSUME NEW n \in Indices, ctxt_stack'[n] = Freed
        PROVE  n <= Drift'
    <3>1. ctxt_stack[n] = Freed /\ n <= count_level'
      BY <1>10, <2>1
    <3>2. n <= Drift /\ n \in Nat
      BY <1>1, <1>3, <3>1 DEF FreedInv, Indices
    <3>3. n # 0
      BY <1>1, <3>1 DEF StacksInv, Null, Freed
    <3>4. QED
      BY <1>3, <1>4, <1>5, <3>1, <3>2, <3>3
  <2>2. QED
    BY <2>1 DEF FreedInv, Indices
<1>16. LeftInv'
  <2>1. ASSUME Drift' = 0, NEW n \in 0 .. count_level', ctxt_stack'[n] = Left
        PROVE  FALSE
    <3>1. n \in Indices /\ n \in 0 .. count_level /\ n \in Int
      BY <1>3, <1>4, <1>5, <2>1
    <3>2. count_level' # 0
      <4>1. ctxt_stack'[0] # Left
        BY <1>9 DEF StacksInv, Null, Left
      <4>2. n # 0
        BY <2>1, <4>1
      <4>3. QED
        BY <1>4, <2>1, <4>2
    <3>3. Drift = 0
      BY <1>3, <1>4, <1>5, <2>1, <3>2
    <3>4. ctxt_stack[n] # Left
      BY <1>1, <3>1, <3>3 DEF LeftInv
    <3> DEFINE j == ctxt_stack[n]
    <3>5. j > 0 /\ j \notin CountedIn(stack') /\ j \in Int
      BY <1>10, <2>1, <3>1, <3>4
    <3>6. j \in CountedIn(stack) /\ Place(stack, j) <= n
      BY <1>1, <3>1, <3>5 DEF OwnerInv
    <3> HIDE DEF j
    <3>7. m < j
      BY <1>8, <3>5, <3>6
    <3>8. Place(stack, m) + 1 <= Place(stack, j)
      BY <1>3, <3>6, <3>7, PlaceBefore
    <3>9. Place(stack, m) = Place(stack', m)
      BY <1>3, <1>4, <1>6, PlaceSame DEF Cut
    <3>10. Place(stack', m) = Started(stack')
      BY <1>4, <1>7, PlaceOfLast
    <3>11. Place(stack, j) \in Nat
      BY <1>3, <3>5, PlaceType
    <3>12. QED
      BY <1>4, <2>1, <3>1, <3>6, <3>8, <3>9, <3>10, <3>11
  <2>2. QED
    BY <2>1 DEF LeftInv
<1>17. QED
  BY <1>2, <1>9, <1>11, <1>12, <1>13, <1>14, <1>15, <1>16 DEF ContextInv

-----------------------------------------------------------------------------
(* The end of a record and the start of a section.                         *)

LEMMA AtMostTwo ==
  ASSUME NEW n \in Nat
  PROVE  /\ (n >= 2 => n = 2) => n <= 2
         /\ n <= 2 /\ n # 0 => n = 1 \/ n = 2
  OBVIOUS

LEMMA RecordsAreOutermost ==
  ASSUME Shape(stack), IsRecord
  PROVE  /\ Len(stack) <= 2
         /\ Len(stack) = 2 => stack[1] = "records"
<1>1. Len(stack) \in Nat /\ (Len(stack) >= 2 => Below = stack[Len(stack) - 1] /\ Below \in Section)
  BY TopFacts
<1>2. ASSUME Len(stack) >= 2 PROVE Len(stack) = 2 /\ stack[1] = "records"
  <2>1. Below = "records"
    BY <1>1, <1>2 DEF IsRecord, Section
  <2>2. Len(stack) - 1 \in 1 .. Len(stack) /\ stack[Len(stack) - 1] = "records"
    BY <1>1, <1>2, <2>1
  <2>3. Len(stack) - 1 = 1
    BY <2>2 DEF Shape
  <2>4. Len(stack) = 2
    BY <1>1, <2>3
  <2>5. QED
    BY <2>2, <2>3, <2>4
<1>3. Len(stack) \in Nat /\ (Len(stack) >= 2 => Len(stack) = 2)
  BY <1>1, <1>2
<1>4. Len(stack) <= 2
  BY <1>3, AtMostTwo
<1>5. Len(stack) = 2 => Len(stack) >= 2
  BY <1>3
<1>6. QED
  BY <1>2, <1>4, <1>5

LEMMA EndedKept ==
  ASSUME Inv, Inv', ContextInv, end_record
  PROVE  ContextInv'
<1>1. /\ Shape(stack) /\ TagInv /\ error_mechanism \in Modes /\ FlagsInv
      /\ StacksInv /\ LevelInv
  BY DEF Inv, FlagsInv, ContextInv
<1>2. /\ count_level \in Nat /\ MaxLevel \in Nat /\ count_level' \in Nat
      /\ Len(stack) \in Nat
  BY <1>1, Numbers DEF NumbersAreRight, Inv, CountInv
<1>3. Closed /\ count_level' = count_level - 1 /\ exited' = exited
  <2>1. CASE CloseSection
    BY <1>1, <2>1, Moves DEF CloseSection, Pop, Quietly
  <2>2. CASE CloseSectionWithError /\ parsing'
    <3>1. ~HandledAtOnce
      BY <2>2 DEF HandledAtOnce, Ended
    <3>2. PassedOn(AfterClose, "none", Pop) /\ exited' = exited
      BY <1>1, <2>2, <3>1, HandleErrorEffect DEF CloseSectionWithError
    <3>3. QED
      BY <1>1, <2>2, <3>1, <3>2, Moves DEF PassedOn, Pop
  <2>3. QED
    BY <2>1, <2>2 DEF end_record, Ends, CloseSection
<1>4. IsRecord
  BY DEF end_record
<1>5. stack' = <<"records">>
  <2>1. Len(stack) <= 2 /\ (Len(stack) = 2 => stack[1] = "records")
    BY <1>1, <1>4, RecordsAreOutermost
  <2>2. stack # <<>> /\ Len(stack) # 0
    BY <1>1, <1>3, TopFacts DEF Closed, Counted
  <2>3. CASE Len(stack) = 1
    BY <1>1, <1>3, <2>3, ClosedFacts DEF Closed
  <2>4. CASE Len(stack) = 2
    <3>1. stack' = Front(stack)
      BY <1>1, <1>3, <2>4, ClosedFacts DEF Closed
    <3>2. stack' \in Seq(Sym) /\ Len(stack') = 1 /\ stack'[1] = "records"
      BY <1>1, <2>1, <2>2, <2>4, <3>1, PoppedFacts DEF Shape
    <3>3. QED
      BY <3>2
  <2>5. Len(stack) \in Nat /\ Len(stack) <= 2 /\ Len(stack) # 0
    BY <1>2, <2>1, <2>2
  <2>6. Len(stack) = 1 \/ Len(stack) = 2
    BY <2>5, AtMostTwo
  <2>7. QED
    BY <2>3, <2>4, <2>6
<1>6. CountedIn(stack') = {} /\ Started(stack') = 0
  <2>1. CountedIn(stack') = {}
    BY <1>5 DEF CountedIn, Counted
  <2>2. QED
    BY <2>1, StartedIs, FS_EmptySet
<1>7. Drift' = count_level'
  <2>1. count_level' \in Nat /\ Started(stack') = 0
    BY <1>2, <1>6
  <2>2. Drift' = count_level' - Started(stack')
    BY DEF Drift
  <2>3. \A k \in Nat : k - 0 = k
    OBVIOUS
  <2>4. QED
    BY <2>1, <2>2, <2>3
<1>8. DOMAIN ctxt_stack = Indices /\ 0 \in Indices
  BY <1>1, <1>2 DEF StacksInv, Indices
<1>9. ctxt_stack' = [n \in Indices |-> IF n > count_level' THEN Null ELSE AfterRecord(ctxt_stack[n])]
  BY <1>8 DEF end_record, Stacks
<1>10. \A n \in Indices : AfterRecord(ctxt_stack[n]) \in {Null, Freed}
  BY DEF AfterRecord
<1>11. \A n \in Indices :
         /\ ctxt_stack'[n] \in {Null, Freed}
         /\ ctxt_stack'[n] = Freed => ~(n > count_level')
  BY <1>9, <1>10 DEF Null, Freed
<1>12. StacksInv'
  <2>1. AfterRecord(ctxt_stack[0]) = Null
    BY <1>1 DEF StacksInv, AfterRecord
  <2>2. ctxt_stack'[0] = Null
    BY <1>8, <1>9, <2>1
  <2>3. ctxt_stack' \in [Indices -> Nat \cup {Left, Freed}]
    BY <1>9, <1>10 DEF Null
  <2>4. DOMAIN selves' = DOMAIN stack'
    BY DEF end_record, Stacks
  <2>5. QED
    BY <2>2, <2>3, <2>4 DEF StacksInv
<1>13. NestInv' /\ HeldInv'
  BY <1>6 DEF NestInv, HeldInv
<1>14. LevelInv'
  BY <1>1, <1>2, <1>3 DEF LevelInv
<1>15. \A n \in Indices : ~(ctxt_stack'[n] > 0) /\ ctxt_stack'[n] # Left
  BY <1>11 DEF Null, Freed, Left
<1>16. OwnerInv'
  BY <1>15 DEF OwnerInv, Indices
<1>17. 0 .. count_level' \subseteq Indices
  BY <1>2, <1>14 DEF LevelInv, Indices
<1>18. OrderInv'
  <2>1. \A n \in 0 .. count_level' : \A k \in 0 .. n : k \in 0 .. count_level'
    BY <1>2
  <2>2. \A n \in 0 .. count_level' : \A k \in 0 .. n : ~(ctxt_stack'[k] > 0)
    BY <1>15, <1>17, <2>1
  <2>3. QED
    BY <2>2 DEF OrderInv
<1>19. LeftInv'
  BY <1>15, <1>17 DEF LeftInv
<1>20. FreedInv'
  <2>1. \A n \in Indices : n \in Int
    BY <1>2 DEF Indices
  <2>2. \A n \in Indices : ctxt_stack'[n] = Freed => n <= Drift'
    BY <1>2, <1>7, <1>11, <2>1
  <2>3. QED
    BY <2>2 DEF FreedInv, Indices
<1>21. QED
  BY <1>12, <1>13, <1>14, <1>16, <1>18, <1>19, <1>20 DEF ContextInv

LEMMA SomethingStarted ==
  ASSUME NEW s \in Seq(Sym), NEW j \in CountedIn(s)
  PROVE  Started(s) >= 1
<1>1. j \in Int /\ 0 < j
  BY DEF CountedIn
<1>2. Place(s, 0) + 1 <= Place(s, j)
  BY <1>1, PlaceBefore
<1>3. Place(s, 0) \in Nat /\ Place(s, j) \in Nat /\ Started(s) \in Nat /\ Place(s, j) <= Started(s)
  BY <1>1, PlaceType
<1>4. QED
  BY <1>2, <1>3

\* A section that is started comes on top of those that are counted.
Tops ==
  /\ Len(stack) \in Nat \ {0} /\ DOMAIN stack' = DOMAIN stack /\ Len(stack') = Len(stack)
  /\ Agree(stack', stack, Len(stack) - 1)
  /\ CountedIn(stack') = CountedIn(stack) \cup {Len(stack)}
  /\ \A i \in CountedIn(stack) : i < Len(stack)
  /\ Started(stack') = Started(stack) + 1

LEMMA StartFacts ==
  ASSUME Inv, LevelInv, StartSection
  PROVE  /\ Tops
         /\ count_level' = count_level + 1 /\ count_level' \in Indices
         /\ LevelInv'
         /\ Drift' = Drift
         /\ ~IsRecord => Len(stack) - 1 \in CountedIn(stack)
<1>1. /\ Shape(stack) /\ stack \in Seq(Sym) /\ Len(stack) \in Nat
      /\ DOMAIN stack = 1 .. Len(stack) /\ CountedIn(stack) \subseteq 1 .. Len(stack)
      /\ count_level \in Nat /\ Started(stack) \in Nat
      /\ MaxLevel \in Nat
      /\ TagInv /\ error_mechanism \in Modes /\ SessionInv /\ NumbersInv
  BY Numbers DEF NumbersAreRight, Inv, FlagsInv
<1>2. PICK x \in {"subs", "user_subs"} : Replaces(x)
  BY <1>1, Moves
<1>3. x \in Replacing /\ x \in Counted
  BY DEF Replacing, Counted
<1>4. /\ stack' \in Seq(Sym) /\ stack # <<>> /\ Len(stack') = Len(stack)
      /\ Started(stack') = Started(stack) + 1
      /\ \A i \in 1 .. Len(stack) - 1 : stack'[i] = stack[i]
      /\ stack'[Len(stack)] = x
  BY <1>1, <1>2, <1>3, ReplacesEffect DEF Shape
<1>5. Len(stack) # 0 /\ stack[Len(stack)] \notin Counted
  BY <1>1, <1>2, TopFacts DEF Replaces, Phase, Counted
<1>6. DOMAIN stack' = DOMAIN stack /\ Len(stack) \in DOMAIN stack'
  BY <1>1, <1>4, <1>5
<1>7. Agree(stack', stack, Len(stack) - 1)
  BY <1>1, <1>4, <1>6 DEF Agree
<1>8. \A i \in CountedIn(stack) : i < Len(stack)
  BY <1>1, <1>5 DEF CountedIn
<1>9. CountedIn(stack') = CountedIn(stack) \cup {Len(stack)}
  <2>1. \A i \in DOMAIN stack : i = Len(stack) \/ stack'[i] = stack[i]
    BY <1>1, <1>4
  <2>2. QED
    BY <1>3, <1>4, <1>5, <1>6, <2>1 DEF CountedIn
<1>10. Tops
  BY <1>1, <1>4, <1>5, <1>6, <1>7, <1>8, <1>9 DEF Tops
<1>11. /\ count_level' = count_level + 1
       /\ exited' = (count_level' # level + 1 \/ count_level' > MaxGedcLevel)
       /\ parsing
       /\ tag \in {"HEAD", "std", "user", "mandatory"}
       /\ Top \in Tagged
  BY DEF StartSection, LineComplete, NextIs, Tagged
<1>12. count_level <= MaxLevel + 1
  BY <1>1, <1>11 DEF LevelInv, SessionInv
<1>13. count_level' <= MaxLevel + 2 /\ (~exited' => count_level' <= MaxLevel + 1)
  <2>1. level \in 0 .. MaxLevel
    BY <1>1 DEF NumbersInv
  <2>2. ~exited' => count_level' = level + 1
    BY <1>11
  <2>3. level <= MaxLevel /\ level \in Int /\ MaxLevel \in Nat /\ count_level \in Nat
    BY <1>1, <2>1
  <2>4. QED
    BY <1>11, <1>12, <2>2, <2>3
<1>14. LevelInv'
  BY <1>13 DEF LevelInv
<1>15. count_level' \in Indices
  BY <1>1, <1>11, <1>13 DEF Indices
<1>16. Drift' = Drift
  <2>1. Drift' = count_level' - Started(stack')
    BY DEF Drift
  <2>2. \A a, b \in Nat : (a + 1) - (b + 1) = a - b
    OBVIOUS
  <2>3. QED
    BY <1>1, <1>4, <1>11, <2>1, <2>2 DEF Drift
<1>17. ASSUME ~IsRecord PROVE Len(stack) - 1 \in CountedIn(stack)
  <2>1. Below # "empty" /\ Below # "records"
    BY <1>17 DEF IsRecord
  <2>2. ~(Len(stack) < 2)
    BY <2>1 DEF Below
  <2>3. Len(stack) >= 2
    BY <1>1, <2>2
  <2>4. Below = stack[Len(stack) - 1] /\ Below \in Section
    BY <1>1, <2>3, TopFacts
  <2>5. Below \notin Uncertain /\ Below # "invalid_subs"
    BY <1>1, <1>11 DEF TagInv
  <2>6. Below \in Counted
    BY <2>1, <2>4, <2>5 DEF Section, Uncertain, Counted
  <2>7. Len(stack) - 1 \in DOMAIN stack
    BY <1>1, <2>3
  <2>8. QED
    BY <2>4, <2>6, <2>7 DEF CountedIn
<1>18. QED
  BY <1>10, <1>11, <1>14, <1>15, <1>16, <1>17

\* The context of what is started.
LEMMA SelfFacts ==
  ASSUME Inv, ContextInv, StartSection, NEW b \in BOOLEAN
  PROVE  LET self == SelfOf(b) IN
         /\ self \in Nat \cup {Left}
         /\ self = Left => Drift # 0
         /\ \/ self = Len(stack)
            \/ /\ self = ctxt_stack[count_level] /\ ~IsRecord
            \/ self = 0 /\ CountedIn(stack) = {}
<1>1. LevelInv /\ FreedInv /\ LeftInv /\ StacksInv
  BY DEF ContextInv
<1>2. NumbersAreRight
  BY <1>1, Numbers DEF Inv
<1>3. CASE b
  BY <1>2, <1>3 DEF SelfOf, NumbersAreRight, Left
<1>4. CASE ~b /\ IsRecord
  <2>1. SelfOf(b) = 0
    BY <1>4 DEF SelfOf, Inherited, Null
  <2>2. CountedIn(stack) = {}
    <3>1. Tops
      BY <1>1, StartFacts
    <3>2. Len(stack) <= 2 /\ (Len(stack) = 2 => stack[1] = "records")
      BY <1>2, <1>4, RecordsAreOutermost DEF NumbersAreRight
    <3>3. ASSUME NEW i \in CountedIn(stack) PROVE FALSE
      <4>1. i \in 1 .. Len(stack) /\ i < Len(stack) /\ stack[i] \in Counted
        BY <1>2, <3>1 DEF Tops, NumbersAreRight, CountedIn
      <4>2. Len(stack) \in Nat
        BY <1>2 DEF NumbersAreRight
      <4>3. i \in Nat /\ i # 0 /\ i < Len(stack) /\ Len(stack) <= 2
        BY <3>2, <4>1, <4>2
      <4>4. \A n \in Nat : n <= 2 /\ i < n => i = 1 /\ n = 2
        BY <4>3
      <4>5. i = 1 /\ Len(stack) = 2
        BY <4>2, <4>3, <4>4
      <4>6. QED
        BY <3>2, <4>1, <4>5 DEF Counted
    <3>4. QED
      BY <3>3
  <2>3. QED
    BY <2>1, <2>2, <1>2 DEF Left
<1>5. CASE ~b /\ ~IsRecord
  <2>1. SelfOf(b) = ctxt_stack[count_level]
    BY <1>5 DEF SelfOf, Inherited, get_parentctxt
  <2>2. Len(stack) - 1 \in CountedIn(stack)
    BY <1>1, <1>5, StartFacts
  <2>3. Started(stack) >= 1
    BY <1>2, <2>2, SomethingStarted DEF NumbersAreRight
  <2>4. /\ count_level \in Nat /\ Drift \in Nat /\ count_level = Started(stack) + Drift
        /\ Started(stack) \in Nat /\ count_level \in Indices /\ count_level \in 0 .. count_level
    BY <1>2 DEF NumbersAreRight
  <2>5. ~(count_level <= Drift)
    BY <2>3, <2>4
  <2>6. ctxt_stack[count_level] # Freed
    BY <1>1, <2>4, <2>5 DEF FreedInv
  <2>7. ctxt_stack[count_level] \in Nat \cup {Left}
    BY <1>1, <2>4, <2>6 DEF StacksInv
  <2>8. ctxt_stack[count_level] = Left => Drift # 0
    BY <1>1, <2>4 DEF LeftInv
  <2>9. QED
    BY <1>5, <2>1, <2>7, <2>8
<1>6. QED
  BY <1>3, <1>4, <1>5

LEMMA StartedKept ==
  ASSUME Inv, Inv', ContextInv, NEW b \in BOOLEAN, Start(b)
  PROVE  ContextInv'
<1> DEFINE self == SelfOf(b)
           c == count_level + 1
           len == Len(stack)
<1>1. /\ StacksInv /\ NestInv /\ LevelInv
      /\ OwnerInv /\ HeldInv /\ OrderInv /\ FreedInv /\ LeftInv
      /\ StartSection
  BY DEF ContextInv, Start
<1>2. /\ Shape(stack) /\ stack \in Seq(Sym) /\ DOMAIN stack = 1 .. Len(stack)
      /\ CountedIn(stack) \subseteq 1 .. Len(stack)
      /\ count_level \in Nat /\ Started(stack) \in Nat /\ Drift \in Nat
      /\ count_level = Started(stack) + Drift
      /\ MaxLevel \in Nat /\ 0 .. count_level \subseteq Indices
  BY <1>1, Numbers DEF NumbersAreRight
<1>3. /\ Tops /\ count_level' = c /\ c \in Indices
      /\ LevelInv' /\ Drift' = Drift
      /\ ~IsRecord => len - 1 \in CountedIn(stack)
  BY <1>1, StartFacts
<1>4. /\ len \in Nat \ {0} /\ DOMAIN stack' = DOMAIN stack
      /\ Agree(stack', stack, len - 1)
      /\ CountedIn(stack') = CountedIn(stack) \cup {len}
      /\ \A i \in CountedIn(stack) : i < len
      /\ Started(stack') = Started(stack) + 1
  BY <1>3 DEF Tops
<1>5. stack' \in Seq(Sym)
  BY DEF Inv, Shape
<1>6. /\ self \in Nat \cup {Left}
      /\ self = Left => Drift # 0
      /\ \/ self = len
         \/ self = ctxt_stack[count_level] /\ ~IsRecord
         \/ self = 0 /\ CountedIn(stack) = {}
  BY <1>1, SelfFacts
<1>7. ctxt_stack' = [n \in Indices |-> IF n > c THEN Null ELSE IF n = c THEN self ELSE ctxt_stack[n]]
  <2>1. DOMAIN ctxt_stack = Indices
    BY <1>1 DEF StacksInv
  <2>2. Stacks([ctxt_stack EXCEPT ![c] = self], [selves EXCEPT ![len] = self])
    BY DEF Start
  <2>3. ctxt_stack' = [n \in DOMAIN ctxt_stack |-> IF n > count_level' THEN Null ELSE [ctxt_stack EXCEPT ![c] = self][n]]
    BY <2>2 DEF Stacks
  <2> HIDE DEF self, c
  <2>4. \A n \in Indices : [ctxt_stack EXCEPT ![c] = self][n] = IF n = c THEN self ELSE ctxt_stack[n]
    BY <2>1
  <2>5. QED
    BY <1>3, <2>1, <2>3, <2>4
<1>8. selves' = [i \in DOMAIN stack' |->
                  IF stack'[i] \in Counted THEN (IF i = len THEN self ELSE selves[i]) ELSE Null]
  <2>1. DOMAIN selves = DOMAIN stack
    BY <1>1 DEF StacksInv
  <2>2. Stacks([ctxt_stack EXCEPT ![c] = self], [selves EXCEPT ![len] = self])
    BY DEF Start
  <2>3. selves' = [i \in DOMAIN stack' |->
                    IF i \in DOMAIN [selves EXCEPT ![len] = self] /\ stack'[i] \in Counted
                    THEN [selves EXCEPT ![len] = self][i] ELSE Null]
    BY <2>2 DEF Stacks
  <2> HIDE DEF self, c
  <2>4. DOMAIN [selves EXCEPT ![len] = self] = DOMAIN selves
    OBVIOUS
  <2>5. \A i \in DOMAIN selves : [selves EXCEPT ![len] = self][i] = IF i = len THEN self ELSE selves[i]
    OBVIOUS
  <2>6. QED
    BY <1>4, <2>1, <2>3, <2>4, <2>5
<1>9. c \in Nat /\ c # 0 /\ count_level \in Indices /\ count_level < c
      /\ \A n \in Indices : n \in Nat
  BY <1>2 DEF Indices
<1> HIDE DEF self
<1>10. \A n \in Indices :
         /\ n < c => ctxt_stack'[n] = ctxt_stack[n]
         /\ n = c => ctxt_stack'[n] = self
         /\ n > c => ctxt_stack'[n] = 0
  BY <1>7, <1>9 DEF Null
<1>11. \A i \in CountedIn(stack') : selves'[i] = IF i = len THEN self ELSE selves[i]
  BY <1>8 DEF CountedIn
<1> HIDE DEF c, len
\* The contexts below the new one.
<1>12. ASSUME NEW n \in Indices, ctxt_stack[n] > 0
       PROVE  /\ ctxt_stack[n] \in CountedIn(stack) /\ ctxt_stack[n] \in CountedIn(stack')
              /\ ctxt_stack[n] < len /\ ctxt_stack[n] \in Nat
              /\ selves'[ctxt_stack[n]] = ctxt_stack[n]
              /\ Place(stack', ctxt_stack[n]) <= n
  <2> DEFINE j == ctxt_stack[n]
  <2>1. j \in CountedIn(stack) /\ selves[j] = j /\ Place(stack, j) <= n
    BY <1>1, <1>12 DEF OwnerInv
  <2> HIDE DEF j
  <2>2. j \in Nat /\ j < len /\ j \in CountedIn(stack')
    BY <1>2, <1>4, <2>1
  <2>3. selves'[j] = j
    BY <1>11, <2>1, <2>2
  <2>4. Place(stack', j) = Place(stack, j)
    <3>1. len - 1 \in Int /\ j \in Int /\ j <= len - 1
      BY <1>4, <2>2
    <3>2. QED
      BY <1>2, <1>4, <1>5, <3>1, PlaceSame
  <2>5. QED
    BY <2>1, <2>2, <2>3, <2>4 DEF j
<1>13. Place(stack', len) = Started(stack) + 1
  <2>1. \A i \in CountedIn(stack') : i <= len
    BY <1>2, <1>4
  <2>2. QED
    BY <1>4, <1>5, <2>1, PlaceOfLast
<1>14. StacksInv'
  <2>1. ASSUME NEW n \in Indices PROVE ctxt_stack'[n] \in Nat \cup {Left, Freed}
    <3>1. ctxt_stack[n] \in Nat \cup {Left, Freed} /\ n \in Nat
      BY <1>1, <1>9 DEF StacksInv
    <3>2. CASE n < c
      BY <1>10, <3>1, <3>2
    <3>3. CASE n = c
      BY <1>6, <1>10, <3>3
    <3>4. CASE n > c
      BY <1>10, <3>4
    <3>5. QED
      BY <1>9, <3>1, <3>2, <3>3, <3>4
  <2>2. ctxt_stack' \in [Indices -> Nat \cup {Left, Freed}]
    BY <1>7, <2>1
  <2>3. 0 \in Indices /\ 0 < c
    BY <1>2, <1>9 DEF Indices
  <2>4. ctxt_stack'[0] = Null
    BY <1>1, <1>10, <2>3 DEF StacksInv
  <2>5. DOMAIN selves' = DOMAIN stack'
    BY <1>8
  <2>6. QED
    BY <2>2, <2>4, <2>5 DEF StacksInv
<1>15. NestInv'
  <2>1. ASSUME NEW i \in CountedIn(stack'), i # 1
        PROVE  stack'[i - 1] \in Counted \cup {"records"}
    <3>1. i \in Nat /\ i >= 1 /\ i <= len
      BY <1>2, <1>4
    <3>2. i - 1 \in 1 .. len - 1
      BY <1>4, <2>1, <3>1
    <3>3. stack'[i - 1] = stack[i - 1]
      BY <1>4, <3>2 DEF Agree
    <3>4. CASE i \in CountedIn(stack)
      BY <1>1, <2>1, <3>3, <3>4 DEF NestInv
    <3>5. CASE i = len
      <4>1. CASE IsRecord
        <5>1. len <= 2 /\ (len = 2 => stack[1] = "records")
          BY <1>2, <4>1, RecordsAreOutermost DEF len
        <5>2. len = 2 /\ i - 1 = 1
          BY <1>4, <2>1, <3>1, <3>5, <5>1, AtMostTwo
        <5>3. QED
          BY <3>3, <5>1, <5>2
      <4>2. CASE ~IsRecord
        BY <1>3, <3>3, <3>5, <4>2 DEF CountedIn
      <4>3. QED
        BY <4>1, <4>2
    <3>6. QED
      BY <1>4, <3>4, <3>5
  <2>2. QED
    BY <2>1 DEF NestInv
<1>16. OwnerInv'
  <2>1. ASSUME NEW n \in Indices, ctxt_stack'[n] > 0
        PROVE  /\ ctxt_stack'[n] \in CountedIn(stack')
               /\ selves'[ctxt_stack'[n]] = ctxt_stack'[n]
               /\ Place(stack', ctxt_stack'[n]) <= n
    <3>1. CASE n < c
      BY <1>10, <1>12, <2>1, <3>1
    <3>2. CASE n = c /\ self = len
      <4>1. ctxt_stack'[n] = len /\ len \in CountedIn(stack') /\ selves'[len] = len
        BY <1>4, <1>10, <1>11, <3>2
      <4>2. Place(stack', len) <= c
        BY <1>2, <1>13 DEF c
      <4>3. QED
        BY <3>2, <4>1, <4>2
    <3>3. CASE n = c /\ self = ctxt_stack[count_level]
      <4>1. ctxt_stack'[n] = ctxt_stack[count_level]
        BY <1>10, <3>3
      <4> DEFINE j == ctxt_stack[count_level]
      <4>2. /\ j \in CountedIn(stack') /\ selves'[j] = j /\ j \in Nat
            /\ Place(stack', j) <= count_level
        BY <1>9, <1>12, <2>1, <4>1
      <4> HIDE DEF j
      <4>3. Place(stack', j) \in Nat
        BY <1>5, <4>2, PlaceType
      <4>4. Place(stack', j) <= n
        BY <1>2, <1>9, <3>3, <4>2, <4>3
      <4>5. QED
        BY <4>1, <4>2, <4>4 DEF j
    <3>4. CASE n = c /\ self = 0
      BY <1>10, <2>1, <3>4
    <3>5. CASE n > c
      BY <1>10, <2>1, <3>5
    <3>6. n < c \/ n = c \/ n > c
      BY <1>9
    <3>7. QED
      BY <1>6, <3>1, <3>2, <3>3, <3>4, <3>5, <3>6
  <2>2. QED
    BY <2>1 DEF OwnerInv, Indices
<1>17. HeldInv'
  <2>1. ASSUME NEW i \in CountedIn(stack'), selves'[i] = i
        PROVE  \E n \in 1 .. Place(stack', i) + Drift' : ctxt_stack'[n] = i
    <3>1. CASE i = len
      <4>1. self = len
        BY <1>11, <2>1, <3>1
      <4>2. ctxt_stack'[c] = len
        BY <1>3, <1>10, <4>1
      <4>3. c \in 1 .. Place(stack', len) + Drift'
        BY <1>2, <1>3, <1>13 DEF c
      <4>4. QED
        BY <3>1, <4>2, <4>3
    <3>2. CASE i # len
      <4>1. i \in CountedIn(stack) /\ selves[i] = i
        BY <1>4, <1>11, <2>1, <3>2
      <4>2. i \in Int /\ len - 1 \in Int /\ i <= len - 1
        BY <1>2, <1>4, <4>1
      <4>3. Place(stack', i) = Place(stack, i)
        BY <1>2, <1>4, <1>5, <4>2, PlaceSame
      <4>4. PICK n \in 1 .. Place(stack, i) + Drift : ctxt_stack[n] = i
        BY <1>1, <4>1 DEF HeldInv
      <4>5. Place(stack, i) \in Nat /\ Place(stack, i) <= Started(stack)
        BY <1>2, <4>2, PlaceType
      <4>6. n \in 0 .. count_level /\ n < c
        BY <1>2, <4>4, <4>5 DEF c
      <4>7. ctxt_stack'[n] = i
        BY <1>2, <1>10, <4>4, <4>6
      <4>8. QED
        BY <1>3, <4>3, <4>4, <4>7
    <3>3. QED
      BY <3>1, <3>2
  <2>2. QED
    BY <2>1 DEF HeldInv
<1>18. OrderInv'
  <2>1. ASSUME NEW n \in 0 .. count_level', NEW k \in 0 .. n, ctxt_stack'[k] > 0
        PROVE  ctxt_stack'[n] = Left \/ ctxt_stack'[n] >= ctxt_stack'[k]
    <3>1. n \in 0 .. c /\ k \in 0 .. c /\ n \in Int /\ k \in Int /\ k <= n
      BY <1>3, <1>9, <2>1
    <3>2. CASE n # c
      <4>1. n \in 0 .. count_level /\ n < c /\ k < c /\ k \in 0 .. count_level
        BY <1>2, <3>1, <3>2 DEF c
      <4>2. ctxt_stack'[n] = ctxt_stack[n] /\ ctxt_stack'[k] = ctxt_stack[k]
        BY <1>2, <1>10, <4>1
      <4>3. QED
        BY <1>1, <2>1, <4>1, <4>2 DEF OrderInv
    <3>3. CASE n = c /\ k = c
      <4>1. ctxt_stack'[n] = self /\ ctxt_stack'[k] = self
        BY <1>3, <1>10, <3>3
      <4>2. QED
        BY <1>6, <4>1
    <3>4. CASE n = c /\ k # c
      <4>1. k \in 0 .. count_level /\ k < c
        BY <1>2, <3>1, <3>4 DEF c
      <4>2. ctxt_stack'[n] = self /\ ctxt_stack'[k] = ctxt_stack[k] /\ k \in Indices
        BY <1>2, <1>3, <1>10, <3>4, <4>1
      <4>3. ctxt_stack[k] < len /\ ctxt_stack[k] \in CountedIn(stack) /\ ctxt_stack[k] \in Nat
        BY <1>12, <2>1, <4>2
      <4>4. CASE self = len
        BY <1>4, <4>2, <4>3, <4>4
      <4>5. CASE self = ctxt_stack[count_level]
        <5>1. count_level \in 0 .. count_level
          BY <1>2
        <5>2. ctxt_stack[count_level] = Left \/ ctxt_stack[count_level] >= ctxt_stack[k]
          BY <1>1, <2>1, <4>1, <4>2, <5>1 DEF OrderInv
        <5>3. QED
          BY <4>2, <4>5, <5>2
      <4>6. CASE CountedIn(stack) = {}
        BY <4>3, <4>6
      <4>7. QED
        BY <1>6, <4>4, <4>5, <4>6
    <3>5. QED
      BY <3>2, <3>3, <3>4
  <2>2. QED
    BY <2>1 DEF OrderInv
<1>19. FreedInv'
  <2>1. ASSUME NEW n \in Indices, ctxt_stack'[n] = Freed PROVE n <= Drift'
    <3>1. self # Freed
      BY <1>6 DEF Left, Freed
    <3>2. n < c
      BY <1>9, <1>10, <2>1, <3>1 DEF Freed
    <3>3. QED
      BY <1>1, <1>3, <1>10, <2>1, <3>2 DEF FreedInv
  <2>2. QED
    BY <2>1 DEF FreedInv, Indices
<1>20. LeftInv'
  <2>1. ASSUME Drift' = 0, NEW n \in 0 .. count_level' PROVE ctxt_stack'[n] # Left
    <3>1. n \in 0 .. c /\ n \in Int
      BY <1>3, <1>9, <2>1
    <3>2. CASE n = c
      BY <1>3, <1>6, <1>10, <2>1, <3>2
    <3>3. CASE n # c
      <4>1. n \in 0 .. count_level /\ n < c
        BY <1>2, <3>1, <3>3 DEF c
      <4>2. ctxt_stack'[n] = ctxt_stack[n]
        BY <1>2, <1>10, <4>1
      <4>3. QED
        BY <1>1, <1>3, <2>1, <4>1, <4>2 DEF LeftInv
    <3>4. QED
      BY <3>2, <3>3
  <2>2. QED
    BY <2>1 DEF LeftInv
<1>21. QED
  BY <1>3, <1>14, <1>15, <1>16, <1>17, <1>18, <1>19, <1>20 DEF ContextInv

LEMMA RestartedKept ==
  ASSUME ContextInv, Restart, ctxt_stack' = [n \in DOMAIN ctxt_stack |-> Null], selves' = <<>>
  PROVE  ContextInv'
<1>1. stack' = <<>> /\ count_level' = 0
  BY DEF Restart, End
<1>2. MaxLevel \in Nat /\ 0 \in Indices
  BY ParserAssumption DEF Indices
<1>3. ctxt_stack' = [n \in Indices |-> Null]
  BY DEF ContextInv, StacksInv
<1>4. CountedIn(stack') = {}
  BY <1>1 DEF CountedIn
<1>5. StacksInv'
  BY <1>1, <1>2, <1>3 DEF StacksInv, Null
<1>6. NestInv' /\ HeldInv'
  BY <1>4 DEF NestInv, HeldInv
<1>7. LevelInv'
  BY <1>1, <1>2 DEF LevelInv
<1>8. \A n \in Indices : ctxt_stack'[n] = 0
  BY <1>3 DEF Null
<1>9. OwnerInv' /\ FreedInv'
  BY <1>8 DEF OwnerInv, FreedInv, Freed, Indices
<1>10. \A n \in 0 .. count_level' : n = 0 /\ \A k \in 0 .. n : k = 0
  BY <1>1
<1>11. OrderInv' /\ LeftInv'
  BY <1>2, <1>8, <1>10 DEF OrderInv, LeftInv, Left
<1>12. QED
  BY <1>5, <1>6, <1>7, <1>9, <1>11 DEF ContextInv

LEMMA SameKept ==
  ASSUME ContextInv, UNCHANGED cvars
  PROVE  ContextInv'
<1>1. /\ stack' = stack /\ count_level' = count_level /\ exited' = exited
      /\ ctxt_stack' = ctxt_stack /\ selves' = selves
  BY DEF cvars, parserVars, callbackVars
<1>2. Drift' = Drift
  BY <1>1 DEF Drift
<1>3. StacksInv' /\ NestInv' /\ LevelInv'
  BY <1>1 DEF ContextInv, StacksInv, NestInv, LevelInv, Indices
<1>4. OwnerInv' /\ HeldInv'
  BY <1>1, <1>2 DEF ContextInv, OwnerInv, HeldInv, Indices
<1>5. OrderInv' /\ FreedInv' /\ LeftInv'
  BY <1>1, <1>2 DEF ContextInv, OrderInv, FreedInv, LeftInv, Indices
<1>6. QED
  BY <1>3, <1>4, <1>5 DEF ContextInv

-----------------------------------------------------------------------------
(* The invariant holds.                                                    *)

\* The callbacks do not change the parser.
LEMMA StepOfParser ==
  ASSUME [CNext]_cvars
  PROVE  [Next]_parserVars
<1>1. CASE UNCHANGED cvars
  BY <1>1 DEF cvars
<1>2. ASSUME NEW b \in BOOLEAN, Start(b) PROVE Next
  BY <1>2 DEF Start, Next, Step
<1>3. CASE end_element \/ end_record \/ CloseInVain
  BY <1>3 DEF end_element, end_record, CloseInVain, Ends, Next, Step
<1>4. CASE QuietStep
  BY <1>4 DEF Next, Step
<1>5. CASE ParseFile \/ Restart \/ \E mechanism \in Modes : SetErrorHandling(mechanism)
  BY <1>5 DEF Next
<1>6. QED
  BY <1>1, <1>2, <1>3, <1>4, <1>5 DEF CNext, CStep

LEMMA ContextKept ==
  ASSUME Inv, Inv', ContextInv, [CNext]_cvars
  PROVE  ContextInv'
<1>1. CASE UNCHANGED cvars
  BY <1>1, SameKept
<1>2. ASSUME NEW b \in BOOLEAN, Start(b) PROVE ContextInv'
  BY <1>2, StartedKept
<1>3. CASE end_element
  BY <1>3, StepShrinks, ShrunkKept DEF end_element, Ends
<1>4. CASE end_record
  BY <1>4, EndedKept
<1>5. CASE CloseInVain
  BY <1>5, StepShrinks, ShrunkKept DEF CloseInVain
<1>6. CASE QuietStep /\ NoCallback
  BY <1>6, StepShrinks, ShrunkKept
<1>7. CASE (\E mechanism \in Modes : SetErrorHandling(mechanism)) /\ NoCallback
  BY <1>7, StepShrinks, ShrunkKept
<1>8. CASE ParseFile /\ NoCallback
  BY <1>8, StepShrinks, ShrunkKept
<1>9. CASE Restart /\ ctxt_stack' = [n \in DOMAIN ctxt_stack |-> Null] /\ selves' = <<>>
  BY <1>9, RestartedKept
<1>10. QED
  BY <1>1, <1>2, <1>3, <1>4, <1>5, <1>6, <1>7, <1>8, <1>9 DEF CNext, CStep

LEMMA ContextInvAlways == CSpec => [](Inv /\ ContextInv)
<1>1. CInit => Inv /\ ContextInv
  BY InitInv, InitContext DEF CInit
<1>2. Inv /\ ContextInv /\ [CNext]_cvars => (Inv /\ ContextInv)'
  <2> SUFFICES ASSUME Inv, ContextInv, [CNext]_cvars
               PROVE  (Inv /\ ContextInv)'
    OBVIOUS
  <2>1. Inv'
    BY StepOfParser, InvKept
  <2>2. ContextInv'
    BY <2>1, ContextKept
  <2>3. QED
    BY <2>1, <2>2
<1>3. QED
  BY <1>1, <1>2, PTL DEF CSpec

-----------------------------------------------------------------------------
(* What callbacks get.                                                     *)

\* The context at a level that has room for those of all sections around the
\* one on top.
LEMMA ContextAt ==
  ASSUME Inv, ContextInv, NEW n \in 1 .. count_level, Drift < n,
         \A i \in CountedIn(stack) : i < Len(stack) => Place(stack, i) + Drift <= n
  PROVE  /\ ctxt_stack[n] \in {Holder, Left, Len(stack)}
         /\ Drift = 0 => ctxt_stack[n] # Left
         /\ ctxt_stack[n] = Len(stack) /\ ctxt_stack[n] # Holder =>
              Len(stack) \in CountedIn(stack) /\ Place(stack, Len(stack)) <= n
<1> DEFINE c == ctxt_stack[n]
           Holders == {Null} \cup {i \in 1 .. Len(stack) - 1 : stack[i] \in Counted /\ selves[i] = i}
<1>1. /\ StacksInv /\ LevelInv
      /\ OwnerInv /\ HeldInv /\ OrderInv /\ FreedInv /\ LeftInv
  BY DEF ContextInv
<1>2. NumbersAreRight
  BY <1>1, Numbers
<1>3. n \in Indices /\ n \in 0 .. count_level /\ n \in Nat /\ Drift \in Nat
      /\ Len(stack) \in Nat /\ DOMAIN stack = 1 .. Len(stack) /\ stack \in Seq(Sym)
  BY <1>2 DEF NumbersAreRight
<1>4. c # Freed
  BY <1>1, <1>3 DEF FreedInv
<1>5. c \in Nat \cup {Left}
  BY <1>1, <1>3, <1>4 DEF StacksInv
<1>6. Drift = 0 => c # Left
  BY <1>1, <1>3 DEF LeftInv
<1>7. Holder \in Holders /\ \A i \in Holders : i <= Holder
  <2>1. Holders \subseteq 0 .. Len(stack) /\ Holders # {}
    BY <1>3 DEF Null
  <2>2. Holder = Max(Holders)
    BY DEF Holder
  <2> HIDE DEF Holders
  <2>3. QED
    BY <1>3, <2>1, <2>2, MaxFacts
<1>8. Holder \in Nat
  BY <1>3, <1>7 DEF Null
<1>9. ASSUME c # Left PROVE Holder <= c
  <2>1. c \in Nat
    BY <1>5, <1>9
  <2>2. CASE Holder = 0
    BY <2>1, <2>2
  <2>3. CASE Holder # 0
    <3>1. /\ Holder \in CountedIn(stack) /\ selves[Holder] = Holder
          /\ Holder < Len(stack) /\ Holder > 0
      BY <1>3, <1>7, <1>8, <2>3 DEF Null, CountedIn
    <3>2. PICK k \in 1 .. Place(stack, Holder) + Drift : ctxt_stack[k] = Holder
      BY <1>1, <3>1 DEF HeldInv
    <3>3. Place(stack, Holder) \in Nat
      BY <1>3, <1>8, PlaceType
    <3>4. k \in 0 .. n
      BY <1>3, <3>1, <3>2, <3>3
    <3>5. QED
      BY <1>1, <1>3, <1>9, <3>1, <3>2, <3>4 DEF OrderInv
  <2>4. QED
    BY <2>2, <2>3
<1>10. ASSUME c # Left, c # Holder
       PROVE  /\ c = Len(stack) /\ c \in CountedIn(stack)
              /\ Place(stack, c) <= n
  <2>1. c \in Nat /\ Holder < c /\ c > 0
    BY <1>5, <1>8, <1>9, <1>10
  <2>2. c \in CountedIn(stack) /\ selves[c] = c /\ Place(stack, c) <= n
    BY <1>1, <1>3, <2>1 DEF OwnerInv
  <2> HIDE DEF c
  <2>3. c \in 1 .. Len(stack) /\ stack[c] \in Counted
    BY <1>3, <2>2 DEF CountedIn
  <2>4. c \notin 1 .. Len(stack) - 1
    BY <1>7, <1>8, <2>1, <2>2, <2>3
  <2>5. c = Len(stack)
    <3>1. \A k \in Nat : \A j \in 1 .. k : j \notin 1 .. k - 1 => j = k
      OBVIOUS
    <3>2. QED
      BY <1>3, <2>3, <2>4, <3>1
  <2>6. QED
    BY <2>2, <2>5
<1> HIDE DEF c
<1>11. /\ c \in {Holder, Left, Len(stack)}
       /\ Drift = 0 => c # Left
       /\ c = Len(stack) /\ c # Holder => c \in CountedIn(stack) /\ Place(stack, c) <= n
  <2>1. Len(stack) # Left
    BY <1>3 DEF Left
  <2>2. QED
    BY <1>6, <1>10, <2>1
<1>12. c = Len(stack) => c \in CountedIn(stack) /\ Place(stack, c) <= n
         <=> Len(stack) \in CountedIn(stack) /\ Place(stack, Len(stack)) <= n
  OBVIOUS
<1>13. QED
  BY <1>11, <1>12 DEF c

LEMMA StartFits ==
  ASSUME Inv, ContextInv, StartSection, ~IsRecord
  PROVE  Fits(get_parentctxt(count_level), {})
<1>1. LevelInv
  BY DEF ContextInv
<1>2. /\ Tops /\ Len(stack) - 1 \in CountedIn(stack)
  BY <1>1, StartFacts
<1>3. NumbersAreRight
  BY <1>1, Numbers
<1>4. /\ stack \in Seq(Sym) /\ Len(stack) \in Nat /\ CountedIn(stack) \subseteq 1 .. Len(stack)
      /\ count_level \in Nat /\ Started(stack) \in Nat /\ Drift \in Nat
      /\ count_level = Started(stack) + Drift
  BY <1>3 DEF NumbersAreRight
<1>5. Started(stack) >= 1
  BY <1>2, <1>4, SomethingStarted
<1>6. count_level \in 1 .. count_level /\ Drift < count_level
  BY <1>4, <1>5
<1>7. ASSUME NEW i \in CountedIn(stack) PROVE Place(stack, i) + Drift <= count_level
  <2>1. i \in Int
    BY <1>4
  <2>2. Place(stack, i) \in Nat /\ Place(stack, i) <= Started(stack)
    BY <1>4, <2>1, PlaceType
  <2>3. QED
    BY <1>4, <2>2
<1>8. Len(stack) \notin CountedIn(stack)
  BY <1>2, <1>4 DEF Tops
<1>9. /\ ctxt_stack[count_level] \in {Holder, Left}
      /\ Drift = 0 => ctxt_stack[count_level] = Holder
  BY <1>6, <1>7, <1>8, ContextAt
<1>10. count_level = Started(stack) => Drift = 0
  BY <1>4
<1>11. QED
  BY <1>9, <1>10 DEF Fits, get_parentctxt

\* Two sections are counted when one ends that is not a record.
LEMMA EndFacts ==
  ASSUME Inv, ContextInv, Ends, ~IsRecord
  PROVE  /\ Len(stack) \in CountedIn(stack)
         /\ Len(stack) - 1 \in CountedIn(stack)
<1>1. Shape(stack) /\ TagInv /\ error_mechanism \in Modes /\ NestInv
  BY DEF Inv, FlagsInv, ContextInv
<1>2. stack \in Seq(Sym) /\ Len(stack) \in Nat /\ DOMAIN stack = 1 .. Len(stack)
  BY <1>1, TopFacts
<1>3. Top \in Counted
  BY DEF Ends, CloseSection, CloseSectionWithError, Counted
<1>4. stack # <<>> /\ Len(stack) # 0 /\ stack[Len(stack)] \in Counted
  BY <1>1, <1>3, TopFacts DEF Counted
<1>5. Len(stack) \in CountedIn(stack)
  BY <1>2, <1>4 DEF CountedIn
<1>6. ~(Len(stack) < 2) /\ Below = stack[Len(stack) - 1] /\ Below # "records"
  BY DEF IsRecord, Below
<1>7. Len(stack) >= 2
  BY <1>2, <1>6
<1>8. Len(stack) # 1 /\ Len(stack) - 1 \in DOMAIN stack
  BY <1>2, <1>7
<1>9. stack[Len(stack) - 1] \in Counted
  BY <1>1, <1>5, <1>6, <1>8 DEF NestInv
<1>10. QED
  BY <1>5, <1>8, <1>9 DEF CountedIn

LEMMA EndFits ==
  ASSUME Inv, ContextInv, end_element
  PROVE  Fits(get_parentctxt(Pop), {Len(stack)})
<1> DEFINE len == Len(stack)
           n == count_level - 1
<1>1. LevelInv
  BY DEF ContextInv
<1>2. len \in CountedIn(stack) /\ len - 1 \in CountedIn(stack) /\ Pop = n
  BY EndFacts DEF end_element, Pop
<1>3. NumbersAreRight
  BY <1>1, Numbers
<1>4. /\ stack \in Seq(Sym) /\ len \in Nat /\ CountedIn(stack) \subseteq 1 .. len
      /\ count_level \in Nat /\ Started(stack) \in Nat /\ Drift \in Nat
      /\ count_level = Started(stack) + Drift
  BY <1>3 DEF NumbersAreRight
<1> HIDE DEF len
<1>5. Place(stack, len) = Started(stack)
  BY <1>2, <1>4, PlaceOfLast
<1>6. ASSUME NEW i \in CountedIn(stack), i < len
      PROVE  Place(stack, i) \in Nat /\ Place(stack, i) + 1 <= Started(stack)
  BY <1>2, <1>4, <1>5, <1>6, PlaceBefore, PlaceType
<1>7. Started(stack) >= 2
  <2>1. len - 1 < len /\ len - 1 \in Int
    BY <1>4
  <2>2. Place(stack, len - 1) + 1 <= Started(stack)
    BY <1>2, <1>6, <2>1
  <2>3. 0 < len - 1
    BY <1>2, <1>4
  <2>4. Place(stack, 0) + 1 <= Place(stack, len - 1)
    BY <1>2, <1>4, <2>1, <2>3, PlaceBefore
  <2>5. Place(stack, 0) \in Nat
    BY <1>4, PlaceType
  <2>6. Place(stack, len - 1) \in Nat
    BY <1>4, <2>1, PlaceType
  <2>7. QED
    BY <1>4, <2>2, <2>4, <2>5, <2>6
<1>8. n \in 1 .. count_level /\ Drift < n
  BY <1>4, <1>7
<1>9. \A i \in CountedIn(stack) : i < len => Place(stack, i) + Drift <= n
  BY <1>4, <1>6
<1> HIDE DEF n
<1>10. /\ ctxt_stack[n] \in {Holder, Left, len}
       /\ Drift = 0 => ctxt_stack[n] # Left
       /\ ctxt_stack[n] = len /\ ctxt_stack[n] # Holder => Place(stack, len) <= n
  BY <1>8, <1>9, ContextAt DEF len
<1>11. Drift = 0 => ~(Place(stack, len) <= n)
  BY <1>4, <1>5 DEF n
<1>12. count_level = Started(stack) => Drift = 0
  BY <1>4
<1>13. QED
  BY <1>2, <1>10, <1>11, <1>12 DEF Fits, get_parentctxt, len

\* Every callback in a record gets a parent context that fits (PARENT, START
\* and POP in gedcom.y, start_element and end_element in interface.c,
\* def_rec_end in gom_internal.c): the one of the nearest open section that
\* has a context, as long as the sections that are counted are those that are
\* open; and never one that was freed at the end of a record, nor one of
\* another open section.
THEOREM ContextsFitAlways == CSpec => ContextsFit
<1>1. ASSUME Inv, ContextInv, [CNext]_cvars
      PROVE  [/\ StartSection /\ ~IsRecord => Fits(get_parentctxt(count_level), {})
              /\ end_element => Fits(get_parentctxt(Pop), {Len(stack)})]_cvars
  BY <1>1, StartFits, EndFits
<1>2. QED
  BY <1>1, ContextInvAlways, PTL DEF CSpec, ContextsFit

\* The parser behaves as it does without callbacks: what is proved of it holds
\* of the sessions with callbacks, too (the callbacks return a context, and no
\* static variable of gedcom.y but ctxt_stack depends on it).
THEOREM ParserIsUnchanged ==
  ASSUME MaxLevel < MaxGedcLevel
  PROVE  CSpec => []TypeOK /\ []CountsMatchSections /\ ErrorsAreHandled
<1>1. Inv /\ [CNext]_cvars => [ErrorStep]_parserVars
  BY StepOfParser, StepHandlesErrors
<1>2. QED
  BY <1>1, InvTypes, InvCounts, ErrorStepIs, ContextInvAlways, PTL DEF CSpec
=============================================================================
