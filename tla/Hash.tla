-------------------------------- MODULE Hash --------------------------------
(***************************************************************************)
(* The extendible hash table of the cross-references (gedcom/hash.c).  A   *)
(* key stands for its node; a chain is the sequence of its nodes.  The     *)
(* table has a power of two of chains, so that a hash value ANDed with the *)
(* mask is its remainder.                                                  *)
(***************************************************************************)
EXTENDS Integers, Sequences, FiniteSets, SequencesExt

CONSTANTS Keys,
          NoKey,    \* a null pointer to a node
          hkey,     \* the hash values of the keys
          InitSize, \* INIT_SIZE, the chains of a new table
          MaxCount, \* the most keys that the table may hold
          Inserts   \* the number of insertions

ASSUME HashAssumption ==
  /\ NoKey \notin Keys /\ hkey \in [Keys -> Nat]
  /\ InitSize \in Nat /\ \E n \in 1..InitSize : InitSize = 2^n
  /\ InitSize > 0 /\ InitSize % 2 = 0 \* which the power of two is
  /\ MaxCount \in Nat /\ Inserts \in Nat

VARIABLES
  hash,    \* the hash_t: its chains, counts and marks
  scan,    \* the hscan_t: the chain of the next node, and that node
  mode,    \* what the user does: "calls", "scan", "free"
  node,    \* the node returned by the last lookup or scan
  inserts  \* insertions so far

vars == <<hash, scan, mode, node, inserts>>

NoScan == [chain |-> 0, next |-> NoKey]

nchains(h) == Len(h.table)
ChainOf(h, k) == hkey[k] % nchains(h) \* 0, 1, ...
Chain(h, c) == h.table[c + 1]
Members(h) == UNION {ToSet(h.table[i]) : i \in DOMAIN h.table}

\* (Variant: the marks stay.)
NewMarksKept(h, size) == [low |-> h.lowmark, high |-> h.highmark]
NewMarks(h, size) ==
  IF size > nchains(h) THEN [low |-> 2 * h.lowmark, high |-> 2 * h.highmark]
  ELSE [low |-> h.lowmark \div 2, high |-> h.highmark \div 2]
Resized(h, table) ==
  LET marks == NewMarks(h, Len(table))
  IN [h EXCEPT !.table = table, !.lowmark = marks.low, !.highmark = marks.high]

\* The nodes at some places of a chain, in reverse: node j is the j-th from
\* the end.
Reversed(chain, places) ==
  LET FromEnd(p) == Cardinality({q \in places : q >= p})
  IN [j \in 1..Cardinality(places) |-> chain[CHOOSE p \in places : FromEnd(p) = j]]

\* Every chain is split by one more bit of the hash values, each half in
\* reverse.
grow_table(h) ==
  LET n == nchains(h)
      Source(i) == h.table[((i - 1) % n) + 1]
      Half(i) == {j \in DOMAIN Source(i) : hkey[Source(i)[j]] % (2 * n) = i - 1}
  IN Resized(h, [i \in 1..2 * n |-> Reversed(Source(i), Half(i))])

\* (Variant: the upper chain is only taken when the lower one is empty.)
ShrinkLosingTail(h) ==
  LET n == nchains(h) \div 2
  IN Resized(h, [i \in 1..n |-> IF h.table[i] = <<>> THEN h.table[i + n] ELSE h.table[i]])
shrink_table(h) ==
  LET n == nchains(h) \div 2
  IN Resized(h, [i \in 1..n |-> h.table[i] \o h.table[i + n]])

PlaceOf(k, chain) == CHOOSE i \in DOMAIN chain : chain[i] = k
Without(k, chain) ==
  [j \in 1..Len(chain) - 1 |-> IF j < PlaceOf(k, chain) THEN chain[j] ELSE chain[j + 1]]
Removed(h, k) == [h EXCEPT !.table[ChainOf(h, k) + 1] = Without(k, @), !.nodecount = @ - 1]

\* The first node of the first chain from c on that has one.
FirstFrom(h, c) ==
  LET Nonempty == {d \in c..nchains(h) - 1 : Chain(h, d) # <<>>}
      d == CHOOSE d \in Nonempty : \A e \in Nonempty : d <= e
  IN IF Nonempty = {} THEN [scan EXCEPT !.next = NoKey]
     ELSE [chain |-> d, next |-> Chain(h, d)[1]]
\* (Variant: the last node of a chain is linked to the first.)
ChainIsARing(h, k) ==
  LET chain == Chain(h, ChainOf(h, k))
      i == PlaceOf(k, chain)
  IN IF Len(chain) > 1 THEN [scan EXCEPT !.next = chain[(i % Len(chain)) + 1]]
     ELSE FirstFrom(h, scan.chain + 1)
NodeAfter(h, k) ==
  LET chain == Chain(h, ChainOf(h, k))
      i == PlaceOf(k, chain)
  IN IF i < Len(chain) THEN [scan EXCEPT !.next = chain[i + 1]] ELSE FirstFrom(h, scan.chain + 1)

-----------------------------------------------------------------------------
\* hash_create; hash_init, whose table never grows or shrinks, is not used
\* by the library.
Init ==
  /\ hash = [table |-> [i \in 1..InitSize |-> <<>>], nodecount |-> 0,
             highmark |-> InitSize * 2, lowmark |-> InitSize \div 2]
  /\ scan = NoScan
  /\ mode = "calls"
  /\ node = NoKey
  /\ inserts = 0

Shrinks(h) == h.nodecount <= h.lowmark /\ h.nodecount > InitSize

\* The allocation may fail, and the table then stays as large as it is.
hash_insert(k) ==
  /\ mode = "calls" /\ inserts < Inserts
  /\ k \notin Members(hash) /\ hash.nodecount < MaxCount
  /\ \E allocated \in BOOLEAN :
       LET grown == IF hash.nodecount >= hash.highmark /\ allocated THEN grow_table(hash) ELSE hash
       IN hash' = [grown EXCEPT !.table[ChainOf(grown, k) + 1] = <<k>> \o @, !.nodecount = @ + 1]
  /\ node' = NoKey
  /\ inserts' = inserts + 1
  /\ UNCHANGED <<scan, mode>>

hash_delete(k) ==
  /\ mode = "calls"
  /\ k \in Members(hash)
  /\ hash' = Removed(IF Shrinks(hash) THEN shrink_table(hash) ELSE hash, k)
  /\ node' = NoKey
  /\ UNCHANGED <<scan, mode, inserts>>

hash_lookup(k) ==
  /\ mode = "calls"
  /\ node' = IF k \in ToSet(Chain(hash, ChainOf(hash, k))) THEN k ELSE NoKey
  /\ UNCHANGED <<hash, scan, mode, inserts>>

\* A scan of the user, or hash_free_nodes, which deletes as it goes.
hash_scan_begin(for) ==
  /\ mode = "calls"
  /\ scan' = FirstFrom(hash, 0)
  /\ mode' = for
  /\ node' = NoKey
  /\ UNCHANGED <<hash, inserts>>

hash_scan_next ==
  /\ mode \in {"scan", "free"}
  /\ mode = "free" => node = NoKey
  /\ scan.next # NoKey
  /\ node' = scan.next
  /\ scan' = NodeAfter(hash, scan.next)
  /\ UNCHANGED <<hash, mode, inserts>>

\* Without a check of the size.
hash_scan_delete ==
  /\ mode \in {"scan", "free"} /\ node # NoKey
  /\ hash' = Removed(hash, node)
  /\ node' = NoKey
  /\ UNCHANGED <<scan, mode, inserts>>

EndScan ==
  /\ mode \in {"scan", "free"} /\ scan.next = NoKey
  /\ mode = "free" => node = NoKey
  /\ hash' = IF mode = "free" THEN [hash EXCEPT !.nodecount = 0, !.table = [i \in DOMAIN @ |-> <<>>]]
             ELSE hash
  /\ scan' = NoScan /\ mode' = "calls" /\ node' = NoKey
  /\ UNCHANGED inserts

Next ==
  \/ \E k \in Keys : hash_insert(k) \/ hash_delete(k) \/ hash_lookup(k)
  \/ hash_scan_begin("scan") \/ hash_scan_begin("free")
  \/ hash_scan_next \/ hash_scan_delete \/ EndScan

\* The loop of a scan is in one function, which is not left before its end.
Fairness == /\ WF_vars(hash_scan_next \/ EndScan)
            /\ WF_vars(mode = "free" /\ hash_scan_delete)
Spec == Init /\ [][Next]_vars /\ Fairness

-----------------------------------------------------------------------------
\* hash_verify: every node is in the chain of its hash value, once, and the
\* nodes are counted.
TypeOK ==
  /\ \A i \in DOMAIN hash.table : \A j \in DOMAIN hash.table[i] : ChainOf(hash, hash.table[i][j]) = i - 1
  /\ \A i \in DOMAIN hash.table : \A j, l \in DOMAIN hash.table[i] :
       hash.table[i][j] = hash.table[i][l] => j = l
  /\ hash.nodecount = Cardinality(Members(hash))
  /\ hash.lowmark < hash.highmark /\ hash.highmark = 2 * nchains(hash)
  /\ nchains(hash) >= InitSize
  /\ mode \in {"calls", "scan", "free"} /\ scan.chain \in 0..nchains(hash) - 1
  /\ {node, scan.next} \subseteq Members(hash) \cup {NoKey} /\ inserts \in 0..Inserts

\* The nodes that the scan has still to return: those after its position.
Left ==
  IF scan.next = NoKey THEN {}
  ELSE LET chain == Chain(hash, scan.chain)
       IN {chain[i] : i \in PlaceOf(scan.next, chain)..Len(chain)}
            \cup UNION {ToSet(Chain(hash, c)) : c \in scan.chain + 1..nchains(hash) - 1}

\* Whatever grows, shrinks or fails to, the table is a set of keys to its
\* user, and a scan returns every key once.
IsATable == INSTANCE Table WITH members <- Members(hash), left <- Left, found <- node
RefinesTable == IsATable!Spec

\* A scan, and the freeing of a table, always end.
ScansEnd == mode # "calls" ~> mode = "calls"
=============================================================================
