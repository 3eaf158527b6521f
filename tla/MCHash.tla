------------------------------- MODULE MCHash -------------------------------
EXTENDS Hash
MCKeys == 1..9
\* Values that one, two and three bits tell apart, and two keys that none does.
MChkey == <<0, 2, 4, 6, 1, 3, 5, 8, 16>>
\* A bound: the user inserts the least key that is missing.
InOrder(k) == \A l \in MCKeys \ Members(hash) : k <= l
MCNext == /\ Next
          /\ inserts' # inserts => \E k \in Members(hash') \ Members(hash) : InOrder(k)
MCSpec == Init /\ [][MCNext]_vars /\ Fairness
=============================================================================
