------------------------------- MODULE Table --------------------------------
(***************************************************************************)
(* What a hash table promises to its user: it is a set of keys, and a scan *)
(* hands out every key that it holds, once, although the user may delete   *)
(* the key that the scan has just handed out.                              *)
(***************************************************************************)
EXTENDS FiniteSets

CONSTANTS Keys, NoKey

VARIABLES members, \* the keys in the table
          left,    \* the keys that the scan has not handed out
          found    \* the key handed out by the last lookup or scan, or NoKey

Init == members = {} /\ left = {} /\ found = NoKey

Insert(k) == members' = members \cup {k} /\ found' = NoKey /\ left' = {}
Delete(k) == members' = members \ {k} /\ found' = NoKey /\ left' = {}
Lookup(k) == found' = (IF k \in members THEN k ELSE NoKey) /\ UNCHANGED members /\ left' = {}
ScanBegin == left' = members /\ found' = NoKey /\ UNCHANGED members
ScanNext(k) == k \in left /\ left' = left \ {k} /\ found' = k /\ UNCHANGED members
ScanEnd == left = {} /\ left' = {} /\ found' = NoKey /\ UNCHANGED members
ScanDelete == found # NoKey /\ members' = members \ {found} /\ found' = NoKey /\ UNCHANGED left

Next ==
  \/ \E k \in Keys \ members : Insert(k)
  \/ \E k \in members : Delete(k)
  \/ \E k \in Keys : Lookup(k) \/ ScanNext(k)
  \/ ScanBegin \/ ScanEnd \/ ScanDelete

Spec == Init /\ [][Next]_<<members, left, found>>
=============================================================================
