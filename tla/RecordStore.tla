----------------------------- MODULE RecordStore ----------------------------
(***************************************************************************)
(* What the object model promises about its records, without a table, use  *)
(* counts or pointers: a reference always leads to a record, a record is   *)
(* only deleted when nothing refers to it ("Note that records cannot be    *)
(* deleted if there are still referenced"), and a call that is refused     *)
(* changes nothing ("in this case, the data variable is not changed").     *)
(* Module Gom implements it.                                               *)
(***************************************************************************)
CONSTANTS Key, RefType, Field, OwnerType, NULL

VARIABLES
  recs,   \* the records, as pairs of key and type
  ref,    \* the key that each field of each key refers to, or NULL
  outcome \* of the last call: "ok" or "refused"

Cell == Key \X Field

Exists(k) == \E t \in RefType : <<k, t>> \in recs

Init ==
  /\ recs = {}
  /\ ref = [c \in Cell |-> NULL]
  /\ outcome = "ok"

\* Another file is loaded.
Clear ==
  /\ recs' = {}
  /\ ref' = [c \in Cell |-> NULL]

Create(k, t) ==
  /\ ~Exists(k)
  /\ recs' = recs \cup {<<k, t>>}
  /\ UNCHANGED ref

\* A field of a record refers to k from now on; a file may mention k, and so
\* bring it into being, before its record comes.
Refer(c, k) ==
  /\ <<c[1], OwnerType[c[2]]>> \in recs
  /\ ref' = [ref EXCEPT ![c] = k]
  /\ \/ /\ Exists(k)
        /\ UNCHANGED recs
     \/ /\ ~Exists(k)
        /\ \E t \in RefType : recs' = recs \cup {<<k, t>>}

Release(c) ==
  /\ ref' = [ref EXCEPT ![c] = NULL]
  /\ UNCHANGED recs

Delete(k, t) ==
  /\ \A c \in Cell : ref[c] # k
  /\ recs' = recs \ {<<k, t>>}
  /\ ref' = [c \in Cell |-> IF c[1] = k THEN NULL ELSE ref[c]]

Change ==
  \/ Clear
  \/ \E k \in Key, t \in RefType : Create(k, t) \/ Delete(k, t)
  \/ \E c \in Cell, k \in Key : Refer(c, k)
  \/ \E c \in Cell : Release(c)

\* A call that is refused, or one that has nothing to change.
Keep == UNCHANGED <<recs, ref>>

Next ==
  \/ outcome' = "ok" /\ (Change \/ Keep)
  \/ outcome' = "refused" /\ Keep

Spec == Init /\ [][Next]_<<recs, ref, outcome>>
=============================================================================
