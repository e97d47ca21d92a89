------------------------------ MODULE KVStore ------------------------------
(***************************************************************************)
(* What an index with deletes and range scans promises: every insert,      *)
(* delete, lookup and scan takes effect at one instant between its call    *)
(* and its return, and nothing else changes the keys stored.  A scan       *)
(* returns the keys from its first key up, without a gap, as many as its   *)
(* caller asks for or more, or all there are.                              *)
(***************************************************************************)
EXTENDS Integers, FiniteSets

CONSTANTS Key, Client

VARIABLES
  store,   \* the keys stored
  op       \* op[c]: what client c is doing: kind, key, length, keys scanned

kvars == <<store, op>>

NoOp == [kind |-> "idle"]

KVInit ==
  /\ store \subseteq Key
  /\ op = [c \in Client |-> NoOp]

Become(c, kind, got) ==
  op' = [op EXCEPT ![c] = [op[c] EXCEPT !.kind = kind, !.got = got]]

KVCall(c) ==
  /\ op[c] = NoOp
  /\ \E k \in Key, kind \in {"insert", "delete", "lookup", "scan"},
        len \in 0..Cardinality(Key) :
       op' = [op EXCEPT ![c] = [kind |-> kind, key |-> k, len |-> len,
                                got |-> {}]]
  /\ UNCHANGED store

KVInsert(c) ==
  /\ op[c].kind = "insert"
  /\ store' = store \cup {op[c].key}
  /\ Become(c, "done", {})

KVDelete(c) ==
  /\ op[c].kind = "delete"
  /\ store' = store \ {op[c].key}
  /\ Become(c, "done", {})

KVLookup(c) ==
  /\ op[c].kind = "lookup"
  /\ Become(c, IF op[c].key \in store THEN "found" ELSE "missing", {})
  /\ UNCHANGED store

\* A range read up to some key.
Range(lo, hi) == {k \in store : k >= lo /\ k <= hi}

KVScan(c) ==
  /\ op[c].kind = "scan"
  /\ \E hi \in Key :
       /\ \/ Cardinality(Range(op[c].key, hi)) >= op[c].len
          \/ \A k \in store : k <= hi
       /\ Become(c, "scanned", Range(op[c].key, hi))
  /\ UNCHANGED store

KVReturn(c) ==
  /\ op[c].kind \in {"done", "found", "missing", "scanned"}
  /\ op' = [op EXCEPT ![c] = NoOp]
  /\ UNCHANGED store

KVNext ==
  \E c \in Client :
    \/ KVCall(c) \/ KVInsert(c) \/ KVDelete(c) \/ KVLookup(c) \/ KVScan(c)
    \/ KVReturn(c)

KVSpec == KVInit /\ [][KVNext]_kvars
=============================================================================
