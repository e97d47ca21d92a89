------------------------------ MODULE KVIndex ------------------------------
(***************************************************************************)
(* What an index promises its clients: an insert adds its key and a search *)
(* looks whether the key is stored, each at one instant between the call   *)
(* and the return; no key is ever lost.  Nothing else changes the store: a *)
(* background split is invisible.                                          *)
(*                                                                         *)
(* What it does not promise: a search that has found its key goes on to    *)
(* read the value, and may read that of another key.                       *)
(***************************************************************************)
CONSTANTS Key, Client, Work

VARIABLES
  store,   \* the keys stored
  op       \* op[c]: what client c is doing, and with which key

kvars == <<store, op>>

NoOp == [kind |-> "idle"]

KVInit ==
  /\ store \subseteq Key
  /\ op = [c \in Client |-> NoOp]

Become(c, kind) == op' = [op EXCEPT ![c] = [kind |-> kind, key |-> op[c].key]]

KVCall(c) ==
  /\ op[c] = NoOp
  /\ \E k \in Work[c], kind \in {"insert", "search"} :
       op' = [op EXCEPT ![c] = [kind |-> kind, key |-> k]]
  /\ UNCHANGED store

KVInsert(c) ==
  /\ op[c].kind = "insert"
  /\ store' = store \cup {op[c].key}
  /\ Become(c, "inserted")

KVSearch(c) ==
  /\ op[c].kind = "search"
  /\ Become(c, IF op[c].key \in store THEN "reading" ELSE "missing")
  /\ UNCHANGED store

KVRead(c) ==
  /\ op[c].kind = "reading"
  /\ \E kind \in {"found", "other"} : Become(c, kind)
  /\ UNCHANGED store

KVReturn(c) ==
  /\ op[c].kind \in {"inserted", "found", "other", "missing"}
  /\ op' = [op EXCEPT ![c] = NoOp]
  /\ UNCHANGED store

KVNext ==
  \E c \in Client :
    KVCall(c) \/ KVInsert(c) \/ KVSearch(c) \/ KVRead(c) \/ KVReturn(c)

KVSpec == KVInit /\ [][KVNext]_kvars
=============================================================================
