----------------------------- MODULE MCSobTree -----------------------------
(* TLC instances of SobTree.                                               *)
EXTENDS SobTreeInv

CONSTANTS c1, c2, w1, w2

\* Two clients whose keys interleave: both end up in the same leaves.
Interleaved == [t \in Foreground |-> IF t = c1 THEN {1, 4} ELSE {2, 3, 5}]

\* Enough keys to fill a leaf of four, split it and fill a half again.
Filling == [t \in Foreground |-> IF t = c1 THEN {1, 3, 6} ELSE {2, 4, 5}]

\* The least work that makes a client find the leaf full.
OneFilling == [t \in Foreground |-> IF t = c1 THEN {1, 3, 5} ELSE {2, 4}]

\* Everything: the client chooses the order.
AllKeys == [t \in Foreground |-> Key]

-----------------------------------------------------------------------------
(* A tree of two levels, as inserting 4, 8, .. 28 one at a time leaves it,  *)
(* each background split done before the next insert, with LEAF_KEY_NUM and *)
(* NON_LEAF_KEY_NUM 2: the root and the last inode below it are full.       *)

Loaded ==
  /\ tree_root = <<1, 0>>
  /\ root_level = 1
  /\ ent = [n \in Inode |->
       CASE n = <<0, 0>> -> [k |-> <<8>>, ch |-> <<0, 1>>]
         [] n = <<0, 1>> -> [k |-> <<16>>, ch |-> <<2, 3>>]
         [] n = <<0, 2>> -> [k |-> <<24, 28>>, ch |-> <<4, 5, 6>>]
         [] n = <<1, 0>> -> [k |-> <<12, 20>>, ch |-> <<0, 1, 2>>]
         [] OTHER        -> [k |-> <<>>, ch |-> <<first_lnode>>]]
  /\ ilock = [n \in Inode |-> FALSE]
  /\ ninode = [i \in Level |-> CASE i = 0 -> 3 [] i = 1 -> 1 [] OTHER -> 0]
  /\ nleaf = 7
  /\ meta = [l \in LnodeId |->
       [bitmap |-> IF l < 7 THEN {4 * (l + 1)} ELSE {}, lock |-> FALSE,
        alt |-> IF l < 6 THEN 1 ELSE 0]]
  /\ tail = [l \in LnodeId |->
       [a \in {0, 1} |-> IF a = 1 /\ l < 6 THEN l + 1 ELSE Null]]
  /\ version = [l \in LnodeId |-> IF l < 6 THEN 1 ELSE 0]
  /\ job_queue = {}
  /\ pc = [t \in Thread |-> IF t \in Foreground THEN "idle" ELSE "pop"]
  /\ loc = [t \in Thread |-> NoLocal]

LoadedSpec == Loaded /\ [][Next]_vars

\* Inserts that split the first and the last leaf, the second up to the root.
BothEnds == [t \in Foreground |-> IF t = c1 THEN {2, 30} ELSE {3, 29}]
=============================================================================
