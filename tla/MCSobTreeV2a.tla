---------------------------- MODULE MCSobTreeV2a ----------------------------
(* TLC instances of SobTreeV2a.                                            *)
EXTENDS SobTreeV2a

CONSTANTS c1, c2, w1, w2

-----------------------------------------------------------------------------
(* The index after one client has inserted 5, 7, 8, 4, 2, 1 with           *)
(* LEAF_KEY_NUM 2 while the worker slept: the client had to split leaf 0   *)
(* three times, and the jobs of its first two fillings are in the queue.   *)

Word(keys, a) == [bitmap |-> keys, lock |-> FALSE, alt |-> a]

LaggedInit ==
  /\ tree_root = <<0, 0>>
  /\ root_level = 0
  /\ ent = [n \in Inode |-> IF n = <<0, 0>>
                              THEN [k |-> <<4, 5, 7>>, ch |-> <<0, 3, 2, 1>>]
                              ELSE [k |-> <<>>, ch |-> <<first_lnode>>]]
  /\ ilock = [n \in Inode |-> FALSE]
  /\ ninode = [i \in Level |-> IF i = 0 THEN 1 ELSE 0]
  /\ meta = [l \in LnodeId |->
               CASE l = 0 -> Word({1, 2}, 1) [] l = 1 -> Word({7, 8}, 0)
                 [] l = 2 -> Word({5}, 0)    [] l = 3 -> Word({4}, 0)
                 [] OTHER -> NoMeta]
  /\ tail = [l \in LnodeId |-> [a \in {0, 1} |->
               CASE l = 0 -> IF a = 0 THEN 2 ELSE 3
                 [] l = 2 /\ a = 0 -> 1 [] l = 3 /\ a = 0 -> 2
                 [] OTHER -> Null]]
  /\ version = [l \in LnodeId |-> IF l = 0 THEN 3 ELSE 0]
  /\ nleaf = 4
  /\ job_queue = {}
  /\ jobs = {<<0, 0, Word({5, 7}, 0)>>, <<0, 1, Word({4, 5}, 1)>>}
  /\ old_word = [w \in Worker |-> NoMeta]
  /\ pc = [t \in Thread |-> IF t \in Foreground THEN "idle" ELSE "pop"]
  /\ loc = [t \in Thread |-> NoLocal]

\* Started empty, or with the worker behind.
StartedSpec ==
  (InitV2a \/ LaggedInit) /\ [][NextV2a]_varsV2a /\ FairnessV2a

\* Two clients whose keys split leaf 0 and the last leaf, and fill another.
Around == [t \in Foreground |-> IF t = c1 THEN {3, 6} ELSE {2, 9}]
=============================================================================
