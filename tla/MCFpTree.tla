------------------------------ MODULE MCFpTree ------------------------------
(* TLC instances of FpTree: leaves of three slots, inodes of three keys,   *)
(* trees and calls.  In Sound a leaf keeps the key that a split moves in   *)
(* slot 0, where key_geq looks.                                            *)
EXTENDS FpTree, TLC

O(op, k) == [op |-> op, key |-> k, len |-> 0]
Put(k) == O("put", k)
Del(k) == O("del", k)
Get(k) == O("get", k)
Scan(k, n) == [op |-> "scan", key |-> k, len |-> n]

Blank == [nkeys |-> 0, bitmap |-> {}, ent |-> [s \in Slot |-> NoKey],
          next |-> Null, prev |-> Null]

\* The leaf with the keys of ks, from slot 0, between prev and next.
LeafOf(ks, prev, next) ==
  [nkeys |-> Len(ks), bitmap |-> 0..(Len(ks) - 1),
   ent |-> [s \in Slot |-> IF s < Len(ks) THEN ks[s + 1] ELSE NoKey],
   next |-> next, prev |-> prev]

\* A chain of leaves below one inode, the first of Inode, with separators ks;
\* no inode for one leaf.
I0 == MaxLeaf
TreeOf(leaves, ks) ==
  LET n == Len(leaves) IN
  [root |-> IF n = 1 THEN 0 ELSE I0,
   ver |-> [x \in Node |-> [Clean EXCEPT !.root = x = IF n = 1 THEN 0 ELSE I0]],
   leaf |-> [l \in Leaf |-> IF l < n
               THEN LeafOf(leaves[l + 1], l - 1, IF l = n - 1 THEN Null ELSE l + 1)
               ELSE Blank],
   inode |-> [x \in Inode |-> IF x = I0 /\ n > 1
                THEN [k |-> ks, ch |-> [i \in 1..n |-> i - 1]]
                ELSE [k |-> <<>>, ch |-> <<0>>]],
   parent |-> [x \in Node |-> IF n > 1 /\ x < n THEN I0 ELSE Null],
   made |-> 0..(n - 1) \cup IF n > 1 THEN {I0} ELSE {},
   keys |-> UNION {ToSet(leaves[i]) : i \in 1..n}]

Run(tree, a, b) == [tree |-> tree, prog |-> "a" :> a @@ "b" :> b]

One   == TreeOf(<<<<30, 20, 10>>>>, <<>>)
Two   == TreeOf(<<<<20, 10>>, <<40, 30>>>>, <<30>>)
Three == TreeOf(<<<<10>>, <<20>>, <<30, 25>>>>, <<20, 25>>)
Four  == TreeOf(<<<<30, 20, 10>>, <<40>>, <<50>>, <<90, 80, 60>>>>, <<40, 50, 60>>)

\* One leaf that is the root since another was deleted: it lacks the root bit.
Fallen == [One EXCEPT !.ver[0].root = FALSE]

\* Splits of the root leaf, of leaves below a root with room and of a full
\* root, beside gets and puts in the same leaves (but for the full root);
\* deletes that leave, take away and merge leaves elsewhere; searches that
\* walk to a root without the root bit, which splits, for keys that stay there.
Sound == {
  Run(One,   <<Put(25), Put(15)>>,          <<Get(30), Put(35), Get(20)>>),
  Run(Two,   <<Put(15), Put(17), Get(20)>>, <<Get(20), Put(35), Get(35)>>),
  Run(Two,   <<Del(20), Put(15)>>,          <<Get(20), Del(40), Get(10)>>),
  Run(Four,  <<Put(25), Get(25)>>,          <<Get(60), Put(65), Get(90)>>),
  Run(Three, <<Del(10)>>,                   <<Put(28), Put(22), Get(25)>>),
  Run(Three, <<Del(20), Put(20)>>,          <<Del(25), Get(30)>>),
  Run(Four,  <<Put(25), Del(50), Get(60)>>, <<>>),
  Run(Two,   <<Del(10), Del(20), Put(35)>>, <<>>),
  Run(Fallen, <<Put(35), Get(35)>>,         <<Get(10), Get(20)>>),
  Run(Two,   <<Put(15), Put(17)>>,          <<Scan(10, 4), Scan(30, 1)>>),
  Run(Three, <<Scan(10, 1)>>,               <<Put(12), Scan(20, 3)>>),
  Run(Three, <<Del(20), Del(22)>>,          <<Scan(10, 3)>>) }

\* One thread puts keys in ascending order; a leaf keeps the keys it moves to
\* its right half in its upper slots.
Ascending == {
  Run(TreeOf(<<<<10, 20, 30>>>>, <<>>), <<Put(35), Put(40), Get(30), Get(35)>>, <<>>) }
=============================================================================
