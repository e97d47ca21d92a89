------------------------------ MODULE MCLbTree ------------------------------
(* TLC instances of LbTree: programs and initial trees, with leaves of     *)
(* three slots, the first of them line 0, and bnodes of two keys.          *)
EXTENDS LbTreeInv, TLC

Lines3 == 1 :> 2 @@ 2 :> 2

O(op, k) == [op |-> op, key |-> k, len |-> 0]
Ins(k)   == O("insert", k)
Upd(k)   == O("update", k)
Del(k)   == O("delete", k)
Get(k)   == O("lookup", k)
ScanFrom(k, n) == [op |-> "scan", key |-> k, len |-> n]

Blank == [bitmap |-> {}, lock |-> FALSE, alt |-> 0,
          ent |-> [s \in Slot |-> NoKey], next |-> [a \in {0, 1} |-> Null]]

\* Slots 0, 1 and 2 hold a, b and c, those of m in use.
LeafOf(m, a, b, c, alt, next) ==
  [bitmap |-> m, lock |-> FALSE, alt |-> alt,
   ent |-> [s \in Slot |-> CASE s = 0 -> a [] s = 1 -> b [] OTHER -> c],
   next |-> [x \in {0, 1} |-> IF x = alt THEN next ELSE Null]]
NodeOf(k, ch) == [k |-> k, ch |-> ch, lock |-> FALSE]

TreeOf(root, leaves, bnodes) ==
  [root |-> root, first |-> 0,
   leaf |-> [l \in Num |-> IF l < Len(leaves) THEN leaves[l + 1] ELSE Blank],
   bnode |-> [n \in (Level \ {0}) \X Num |->
                IF n \in DOMAIN bnodes THEN bnodes[n] ELSE NodeOf(<<>>, <<0>>)],
   used |-> ({0} \X (0..(Len(leaves) - 1))) \cup DOMAIN bnodes]

NoNodes == [n \in {} |-> NodeOf(<<>>, <<0>>)]

\* The trees after inserting 10, 20, .. 30 and .. 60 in order.
Tree3 == TreeOf(<<0, 0>>, <<LeafOf({0, 1, 2}, 30, 20, 10, 0, Null)>>, NoNodes)
Tree6 ==
  TreeOf(<<2, 0>>,
    <<LeafOf({2}, 30, 20, 10, 1, 1), LeafOf({1}, 40, 20, 30, 1, 2),
      LeafOf({1}, 50, 30, 40, 1, 3), LeafOf({0, 1, 2}, 60, 40, 50, 0, Null)>>,
    <<1, 0>> :> NodeOf(<<20>>, <<0, 1>>) @@ <<1, 1>> :> NodeOf(<<40>>, <<2, 3>>)
    @@ <<2, 0>> :> NodeOf(<<30>>, <<0, 1>>))

Run(tree, a, b, c) ==
  [tree |-> tree, prog |-> "a" :> a @@ "b" :> b @@ "c" :> c]

Sound == {
  \* The leaf that is the root splits, then leaves and the bnode above them.
  Run(Tree3, <<Ins(40), Ins(50), Del(60)>>,
             <<Ins(25), ScanFrom(20, 3), Upd(30)>>, <<Ins(35), Get(15)>>),
  \* Neighbouring leaves are emptied and filled, on both sides of a bnode
  \* boundary, while a scan passes and a leaf splits.
  Run(Tree6, <<Del(20), Ins(65), Get(40)>>,
             <<Del(30), ScanFrom(10, 3), Ins(15)>>, <<Ins(20), Get(30)>>),
  \* The root loses the left subtree, and the tree shrinks by a level, beside
  \* a split in the right one.
  Run(Tree6, <<Del(10), Del(20), Ins(20)>>,
             <<Ins(70), ScanFrom(10, 4)>>, <<Get(30), Del(40), Ins(10)>>) }
=============================================================================
