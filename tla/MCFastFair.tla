----------------------------- MODULE MCFastFair -----------------------------
(* TLC instances of FastFair: programs and initial trees.                  *)
EXTENDS FastFair, TLC

O(op, k) == [op |-> op, key |-> k, max |-> 0, len |-> 0]
Ins(k)   == O("insert", k)
Del(k)   == O("delete", k)
Upd(k)   == O("update", k)
Get(k)   == O("search", k)
Range(lo, hi)  == [op |-> "range", key |-> lo, max |-> hi, len |-> 0]
Range2(lo, n)  == [op |-> "range2", key |-> lo, max |-> 0, len |-> n]

\* A page of four records; a split leaves a record above its terminator.
PageOf(lev, left, sib, sc, n, ks, ps) ==
  [leftmost |-> left, sibling |-> sib, level |-> lev, sc |-> sc,
   last |-> n - 1, key |-> [i \in 0..3 |-> ks[i + 1]],
   ptr |-> [i \in 0..3 |-> ps[i + 1]]]
Cut(sib, a, b, c) ==
  PageOf(0, Null, sib, 2, 1, <<a, b, c, Infinity>>, <<a, Null, c, Null>>)
Full(a, b, c) ==
  PageOf(0, Null, Null, 0, 3, <<a, b, c, Infinity>>, <<a, b, c, Null>>)
Tree(pages) ==
  [p \in PageId |-> IF -p \in DOMAIN pages THEN pages[-p] ELSE EmptyPage]

\* Inserting 4, 6, 8, then 10 leaves these trees, then 12 and 14 the last.
Tree3 == <<Full(4, 6, 8)>>
Root1 == PageOf(1, -1, Null, 0, 1, <<6, Infinity, Infinity, Infinity>>,
                <<-2, Null, Null, Null>>)
Tree4 == <<Cut(-2, 4, 6, 8), Full(6, 8, 10), Root1>>
Root3 == PageOf(1, -1, Null, 0, 3, <<6, 8, 10, Infinity>>, <<-2, -4, -5, Null>>)
Tree6 == <<Cut(-2, 4, 6, 8), Cut(-4, 6, 8, 10), Root3,
           Cut(-5, 8, 10, 12), Full(10, 12, 14)>>

Run(pages, a, b) ==
  [prog |-> "a" :> a @@ "b" :> b, pages |-> Tree(pages), count |-> Len(pages)]

Sound == {
  \* A leaf fills and splits while the other thread searches and scans it.
  Run(Tree3, <<Ins(5)>>, <<Get(6), Range(3, 6), Range2(4, 9)>>),
  \* Two splits that climb to a full root.
  Run(Tree6, <<Ins(16)>>, <<Ins(15), Ins(18)>>),
  \* Deletes and inserts in one leaf, each shifting what the other searches.
  Run(Tree4, <<Del(8), Ins(9)>>, <<Del(6), Get(10)>>),
  \* Scans that start at a page read from the right, after or beside a delete,
  \* and beside the insert that makes its counter even again.
  Run(Tree3, <<Del(6), Ins(5)>>, <<Range2(3, 9)>>),
  Run(Tree4, <<Del(8), Range(6, 16)>>, <<Range2(6, 9)>>),
  \* A leaf is emptied, filled and updated while it is searched.
  Run(Tree4, <<Del(4), Ins(5)>>, <<Get(5), Upd(10), Get(4)>>) }
=============================================================================
