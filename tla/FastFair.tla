------------------------------ MODULE FastFair ------------------------------
(***************************************************************************)
(* The fast_fair baseline (fast_fair/btree.h): a B+-tree whose writers     *)
(* shift the entries of a page one 8-byte store at a time under the page's *)
(* mutex, while readers walk the pages with no lock at all.                *)
(*                                                                         *)
(* Granularity.  Every load and every store of a page another thread may   *)
(* be using is an action; x86 keeps the stores of one thread in order and  *)
(* the clflush calls between them stop the compiler.  What a writer only   *)
(* reads from the page it holds is part of the action that uses it.        *)
(*                                                                         *)
(* Data.  Pages are negative integers, keys and values positive ones (the  *)
(* pointers of the code are either); the value stored with a key is the    *)
(* key, as test/interface.h stores it.  is_deleted is never set and is     *)
(* left out.                                                               *)
(***************************************************************************)
EXTENDS Integers, Sequences, FiniteSets

CONSTANTS
  Key,           \* positive integers: keys, and the values stored with them
  Thread,
  Workload,      \* what is run: [prog, pages, count]; prog[t] the calls of t,
                 \* pages and count the initial tree
  cardinality,   \* records of a page
  SwitchMod,     \* switch_counter wraps here, 2^8 in the code
  MaxPage        \* bound: pages the pool can hold

Null    == 0
PageId  == {-p : p \in 1..MaxPage}
Infinity == 1000                       \* LONG_MAX of an unused entry
Slot    == 0..(cardinality - 1)

\* Operations: [op, key, max, len]; max and len are those of the scans.
OpKind == {"insert", "update", "search", "delete", "range", "range2"}

Operation == [op : OpKind, key : Key, max : Nat, len : Nat]

ASSUME FastFairConstants ==
  /\ Key \subseteq 1..(Infinity - 1)
  /\ "none" \notin Thread
  /\ cardinality \in Nat /\ cardinality > 3
  /\ MaxPage \in Nat \ {0}
  /\ SwitchMod \in Nat \ {0} /\ SwitchMod % 2 = 0

\* A run starts from a tree the calls of the code build: levels fit, the
\* records of an internal page end with a null pointer and its counter is
\* even, and only the root is at the highest level.
WellFormed(w) ==
  LET Made == {p \in PageId : -p <= w.count} IN
  /\ w.count \in 1..MaxPage
  /\ w.prog \in [Thread -> Seq(Operation)]
  /\ DOMAIN w.pages = PageId
  /\ \A p \in Made :
       LET pg == w.pages[p] IN
       /\ pg \in [leftmost : Made \cup {Null}, sibling : Made \cup {Null},
                  level : Nat, sc : 0..(SwitchMod - 1),
                  last : -1..(cardinality - 1),
                  key : [Slot -> Key \cup {Infinity}],
                  ptr : [Slot -> Made \cup Key \cup {Null}]]
       /\ pg.leftmost = Null <=> pg.level = 0
       /\ pg.sibling # p
       /\ pg.sibling # Null => w.pages[pg.sibling].level = pg.level
       /\ pg.level > 0 =>
            /\ pg.sc % 2 = 0 /\ pg.ptr[cardinality - 1] = Null
            /\ \A c \in {pg.leftmost} \cup {pg.ptr[i] : i \in Slot} : c # Null =>
                 c \in Made /\ w.pages[c].level = pg.level - 1
  /\ \E r \in Made : \A p \in Made \ {r} : w.pages[p].level < w.pages[r].level

ASSUME WorkloadOK == \A w \in Workload : WellFormed(w)

VARIABLES
  work,     \* the member of Workload that runs
  page,     \* page[p]: header and records
  root, npages,
  mtx,      \* mtx[p]: the thread that holds hdr.mtx, or "none"
  pc, loc,  \* control point and local variables of each thread
  hist,     \* hist[k]: begins and ends of calls that write k so far
  present   \* keys the completed calls have left in the tree

shared == <<page, root, npages, mtx>>
ghost  == <<work, hist, present>>
vars   == <<page, root, npages, mtx, pc, loc, work, hist, present>>

-----------------------------------------------------------------------------
EmptyPage == [leftmost |-> Null, sibling |-> Null, level |-> 0, sc |-> 0,
              last |-> -1, key |-> [i \in Slot |-> Infinity],
              ptr |-> [i \in Slot |-> Null]]

NoLocal == [n |-> 0, key |-> 0, val |-> Null, p |-> Null, sc |-> 0, i |-> 0,
            k |-> 0, q |-> Null, t |-> Null, ret |-> Null, cnt |-> 0,
            csc |-> 0, target |-> 0, ip |-> Null, num |-> 0, newp |-> Null,
            split |-> 0, first |-> Null, buf |-> <<>>, got |-> <<>>,
            seen |-> <<>>]

Init ==
  /\ work \in Workload
  /\ page = work.pages
  /\ npages = work.count
  /\ root = CHOOSE p \in PageId : /\ -p <= npages
                                  /\ \A q \in PageId : -q <= npages =>
                                       page[q].level <= page[p].level
  /\ mtx = [p \in PageId |-> "none"]
  /\ pc = [t \in Thread |-> "idle"]
  /\ loc = [t \in Thread |-> NoLocal]
  /\ hist = [k \in Key |-> 0]
  /\ present = {page[p].ptr[i] : p \in {q \in PageId : page[q].level = 0},
                                 i \in Slot} \ {Null}

IsForward(sc) == sc % 2 = 0
IsLeaf(p)     == page[p].leftmost = Null
\* The pointer left of entry i.
LeftPtr(p, i) == IF i = 0 THEN page[p].leftmost ELSE page[p].ptr[i - 1]

Goto(t, label) == pc' = [pc EXCEPT ![t] = label]
Op(t)     == work.prog[t][loc[t].n]
IsScan(t) == Op(t).op \in {"range", "range2"}
Writes(o) == o.op \in {"insert", "delete"}

-----------------------------------------------------------------------------
(* Calls.                                                                  *)

Call(t) ==
  LET o == work.prog[t][loc[t].n + 1] IN
  /\ pc[t] = "idle"
  /\ loc[t].n < Len(work.prog[t])
  /\ hist' = IF Writes(o) THEN [hist EXCEPT ![o.key] = @ + 1] ELSE hist
  /\ loc' = [loc EXCEPT ![t] = [NoLocal EXCEPT
               !.n = loc[t].n + 1, !.key = o.key, !.val = o.key, !.p = root,
               !.seen = [h |-> hist, here |-> present]]]
  /\ Goto(t, IF IsLeaf(root) /\ o.op \in {"insert", "update"}
               THEN "lock" ELSE "begin")
  /\ UNCHANGED <<shared, work, present>>

Return(t) ==
  LET o == Op(t) IN
  /\ pc[t] = "ret"
  /\ hist' = IF Writes(o) THEN [hist EXCEPT ![o.key] = @ + 1] ELSE hist
  /\ present' = CASE o.op = "insert" -> present \cup {o.key}
                  [] o.op = "delete" -> present \ {o.key}
                  [] OTHER -> present
  /\ loc' = [loc EXCEPT ![t] = [NoLocal EXCEPT !.n = loc[t].n]]
  /\ Goto(t, "idle")
  /\ UNCHANGED <<shared, work>>

-----------------------------------------------------------------------------
(* Reading a page: the loops of linear_search and of the range searches.   *)

\* Records are read from the left under an even switch counter, from the
\* right, from count() down, under an odd one.
BeginPage(t) ==
  /\ pc[t] = "begin"
  /\ loc' = [loc EXCEPT ![t].sc = page[loc[t].p].sc, ![t].ret = Null,
                        ![t].i = 0, ![t].buf = <<>>,
                        ![t].first = IF @ = Null THEN loc[t].p ELSE @]
  /\ Goto(t, IF IsForward(page[loc[t].p].sc) THEN "key" ELSE "count")
  /\ UNCHANGED <<shared, ghost>>

\* The range searches call count() of the page they started from, whatever
\* page they have come to.
CountedPage(t) == IF IsScan(t) /\ IsLeaf(loc[t].p) THEN loc[t].first
                                                   ELSE loc[t].p

\* count(), one load at a time, against the writer of the page.
Count(t) ==
  LET pg == page[CountedPage(t)]
      c  == loc[t].cnt
  IN
  /\ \/ /\ pc[t] = "count"
        /\ loc' = [loc EXCEPT ![t].csc = pg.sc]
        /\ Goto(t, "clast")
     \/ /\ pc[t] = "clast"
        /\ loc' = [loc EXCEPT ![t].cnt = pg.last + 1]
        /\ Goto(t, "cwalk")
     \/ /\ pc[t] = "cwalk"
        /\ \/ /\ c >= 0 /\ pg.ptr[c] # Null
              /\ loc' = [loc EXCEPT ![t].cnt =
                           IF IsForward(loc[t].csc) THEN @ + 1 ELSE @ - 1]
              /\ UNCHANGED pc
           \/ /\ c >= 0 /\ pg.ptr[c] = Null
              /\ Goto(t, "ccheck")
              /\ UNCHANGED loc
           \/ /\ c < 0
              /\ loc' = [loc EXCEPT ![t].cnt = 0]
              /\ Goto(t, "cup")
     \/ /\ pc[t] = "cup"
        /\ loc' = [loc EXCEPT ![t].cnt = IF pg.ptr[c] = Null THEN @ ELSE @ + 1]
        /\ Goto(t, IF pg.ptr[c] = Null THEN "ccheck" ELSE "cup")
     \/ /\ pc[t] = "ccheck"
        /\ IF pg.sc # loc[t].csc
             THEN Goto(t, "count") /\ UNCHANGED loc
             ELSE /\ loc' = [loc EXCEPT ![t].i = IF c = 0 THEN 0 ELSE c - 1]
                  /\ Goto(t, IF c = 0 /\ ~IsLeaf(loc[t].p) THEN "check"
                                                           ELSE "key")
  /\ UNCHANGED <<shared, ghost>>

\* The next record to look at, or the end of the loop.
Advance(t, l) ==
  IF IsForward(l.sc)
    THEN /\ loc' = [loc EXCEPT ![t] = [l EXCEPT !.i = @ + 1]]
         /\ Goto(t, "cond")
    ELSE /\ loc' = [loc EXCEPT ![t] = [l EXCEPT !.i = @ - 1]]
         /\ Goto(t, IF l.i = 0 THEN "check" ELSE "key")

\* The loop condition of a walk from the left.  An internal page's last
\* child is read once more.
Cond(t) ==
  LET pg == page[loc[t].p] IN
  /\ pc[t] = "cond"
  /\ Goto(t, IF pg.ptr[loc[t].i] # Null THEN "key"
             ELSE IF IsLeaf(loc[t].p) THEN "check" ELSE "lastchild")
  /\ UNCHANGED <<shared, ghost, loc>>

LastChild(t) ==
  /\ pc[t] = "lastchild"
  /\ loc' = [loc EXCEPT ![t].ret = page[loc[t].p].ptr[loc[t].i - 1]]
  /\ Goto(t, "check")
  /\ UNCHANGED <<shared, ghost>>

\* Whether the key just read makes the reader look at the record's pointer.
LeafWants(t, k) == k = loc[t].key
InnerWants(t, k) ==
  IF IsForward(loc[t].sc) THEN loc[t].key < k ELSE loc[t].key >= k
RangeWants(t, k)  == k > loc[t].key /\ k < Op(t).max
Range2Wants(t, k) == k > loc[t].key

Wants(t, k) ==
  CASE ~IsLeaf(loc[t].p)    -> InnerWants(t, k)
    [] Op(t).op = "range"   -> RangeWants(t, k)
    [] Op(t).op = "range2"  -> Range2Wants(t, k)
    [] OTHER                -> LeafWants(t, k)

\* linear_search_range returns at the first key beyond max, with what it has.
PastMax(t, k) == IsLeaf(loc[t].p) /\ Op(t).op = "range" /\ k >= Op(t).max

ReadKey(t) ==
  LET k == page[loc[t].p].key[loc[t].i] IN
  /\ pc[t] = "key"
  /\ IF PastMax(t, k)
       THEN /\ loc' = [loc EXCEPT ![t].got = @ \o loc[t].buf]
            /\ Goto(t, "ret")
     ELSE IF Wants(t, k)
       THEN /\ loc' = [loc EXCEPT ![t].k = k]
            /\ Goto(t, "pair")
       ELSE Advance(t, loc[t])
  /\ UNCHANGED <<shared, ghost>>

\* The pointers of a record and of its left neighbour, loaded in either
\* order: equal pointers mean that the entry is being shifted.
ReadPair(t) ==
  LET p == loc[t].p
      i == loc[t].i
  IN
  /\ \/ /\ pc[t] \in {"pair", "pairleft"}
        /\ loc' = [loc EXCEPT ![t].q = LeftPtr(p, i)]
        /\ Goto(t, IF pc[t] = "pair" THEN "pairright" ELSE "judge")
     \/ /\ pc[t] \in {"pair", "pairright"}
        /\ loc' = [loc EXCEPT ![t].t = page[p].ptr[i]]
        /\ Goto(t, IF pc[t] = "pair" THEN "pairleft" ELSE "judge")
  /\ UNCHANGED <<shared, ghost>>

Settled(t) == loc[t].q # loc[t].t

\* linear_search of a leaf: the key is read again after the pointers.  A
\* found pointer ends the walk.
LeafJudge(t) ==
  LET l == loc[t] IN
  IF /\ Settled(t)
     /\ page[l.p].key[l.i] = l.k
     /\ IsForward(l.sc) \/ l.t # Null
    THEN /\ loc' = [loc EXCEPT ![t].ret = l.t]
         /\ Goto(t, "check")
    ELSE Advance(t, l)

\* linear_search of an internal page: from the left the child left of the
\* first greater key, from the right the child of the first key not greater.
InnerJudge(t) ==
  LET l == loc[t] IN
  IF Settled(t)
    THEN /\ loc' = [loc EXCEPT ![t].ret = IF IsForward(l.sc) THEN l.q ELSE l.t]
         /\ Goto(t, "check")
    ELSE Advance(t, l)

RangeJudge(t) ==
  LET l == loc[t] IN
  IF Settled(t) /\ page[l.p].key[l.i] = l.k /\ l.t # Null
    THEN Advance(t, [l EXCEPT !.buf = Append(@, l.t)])
    ELSE Advance(t, l)

Judge(t) ==
  /\ pc[t] = "judge"
  /\ IF ~IsLeaf(loc[t].p) THEN InnerJudge(t)
     ELSE IF IsScan(t) THEN RangeJudge(t) ELSE LeafJudge(t)
  /\ UNCHANGED <<shared, ghost>>

\* Mutant: what was read is used when the writers did something.
OtherCounter(t) == page[loc[t].p].sc # loc[t].sc

SameCounter(t) == page[loc[t].p].sc = loc[t].sc

Check(t) ==
  /\ pc[t] = "check"
  /\ Goto(t, IF ~SameCounter(t) THEN "begin"
             ELSE IF IsScan(t) /\ IsLeaf(loc[t].p) THEN "nextpage"
             ELSE IF IsLeaf(loc[t].p) /\ loc[t].ret # Null THEN "result"
             ELSE "sibling")
  /\ UNCHANGED <<shared, ghost, loc>>

\* Mutant: the sibling's first key is looked for on the left.
AboveFirst(k, first) == k > first

\* A key not below the sibling's first one is the sibling's, or further.
NotBelow(k, first) == k >= first

ReadSibling(t) ==
  LET l  == loc[t]
      s  == page[l.p].sibling
      mine == IF IsLeaf(l.p) THEN Null
              ELSE IF l.ret # Null THEN l.ret ELSE page[l.p].leftmost
  IN
  /\ \/ /\ pc[t] = "sibling"
        /\ loc' = [loc EXCEPT ![t].t = s, ![t].ret = mine]
        /\ Goto(t, IF s = Null THEN "result" ELSE "sibkey")
     \/ /\ pc[t] = "sibkey"
        /\ loc' = [loc EXCEPT ![t].ret =
                     IF NotBelow(l.key, page[l.t].key[0]) THEN l.t ELSE @]
        /\ Goto(t, "result")
  /\ UNCHANGED <<shared, ghost>>

\* linear_search has returned ret: the descent goes on to a page of a lower
\* level, or at a leaf btree_search and btree_delete take over.
Descend(t) ==
  LET l == loc[t]
      d == page[l.ret]
  IN
  /\ pc[t] = "result"
  /\ ~IsLeaf(l.p)
  /\ loc' = [loc EXCEPT ![t].p = l.ret, ![t].first = Null]
  /\ Goto(t, IF \/ l.newp # Null /\ d.level <= l.target
                \/ Op(t).op \in {"insert", "update"} /\ d.leftmost = Null
               THEN "lock" ELSE "begin")
  /\ UNCHANGED <<shared, ghost>>

\* btree_search: a result equal to the sibling pointer, which is loaded again,
\* sends the search on to the sibling.
SearchHop(t) ==
  LET l == loc[t] IN
  /\ pc[t] = "result"
  /\ IsLeaf(l.p)
  /\ Op(t).op = "search"
  /\ IF l.ret # page[l.p].sibling \/ l.ret = Null
       THEN Goto(t, "ret") /\ UNCHANGED loc
       ELSE loc' = [loc EXCEPT ![t].p = l.ret] /\ Goto(t, "begin")
  /\ UNCHANGED <<shared, ghost>>

\* What btree_search returns: a pointer other than the key counts as NULL.
Found(t) == loc[t].ret = loc[t].key

\* btree_delete ends its walk the same way, then removes from the page it is
\* at; past the last page there is nothing to remove.
DeleteHop(t) ==
  LET l == loc[t] IN
  /\ pc[t] = "result"
  /\ IsLeaf(l.p)
  /\ Op(t).op = "delete"
  /\ IF l.ret # page[l.p].sibling
       THEN Goto(t, "lock") /\ UNCHANGED loc
     ELSE IF l.ret = Null THEN Goto(t, "ret") /\ UNCHANGED loc
       ELSE loc' = [loc EXCEPT ![t].p = l.ret] /\ Goto(t, "begin")
  /\ UNCHANGED <<shared, ghost>>

\* The range searches go on to the sibling: linear_search_range_2 while it
\* has fewer than len results, linear_search_range to the end of the chain.
NextPage(t) ==
  LET l   == loc[t]
      all == l.got \o l.buf
      s   == page[l.p].sibling
  IN
  /\ pc[t] = "nextpage"
  /\ loc' = [loc EXCEPT ![t].got = all, ![t].p = s]
  /\ Goto(t, IF s = Null \/ (Op(t).op = "range2" /\ Len(all) >= Op(t).len)
               THEN "ret" ELSE "begin")
  /\ UNCHANGED <<shared, ghost>>

ReaderStep(t) ==
  \/ BeginPage(t) \/ Count(t) \/ Cond(t) \/ LastChild(t) \/ ReadKey(t)
  \/ ReadPair(t) \/ Judge(t) \/ Check(t) \/ ReadSibling(t) \/ Descend(t)
  \/ SearchHop(t) \/ DeleteHop(t) \/ NextPage(t)

-----------------------------------------------------------------------------
(* Writing a page.                                                         *)

\* count() under the mutex, when no store is under way.
CountLocked(p) ==
  CHOOSE c \in 0..cardinality :
    /\ c = cardinality \/ page[p].ptr[c] = Null
    /\ \A i \in 0..(c - 1) : page[p].ptr[i] # Null

\* Mutant: the mutex does not exclude.
AnyPage(p) == TRUE

FreePage(p) == mtx[p] = "none"

Lock(t) ==
  /\ pc[t] = "lock"
  /\ FreePage(loc[t].p)
  /\ mtx' = [mtx EXCEPT ![loc[t].p] = t]
  /\ Goto(t, IF Op(t).op = "delete" THEN "remove" ELSE "store")
  /\ UNCHANGED <<page, root, npages, loc, ghost>>

Unlock(t, p) == mtx' = [mtx EXCEPT ![p] = "none"]

\* Mutant: the sibling is never looked at.
NotMine(t, p) == FALSE

BeyondSibling(t, p) ==
  /\ page[p].sibling # Null
  /\ loc[t].key > page[page[p].sibling].key[0]

\* store, up to the decision: a key beyond the sibling's first one is stored
\* there; a key already in the page is at most updated; a page with room
\* takes the key; a full page is split.
Store(t) ==
  LET l == loc[t]
      p == l.p
      n == CountLocked(p)
      at == {i \in 0..(n - 1) : page[p].key[i] = l.key}
  IN
  /\ pc[t] = "store"
  /\ IF BeyondSibling(t, p)
       THEN /\ loc' = [loc EXCEPT ![t].p = page[p].sibling]
            /\ Unlock(t, p)
            /\ Goto(t, "lock")
            /\ UNCHANGED page
     ELSE IF at # {}
       THEN /\ page' = IF Op(t).op = "update" /\ IsLeaf(p)
                         THEN [page EXCEPT ![p].ptr[CHOOSE i \in at : \A j \in at : i <= j]
                                             = l.val]
                         ELSE page
            /\ Unlock(t, p)
            /\ Goto(t, "ret")
            /\ UNCHANGED loc
       ELSE /\ loc' = [loc EXCEPT ![t].ip = p, ![t].num = n, ![t].newp = Null]
            /\ Goto(t, IF n < cardinality - 1 THEN "insert" ELSE "split")
            /\ UNCHANGED <<page, mtx>>
  /\ UNCHANGED <<root, npages, ghost>>

SplitAt(p) == CountLocked(p) \div 2

\* Mutant: a leaf is split like an internal page.
FirstMovedInner(p, m) == m + 1

FirstMoved(p, m) == IF IsLeaf(p) THEN m ELSE m + 1

\* The new sibling: the entries from m on (a leaf), or those right of m with
\* m's child as leftmost (an internal page), next in the chain after p.
Sibling(p, m) ==
  LET from == FirstMoved(p, m)
      n    == CountLocked(p) - from
  IN [EmptyPage EXCEPT
        !.level = page[p].level,
        !.leftmost = IF IsLeaf(p) THEN Null ELSE page[p].ptr[m],
        !.sibling = page[p].sibling,
        !.last = n - 1,
        !.key = [i \in Slot |-> IF i < n THEN page[p].key[from + i] ELSE Infinity],
        !.ptr = [i \in Slot |-> IF i < n THEN page[p].ptr[from + i] ELSE Null]]

\* FAIR: the sibling is built and linked, then the switch counter moves to
\* the next even value, the entries that moved are cut off, and last_index is
\* stored: four stores a reader can come between.
Split(t) ==
  LET l == loc[t]
      p == l.p
      m == IF pc[t] = "split" THEN SplitAt(p) ELSE l.num
      s == -(npages + 1)
      sc == page[p].sc
  IN
  /\ \/ /\ pc[t] = "split"
        /\ npages < MaxPage
        /\ npages' = npages + 1
        /\ page' = [page EXCEPT ![s] = Sibling(p, m), ![p].sibling = s]
        /\ loc' = [loc EXCEPT ![t].newp = s, ![t].num = m,
                              ![t].split = page[p].key[m]]
        /\ Goto(t, "switch")
     \/ /\ pc[t] = "switch"
        /\ page' = [page EXCEPT ![p].sc =
                      (IF IsForward(sc) THEN sc + 2 ELSE sc + 1) % SwitchMod]
        /\ Goto(t, "cut")
        /\ UNCHANGED <<npages, loc>>
     \/ /\ pc[t] = "cut"
        /\ page' = [page EXCEPT ![p].ptr[m] = Null]
        /\ Goto(t, "last")
        /\ UNCHANGED <<npages, loc>>
     \/ /\ pc[t] = "last"
        /\ page' = [page EXCEPT ![p].last = m - 1]
        /\ loc' = IF l.key < l.split THEN loc
                  ELSE [loc EXCEPT ![t].ip = l.newp,
                                   ![t].num = CountLocked(l.newp)]
        /\ Goto(t, "insert")
        /\ UNCHANGED npages
  /\ UNCHANGED <<root, mtx, ghost>>

\* insert_key on page ip: the switch counter is made even, the terminator is
\* copied up, entries greater than the key are copied up from the right,
\* pointer before key, and the freed entry is filled, pointer last.
InsertKey(t) ==
  LET l  == loc[t]
      p  == l.ip
      pg == page[p]
      i  == l.i
  IN
  /\ \/ /\ pc[t] = "insert"
        /\ page' = IF IsForward(pg.sc) THEN page
                   ELSE [page EXCEPT ![p].sc = (@ + 1) % SwitchMod]
        /\ loc' = [loc EXCEPT ![t].i = l.num - 1]
        /\ Goto(t, IF l.num = 0 THEN "putkey" ELSE "endmark")
     \/ /\ pc[t] = "endmark"
        /\ page' = [page EXCEPT ![p].ptr[l.num + 1] = pg.ptr[l.num]]
        /\ Goto(t, "shiftptr")
        /\ UNCHANGED loc
     \/ /\ pc[t] = "shiftptr"
        /\ page' = [page EXCEPT ![p].ptr[i + 1] = LeftPtr(p, i + 1)]
        /\ Goto(t, IF i >= 0 /\ l.key < pg.key[i] THEN "shiftkey" ELSE "putkey")
        /\ UNCHANGED loc
     \/ /\ pc[t] = "shiftkey"
        /\ page' = [page EXCEPT ![p].key[i + 1] = pg.key[i]]
        /\ loc' = [loc EXCEPT ![t].i = i - 1]
        /\ Goto(t, "shiftptr")
     \/ /\ pc[t] = "putkey"
        /\ page' = [page EXCEPT ![p].key[i + 1] = l.key]
        /\ Goto(t, "putptr")
        /\ UNCHANGED loc
     \/ /\ pc[t] = "putptr"
        /\ page' = [page EXCEPT ![p].ptr[i + 1] = l.val]
        /\ Goto(t, IF l.num = 0 THEN "end0" ELSE "putlast")
        /\ UNCHANGED loc
     \/ /\ pc[t] = "end0"
        /\ page' = [page EXCEPT ![p].ptr[1] = Null]
        /\ Goto(t, "putlast")
        /\ UNCHANGED loc
     \/ /\ pc[t] = "putlast"
        /\ page' = [page EXCEPT ![p].last = l.num]
        /\ Goto(t, IF l.newp = Null THEN "unlock" ELSE "grow")
        /\ UNCHANGED loc
  /\ UNCHANGED <<root, npages, mtx, ghost>>

\* The call is over, or, in a split, the parent is next.
StoreDone(t) ==
  /\ pc[t] = "unlock"
  /\ Unlock(t, loc[t].p)
  /\ Goto(t, "ret")
  /\ UNCHANGED <<page, root, npages, loc, ghost>>

\* Mutants: only a root leaf grows the tree; the root keeps its level.
IsRootLeaf(p) == root = p /\ IsLeaf(p)
SameLevel(p)  == page[p].level

IsRoot(p)    == root = p
LevelUp(p)   == page[p].level + 1

\* A split root gets a parent before the mutex is released; any other split
\* page is released before its parent is looked for.
Grow(t) ==
  LET l   == loc[t]
      new == -(npages + 1)
  IN
  /\ pc[t] = "grow"
  /\ IF IsRoot(l.p)
       THEN /\ npages < MaxPage
            /\ npages' = npages + 1
            /\ page' = [page EXCEPT ![new] = [EmptyPage EXCEPT
                          !.leftmost = l.p, !.level = LevelUp(l.p),
                          !.last = 0, !.key[0] = l.split, !.ptr[0] = l.newp]]
            /\ root' = new
            /\ Goto(t, "unlock")
            /\ UNCHANGED <<mtx, loc>>
       ELSE /\ Unlock(t, l.p)
            /\ loc' = [loc EXCEPT ![t].key = l.split, ![t].val = l.newp,
                                  ![t].target = page[l.p].level + 1]
            /\ Goto(t, "up")
            /\ UNCHANGED <<page, root, npages>>
  /\ UNCHANGED ghost

\* btree_insert_internal: gives up when the tree is not that high, otherwise
\* descends from the root to the target level.
InsertInternal(t) ==
  LET l == loc[t] IN
  /\ pc[t] = "up"
  /\ loc' = [loc EXCEPT ![t].p = root]
  /\ Goto(t, IF l.target > page[root].level THEN "ret"
             ELSE IF page[root].level > l.target THEN "begin" ELSE "lock")
  /\ UNCHANGED <<shared, ghost>>

\* Mutants: the counter stays even; entry 0 is never looked at; the last
\* index is left as it was.
KeepCounter(sc)  == sc
EntriesPast0(p, k) == {j \in 1..(CountLocked(p) - 1) : page[p].key[j] = k}
KeepLast(p)      == page[p].last

MakeOdd(sc)      == IF IsForward(sc) THEN (sc + 1) % SwitchMod ELSE sc
EntriesOf(p, k)  == {j \in 0..(CountLocked(p) - 1) : page[p].key[j] = k}
LastDropped(p)   == page[p].last - 1

\* remove_key on page p: the switch counter is made odd, the removed entry's
\* pointer is made equal to its left neighbour's, entries to its right are
\* copied down, key before pointer.
RemoveKey(t) ==
  LET l  == loc[t]
      p  == l.p
      pg == page[p]
      i  == l.i
      at == EntriesOf(p, l.key)
  IN
  /\ \/ /\ pc[t] = "remove"
        /\ page' = [page EXCEPT ![p].sc = MakeOdd(@)]
        /\ loc' = [loc EXCEPT ![t].i = IF at = {} THEN 0
                                       ELSE CHOOSE j \in at : \A h \in at : j <= h]
        /\ Goto(t, IF at = {} THEN "unlock" ELSE "dup")
     \/ /\ pc[t] = "dup"
        /\ page' = [page EXCEPT ![p].ptr[i] = LeftPtr(p, i)]
        /\ Goto(t, "pullkey")
        /\ UNCHANGED loc
     \/ /\ pc[t] = "pullkey"
        /\ page' = [page EXCEPT ![p].key[i] = pg.key[i + 1]]
        /\ Goto(t, "pullptr")
        /\ UNCHANGED loc
     \/ /\ pc[t] = "pullptr"
        /\ page' = [page EXCEPT ![p].ptr[i] = pg.ptr[i + 1]]
        /\ loc' = [loc EXCEPT ![t].i = i + 1]
        /\ Goto(t, IF pg.ptr[i + 1] = Null THEN "droplast" ELSE "pullkey")
     \/ /\ pc[t] = "droplast"
        /\ page' = [page EXCEPT ![p].last = LastDropped(p)]
        /\ Goto(t, "unlock")
        /\ UNCHANGED loc
  /\ UNCHANGED <<root, npages, mtx, ghost>>

WriterStep(t) ==
  \/ Lock(t) \/ Store(t) \/ Split(t) \/ InsertKey(t) \/ StoreDone(t)
  \/ Grow(t) \/ InsertInternal(t) \/ RemoveKey(t)

-----------------------------------------------------------------------------
Step(t) == ReaderStep(t) \/ WriterStep(t) \/ Return(t)

\* All programs have been run.
Finished == \A t \in Thread : pc[t] = "idle" /\ loc[t].n = Len(work.prog[t])

Next == (\E t \in Thread : Call(t) \/ Step(t)) \/ (Finished /\ UNCHANGED vars)

Spec     == Init /\ [][Next]_vars
FairSpec == Spec /\ \A t \in Thread : WF_vars(Step(t))

-----------------------------------------------------------------------------
(* Properties.                                                             *)

Label == {"idle", "ret", "begin", "key", "count", "clast", "cwalk", "cup",
          "ccheck", "cond", "lastchild", "pair", "pairleft", "pairright",
          "judge", "check", "sibling", "sibkey", "result", "nextpage", "lock",
          "store", "split", "switch", "cut", "last", "insert", "endmark",
          "shiftptr", "shiftkey", "putkey", "putptr", "end0", "putlast",
          "unlock", "grow", "up", "remove", "dup", "pullkey", "pullptr",
          "droplast"}

\* Type invariant: records stay inside their page and point to pages of the
\* level below, or at leaves to values.
TypeOK ==
  /\ pc \in [Thread -> Label]
  /\ mtx \in [PageId -> Thread \cup {"none"}]
  /\ root \in PageId /\ npages \in 1..MaxPage
  /\ \A p \in PageId :
       /\ page[p].sc \in 0..(SwitchMod - 1)
       /\ page[p].last \in -1..(cardinality - 1)
       /\ page[p].sibling # Null => page[page[p].sibling].level = page[p].level
       /\ \A i \in Slot : page[p].ptr[i] # Null =>
            IF IsLeaf(p) THEN page[p].ptr[i] \in Key
            ELSE /\ page[p].ptr[i] \in PageId
                 /\ page[page[p].ptr[i]].level = page[p].level - 1

\* Nobody wrote key k since t's call began.
Stable(t, k) == /\ hist[k] = loc[t].seen.h[k] /\ hist[k] % 2 = 0

SearchRight(t) ==
  Stable(t, loc[t].key) => (Found(t) <=> loc[t].key \in present)

ElemsOf(s) == {s[i] : i \in DOMAIN s}

ScanRight(t) ==
  \A k \in Key : Stable(t, k) =>
    /\ k \in ElemsOf(loc[t].got) => k \in present /\ k > Op(t).key
    /\ /\ k \in present /\ k > Op(t).key
       /\ IF Op(t).op = "range" THEN k < Op(t).max
                                ELSE Len(loc[t].got) < Op(t).len
       => k \in ElemsOf(loc[t].got)

\* A search that returns while nobody inserts or deletes its key gives the
\* right answer, whatever writers do to the pages it reads: no key is missed
\* while it is shifted or moved to a sibling, none is found that was deleted.
\* A range search returns every key of its range that was in the tree all the
\* time, and no key that never was.
ReadersRight ==
  \A t \in Thread : pc[t] = "ret" =>
    /\ Op(t).op = "search" => SearchRight(t)
    /\ IsScan(t) => ScanRight(t)

\* The pages t is changing.
Changing(t) ==
  CASE pc[t] \in {"switch", "cut", "last"} -> {loc[t].p, loc[t].newp}
    [] pc[t] \in {"insert", "endmark", "shiftptr", "shiftkey", "putkey",
                  "putptr", "end0", "putlast"} -> {loc[t].ip}
    [] pc[t] \in {"dup", "pullkey", "pullptr", "droplast"} -> {loc[t].p}
    [] OTHER -> {}

\* No two threads change one page, although a splitting thread writes its
\* new, already linked sibling without holding the sibling's mutex.
OneWriter ==
  \A t, u \in Thread : t # u => Changing(t) \cap Changing(u) = {}

Allocated == {p \in PageId : -p <= npages}
Resting   == {p \in Allocated : \A t \in Thread : p \notin Changing(t)}

PageInOrder(p) ==
  LET n == CountLocked(p) IN
  /\ n = page[p].last + 1
  /\ \A i \in 0..(n - 2) : page[p].key[i] < page[p].key[i + 1]
  /\ \A i \in 0..(n - 1) : LeftPtr(p, i) # page[p].ptr[i]

\* No key is in two pages.
Before(p, s) ==
  \A i \in 0..(CountLocked(p) - 1), j \in 0..(CountLocked(s) - 1) :
    page[p].key[i] < page[s].key[j]

\* Pages point where they should, and between stores under its mutex a page is
\* sorted, free of doubled pointers, and ends where last_index says; keys grow
\* from a page to its sibling, but that a page being cut may still show what
\* its sibling has.  Two writers that follow one another into a splitting page
\* would break this, and so would a delete that finds the page split.
PagesInOrder ==
  /\ TypeOK
  /\ \A p \in Resting :
       /\ PageInOrder(p)
       /\ page[p].sibling \in Resting => Before(p, page[p].sibling)

\* A split page's separator always finds a parent: btree_insert_internal
\* never gives it up for want of a level, because a root is split only by
\* the thread that also grows the tree.
SeparatorPlaced ==
  \A t \in Thread : pc[t] = "up" => loc[t].target <= page[root].level

\* Every call returns.
CallsReturn == \A t \in Thread : pc[t] # "idle" ~> pc[t] = "idle"
=============================================================================
