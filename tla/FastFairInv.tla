---------------------------- MODULE FastFairInv ----------------------------
(***************************************************************************)
(* The inductive invariant of FastFair: where in the tree each thread is,  *)
(* what it holds, and which pages are half way into the tree.  It says     *)
(* nothing of keys, and of leaves only that they are leaves.               *)
(***************************************************************************)
EXTENDS FastFair

-----------------------------------------------------------------------------
(* Control points.                                                         *)

Inserting == {"insert", "endmark", "shiftptr", "shiftkey", "putkey", "putptr",
              "end0", "putlast"}
Removing  == {"remove", "dup", "pullkey", "pullptr", "droplast"}
Counting  == {"count", "clast", "cwalk", "cup", "ccheck"}
AtEntry   == {"key", "pair", "pairleft", "pairright", "judge"}
Reading   == {"begin", "cond", "lastchild", "check", "sibling", "sibkey",
              "result", "nextpage"} \cup Counting \cup AtEntry
\* A store that has found its page, and no call that deletes.
Storing   == {"store", "split", "switch", "cut", "last", "grow"} \cup Inserting
\* t has the mutex of its page.
Held      == Storing \cup Removing \cup {"unlock"}

Deletes(t) == Op(t).op = "delete"
Stores(t)  == Op(t).op \in {"insert", "update"}

-----------------------------------------------------------------------------
(* Pages.                                                                  *)

\* t has linked a new sibling and has not left the page it split.
Splitting(t) ==
  /\ pc[t] \in {"switch", "cut", "last", "grow"} \cup Inserting
  /\ loc[t].newp # Null

\* x is not a page that is being split off.
NotNew(x) == \A t \in Thread : Splitting(t) => loc[t].newp # x

\* x is a page of level lev that may have parents.
Known(x, lev)    == x \in Allocated /\ page[x].level = lev /\ NotNew(x)
ChildRef(x, lev) == x = Null \/ Known(x, lev)

\* Internal pages are never deleted from: their counter is even, their
\* children are one level below, and their last record is a terminator.
InnerOK(p) ==
  /\ page[p].sc \in 0..(SwitchMod - 1) /\ page[p].sc % 2 = 0
  /\ Known(page[p].leftmost, page[p].level - 1)
  /\ DOMAIN page[p].ptr = Slot
  /\ \A i \in Slot : ChildRef(page[p].ptr[i], page[p].level - 1)
  /\ page[p].ptr[cardinality - 1] = Null

PageOK(p) ==
  /\ page[p].level \in Nat /\ page[p].level <= page[root].level
  /\ page[p].leftmost = Null <=> page[p].level = 0
  /\ page[p].sibling # Null => /\ page[p].sibling \in Allocated
                               /\ page[page[p].sibling].level = page[p].level
  /\ page[p].level > 0 => InnerOK(p)

\* A root has a sibling only while the thread that split it has it locked.
RootOK ==
  /\ root \in Allocated /\ NotNew(root)
  /\ page[root].sibling # Null =>
       \E t \in Thread : Splitting(t) /\ loc[t].p = root

-----------------------------------------------------------------------------
(* Threads.                                                                *)

MutexOK(t) == pc[t] \in Held => mtx[loc[t].p] = t

\* A new sibling is reached from the page it was split from only, and is new
\* to one thread.
NewOK(t) ==
  Splitting(t) =>
    /\ loc[t].newp \in Allocated /\ loc[t].newp # loc[t].p
    /\ page[loc[t].newp].level = page[loc[t].p].level
    /\ page[loc[t].p].sibling = loc[t].newp
    /\ \A q \in Allocated \ {loc[t].p} : page[q].sibling # loc[t].newp
    /\ \A u \in Thread \ {t} : Splitting(u) => loc[u].newp # loc[t].newp

\* On its way up t has a page of the level below its target to insert.
Carries(t) ==
  /\ loc[t].target \in Nat
  /\ loc[t].target > 0 => Known(loc[t].val, loc[t].target - 1)

\* A store works on a page of its target level, never on one that is being
\* split off; deletes work on leaves.
WriterOK(t) ==
  pc[t] \in Held \cup {"lock"} =>
    /\ loc[t].p \in Allocated
    /\ pc[t] \in Removing => Deletes(t)
    /\ pc[t] \in Storing => ~Deletes(t)
    /\ Deletes(t) => page[loc[t].p].level = 0
    /\ ~Deletes(t) =>
         /\ Stores(t) /\ NotNew(loc[t].p) /\ Carries(t)
         /\ page[loc[t].p].level = loc[t].target
         /\ loc[t].p = root \/ page[loc[t].p].level < page[root].level

\* An internal page that is split is full, and is cut at an entry it has.
SplitOK(t) ==
  /\ pc[t] = "split" /\ page[loc[t].p].level > 0 =>
       \A i \in 0..(cardinality - 2) : page[loc[t].p].ptr[i] # Null
  /\ pc[t] \in {"split", "switch", "cut", "last"} => loc[t].ip = loc[t].p
  /\ pc[t] = "grow" => loc[t].newp # Null
  /\ pc[t] \in {"switch", "cut", "last"} =>
       /\ loc[t].newp # Null
       /\ page[loc[t].p].level > 0 =>
            /\ loc[t].num \in 0..(cardinality - 2)
            /\ page[loc[t].newp].ptr[cardinality - 2] = Null
            /\ pc[t] = "last" => page[loc[t].p].ptr[loc[t].num] = Null

\* An internal page that is inserted into has room for the entry.
InsertOK(t) ==
  pc[t] \in Inserting =>
    LET l == loc[t] IN
    /\ l.ip = l.p \/ (l.newp # Null /\ l.ip = l.newp)
    /\ page[l.p].level > 0 =>
         /\ l.num \in 0..(cardinality - 2)
         /\ pc[t] \in {"insert", "endmark"} => page[l.ip].ptr[l.num] = Null
         /\ pc[t] \in {"endmark", "shiftptr", "putkey", "putptr"} =>
              l.i \in -1..(l.num - 1)
         /\ pc[t] = "shiftkey" => l.i \in 0..(l.num - 1)

\* What a reader of an internal page has in hand is of the level below, or
\* the page's sibling.
InnerReader(label, l) ==
  LET lev == page[l.p].level - 1 IN
  /\ label \notin Counting \cup {"nextpage"}
  /\ label # "begin" => l.sc \in Nat /\ l.sc % 2 = 0
  /\ label \in AtEntry => l.i \in 0..(cardinality - 2)
  /\ label \in {"cond", "lastchild"} => l.i \in 1..(cardinality - 1)
  /\ label \in {"pairright", "judge"} => ChildRef(l.q, lev)
  /\ label \in {"pairleft", "judge"} => ChildRef(l.t, lev)
  /\ label \in {"cond", "lastchild", "check", "sibling"} \cup AtEntry =>
       ChildRef(l.ret, lev)
  /\ label = "sibkey" => /\ Known(l.ret, lev) /\ l.t \in Allocated
                         /\ page[l.t].level = lev + 1
  /\ label = "result" => /\ l.ret \in Allocated
                         /\ page[l.ret].level = lev + 1 \/ Known(l.ret, lev)

\* A store that descends is above its target: the leaves, or the parents of
\* the page it split.
ReaderOK(t) ==
  pc[t] \in Reading =>
    /\ loc[t].p \in Allocated
    /\ Stores(t) => /\ page[loc[t].p].level > loc[t].target /\ Carries(t)
                    /\ loc[t].target = 0 <=> loc[t].newp = Null
    /\ ~Stores(t) => loc[t].newp = Null
    /\ page[loc[t].p].level > 0 => InnerReader(pc[t], loc[t])

UpOK(t) ==
  pc[t] = "up" =>
    /\ Stores(t) /\ Carries(t) /\ loc[t].newp # Null
    /\ loc[t].target \in 1..page[root].level

ThreadOK(t) ==
  /\ MutexOK(t) /\ NewOK(t) /\ WriterOK(t) /\ SplitOK(t) /\ InsertOK(t)
  /\ ReaderOK(t) /\ UpOK(t)

-----------------------------------------------------------------------------
PageFields  == DOMAIN EmptyPage
LocalFields == DOMAIN NoLocal

Shape ==
  /\ pc \in [Thread -> Label]
  /\ mtx \in [PageId -> Thread \cup {"none"}]
  /\ npages \in 1..MaxPage
  /\ DOMAIN page = PageId
  /\ \A p \in Allocated : DOMAIN page[p] = PageFields
  /\ DOMAIN loc = Thread
  /\ \A t \in Thread : DOMAIN loc[t] = LocalFields

FFInv ==
  /\ Shape /\ RootOK
  /\ \A p \in Allocated : PageOK(p)
  /\ \A t \in Thread : ThreadOK(t)

\* btree_delete walks to the sibling a split has just linked and locks it,
\* while the splitting thread, which does not hold that mutex, may be about
\* to insert into it (btree.h:548): the hypothesis under which no page has two
\* writers.
DeletesKeepOff ==
  \A t, u \in Thread :
    pc[u] = "lock" /\ Deletes(u) /\ Splitting(t) => loc[u].p # loc[t].newp

\* Two threads change one page only if one of them deletes from a leaf that
\* the other is splitting off.
OneStorer ==
  \A t, u \in Thread : t # u =>
    \A x \in Changing(t) \cap Changing(u) :
      /\ page[x].level = 0
      /\ \/ Deletes(u) /\ Splitting(t) /\ x = loc[t].newp
         \/ Deletes(t) /\ Splitting(u) /\ x = loc[u].newp
=============================================================================
