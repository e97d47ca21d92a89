------------------------------ MODULE FpTree ------------------------------
(***************************************************************************)
(* The fptree baseline (fptree/fptree.cpp): a B+-tree whose readers take   *)
(* no lock.  A node's version word holds a lock bit, two dirty bits, a     *)
(* deleted bit, a root bit and two counters; writers lock a node, mark it  *)
(* dirty, change it and unlock it, which counts.  Readers wait until a     *)
(* node is clean, read it, and accept what they read when the version has  *)
(* not changed but for the lock bit.  Nodes split to the right only, and   *)
(* leaves are chained both ways.                                           *)
(*                                                                         *)
(* Granularity.  Every read of a version and of a pointer is a step; the   *)
(* reads of a node's entries between two reads of its version are one, and *)
(* the stores to a node marked dirty are one.  A spin is an action that is *)
(* not enabled.  Memory is sequentially consistent: the fences of the code *)
(* keep its order of stores on the machine it is for.                      *)
(*                                                                         *)
(* Data.  Keys without values and fingerprints; a leaf keeps its slots.    *)
(***************************************************************************)
EXTENDS Integers, Sequences, FiniteSets, SequencesExt

CONSTANTS
  Key,          \* positive integers
  Thread,
  Workload,     \* what is run: [prog, tree], prog[t] the calls of t in order
  NODE_MAX,     \* slots of a leaf, keys of an inode: 64 or 14
  NODE_PIVOT,
  InsertMod,    \* values of the insert counter, 2^7
  SplitMod,     \* values of the split counter, 2^18
  MaxLeaf,      \* bound: leaves
  MaxNode       \* bound: nodes

Null  == -1
NoKey == 0
Slot  == 0..(NODE_MAX - 1)
Leaf  == 0..(MaxLeaf - 1)
Inode == MaxLeaf..(MaxNode - 1)
Node  == Leaf \cup Inode

ASSUME FpTreeConstants ==
  /\ Key \subseteq Nat \ {0}
  /\ NODE_PIVOT \in Nat /\ NODE_MAX \in Nat /\ NODE_PIVOT + 1 < NODE_MAX
  /\ InsertMod \in Nat \ {0} /\ SplitMod \in Nat \ {0, 1}
  /\ MaxLeaf \in Nat \ {0} /\ MaxNode \in Nat /\ MaxLeaf <= MaxNode

VARIABLES
  work,     \* the member of Workload that runs
  root,     \* tree->root
  ver,      \* ver[n]: the version word
  leaf,     \* leaf[l]: nkeys, bitmap, keys of the slots, next, prev
  inode,    \* inode[n]: keys and children
  parent,   \* parent[n]
  made,     \* nodes allocated
  freed,    \* inodes given to free
  pc, loc

nodes == <<root, ver, leaf, inode, parent, made, freed>>
vars  == <<work, root, ver, leaf, inode, parent, made, freed, pc, loc>>

Clean == [lock |-> FALSE, ins |-> FALSE, spl |-> FALSE, del |-> FALSE,
          root |-> FALSE, vi |-> 0, vs |-> 0]

NoLocal == [n |-> 0, key |-> NoKey, top |-> Null, root |-> Null,
            node |-> Null, v |-> Clean, child |-> Null, cv |-> Clean,
            got |-> {}, count |-> 0, first |-> TRUE, new |-> Null,
            sep |-> NoKey, par |-> Null, nxt |-> Null, prev |-> Null,
            todo |-> <<>>]

Init ==
  /\ work \in Workload
  /\ root = work.tree.root
  /\ ver = work.tree.ver
  /\ leaf = work.tree.leaf
  /\ inode = work.tree.inode
  /\ parent = work.tree.parent
  /\ made = work.tree.made
  /\ freed = {}
  /\ pc = [t \in Thread |-> "idle"]
  /\ loc = [t \in Thread |-> NoLocal]

Goto(t, label) == pc' = [pc EXCEPT ![t] = label]
Op(t) == work.prog[t][loc[t].n]

-----------------------------------------------------------------------------
(* The version word.                                                       *)

dirty(v) == v.ins \/ v.spl

\* (a ^ b) <= NODE_LOCKED
Same(a, b) == [a EXCEPT !.lock = FALSE] = [b EXCEPT !.lock = FALSE]

\* The insert counter overflows into the lowest bit of the split counter, by
\* an or.
CountInsert(v) ==
  [v EXCEPT !.vi = (@ + 1) % InsertMod,
            !.vs = IF v.vi + 1 = InsertMod /\ @ % 2 = 0 THEN @ + 1 ELSE @]

CountSplit(v) == [v EXCEPT !.vs = (@ + 1) % SplitMod, !.root = FALSE]

\* Mutant: an insert that did not split is not counted.
UnlockedUncounted(v) ==
  LET b == IF v.spl THEN CountSplit(v) ELSE v IN
  [b EXCEPT !.lock = FALSE, !.ins = FALSE, !.spl = FALSE]

\* Mutant: the mark of a split stays.
UnlockedSplitting(v) ==
  LET a == IF v.ins THEN CountInsert(v) ELSE v
      b == IF v.spl THEN CountSplit(a) ELSE a
  IN [b EXCEPT !.lock = FALSE, !.ins = FALSE]

Unlocked(v) ==
  LET a == IF v.ins THEN CountInsert(v) ELSE v
      b == IF v.spl THEN CountSplit(a) ELSE a
  IN [b EXCEPT !.lock = FALSE, !.ins = FALSE, !.spl = FALSE]

-----------------------------------------------------------------------------
(* Nodes.                                                                  *)

IsBorder(n) == n \in Leaf
keys(l)     == {leaf[l].ent[s] : s \in leaf[l].bitmap}
nkeys(n)    == Len(inode[n].k)
Pos(n, key) == Cardinality({i \in 1..nkeys(n) : inode[n].k[i] <= key})

internode_lookup(n, key) == inode[n].ch[Pos(n, key) + 1]

\* The lowest key of a leaf, of those in its first nkeys slots.
key_geq(l, key) ==
  LET seen == {leaf[l].ent[s] : s \in {x \in leaf[l].bitmap : x < leaf[l].nkeys}} IN
  seen # {} /\ \E k \in seen : key >= k

FirstZero(bitmap) == CHOOSE s \in Slot \ bitmap : \A x \in Slot \ bitmap : s <= x

\* What leaf_insert_key stores in a leaf that is not full.
WithKey(f, key) ==
  IF key \in {f.ent[s] : s \in f.bitmap} THEN f
  ELSE LET s == FirstZero(f.bitmap) IN
       [f EXCEPT !.bitmap = @ \cup {s}, !.ent[s] = key, !.nkeys = @ + 1]

\* Leaves and inodes come from different allocators.
FreshIn(S) == CHOOSE n \in S \ made : \A m \in S \ made : n <= m

Finish(t) == loc' = [loc EXCEPT ![t] = [NoLocal EXCEPT !.n = loc[t].n]]

-----------------------------------------------------------------------------
Call(t) ==
  /\ pc[t] = "idle"
  /\ loc[t].n < Len(work.prog[t])
  /\ LET o == work.prog[t][loc[t].n + 1] IN
       loc' = [loc EXCEPT ![t] = [NoLocal EXCEPT !.n = loc[t].n + 1,
                                  !.key = o.key, !.top = root, !.root = root,
                                  !.node = root]]
  /\ Goto(t, "find")
  /\ UNCHANGED <<work, nodes>>

Return(t) ==
  /\ pc[t] = "ret"
  /\ Finish(t)
  /\ Goto(t, "idle")
  /\ UNCHANGED <<work, nodes>>

-----------------------------------------------------------------------------
(* find_leaf.  A retry inside it starts at the root it found last; one from *)
(* outside, FromTop, at the root the call began with.                      *)

FromTop(t) == /\ loc' = [loc EXCEPT ![t].root = loc[t].top]
              /\ Goto(t, "find")

FindRoot(t) ==
  LET n == loc[t].root IN
  /\ pc[t] = "find"
  /\ ~dirty(ver[n])
  /\ loc' = [loc EXCEPT ![t].node = n, ![t].v = ver[n], ![t].got = {},
                        ![t].count = 0, ![t].first = TRUE]
  /\ Goto(t, IF ver[n].root THEN "desc" ELSE "toroot")
  /\ UNCHANGED <<work, nodes>>

\* A node without a parent is taken for the root.
WalkToRoot(t) ==
  LET n == loc[t].node IN
  /\ pc[t] = "toroot"
  /\ IF parent[n] # Null
       THEN loc' = [loc EXCEPT ![t].node = parent[n]] /\ UNCHANGED pc
       ELSE loc' = [loc EXCEPT ![t].root = n] /\ Goto(t, "rootver")
  /\ UNCHANGED <<work, nodes>>

\* Its version is read later: nothing tells whether it has split since.
RootVersion(t) ==
  LET n == loc[t].node IN
  /\ pc[t] = "rootver"
  /\ ~dirty(ver[n])
  /\ loc' = [loc EXCEPT ![t].v = ver[n]]
  /\ Goto(t, "desc")
  /\ UNCHANGED <<work, nodes>>

Descend(t) ==
  LET n == loc[t].node IN
  /\ pc[t] = "desc"
  /\ IF IsBorder(n)
       THEN Goto(t, "leaf") /\ UNCHANGED loc
       ELSE /\ loc' = [loc EXCEPT ![t].child = internode_lookup(n, loc[t].key)]
            /\ Goto(t, "child")
  /\ UNCHANGED <<work, nodes>>

ChildVersion(t) ==
  /\ pc[t] = "child"
  /\ ~dirty(ver[loc[t].child])
  /\ loc' = [loc EXCEPT ![t].cv = ver[loc[t].child]]
  /\ Goto(t, "valid")
  /\ UNCHANGED <<work, nodes>>

\* Mutant: the child is trusted.
StillValid(t) == TRUE

NodeUnchanged(t) == Same(ver[loc[t].node], loc[t].v)

\* Mutant: the version compared with stays the old one.
KeepVersion(t) == loc[t].v

Reread(t) == ver[loc[t].node]

\* A child is trusted when its parent has not changed since it was read; after
\* a split the search starts again.
Validate(t) ==
  LET n == loc[t].node IN
  /\ pc[t] = "valid"
  /\ \/ /\ NodeUnchanged(t)
        /\ loc' = [loc EXCEPT ![t].node = loc[t].child, ![t].v = loc[t].cv]
        /\ Goto(t, "desc")
     \/ /\ ~NodeUnchanged(t)
        /\ ~dirty(ver[n])
        /\ loc' = [loc EXCEPT ![t].v = Reread(t)]
        /\ Goto(t, IF ver[n].vs # loc[t].v.vs THEN "find" ELSE "desc")
  /\ UNCHANGED <<work, nodes>>

-----------------------------------------------------------------------------
(* fptree_get and walk_leaves.                                             *)

\* A leaf that was deleted sends every operation back to the root.
LeafDeleted(t) ==
  /\ pc[t] = "leaf"
  /\ loc[t].v.del
  /\ FromTop(t)
  /\ UNCHANGED <<work, nodes>>

GetRead(t) ==
  /\ pc[t] = "leaf" /\ Op(t).op = "get"
  /\ ~loc[t].v.del
  /\ loc' = [loc EXCEPT ![t].got = {loc[t].key} \cap keys(loc[t].node)]
  /\ Goto(t, "check")
  /\ UNCHANGED <<work, nodes>>

GetCheck(t) ==
  /\ pc[t] = "check"
  /\ Goto(t, IF NodeUnchanged(t) THEN "answer" ELSE "walk")
  /\ UNCHANGED <<work, nodes, loc>>

GetReturn(t) ==
  /\ pc[t] = "answer"
  /\ Finish(t)
  /\ Goto(t, "idle")
  /\ UNCHANGED <<work, nodes>>

WalkVersion(t) ==
  /\ pc[t] = "walk"
  /\ ~dirty(ver[loc[t].node])
  /\ loc' = [loc EXCEPT ![t].v = ver[loc[t].node]]
  /\ Goto(t, "walknext")
  /\ UNCHANGED <<work, nodes>>

\* On to the next leaf while its lowest key is not above the key.
WalkNext(t) ==
  LET next == leaf[loc[t].node].next IN
  /\ pc[t] = "walknext"
  /\ IF ~loc[t].v.del /\ next # Null /\ key_geq(next, loc[t].key)
       THEN loc' = [loc EXCEPT ![t].node = next] /\ Goto(t, "walk")
       ELSE Goto(t, "leaf") /\ UNCHANGED loc
  /\ UNCHANGED <<work, nodes>>

-----------------------------------------------------------------------------
(* fptree_scan.                                                            *)

\* From the second leaf on, the version scan compares with is one it has not
\* waited to be clean.
ScanRead(t) ==
  LET all  == keys(loc[t].node)
      here == IF loc[t].first THEN {k \in all : k >= loc[t].key} ELSE all
  IN
  /\ pc[t] = "leaf" /\ Op(t).op = "scan"
  /\ ~loc[t].v.del
  /\ loc' = [loc EXCEPT ![t].got = @ \cup here, ![t].count = @ + Cardinality(here)]
  /\ Goto(t, "scancheck")
  /\ UNCHANGED <<work, nodes>>

ScanCheck(t) ==
  /\ pc[t] = "scancheck"
  /\ IF NodeUnchanged(t) THEN Goto(t, "scannext") /\ UNCHANGED loc
                         ELSE FromTop(t)
  /\ UNCHANGED <<work, nodes>>

ScanNext(t) ==
  LET next == leaf[loc[t].node].next IN
  /\ pc[t] = "scannext"
  /\ IF next = Null
       THEN Goto(t, "scanned") /\ UNCHANGED loc
       ELSE /\ loc' = [loc EXCEPT ![t].node = next, ![t].first = FALSE]
            /\ Goto(t, "scanver")
  /\ UNCHANGED <<work, nodes>>

ScanVersion(t) ==
  /\ pc[t] = "scanver"
  /\ loc' = [loc EXCEPT ![t].v = ver[loc[t].node]]
  /\ Goto(t, IF loc[t].count < Op(t).len THEN "leaf" ELSE "scanned")
  /\ UNCHANGED <<work, nodes>>

ScanReturn(t) ==
  /\ pc[t] = "scanned"
  /\ Finish(t)
  /\ Goto(t, "idle")
  /\ UNCHANGED <<work, nodes>>

-----------------------------------------------------------------------------
(* Locks.                                                                  *)

LockNode(n)   == ver' = [ver EXCEPT ![n].lock = TRUE]
UnlockNode(n) == ver' = [ver EXCEPT ![n] = Unlocked(@)]

\* Unlock the nodes of todo in order, then return.
UnlockNext(t) ==
  /\ pc[t] = "unlock"
  /\ UnlockNode(Head(loc[t].todo))
  /\ loc' = [loc EXCEPT ![t].todo = Tail(@)]
  /\ Goto(t, IF Len(loc[t].todo) = 1 THEN "ret" ELSE "unlock")
  /\ UNCHANGED <<work, root, leaf, inode, parent, made, freed>>

\* find_leaf_locked: the leaf is locked, unless it split or went since its
\* version was read; then (lock and unlock left out) the leaves are walked.
LockLeaf(t) ==
  LET l == loc[t].node IN
  /\ pc[t] = "leaf" /\ Op(t).op \in {"put", "del"}
  /\ ~loc[t].v.del
  /\ ~ver[l].lock
  /\ IF ver[l].vs = loc[t].v.vs /\ ~ver[l].del
       THEN LockNode(l) /\ Goto(t, Op(t).op)
       ELSE UNCHANGED ver /\ Goto(t, "walk")
  /\ UNCHANGED <<work, root, leaf, inode, parent, made, freed, loc>>

-----------------------------------------------------------------------------
(* fptree_put.                                                             *)

PutMark(t) ==
  LET l == loc[t].node IN
  /\ pc[t] = "put"
  /\ leaf[l].nkeys # NODE_MAX
  /\ ver' = [ver EXCEPT ![l].ins = TRUE]
  /\ Goto(t, "store")
  /\ UNCHANGED <<work, root, leaf, inode, parent, made, freed, loc>>

PutStore(t) ==
  LET l == loc[t].node IN
  /\ pc[t] = "store"
  /\ leaf' = [leaf EXCEPT ![l] = WithKey(@, loc[t].key)]
  /\ loc' = [loc EXCEPT ![t].todo = <<l>>]
  /\ Goto(t, "unlock")
  /\ UNCHANGED <<work, root, ver, inode, parent, made, freed>>

\* split_leaf_node: the greatest keys go to a new leaf, each in its old slot;
\* the least of them is the separator.
UpperSlots(l) ==
  {s \in leaf[l].bitmap :
     Cardinality({x \in leaf[l].bitmap : leaf[l].ent[x] > leaf[l].ent[s]})
       < NODE_MAX - (NODE_PIVOT + 1)}

\* Mutant: the right half is not locked.
TwinUnlocked == [Clean EXCEPT !.spl = TRUE]

\* The right half of a split is born locked and dirty.
Twin == [Clean EXCEPT !.lock = TRUE, !.spl = TRUE]

SplitBuild(t) ==
  LET l     == loc[t].node
      nleaf == FreshIn(Leaf)
      upper == UpperSlots(l)
      sep   == CHOOSE k \in {leaf[l].ent[s] : s \in upper} :
                 \A s \in upper : k <= leaf[l].ent[s]
  IN
  /\ pc[t] = "put"
  /\ leaf[l].nkeys = NODE_MAX
  /\ ~(Leaf \subseteq made)
  /\ made' = made \cup {nleaf}
  /\ ver' = [ver EXCEPT ![nleaf] = Twin]
  /\ leaf' = [leaf EXCEPT ![nleaf] =
       [nkeys |-> Cardinality(upper), bitmap |-> upper,
        ent |-> [s \in Slot |-> IF s \in upper THEN leaf[l].ent[s] ELSE NoKey],
        next |-> leaf[l].next, prev |-> l]]
  /\ parent' = [parent EXCEPT ![nleaf] = parent[l]]
  /\ loc' = [loc EXCEPT ![t].new = nleaf, ![t].sep = sep]
  /\ Goto(t, "splitprev")
  /\ UNCHANGED <<work, root, inode, freed>>

\* The leaf to the right, which nobody has to have locked, points back.
SplitPrev(t) ==
  LET next == leaf[loc[t].new].next IN
  /\ pc[t] = "splitprev"
  /\ leaf' = IF next = Null THEN leaf
             ELSE [leaf EXCEPT ![next].prev = loc[t].new]
  /\ Goto(t, "splitdirty")
  /\ UNCHANGED <<work, root, ver, inode, parent, made, freed, loc>>

SplitDirty(t) ==
  /\ pc[t] = "splitdirty"
  /\ ver' = [ver EXCEPT ![loc[t].node].spl = TRUE]
  /\ Goto(t, "splitmove")
  /\ UNCHANGED <<work, root, leaf, inode, parent, made, freed, loc>>

\* The moved slots are freed and the key is inserted, in the new leaf when
\* key_geq says so.
SplitMove(t) ==
  LET l    == loc[t].node
      new  == loc[t].new
      left == [leaf[l] EXCEPT !.nkeys = NODE_PIVOT + 1,
                              !.bitmap = Slot \ leaf[new].bitmap]
      to   == IF key_geq(new, loc[t].key) THEN new ELSE l
  IN
  /\ pc[t] = "splitmove"
  /\ leaf' = IF to = new
               THEN [leaf EXCEPT ![l] = left, ![new] = WithKey(@, loc[t].key)]
               ELSE [leaf EXCEPT ![l] = WithKey(left, loc[t].key)]
  /\ ver' = [ver EXCEPT ![to].ins = TRUE]
  /\ Goto(t, "splitlink")
  /\ UNCHANGED <<work, root, inode, parent, made, freed, loc>>

SplitLink(t) ==
  /\ pc[t] = "splitlink"
  /\ leaf' = [leaf EXCEPT ![loc[t].node].next = loc[t].new]
  /\ Goto(t, "ascend")
  /\ UNCHANGED <<work, root, ver, inode, parent, made, freed, loc>>

-----------------------------------------------------------------------------
(* lock_parent_node, for a split and for the two steps of a collapse.      *)

After(label) == CASE label = "ascend"   -> "inparent"
                  [] label = "collapse" -> "remove"
                  [] label = "rotate"   -> "adopt"
NoParent(label) == CASE label = "ascend"   -> "newroot"
                     [] label = "collapse" -> "ret"
                     [] label = "rotate"   -> "newtop"
Ascents == {"ascend", "collapse", "rotate"}

\* An empty leaf whose parent went meanwhile is the root now, and stays.
ReadParent(t) ==
  LET n == loc[t].node
      p == parent[n]
  IN
  /\ pc[t] \in Ascents
  /\ loc' = [loc EXCEPT ![t].par = p]
  /\ ver' = IF pc[t] = "collapse" /\ p = Null
              THEN [ver EXCEPT ![n].del = FALSE] ELSE ver
  /\ Goto(t, IF p = Null THEN NoParent(pc[t]) ELSE "lock " \o pc[t])
  /\ UNCHANGED <<work, root, leaf, inode, parent, made, freed>>

\* Mutant: the parent read before the lock is taken for the parent.
StillParent(t) == TRUE

ParentUnchanged(t) == parent[loc[t].node] = loc[t].par

\* The parent is locked if it still is the parent (else it was locked and
\* unlocked, left out).
LockParent(t) ==
  \E label \in Ascents :
    /\ pc[t] = "lock " \o label
    /\ ~ver[loc[t].par].lock
    /\ IF ParentUnchanged(t)
         THEN LockNode(loc[t].par) /\ Goto(t, After(label))
         ELSE UNCHANGED ver /\ Goto(t, label)
    /\ UNCHANGED <<work, root, leaf, inode, parent, made, freed, loc>>

-----------------------------------------------------------------------------
(* split_leaf_node, upward.                                                *)

SetParents(S, p) == [n \in Node |-> IF n \in S THEN p ELSE parent[n]]

NewRoot(t) ==
  LET n     == loc[t].node
      pnode == FreshIn(Inode)
  IN
  /\ pc[t] = "newroot"
  /\ ~(Inode \subseteq made)
  /\ made' = made \cup {pnode}
  /\ ver' = [ver EXCEPT ![pnode] = [Clean EXCEPT !.lock = TRUE, !.ins = TRUE,
                                                 !.root = TRUE]]
  /\ inode' = [inode EXCEPT ![pnode] = [k |-> <<loc[t].sep>>,
                                        ch |-> <<n, loc[t].new>>]]
  /\ parent' = SetParents({n, loc[t].new}, pnode)
  /\ root' = IF root = n THEN pnode ELSE root
  /\ loc' = [loc EXCEPT ![t].todo = <<pnode, loc[t].new, n>>]
  /\ Goto(t, "unlock")
  /\ UNCHANGED <<work, leaf, freed>>

WithChild(f, key, child) ==
  LET i == Cardinality({x \in 1..Len(f.k) : f.k[x] <= key}) IN
  [k |-> InsertAt(f.k, i + 1, key), ch |-> InsertAt(f.ch, i + 2, child)]

\* Mutant: the parent is marked after the left node is unlocked.
MarkLate(t) ==
  /\ pc[t] = "inparent"
  /\ nkeys(loc[t].par) # NODE_MAX
  /\ UnlockNode(loc[t].node)
  /\ Goto(t, "inserted")
  /\ UNCHANGED <<work, root, leaf, inode, parent, made, freed, loc>>

\* A parent with room is marked dirty before the left node is unlocked.
MarkParent(t) ==
  /\ pc[t] = "inparent"
  /\ nkeys(loc[t].par) # NODE_MAX
  /\ ver' = [ver EXCEPT ![loc[t].par].ins = TRUE]
  /\ Goto(t, "unlockleft")
  /\ UNCHANGED <<work, root, leaf, inode, parent, made, freed, loc>>

UnlockLeft(t) ==
  /\ pc[t] = "unlockleft"
  /\ UnlockNode(loc[t].node)
  /\ Goto(t, "inserted")
  /\ UNCHANGED <<work, root, leaf, inode, parent, made, freed, loc>>

InsertInParent(t) ==
  LET p == loc[t].par IN
  /\ pc[t] = "inserted"
  /\ inode' = [inode EXCEPT ![p] = WithChild(@, loc[t].sep, loc[t].new)]
  /\ parent' = SetParents({loc[t].new}, p)
  /\ loc' = [loc EXCEPT ![t].todo = <<loc[t].new, p>>]
  /\ Goto(t, "unlock")
  /\ UNCHANGED <<work, root, ver, leaf, made, freed>>

\* A full parent: the left node is unlocked before the parent is marked.
ParentFull(t) ==
  /\ pc[t] = "inparent"
  /\ nkeys(loc[t].par) = NODE_MAX
  /\ UnlockNode(loc[t].node)
  /\ Goto(t, "splitinter")
  /\ UNCHANGED <<work, root, leaf, inode, parent, made, freed, loc>>

\* split_inter_node: the upper children are copied to a new inode, the pivot
\* goes up.
SplitInterCopy(t) ==
  LET p     == loc[t].par
      rnode == FreshIn(Inode)
      s     == NODE_PIVOT + 1
      k     == SubSeq(inode[p].k, s + 1, NODE_MAX)
      ch    == SubSeq(inode[p].ch, s + 1, NODE_MAX + 1)
  IN
  /\ pc[t] = "splitinter"
  /\ ~(Inode \subseteq made)
  /\ made' = made \cup {rnode}
  /\ ver' = [ver EXCEPT ![rnode] = Twin]
  /\ inode' = [inode EXCEPT ![rnode] = [k |-> k, ch |-> ch]]
  /\ parent' = [SetParents(ToSet(ch), rnode) EXCEPT ![rnode] = parent[p]]
  /\ loc' = [loc EXCEPT ![t].child = rnode]
  /\ Goto(t, "interdirty")
  /\ UNCHANGED <<work, root, leaf, freed>>

SplitInterDirty(t) ==
  /\ pc[t] = "interdirty"
  /\ ver' = [ver EXCEPT ![loc[t].par].spl = TRUE]
  /\ Goto(t, "intermove")
  /\ UNCHANGED <<work, root, leaf, inode, parent, made, freed, loc>>

SplitInterMove(t) ==
  LET p    == loc[t].par
      r    == loc[t].child
      mid  == inode[p].k[NODE_PIVOT + 1]
      left == [k |-> SubSeq(inode[p].k, 1, NODE_PIVOT),
               ch |-> SubSeq(inode[p].ch, 1, NODE_PIVOT + 1)]
      to   == IF loc[t].sep < mid THEN p ELSE r
  IN
  /\ pc[t] = "intermove"
  /\ inode' =
       IF to = p
         THEN [inode EXCEPT ![p] = WithChild(left, loc[t].sep, loc[t].new)]
         ELSE [inode EXCEPT ![p] = left,
                            ![r] = WithChild(@, loc[t].sep, loc[t].new)]
  /\ parent' = SetParents({loc[t].new}, to)
  /\ loc' = [loc EXCEPT ![t].sep = mid]
  /\ Goto(t, "interunlock")
  /\ UNCHANGED <<work, root, ver, leaf, made, freed>>

\* The child's right half is unlocked; the inode and its right half go on.
SplitInterUp(t) ==
  /\ pc[t] = "interunlock"
  /\ UnlockNode(loc[t].new)
  /\ loc' = [loc EXCEPT ![t].node = loc[t].par, ![t].new = loc[t].child]
  /\ Goto(t, "ascend")
  /\ UNCHANGED <<work, root, leaf, inode, parent, made, freed>>

-----------------------------------------------------------------------------
(* fptree_del.                                                             *)

DelMissing(t) ==
  LET l == loc[t].node IN
  /\ pc[t] = "del"
  /\ loc[t].key \notin keys(l)
  /\ loc' = [loc EXCEPT ![t].todo = <<l>>]
  /\ Goto(t, "unlock")
  /\ UNCHANGED <<work, nodes>>

DelMark(t) ==
  LET l == loc[t].node IN
  /\ pc[t] = "del"
  /\ loc[t].key \in keys(l)
  /\ ver' = [ver EXCEPT ![l].ins = TRUE]
  /\ Goto(t, "delstore")
  /\ UNCHANGED <<work, root, leaf, inode, parent, made, freed, loc>>

\* The last key takes the leaf with it, unless the leaf is the root.
DelStore(t) ==
  LET l == loc[t].node IN
  /\ pc[t] = "delstore"
  /\ leaf' = [leaf EXCEPT
       ![l].bitmap = {s \in @ : leaf[l].ent[s] # loc[t].key},
       ![l].nkeys = @ - 1]
  /\ IF leaf[l].nkeys - 1 = 0 /\ root # l
       THEN Goto(t, "delnext") /\ UNCHANGED loc
       ELSE Goto(t, "unlock") /\ loc' = [loc EXCEPT ![t].todo = <<l>>]
  /\ UNCHANGED <<work, root, ver, inode, parent, made, freed>>

\* delete_leaf_node: the next leaf is locked first; one that was deleted is
\* waited for until the pointer has moved on.
ReadNext(t) ==
  LET next == leaf[loc[t].node].next IN
  /\ pc[t] = "delnext"
  /\ loc' = [loc EXCEPT ![t].nxt = next]
  /\ Goto(t, IF next = Null THEN "delmark" ELSE "locknext")
  /\ UNCHANGED <<work, nodes>>

LockNext(t) ==
  LET next == loc[t].nxt IN
  /\ pc[t] = "locknext"
  /\ ~ver[next].lock
  /\ IF ver[next].del
       THEN UNCHANGED ver /\ Goto(t, "delnext")
       ELSE LockNode(next) /\ Goto(t, "delmark")
  /\ UNCHANGED <<work, root, leaf, inode, parent, made, freed, loc>>

MarkDeleted(t) ==
  /\ pc[t] = "delmark"
  /\ ver' = [ver EXCEPT ![loc[t].node].del = TRUE]
  /\ Goto(t, "delprev")
  /\ UNCHANGED <<work, root, leaf, inode, parent, made, freed, loc>>

\* Mutant: only the chain to the left is repaired.
RelinkNone(next, prev) == leaf' = leaf

\* The leaf to the right points to the one to the left.
Relink(next, prev) == leaf' = [leaf EXCEPT ![next].prev = prev]

ReadPrev(t) ==
  LET prev == leaf[loc[t].node].prev IN
  /\ pc[t] = "delprev"
  /\ loc' = [loc EXCEPT ![t].prev = prev]
  /\ Goto(t, IF prev = Null THEN "delfix" ELSE "prevver")
  /\ UNCHANGED <<work, nodes>>

PrevVersion(t) ==
  /\ pc[t] = "prevver"
  /\ ~dirty(ver[loc[t].prev])
  /\ loc' = [loc EXCEPT ![t].v = ver[loc[t].prev]]
  /\ Goto(t, "prevcas")
  /\ UNCHANGED <<work, nodes>>

\* Compare-and-swap of the previous leaf's next pointer, unless it is right.
PrevCas(t) ==
  LET p == loc[t].prev IN
  /\ pc[t] = "prevcas"
  /\ IF leaf[p].next \in {loc[t].nxt, loc[t].node}
       THEN leaf' = [leaf EXCEPT ![p].next = loc[t].nxt] /\ Goto(t, "prevcheck")
       ELSE UNCHANGED leaf /\ Goto(t, "delprev")
  /\ UNCHANGED <<work, root, ver, inode, parent, made, freed, loc>>

PrevCheck(t) ==
  /\ pc[t] = "prevcheck"
  /\ Goto(t, IF Same(ver[loc[t].prev], loc[t].v) THEN "delfix" ELSE "delprev")
  /\ UNCHANGED <<work, nodes, loc>>

FixNext(t) ==
  LET next == loc[t].nxt IN
  /\ pc[t] = "delfix"
  /\ IF next = Null THEN UNCHANGED <<leaf, ver>>
     ELSE Relink(next, leaf[loc[t].node].prev) /\ UnlockNode(next)
  /\ Goto(t, "collapse")
  /\ UNCHANGED <<work, root, inode, parent, made, freed, loc>>

-----------------------------------------------------------------------------
(* collapse_nodes.  Nothing unlocks the leaf.                              *)

\* Mutant: the separator to the left of the child goes, whichever it is.
WithoutChildLeft(f, key) ==
  LET i == Cardinality({x \in 1..Len(f.k) : f.k[x] <= key}) IN
  [k |-> RemoveAt(f.k, IF i = 0 THEN 1 ELSE i),
   ch |-> RemoveAt(f.ch, IF i = 0 THEN 2 ELSE i + 1)]

\* The child on the way to key goes with the separator to its right, the
\* last one with that to its left.
WithoutChild(f, key) ==
  LET i == Cardinality({x \in 1..Len(f.k) : f.k[x] <= key}) IN
  [k |-> RemoveAt(f.k, IF i = Len(f.k) THEN i ELSE i + 1),
   ch |-> RemoveAt(f.ch, i + 1)]

\* Readers of the parent fail from here on.
RemoveMark(t) ==
  /\ pc[t] = "remove"
  /\ ver' = [ver EXCEPT ![loc[t].par].ins = TRUE]
  /\ Goto(t, "removed")
  /\ UNCHANGED <<work, root, leaf, inode, parent, made, freed, loc>>

\* internode_remove; a parent with one key is deleted in favour of its other
\* child.
RemoveChild(t) ==
  LET p == loc[t].par IN
  /\ pc[t] = "removed"
  /\ IF nkeys(p) > 1
       THEN /\ inode' = [inode EXCEPT ![p] = WithoutChild(@, loc[t].key)]
            /\ loc' = [loc EXCEPT ![t].todo = <<p>>]
            /\ Goto(t, "unlock")
            /\ UNCHANGED ver
       ELSE /\ ver' = [ver EXCEPT ![p].del = TRUE]
            /\ loc' = [loc EXCEPT ![t].node = p, ![t].child =
                         inode[p].ch[IF loc[t].key < inode[p].k[1] THEN 2 ELSE 1]]
            /\ Goto(t, "rotate")
            /\ UNCHANGED inode
  /\ UNCHANGED <<work, root, leaf, parent, made, freed>>

\* The grandparent adopts the child, and the parent is freed.
Adopt(t) ==
  LET g == loc[t].par IN
  /\ pc[t] = "adopt"
  /\ inode' = [inode EXCEPT ![g].ch[Pos(g, loc[t].key) + 1] = loc[t].child]
  /\ parent' = SetParents({loc[t].child}, g)
  /\ freed' = freed \cup {loc[t].node}
  /\ loc' = [loc EXCEPT ![t].todo = <<g>>]
  /\ Goto(t, "unlock")
  /\ UNCHANGED <<work, root, ver, leaf, made>>

\* The child becomes the root; a reader of the old one finds it as its parent.
NewTop(t) ==
  LET n == loc[t].node IN
  /\ pc[t] = "newtop"
  /\ ver' = [ver EXCEPT ![n].root = FALSE]
  /\ parent' = SetParents({n}, loc[t].child)
  /\ root' = IF root = n THEN loc[t].child ELSE root
  /\ Goto(t, "freetop")
  /\ UNCHANGED <<work, leaf, inode, made, freed, loc>>

FreeTop(t) ==
  /\ pc[t] = "freetop"
  /\ parent' = SetParents({loc[t].child}, Null)
  /\ freed' = freed \cup {loc[t].node}
  /\ Goto(t, "ret")
  /\ UNCHANGED <<work, root, ver, leaf, inode, made, loc>>

-----------------------------------------------------------------------------
Step(t) ==
  \/ Return(t) \/ FindRoot(t) \/ WalkToRoot(t) \/ RootVersion(t)
  \/ Descend(t) \/ ChildVersion(t) \/ Validate(t) \/ LeafDeleted(t)
  \/ GetRead(t) \/ GetCheck(t) \/ GetReturn(t) \/ WalkVersion(t) \/ WalkNext(t)
  \/ ScanRead(t) \/ ScanCheck(t) \/ ScanNext(t) \/ ScanVersion(t) \/ ScanReturn(t)
  \/ UnlockNext(t) \/ LockLeaf(t) \/ PutMark(t) \/ PutStore(t)
  \/ SplitBuild(t) \/ SplitPrev(t) \/ SplitDirty(t) \/ SplitMove(t) \/ SplitLink(t)
  \/ ReadParent(t) \/ LockParent(t) \/ NewRoot(t) \/ MarkParent(t)
  \/ UnlockLeft(t) \/ InsertInParent(t) \/ ParentFull(t) \/ SplitInterCopy(t)
  \/ SplitInterDirty(t) \/ SplitInterMove(t) \/ SplitInterUp(t)
  \/ DelMissing(t) \/ DelMark(t) \/ DelStore(t) \/ ReadNext(t) \/ LockNext(t)
  \/ MarkDeleted(t) \/ ReadPrev(t) \/ PrevVersion(t) \/ PrevCas(t)
  \/ PrevCheck(t) \/ FixNext(t) \/ RemoveMark(t)
  \/ RemoveChild(t) \/ Adopt(t) \/ NewTop(t) \/ FreeTop(t)

Finished == \A t \in Thread : pc[t] = "idle" /\ loc[t].n = Len(work.prog[t])

\* The programs end: the last disjunct is a stop, not a deadlock.
Next ==
  \/ \E t \in Thread : Call(t) \/ Step(t)
  \/ Finished /\ UNCHANGED vars

Spec == Init /\ [][Next]_vars

\* Every thread that can move is eventually scheduled.
FairSpec == Spec /\ \A t \in Thread : WF_vars(Call(t) \/ Step(t))

-----------------------------------------------------------------------------
(* Properties.                                                             *)

Version == [lock : BOOLEAN, ins : BOOLEAN, spl : BOOLEAN, del : BOOLEAN,
            root : BOOLEAN, vi : 0..(InsertMod - 1), vs : 0..(SplitMod - 1)]

\* Type invariant; only a locked node is dirty, and children are allocated.
TypeOK ==
  /\ root \in made /\ made \subseteq Node /\ freed \subseteq made \cap Inode
  /\ ver \in [Node -> Version]
  /\ \A n \in Node : dirty(ver[n]) => ver[n].lock
  /\ leaf \in [Leaf -> [nkeys : 0..NODE_MAX, bitmap : SUBSET Slot,
                        ent : [Slot -> Key \cup {NoKey}],
                        next : Leaf \cup {Null}, prev : Leaf \cup {Null}]]
  /\ \A n \in Inode : /\ inode[n].k \in Seq(Key) /\ nkeys(n) <= NODE_MAX
                      /\ ToSet(inode[n].ch) \subseteq made
                      /\ n \in made => Len(inode[n].ch) = nkeys(n) + 1
  /\ parent \in [Node -> Node \cup {Null}]

\* The nodes t has locked and is about to write.
Holding(t) ==
  CASE pc[t] \in {"put", "store", "del", "delstore", "delnext", "locknext",
                  "splitprev", "splitdirty"} -> {loc[t].node}
    [] pc[t] \in {"splitmove", "splitlink", "ascend", "lock ascend", "newroot"} ->
         {loc[t].node, loc[t].new}
    [] pc[t] \in {"inparent", "unlockleft"} ->
         {loc[t].node, loc[t].new, loc[t].par}
    [] pc[t] \in {"inserted", "splitinter"} -> {loc[t].new, loc[t].par}
    [] pc[t] \in {"interdirty", "intermove", "interunlock"} ->
         {loc[t].new, loc[t].par, loc[t].child}
    [] pc[t] \in {"delmark", "delprev", "prevver", "prevcas", "prevcheck",
                  "delfix"} -> {loc[t].node, loc[t].nxt} \ {Null}
    [] pc[t] \in {"remove", "removed", "adopt"} -> {loc[t].node, loc[t].par}
    [] pc[t] = "unlock" -> ToSet(loc[t].todo)
    [] OTHER -> {}

\* Nodes are written under their own lock, which one thread holds, through
\* the hand-over of locks up a split and the deletion of a leaf between two
\* others.  A parent that is locked and whose child has just been checked is
\* the node that has the child: splits move children while others wait for them.
LocksHeld ==
  /\ TypeOK
  /\ \A t \in Thread : \A n \in Holding(t) : ver[n].lock
  /\ \A t, u \in Thread : t # u => Holding(t) \cap Holding(u) = {}
  /\ \A t \in Thread : pc[t] \in {"inparent", "remove", "adopt"} =>
       loc[t].node \in ToSet(inode[loc[t].par].ch)

-----------------------------------------------------------------------------
(* The tree at rest.                                                       *)

Below ==
  LET sub[d \in 0..MaxNode] ==
        [n \in Node |-> IF IsBorder(n) THEN {n}
                        ELSE IF d = 0 THEN {}
                        ELSE UNION {sub[d - 1][c] : c \in ToSet(inode[n].ch)}]
  IN sub[MaxNode]

Leaves == Below[root]

AtRest == \A t \in Thread : pc[t] \in {"idle", "ret", "answer", "scanned"}

\* With no operation at work: the chain of leaves, both ways, is the leaves
\* of the tree, every node below the root is its parent's child, and each key
\* is in the leaf its search ends in.
TreeSound ==
  AtRest =>
    /\ \A l \in Leaves : /\ leaf[l].next # Null => leaf[leaf[l].next].prev = l
                         /\ {leaf[l].next, leaf[l].prev} \subseteq Leaves \cup {Null}
    /\ parent[root] = Null
    /\ \A n \in (made \cap Inode) \ freed : \A c \in ToSet(inode[n].ch) : parent[c] = n
    /\ \A l \in Leaves : \A k \in keys(l) :
         \A n \in (made \cap Inode) \ freed :
           \A i \in DOMAIN inode[n].ch :
             l \in Below[inode[n].ch[i]] => i = Pos(n, k) + 1

\* Keys that are there all the time as t knows it: loaded, or put by t before,
\* and deleted by no call.
Known(t) ==
  {k \in work.tree.keys \cup {work.prog[t][i].key : i \in
           {j \in 1..(loc[t].n - 1) : work.prog[t][j].op = "put"}} :
     \A u \in Thread : \A i \in DOMAIN work.prog[u] :
       work.prog[u][i].op = "del" => work.prog[u][i].key # k}

\* A search for a key that is there all the time finds it, through the splits
\* of leaves and inodes on its way: test/interface.h counts an error when
\* fptree_get does not.
GetFindsKey ==
  \A t \in Thread :
    pc[t] = "answer" /\ loc[t].key \in Known(t) => loc[t].got # {}

\* A scan that returns has not skipped a key that was there all the time.
ScanNoGap ==
  \A t \in Thread : pc[t] = "scanned" =>
    \A k \in Known(t) :
      (\E g \in loc[t].got : loc[t].key <= k /\ k <= g) => k \in loc[t].got

-----------------------------------------------------------------------------
(* The tree implements KVStore, scans left out.                            *)

OpKindOf(t) ==
  LET o == Op(t).op IN
  IF pc[t] \in {"ret", "splitlink", "ascend", "lock ascend", "newroot",
                "inparent", "unlockleft", "inserted", "splitinter",
                "interdirty", "intermove", "interunlock", "unlock", "delnext",
                "locknext", "delmark", "delprev", "prevver", "prevcas",
                "prevcheck", "delfix", "collapse", "lock collapse",
                "remove", "removed", "rotate", "lock rotate", "adopt",
                "newtop", "freetop"}
    THEN "done"
  ELSE IF pc[t] = "answer" THEN IF loc[t].got = {} THEN "missing" ELSE "found"
  ELSE CASE o = "get" -> "lookup" [] o = "put" -> "insert" [] o = "del" -> "delete"

OpOf(t) ==
  IF pc[t] = "idle" \/ Op(t).op = "scan" THEN [kind |-> "idle"]
  ELSE [kind |-> OpKindOf(t), key |-> loc[t].key, len |-> 0, got |-> {}]

KV == INSTANCE KVStore WITH
        Client <- Thread,
        store <- UNION {keys(l) : l \in {x \in made \cap Leaf : ~ver[x].del}},
        op <- [t \in Thread |-> OpOf(t)]

\* Puts, gets and deletes each appear to happen at once, although readers
\* take no lock and a key is for a while in a leaf its parent does not know.
Linearizable == KV!KVSpec

\* Every call returns.
CallsReturn == \A t \in Thread : pc[t] # "idle" ~> pc[t] = "idle"
=============================================================================
