------------------------------ MODULE LbTree ------------------------------
(***************************************************************************)
(* The lbtree baseline (lbtree-src/lbtree.cc, .h) built with OPEN_RTM and  *)
(* entry moving: a B+-tree with its leaves (bleaf) in persistent memory as *)
(* level 0 and bnodes in DRAM above them.  Unlike sobtree it keeps both in *)
(* one tree, it deletes, it frees nodes, and it scans.                     *)
(*                                                                         *)
(* Granularity.  An RTM transaction is one action, enabled when it would   *)
(* commit; stores to a node that no transaction reads because its lock bit *)
(* is set are grouped, and so are stores to a private node.                *)
(*                                                                         *)
(* Data.  A leaf keeps its slots: lookup returns a slot its caller reads   *)
(* later.  The value stored with a key is the key, as test/interface.h     *)
(* stores it; fingerprints are left out.  Level i of the tree has nodes    *)
(* <<i, n>>; ch[j] here is ch(j - 1) of the code.                          *)
(***************************************************************************)
EXTENDS Integers, Sequences, FiniteSets, SequencesExt

CONSTANTS
  Key,                \* positive integers: keys, and the values stored
  Thread,
  Workload,           \* what is run: [prog, tree]; prog[t] the calls of t,
                      \* in order, tree the initial one
  LEAF_KEY_NUM,       \* entries of a leaf, 14 in the code
  LastInLine,         \* last_slot_in_line of the slots past line 0
  NON_LEAF_KEY_NUM,   \* keys of a bnode
  MaxNode,            \* bound: nodes per level
  MaxLevel            \* bound: highest level, 31 in the code (parray[32])

Null   == -1
NoKey  == 0
Slot   == 0..(LEAF_KEY_NUM - 1)
Level  == 0..MaxLevel
Num    == 0..(MaxNode - 1)
Line0  == Slot \ DOMAIN LastInLine

\* Operations: [op, key, len]; len is the one of a scan.
OpKind == {"insert", "update", "lookup", "delete", "scan"}

\* The slots of a line after s are no more than the slots below s: in the code
\* the lines past line 0 end at slots 6, 10 and 13, so 3 at most follow slot 3
\* or one after it.
ASSUME LbTreeConstants ==
  /\ Key \subseteq Nat \ {0}
  /\ LEAF_KEY_NUM \in Nat \ {0, 1}
  /\ \A s \in DOMAIN LastInLine : /\ s \in Slot /\ LastInLine[s] \in Slot
                                  /\ LastInLine[s] - s <= s
  /\ NON_LEAF_KEY_NUM \in Nat \ {0, 1}
  /\ MaxLevel \in Nat \ {0} /\ MaxNode \in Nat \ {0}

-----------------------------------------------------------------------------
(* What the nodes hold, and what runs start from.                          *)

Bnode == [k : Seq(Key), ch : Seq(Num), lock : BOOLEAN]
Bnodes == {b \in [(Level \ {0}) \X Num -> Bnode] :
             \A n \in DOMAIN b : /\ Len(b[n].ch) = Len(b[n].k) + 1
                                 /\ Len(b[n].k) <= NON_LEAF_KEY_NUM}
Leaf == [bitmap : SUBSET Slot, lock : BOOLEAN, alt : {0, 1},
         ent : [Slot -> Key \cup {NoKey}], next : [{0, 1} -> Num \cup {Null}]]
Leaves == [Num -> Leaf]

DistinctKeys(l) ==
  /\ \A s \in l.bitmap : l.ent[s] \in Key
  /\ \A s, x \in l.bitmap : l.ent[s] = l.ent[x] => s = x

\* Every node but the root is the child of one bnode of the level above it.
TreeOK(tree) ==
  LET inner    == {m \in tree.used : m[1] >= 1}
      at(m)    == 0..Len(tree.bnode[m].k)
      kid(m, p) == <<m[1] - 1, tree.bnode[m].ch[p + 1]>>
  IN
  /\ tree.used \subseteq Level \X Num /\ tree.root \in tree.used
  /\ tree.first \in Num \cup {Null}
  /\ tree.leaf \in Leaves /\ tree.bnode \in Bnodes
  /\ \A l \in Num : <<0, l>> \in tree.used => DistinctKeys(tree.leaf[l])
  /\ \A m \in inner : \A p \in at(m) : kid(m, p) \in tree.used \ {tree.root}
  /\ \A m, n \in inner : \A p \in at(m), q \in at(n) :
       kid(m, p) = kid(n, q) => m = n /\ p = q
  /\ \A c \in tree.used \ {tree.root} :
       c[1] < tree.root[1] /\ \E m \in inner : \E p \in at(m) : kid(m, p) = c

ASSUME WorkloadOK ==
  \A w \in Workload :
    /\ \A t \in Thread : w.prog[t] \in Seq([op : OpKind, key : Key, len : Nat])
    /\ TreeOK(w.tree)

VARIABLES
  work,                    \* the member of Workload that runs
  tree_root, root_level,   \* treeMeta
  first_leaf,
  bnode,                   \* bnode[n]: separators, children and lock bit
  leaf,                    \* leaf[l]: bitmap, lock, alt, entries, siblings
  used,                    \* nodes allocated and not freed
  pc, loc                  \* control point and local variables per thread

upper  == <<tree_root, root_level, bnode>>
lower  == <<first_leaf, leaf, work>>
vars   == <<work, tree_root, root_level, first_leaf, bnode, leaf, used, pc, loc>>

NoLocal == [n |-> 0, key |-> NoKey, pos |-> -1, got |-> {}, path |-> <<>>,
            sib |-> Null, sep |-> NoKey, ptr |-> Null, total |-> 0, lev |-> 0,
            old_root |-> <<>>]

Init ==
  /\ work \in Workload
  /\ tree_root = work.tree.root
  /\ root_level = work.tree.root[1]
  /\ first_leaf = work.tree.first
  /\ bnode = work.tree.bnode
  /\ leaf = work.tree.leaf
  /\ used = work.tree.used
  /\ pc = [t \in Thread |-> "idle"]
  /\ loc = [t \in Thread |-> NoLocal]

Goto(t, label) == pc' = [pc EXCEPT ![t] = label]
Op(t) == work.prog[t][loc[t].n]

-----------------------------------------------------------------------------
(* Leaves.                                                                 *)

keys(l)   == {leaf[l].ent[s] : s \in leaf[l].bitmap}
isFull(l) == leaf[l].bitmap = Slot
nextSibling(l) == leaf[l].next[leaf[l].alt]

FirstEmpty(bitmap) == CHOOSE s \in Slot \ bitmap :
                        \A x \in Slot \ bitmap : s <= x

\* An entry goes to the first empty slot; in a later line the other empty
\* slots of that line take entries of line 0, whose slots become free.
WithEntry(m, ent, k) ==
  LET slot == FirstEmpty(m)
      to == IF slot \in Line0 THEN {}
            ELSE {s \in (slot + 1)..LastInLine[slot] : s \notin m}
      from(s) == Cardinality({x \in to : x < s})
  IN
  [bitmap |-> (m \cup {slot} \cup to) \ {from(s) : s \in to},
   ent |-> [s \in Slot |-> IF s = slot THEN k
                           ELSE IF s \in to THEN ent[from(s)] ELSE ent[s]]]

-----------------------------------------------------------------------------
(* The way down, common to every transaction.                              *)

num(n) == Len(bnode[n].k)
ChildPos(n, key) == Cardinality({b \in 1..num(n) : bnode[n].k[b] <= key})
Child(n, pos)    == bnode[n].ch[pos + 1]

\* p[i] is the node of level i on the way to key; a set lock bit aborts.
IsDescent(p, key) ==
  /\ tree_root = <<root_level, p[root_level]>>
  /\ \A i \in 1..root_level :
       /\ ~bnode[<<i, p[i]>>].lock
       /\ p[i - 1] = Child(<<i, p[i]>>, ChildPos(<<i, p[i]>>, key))

Descents(key) == {p \in [0..root_level -> Num] : IsDescent(p, key)}

\* What insert and del record: parray, ppos and isfull, and the root level
\* the transaction read.
PathTaken(p, key) ==
  LET at(i) == <<i, p[i]>> IN
  [parray |-> p, rl |-> root_level,
   ppos   |-> [i \in 1..root_level |-> ChildPos(at(i), key)],
   isfull |-> [i \in 0..root_level |->
                IF i = 0 THEN isFull(p[0]) ELSE num(at(i)) = NON_LEAF_KEY_NUM]]

\* The bnodes an insert will change: none when the leaf is not full.
LockedFull(path) ==
  {<<i, path.parray[i]>> :
     i \in {j \in 1..path.rl : \A m \in 0..(j - 1) : path.isfull[m]}}

\* The bnodes a del will change: up from the parent, to the first with two
\* children.
LockedLone(path) ==
  {<<i, path.parray[i]>> :
     i \in {j \in 1..path.rl :
              \A m \in 1..(j - 1) : num(<<m, path.parray[m]>>) = 0}}

LockBnodes(S) == bnode' = [n \in DOMAIN bnode |->
                             IF n \in S THEN [bnode[n] EXCEPT !.lock = TRUE]
                                        ELSE bnode[n]]

-----------------------------------------------------------------------------
Call(t) ==
  /\ pc[t] = "idle"
  /\ loc[t].n < Len(work.prog[t])
  /\ LET o == work.prog[t][loc[t].n + 1] IN
       /\ loc' = [loc EXCEPT ![t] = [NoLocal EXCEPT !.n = loc[t].n + 1,
                                                    !.key = o.key]]
       /\ Goto(t, o.op)
  /\ UNCHANGED <<upper, lower, used>>

Return(t) ==
  /\ pc[t] = "ret"
  /\ loc' = [loc EXCEPT ![t] = [NoLocal EXCEPT !.n = loc[t].n]]
  /\ Goto(t, "idle")
  /\ UNCHANGED <<upper, lower, used>>

PosOf(l, key) ==
  IF key \in keys(l)
    THEN CHOOSE s \in leaf[l].bitmap : leaf[l].ent[s] = key
    ELSE -1

\* lookup is one transaction; it returns the leaf and the slot of the key.
Lookup(t) ==
  /\ pc[t] = "lookup"
  /\ \E p \in Descents(loc[t].key) :
       /\ ~leaf[p[0]].lock
       /\ loc' = [loc EXCEPT ![t].ptr = p[0],
                             ![t].pos = PosOf(p[0], loc[t].key)]
  /\ Goto(t, "read")
  /\ UNCHANGED <<upper, lower, used>>

\* Mutant: a lookup that finds nothing is tried again.
ReadAgain(t) ==
  /\ pc[t] = "read"
  /\ IF loc[t].pos = -1
       THEN Goto(t, "lookup") /\ UNCHANGED loc
       ELSE /\ loc' = [loc EXCEPT ![t] = [NoLocal EXCEPT !.n = loc[t].n]]
            /\ Goto(t, "idle")
  /\ UNCHANGED <<upper, lower, used>>

\* tree_search then reads the value from the leaf, outside the transaction.
ReadPtr(t) ==
  /\ pc[t] = "read"
  /\ loc' = [loc EXCEPT ![t] = [NoLocal EXCEPT !.n = loc[t].n]]
  /\ Goto(t, "idle")
  /\ UNCHANGED <<upper, lower, used>>

\* Mutant: the chain is followed by the pointer that is not in use.
UnusedSibling(l) == leaf[l].next[1 - leaf[l].alt]

\* The leaves scan reads, from l on: Null when it has come to the tail.
ScanNext(l) == nextSibling(l)

\* What a scan from the leaf at the end of p can return: whole leaves, until
\* len entries or the tail; a locked leaf aborts.
ScanResults(p, key, len) ==
  LET chain[i \in 0..MaxNode] ==
        IF i = 0 THEN p[0]
        ELSE IF chain[i - 1] = Null THEN Null ELSE ScanNext(chain[i - 1])
      From(i) == IF i = 0 THEN {k \in keys(p[0]) : k >= key} ELSE keys(chain[i])
      Size(n) == Cardinality({x \in {<<i, k>> : i \in 0..(n - 1), k \in Key} :
                                x[2] \in From(x[1])})
      ends(n) ==
        /\ \A i \in 0..(n - 1) : chain[i] # Null /\ ~leaf[chain[i]].lock
        /\ \A i \in 0..(n - 1) : Size(i) < len
        /\ Size(n) >= len \/ chain[n] = Null
  IN {UNION {From(i) : i \in 0..(n - 1)} : n \in {m \in 0..MaxNode : ends(m)}}

\* scan is one transaction.
Scan(t) ==
  LET key == loc[t].key IN
  /\ pc[t] = "scan"
  /\ \E p \in Descents(key) : \E got \in ScanResults(p, key, Op(t).len) :
       loc' = [loc EXCEPT ![t].got = got]
  /\ Goto(t, "scanned")
  /\ UNCHANGED <<upper, lower, used>>

ScanReturn(t) ==
  /\ pc[t] = "scanned"
  /\ loc' = [loc EXCEPT ![t] = [NoLocal EXCEPT !.n = loc[t].n]]
  /\ Goto(t, "idle")
  /\ UNCHANGED <<upper, lower, used>>

-----------------------------------------------------------------------------
(* insert, part 1.                                                         *)

\* The key is there: an update locks the leaf, an insert returns.
InsertFound(t) ==
  /\ pc[t] \in {"insert", "update"}
  /\ \E p \in Descents(loc[t].key) :
       /\ ~leaf[p[0]].lock
       /\ loc[t].key \in keys(p[0])
       /\ IF pc[t] = "update"
            THEN /\ leaf' = [leaf EXCEPT ![p[0]].lock = TRUE]
                 /\ loc' = [loc EXCEPT ![t].ptr = p[0]]
                 /\ Goto(t, "setval")
            ELSE Goto(t, "ret") /\ UNCHANGED <<leaf, loc>>
  /\ UNCHANGED <<upper, first_leaf, used, work>>

\* The value is stored and flushed, then the leaf unlocked.
SetValue(t) ==
  /\ pc[t] = "setval"
  /\ leaf' = [leaf EXCEPT ![loc[t].ptr].lock = FALSE]
  /\ Goto(t, "ret")
  /\ UNCHANGED <<upper, first_leaf, used, loc, work>>

\* The key is not there: the leaf is locked, and the bnodes to change.
InsertFind(t) ==
  /\ pc[t] \in {"insert", "update"}
  /\ \E p \in Descents(loc[t].key) :
       LET path == PathTaken(p, loc[t].key) IN
       /\ ~leaf[p[0]].lock
       /\ loc[t].key \notin keys(p[0])
       /\ leaf' = [leaf EXCEPT ![p[0]].lock = TRUE]
       /\ LockBnodes(LockedFull(path))
       /\ loc' = [loc EXCEPT ![t].path = path]
       /\ Goto(t, IF isFull(p[0]) THEN "split" ELSE "fill")
  /\ UNCHANGED <<tree_root, root_level, first_leaf, used, work>>

-----------------------------------------------------------------------------
(* insert, part 2: the leaf.                                               *)

lp(t) == loc[t].path.parray[0]

\* Entries are written, then one store of meta marks them and unlocks.
FillSlot(t) ==
  LET l == lp(t)
      e == WithEntry(leaf[l].bitmap, leaf[l].ent, loc[t].key)
  IN
  /\ pc[t] = "fill"
  /\ leaf' = [leaf EXCEPT ![l].bitmap = e.bitmap, ![l].ent = e.ent,
                          ![l].lock = FALSE]
  /\ Goto(t, "ret")
  /\ UNCHANGED <<upper, first_leaf, used, loc, work>>

\* A node of level i the pool has free: the first, so that freed ones come back.
FreeNode(i) == CHOOSE n \in Num : /\ <<i, n>> \notin used
                                  /\ \A m \in 0..(n - 1) : <<i, m>> \in used

\* The slot of the i-th smallest key (sorted_pos), i counted from 0.
SortedPos(l, i) ==
  CHOOSE s \in Slot :
    Cardinality({x \in Slot : leaf[l].ent[x] < leaf[l].ent[s]}) = i

SPLIT == LEAF_KEY_NUM \div 2

\* The upper half goes to a new leaf, with the key being inserted when that
\* is above the split key; the new leaf is linked from the unused sibling
\* pointer.
SplitBuild(t) ==
  LET l     == lp(t)
      newp  == FreeNode(0)
      sk    == leaf[l].ent[SortedPos(l, SPLIT)]
      above == loc[t].key > sk
      upperSlots == SPLIT..(LEAF_KEY_NUM - 1)
      ent   == [s \in Slot |->
                  CASE s \in upperSlots -> leaf[l].ent[SortedPos(l, s)]
                    [] s = SPLIT - 1 /\ above -> loc[t].key
                    [] OTHER -> leaf[newp].ent[s]]
  IN
  /\ pc[t] = "split"
  /\ used # used \cup ({0} \X Num)
  /\ leaf' = [leaf EXCEPT
       ![newp] = [bitmap |-> upperSlots \cup (IF above THEN {SPLIT - 1} ELSE {}),
                  lock |-> FALSE, alt |-> 0, ent |-> ent,
                  next |-> [a \in {0, 1} |-> IF a = 0 THEN nextSibling(l)
                                             ELSE leaf[newp].next[1]]],
       ![l].next[1 - leaf[l].alt] = newp]
  /\ used' = used \cup {<<0, newp>>}
  /\ loc' = [loc EXCEPT ![t].sep = sk, ![t].ptr = newp]
  /\ Goto(t, "publish")
  /\ UNCHANGED <<upper, first_leaf, work>>

\* Mutant: the root leaf is unlocked too.
UnlocksAlways == TRUE

\* A leaf that is the root stays locked until the tree has grown.
UnlocksLeaf == root_level > 0

\* One store of meta switches alt and frees the moved slots.  It unlocks the
\* leaf only when the key went to the new one.
SplitPublish(t) ==
  LET l == lp(t)
      above == loc[t].key > loc[t].sep
  IN
  /\ pc[t] = "publish"
  /\ leaf' = [leaf EXCEPT
       ![l].bitmap = {s \in Slot : leaf[l].ent[s] < loc[t].sep},
       ![l].alt = 1 - @,
       ![l].lock = ~(above /\ UnlocksLeaf)]
  /\ Goto(t, IF above THEN "level" ELSE "addleft")
  /\ UNCHANGED <<upper, first_leaf, used, loc, work>>

InsertLeft(t) ==
  LET l == lp(t)
      e == WithEntry(leaf[l].bitmap, leaf[l].ent, loc[t].key)
  IN
  /\ pc[t] = "addleft"
  /\ leaf' = [leaf EXCEPT ![l].bitmap = e.bitmap, ![l].ent = e.ent,
                          ![l].lock = ~UnlocksLeaf]
  /\ Goto(t, "level")
  /\ UNCHANGED <<upper, first_leaf, used, loc, work>>

-----------------------------------------------------------------------------
(* insert, part 3: the bnodes.                                             *)

LEFT_KEY_NUM == NON_LEAF_KEY_NUM \div 2

\* total_level is read after the transaction has committed.
ReadLevel(t) ==
  /\ pc[t] = "level"
  /\ loc' = [loc EXCEPT ![t].total = root_level, ![t].lev = 1]
  /\ Goto(t, IF root_level >= 1 THEN "bnode" ELSE "grow")
  /\ UNCHANGED <<upper, lower, used>>

Here(t) == <<loc[t].lev, loc[t].path.parray[loc[t].lev]>>
pos(t)  == loc[t].path.ppos[loc[t].lev]
MergedK(t)  == InsertAt(bnode[Here(t)].k, pos(t) + 1, loc[t].sep)
MergedCh(t) == InsertAt(bnode[Here(t)].ch, pos(t) + 2, loc[t].ptr)

\* Mutant: a full bnode has room.
RoomForOneMore(n) == num(n) <= NON_LEAF_KEY_NUM

RoomInBnode(n) == num(n) < NON_LEAF_KEY_NUM

InsertBnode(t) ==
  /\ pc[t] = "bnode"
  /\ RoomInBnode(Here(t))
  /\ bnode' = [bnode EXCEPT ![Here(t)] =
                 [k |-> MergedK(t), ch |-> MergedCh(t), lock |-> FALSE]]
  /\ Goto(t, "ret")
  /\ UNCHANGED <<tree_root, root_level, lower, used, loc>>

\* A full bnode keeps the lower LEFT_KEY_NUM keys; the next key goes up with
\* the new bnode, which takes the rest.  The root stays locked.
SplitBnode(t) ==
  LET lev  == loc[t].lev
      newp == FreeNode(lev)
      mk   == MergedK(t)
      mch  == MergedCh(t)
  IN
  /\ pc[t] = "bnode"
  /\ ~RoomInBnode(Here(t))
  /\ used # used \cup ({lev} \X Num)
  /\ bnode' = [bnode EXCEPT
       ![Here(t)] = [k  |-> SubSeq(mk, 1, LEFT_KEY_NUM),
                     ch |-> SubSeq(mch, 1, LEFT_KEY_NUM + 1),
                     lock |-> ~(lev < loc[t].total)],
       ![<<lev, newp>>] = [k  |-> SubSeq(mk, LEFT_KEY_NUM + 2, Len(mk)),
                           ch |-> SubSeq(mch, LEFT_KEY_NUM + 2, Len(mch)),
                           lock |-> FALSE]]
  /\ used' = used \cup {<<lev, newp>>}
  /\ loc' = [loc EXCEPT ![t].sep = mk[LEFT_KEY_NUM + 1], ![t].ptr = newp,
                        ![t].lev = lev + 1]
  /\ Goto(t, IF lev + 1 <= loc[t].total THEN "bnode" ELSE "grow")
  /\ UNCHANGED <<tree_root, root_level, lower>>

\* A split root gets a parent, built locked.  root_level and tree_root are
\* plain stores with no fence between them, in either order.
GrowRoot(t) ==
  LET lev  == loc[t].lev
      newp == FreeNode(lev)
  IN
  /\ pc[t] = "grow"
  /\ lev \in Level
  /\ used # used \cup ({lev} \X Num)
  /\ used' = used \cup {<<lev, newp>>}
  /\ bnode' = [bnode EXCEPT ![<<lev, newp>>] =
                 [k |-> <<loc[t].sep>>, ch |-> <<tree_root[2], loc[t].ptr>>,
                  lock |-> TRUE]]
  /\ loc' = [loc EXCEPT ![t].old_root = tree_root, ![t].ptr = newp]
  /\ \/ root_level' = lev /\ UNCHANGED tree_root /\ Goto(t, "growroot")
     \/ tree_root' = <<lev, newp>> /\ UNCHANGED root_level /\ Goto(t, "growlevel")
  /\ UNCHANGED lower

GrowSecondStore(t) ==
  /\ \/ pc[t] = "growroot" /\ tree_root' = <<loc[t].lev, loc[t].ptr>>
                           /\ UNCHANGED root_level
     \/ pc[t] = "growlevel" /\ root_level' = loc[t].lev /\ UNCHANGED tree_root
  /\ Goto(t, "unlockold")
  /\ UNCHANGED <<bnode, lower, used, loc>>

\* The old root is a leaf or a bnode.
UnlockOldRoot(t) ==
  LET r == loc[t].old_root IN
  /\ pc[t] = "unlockold"
  /\ IF loc[t].total > 0
       THEN bnode' = [bnode EXCEPT ![r].lock = FALSE] /\ UNCHANGED leaf
       ELSE leaf' = [leaf EXCEPT ![r[2]].lock = FALSE] /\ UNCHANGED bnode
  /\ Goto(t, "unlocknew")
  /\ UNCHANGED <<tree_root, root_level, first_leaf, used, loc, work>>

UnlockNewRoot(t) ==
  /\ pc[t] = "unlocknew"
  /\ bnode' = [bnode EXCEPT ![<<loc[t].lev, loc[t].ptr>>].lock = FALSE]
  /\ Goto(t, "ret")
  /\ UNCHANGED <<tree_root, root_level, lower, used, loc>>

-----------------------------------------------------------------------------
(* del.                                                                    *)

\* The lowest level at which the path has a left neighbour; above the root
\* when it has none.
TurnLevel(path) ==
  LET S == {i \in 1..path.rl : path.ppos[i] >= 1} IN
  IF S = {} THEN path.rl + 1 ELSE CHOOSE i \in S : \A j \in S : i <= j

\* q[i], below the turn, is the rightmost node of the subtree on the left.
IsLeftDescent(q, path, turn) ==
  /\ q[turn - 1] = Child(<<turn, path.parray[turn]>>, path.ppos[turn] - 1)
  /\ \A i \in 1..(turn - 1) :
       /\ ~bnode[<<i, q[i]>>].lock
       /\ q[i - 1] = Last(bnode[<<i, q[i]>>].ch)

\* The left siblings a del can lock: one leaf, Null when there is none to
\* the left, none at all when a lock bit makes the transaction abort.
LeftLeaves(path) ==
  LET turn == TurnLevel(path) IN
  IF turn > path.rl THEN {Null}
  ELSE {l \in Num : /\ ~leaf[l].lock
                    /\ \E q \in [0..(turn - 1) -> Num] :
                         q[0] = l /\ IsLeftDescent(q, path, turn)}

\* Mutant: the left sibling is found and not locked.
LockLeafOnly(l, sib) == leaf' = [leaf EXCEPT ![l].lock = TRUE]

LockLeaves(l, sib) ==
  leaf' = [x \in DOMAIN leaf |-> IF x \in {l, sib}
                                   THEN [leaf[x] EXCEPT !.lock = TRUE]
                                   ELSE leaf[x]]

DelMissing(t) ==
  /\ pc[t] = "delete"
  /\ \E p \in Descents(loc[t].key) :
       ~leaf[p[0]].lock /\ loc[t].key \notin keys(p[0])
  /\ Goto(t, "ret")
  /\ UNCHANGED <<upper, lower, used, loc>>

\* del's transaction locks the leaf; for its last key also the leaf to the
\* left and the bnodes that will change.
DelFind(t) ==
  /\ pc[t] = "delete"
  /\ \E p \in Descents(loc[t].key) :
       LET path == PathTaken(p, loc[t].key)
           lone == Cardinality(leaf[p[0]].bitmap) = 1
       IN
       /\ ~leaf[p[0]].lock
       /\ loc[t].key \in keys(p[0])
       /\ \E sib \in (IF lone THEN LeftLeaves(path) ELSE {Null}) :
            /\ LockLeaves(p[0], sib)
            /\ LockBnodes(IF lone THEN LockedLone(path) ELSE {})
            /\ loc' = [loc EXCEPT ![t].path = path, ![t].sib = sib,
                                  ![t].pos = PosOf(p[0], loc[t].key)]
  /\ Goto(t, "delleaf")
  /\ UNCHANGED <<tree_root, root_level, first_leaf, used, work>>

\* The leaf keeps other keys, or is the root: the slot is freed and the leaf
\* unlocked in one store.
DelSlot(t) ==
  LET l == lp(t) IN
  /\ pc[t] = "delleaf"
  /\ Cardinality(leaf[l].bitmap) > 1 \/ root_level = 0
  /\ leaf' = [leaf EXCEPT ![l].bitmap = @ \ {loc[t].pos}, ![l].lock = FALSE]
  /\ Goto(t, "ret")
  /\ UNCHANGED <<upper, first_leaf, used, loc, work>>

\* The left sibling is linked past l and unlocked.
UnlinkNext(sib, l) ==
  leaf' = [leaf EXCEPT ![sib].next[leaf[sib].alt] = nextSibling(l),
                       ![sib].lock = FALSE]

\* The leaf goes with its last key: out of the chain, then freed.
DelLeaf(t) ==
  LET l == lp(t) IN
  /\ pc[t] = "delleaf"
  /\ ~(Cardinality(leaf[l].bitmap) > 1 \/ root_level = 0)
  /\ IF loc[t].sib # Null
       THEN UnlinkNext(loc[t].sib, l) /\ UNCHANGED first_leaf
       ELSE first_leaf' = nextSibling(l) /\ UNCHANGED leaf
  /\ used' = used \ {<<0, l>>}
  /\ loc' = [loc EXCEPT ![t].lev = 1]
  /\ Goto(t, "delnode")
  /\ UNCHANGED <<upper, work>>

\* Mutant: the first child goes with the separator to its right dropped, the
\* second child with it.
WithoutSecond(n, p) ==
  [bnode[n] EXCEPT !.k = RemoveAt(@, IF p = 0 THEN 1 ELSE p),
                   !.ch = RemoveAt(@, IF p = 0 THEN 2 ELSE p + 1)]

\* Child p leaves with the separator to its left; the first child with the
\* one to its right.
WithoutChild(n, p) ==
  [bnode[n] EXCEPT !.k = RemoveAt(@, IF p = 0 THEN 1 ELSE p),
                   !.ch = RemoveAt(@, p + 1)]

\* A bnode with two children or more loses one and the walk ends, at the root
\* perhaps with one child left: the tree then shrinks.
DelChild(t) ==
  LET n == Here(t) IN
  /\ pc[t] = "delnode"
  /\ loc[t].lev <= loc[t].path.rl
  /\ num(n) > 0
  /\ LET shrinks == num(n) = 1 /\ loc[t].lev >= root_level IN
       /\ bnode' = [bnode EXCEPT ![n] = [WithoutChild(n, pos(t)) EXCEPT
                                           !.lock = shrinks]]
       /\ Goto(t, IF shrinks THEN "shrink" ELSE "ret")
  /\ UNCHANGED <<tree_root, root_level, lower, used, loc>>

\* Mutant: the walk does not go up.
FreeBnodeStay(t) ==
  /\ pc[t] = "delnode"
  /\ loc[t].lev <= loc[t].path.rl
  /\ num(Here(t)) = 0
  /\ used' = used \ {Here(t)}
  /\ UNCHANGED <<upper, lower, pc, loc>>

\* A bnode with one child is freed, still locked, and the walk goes up.
\* Above the level the transaction read, parray is not initialised and the
\* walk has no next step.
FreeBnode(t) ==
  /\ pc[t] = "delnode"
  /\ loc[t].lev <= loc[t].path.rl
  /\ num(Here(t)) = 0
  /\ used' = used \ {Here(t)}
  /\ loc' = [loc EXCEPT ![t].lev = @ + 1]
  /\ UNCHANGED <<upper, lower, pc>>

\* Mutant: tree_root is stored first.
ShrinkRootFirst(t) ==
  /\ pc[t] = "shrink"
  /\ tree_root' = <<loc[t].lev - 1, bnode[Here(t)].ch[1]>>
  /\ Goto(t, "shrinkroot")
  /\ UNCHANGED <<root_level, bnode, lower, used, loc>>

\* root_level is stored before tree_root.
ShrinkLevel(t) ==
  /\ pc[t] = "shrink"
  /\ root_level' = root_level - 1
  /\ Goto(t, "shrinkroot")
  /\ UNCHANGED <<tree_root, bnode, lower, used, loc>>

ShrinkRoot(t) ==
  /\ pc[t] = "shrinkroot"
  /\ tree_root' = <<loc[t].lev - 1, bnode[Here(t)].ch[1]>>
  /\ used' = used \ {Here(t)}
  /\ Goto(t, "ret")
  /\ UNCHANGED <<root_level, bnode, lower, loc>>

-----------------------------------------------------------------------------
Step(t) ==
  \/ Return(t) \/ Lookup(t) \/ ReadPtr(t) \/ Scan(t) \/ ScanReturn(t)
  \/ InsertFound(t) \/ SetValue(t) \/ InsertFind(t) \/ FillSlot(t)
  \/ SplitBuild(t) \/ SplitPublish(t) \/ InsertLeft(t) \/ ReadLevel(t)
  \/ InsertBnode(t) \/ SplitBnode(t) \/ GrowRoot(t) \/ GrowSecondStore(t)
  \/ UnlockOldRoot(t) \/ UnlockNewRoot(t)
  \/ DelMissing(t) \/ DelFind(t) \/ DelSlot(t) \/ DelLeaf(t) \/ DelChild(t)
  \/ FreeBnode(t) \/ ShrinkLevel(t) \/ ShrinkRoot(t)

Finished == \A t \in Thread : pc[t] = "idle" /\ loc[t].n = Len(work.prog[t])

\* The programs end: the last disjunct is a stop, not a deadlock.
Next ==
  \/ \E t \in Thread : Call(t) \/ Step(t)
  \/ Finished /\ UNCHANGED vars

Spec == Init /\ [][Next]_vars

\* Every thread that can move is eventually scheduled.
FairSpec == Spec /\ \A t \in Thread : WF_vars(Call(t) \/ Step(t))

-----------------------------------------------------------------------------
(* Properties.                                                             *)

Label == {"idle", "ret", "read", "scanned", "setval", "fill", "split",
          "publish", "addleft", "level", "bnode", "grow", "growroot",
          "growlevel", "unlockold", "unlocknew", "delleaf", "delnode",
          "shrink", "shrinkroot"} \cup OpKind

\* What a transaction records of its way down, and a thread's locals.
PathOK(path) ==
  /\ path.rl \in Level
  /\ path \in [parray : [0..path.rl -> Num], rl : {path.rl},
               ppos : [1..path.rl -> Nat], isfull : [0..path.rl -> BOOLEAN]]

LocalOK(l) ==
  /\ l \in [n : Nat, key : Key \cup {NoKey}, pos : Slot \cup {-1},
            got : {l.got}, path : {l.path}, sib : Num \cup {Null},
            sep : Key \cup {NoKey}, ptr : Num \cup {Null}, total : Level,
            lev : 0..(MaxLevel + 1), old_root : (Level \X Num) \cup {<<>>}]
  /\ l.path = <<>> \/ PathOK(l.path)

\* Type invariant: every pointer is to a node of the level below its own.
TypeOK ==
  /\ work \in Workload
  /\ tree_root \in Level \X Num /\ root_level \in Level
  /\ first_leaf \in Num \cup {Null}
  /\ bnode \in Bnodes /\ leaf \in Leaves
  /\ used \subseteq Level \X Num
  /\ pc \in [Thread -> Label]
  /\ DOMAIN loc = Thread /\ \A t \in Thread : LocalOK(loc[t])

IsLocked(n) == IF n[1] = 0 THEN leaf[n[2]].lock ELSE bnode[n].lock

\* Whoever reads an unlocked root reads its level right, while the tree grows
\* and while it shrinks ("running transactions will abort").
RootAgrees == ~IsLocked(tree_root) => tree_root[1] = root_level

\* A leaf that is built and not yet linked belongs to its builder.
Private == {loc[t].ptr : t \in {u \in Thread : pc[u] = "publish"}}

\* The nodes t is about to write.
Writing(t) ==
  CASE pc[t] \in {"fill", "split", "addleft"} -> {<<0, lp(t)>>}
    [] pc[t] = "publish" -> {<<0, lp(t)>>, <<0, loc[t].ptr>>}
    [] pc[t] = "delleaf" -> {<<0, lp(t)>>} \cup
                            (IF loc[t].sib = Null THEN {} ELSE {<<0, loc[t].sib>>})
    [] pc[t] = "bnode" -> {Here(t)}
    [] pc[t] = "delnode" /\ loc[t].lev <= loc[t].path.rl -> {Here(t)}
    [] pc[t] \in {"shrink", "shrinkroot"} -> {Here(t)}
    [] OTHER -> {}

\* Every node a thread is about to write is allocated, locked by it (so
\* nobody else is about to write it), whoever deletes and frees around it.
WritesOwnNodes ==
  /\ TypeOK
  /\ \A t \in Thread : \A n \in Writing(t) :
       /\ n \in used
       /\ IsLocked(n) \/ n \in {<<0, x>> : x \in Private}
  /\ \A t, u \in Thread : t # u => Writing(t) \cap Writing(u) = {}

-----------------------------------------------------------------------------
(* check and checkFirstLeaf, which the debug commands call between runs.   *)

\* The nodes of each level from left to right.
Rows ==
  LET row[i \in 0..root_level] ==
        IF i = root_level THEN <<tree_root[2]>>
        ELSE FlattenSeq([j \in 1..Len(row[i + 1]) |->
                           bnode[<<i + 1, row[i + 1][j]>>].ch])
  IN row

\* The keys below each node, of which check follows the least and the greatest.
KeysBelow ==
  LET below[i \in 0..root_level] ==
        [n \in Num |-> IF i = 0 THEN keys(n)
                       ELSE UNION {below[i - 1][c] : c \in ToSet(bnode[<<i, n>>].ch)}]
  IN below

checkLeaf(l) == leaf[l].bitmap # {} /\ ~leaf[l].lock

checkBnode(i, n) ==
  /\ ~bnode[<<i, n>>].lock
  /\ \A j \in 1..num(<<i, n>>) :
       /\ \A x \in KeysBelow[i - 1][bnode[<<i, n>>].ch[j]] : x < bnode[<<i, n>>].k[j]
       /\ \A x \in KeysBelow[i - 1][bnode[<<i, n>>].ch[j + 1]] : x >= bnode[<<i, n>>].k[j]

\* The recursion from the root; the chain of siblings is the lowest row.
check ==
  LET row == Rows IN
  /\ \A j \in DOMAIN row[0] : checkLeaf(row[0][j])
  /\ \A j \in 1..(Len(row[0]) - 1) : nextSibling(row[0][j]) = row[0][j + 1]
  /\ \A i \in 1..root_level : \A n \in ToSet(row[i]) : checkBnode(i, n)

checkFirstLeaf == first_leaf = Rows[0][1]

AtRest == \A t \in Thread :
            pc[t] \in {"idle", "ret", "read", "scanned"} \cup OpKind

\* With no operation at work the tree passes its checks: every lock is clear,
\* no leaf is empty, keys are on the side of each separator where a search
\* looks for them, the sibling chain is the leaves in tree order from
\* first_leaf.  And no node leaks.
CheckPasses ==
  AtRest => /\ check /\ checkFirstLeaf
            /\ used = UNION {{i} \X ToSet(Rows[i]) : i \in 0..root_level}

-----------------------------------------------------------------------------
(* The tree implements KVStore.                                            *)

Published == {l \in Num : <<0, l>> \in used} \ Private

OpKindOf(t) ==
  CASE pc[t] \in {"insert", "update", "fill", "split", "publish", "addleft"} ->
         "insert"
    [] pc[t] \in {"delete", "delleaf"} -> "delete"
    [] pc[t] = "read" -> IF loc[t].pos = -1 THEN "missing" ELSE "found"
    [] pc[t] \in {"lookup", "scan", "scanned"} -> pc[t]
    [] OTHER -> "done"

OpOf(t) ==
  IF pc[t] = "idle" THEN [kind |-> "idle"]
  ELSE [kind |-> OpKindOf(t), key |-> loc[t].key, len |-> Op(t).len,
              got |-> loc[t].got]

KV == INSTANCE KVStore WITH
        Client <- Thread,
        store <- UNION {keys(l) : l \in Published},
        op <- [t \in Thread |-> OpOf(t)]

\* Inserts, deletes, lookups and scans each appear to happen at once: no
\* split, unlinked leaf or freed bnode loses, hides or revives a key, and a
\* scan sees no gap.
Linearizable == KV!KVSpec

\* Every call returns.
CallsReturn == \A t \in Thread : pc[t] # "idle" ~> pc[t] = "idle"
=============================================================================
