--------------------------- MODULE SobTreeRanges ---------------------------
(***************************************************************************)
(* The inductive invariant behind the order of keys of sobtree_v2.h.  Each *)
(* node, leaf or inode, has a lower bound that it keeps for ever: the      *)
(* split key it was made with, or the bound of the tree it became the root *)
(* of.  A node owns the keys from its bound up to the next bound of its    *)
(* level, also while its parent does not know the next node yet.  The      *)
(* bounds are not in the program: the invariant says that there are some.  *)
(*                                                                         *)
(* Leaves are the nodes of level -1.  Parents of level i hold children of  *)
(* level i - 1, their entries are those of inodes of level i.              *)
(***************************************************************************)
EXTENDS SobTreeInv

NodeLevel == (-1)..MaxLevel

\* Node x of level i is allocated.
Node(i, x) == x \in Nat /\ x < IF i = -1 THEN nleaf ELSE ninode[i]

\* ... and is not a leaf that its builder has not linked.
Public(i, x) == Node(i, x) /\ (i = -1 => x \notin Private)

\* Separators and children of inode x of level i.
Size(i, x)   == num(<<i, x>>)
Sep(i, x, j) == ent[<<i, x>>].k[j]
Kid(i, x, j) == ent[<<i, x>>].ch[j]

\* c is child j of inode x of level i.
ChildAt(i, x, j, c) ==
  x < ninode[i] /\ j \in 1..(Size(i, x) + 1) /\ Kid(i, x, j) = c

IsChild(i, c) == \E y \in InodeNum, j \in ChildPlace : ChildAt(i, y, j, c)

-----------------------------------------------------------------------------
(* A new node on its way to its parent.                                    *)

\* t carries a new node, born of a split at level BornAt(t), to level
\* BornAt(t) + 1; Origin(t) is the node that was split.
Bears(t)  == Carries(t) \/ pc[t] \in {"inode", "grow"}
BornAt(t) == IF pc[t] \in {"inode", "grow"} THEN loc[t].lev - 1 ELSE -1
Origin(t) == IF BornAt(t) = -1 THEN loc[t].lp
                               ELSE loc[t].path.parray[BornAt(t)]

\* What is carried is not in the tree yet, and is carried once.
CarriedApart ==
  /\ \A t \in Thread : Bears(t) /\ BornAt(t) >= 0 =>
       /\ tree_root # <<BornAt(t), loc[t].ptr>>
       /\ BornAt(t) + 1 \in Level => ~IsChild(BornAt(t) + 1, loc[t].ptr)
  /\ \A t, u \in Thread :
       t # u /\ Bears(t) /\ Bears(u) /\ BornAt(t) = BornAt(u) =>
         loc[t].ptr # loc[u].ptr

\* Every inode is the root, hangs from an inode, or is on its way.
InodesRooted ==
  \A i \in Level, x \in InodeNum : x < ninode[i] =>
    \/ tree_root = <<i, x>>
    \/ i + 1 \in Level /\ IsChild(i + 1, x)
    \/ \E t \in Thread :
         /\ loc[t].ptr = x
         /\ \/ Bears(t) /\ BornAt(t) = i
            \/ pc[t] = "growroot" /\ loc[t].lev = i

\* There is nothing above the root.
TopEmpty ==
  \A i \in Level : i > tree_root[1] /\ i > root_level => ninode[i] = 0

\* Before it becomes the root, the new root has the old one for first child.
RootMade(t) ==
  pc[t] = "growroot" =>
    /\ loc[t].lev \in Level
    /\ ChildAt(loc[t].lev, loc[t].ptr, 1, loc[t].old_root)

-----------------------------------------------------------------------------
(* What a split owns.                                                      *)

\* t works on its leaf, or has split it and its parent does not know.
Uses(t) == HoldsLeaf(t) \/ Carries(t)

\* Nobody else works on that leaf, has a current job for it, or has a leaf in
\* hand that is not in the tree.
LeafAlone ==
  /\ \A t, u \in Thread :
       t # u /\ Uses(t) /\ Uses(u) => loc[t].lp # loc[u].lp
  /\ \A t \in Thread : Carries(t) =>
       /\ loc[t].lp < nleaf
       /\ ~Pending(loc[t].lp, version[loc[t].lp])
       /\ \A u \in Thread : Uses(u) \/ pc[u] \in {"flush", "lock"} =>
            loc[u].lp # loc[t].ptr
       /\ \A job \in job_queue : job[1] # loc[t].ptr

\* Nor does another thread hold the inode t has split and unlocked.
InodeAlone(t) ==
  pc[t] = "inode" /\ loc[t].lev > 0 =>
    \A u \in Thread \ {t} : ~Holds(u, loc[t].lev - 1, Origin(t))

\* The positions of the path lead down the path to the leaf.
PathLinked(t) ==
  LET path == loc[t].path IN
  HoldsPath(t) => \A i \in Low(t)..path.rl : InReach(path, i) =>
    Kid(i, path.parray[i], path.ppos[i] + 1) =
      IF i = 0 THEN loc[t].lp ELSE path.parray[i - 1]

ShapeInv ==
  /\ CarriedApart /\ InodesRooted /\ TopEmpty /\ LeafAlone
  /\ \A t \in Thread : InodeAlone(t) /\ PathLinked(t) /\ RootMade(t)

-----------------------------------------------------------------------------
(* Keys and bounds.                                                        *)

Bounds == [NodeLevel -> [Nat -> Int]]

\* x is the last linked node of its level that starts at k or before.
Owns(low, i, x, k) ==
  /\ low[i][x] <= k
  /\ \A y \in Nat : Public(i, y) /\ low[i][y] <= k => low[i][y] <= low[i][x]

Distinct(low) ==
  \A i \in NodeLevel : \A x, y \in Nat :
    Node(i, x) /\ Node(i, y) /\ low[i][x] = low[i][y] => x = y

\* A child's bound is the separator left of it, the first one's its parent's.
ChildBounds(low) ==
  \A i \in Level, x \in InodeNum : x < ninode[i] =>
    \A j \in 1..(Size(i, x) + 1) :
      low[i - 1][Kid(i, x, j)] = IF j = 1 THEN low[i][x] ELSE Sep(i, x, j - 1)

SepsOwned(low) ==
  \A i \in Level, x \in InodeNum : x < ninode[i] =>
    \A j \in 1..Size(i, x) :
      /\ low[i][x] < Sep(i, x, j) /\ Owns(low, i, x, Sep(i, x, j))
      /\ \A m \in 1..Size(i, x) : j < m => Sep(i, x, j) < Sep(i, x, m)

KeysOwned(low) ==
  \A l \in LnodeId : l < nleaf =>
    \A b \in meta[l].bitmap : Owns(low, -1, l, b)

RootBound(low) == \A k \in Key : low[tree_root[1]][tree_root[2]] < k

\* The new node's bound is the split key, the next one after its origin's.
BornBound(low, t) ==
  Bears(t) =>
    LET i == BornAt(t) IN
    /\ low[i][loc[t].ptr] = loc[t].sep
    /\ low[i][Origin(t)] < loc[t].sep
    /\ \A y \in Nat : Node(i, y) /\ low[i][y] < loc[t].sep =>
         low[i][y] <= low[i][Origin(t)]

TreeOrder(low) ==
  /\ Distinct(low) /\ ChildBounds(low) /\ SepsOwned(low) /\ RootBound(low)
  /\ \A t \in Thread : BornBound(low, t)

-----------------------------------------------------------------------------
(* Leaves.                                                                 *)

\* A client's key belongs to its leaf and is not there.
KeyFits(low, t) ==
  t \in Foreground =>
    /\ pc[t] \in {"copy", "fill", "build", "publish", "addleft"} =>
         Owns(low, -1, loc[t].lp, loc[t].key)
    /\ pc[t] \in {"copy", "fill", "build", "publish"} =>
         loc[t].key \notin meta[loc[t].lp].bitmap
    /\ pc[t] = "addleft" => loc[t].key < loc[t].sep

\* Before the store that links it, the new leaf has the upper half and its
\* place in the chain, and the copy of meta the lower half.
SplitReady(t) ==
  LET l == loc[t].lp
      n == loc[t].ptr
      S == meta[l].bitmap
  IN
  /\ pc[t] = "publish" =>
       /\ loc[t].sep \in S
       /\ loc[t].meta.bitmap = {b \in S : b < loc[t].sep}
       /\ loc[t].meta.alt = 1 - meta[l].alt
       /\ tail[l][1 - meta[l].alt] = n
       /\ meta[n].bitmap = {b \in S : b >= loc[t].sep} \cup
            IF t \in Foreground /\ loc[t].key > loc[t].sep THEN {loc[t].key}
                                                           ELSE {}
       /\ nextSibling(n) = nextSibling(l)
  /\ pc[t] = "addleft" =>
       loc[t].meta.bitmap = S /\ loc[t].meta.alt = meta[l].alt

\* n is the next linked leaf after l.
Follows(low, l, n) ==
  /\ Public(-1, n) /\ low[-1][l] < low[-1][n]
  /\ \A m \in Nat : Public(-1, m) /\ low[-1][l] < low[-1][m] =>
       low[-1][n] <= low[-1][m]

\* l is the last linked leaf.
IsLast(low, l) == \A m \in Nat : Public(-1, m) => low[-1][m] <= low[-1][l]

ChainLinked(low) ==
  /\ \A l \in LnodeId : Public(-1, l) =>
       IF nextSibling(l) = Null THEN IsLast(low, l)
                                ELSE Follows(low, l, nextSibling(l))
  /\ \A l \in LnodeId : Public(-1, l) /\ l # first_lnode =>
       \E m \in LnodeId : Public(-1, m) /\ nextSibling(m) = l

LeafOrder(low) ==
  /\ KeysOwned(low) /\ ChainLinked(low)
  /\ \A t \in Thread : KeyFits(low, t) /\ SplitReady(t)

Ordered(low) == TreeOrder(low) /\ LeafOrder(low)

OrderInv == ShapeInv /\ \E low \in Bounds : Ordered(low)
=============================================================================
