---------------------------- MODULE SobTreeProps ----------------------------
(* What makes the index of sobtree_v2.h correct.                           *)
EXTENDS SobTree

-----------------------------------------------------------------------------
(* The leaf chain.                                                         *)

\* A leaf that is built and not yet linked belongs to its builder.
Private   == {loc[t].ptr : t \in {u \in Thread : pc[u] = "publish"}}
Published == (0..(nleaf - 1)) \ Private

\* Leaves linked in the chain whose parent does not know them yet.
Awaiting ==
  {loc[t].ptr : t \in {u \in Thread :
      \/ pc[u] \in {"addleft", "locate", "level"}
      \/ pc[u] = "inode" /\ loc[u].lev = 0}}

nextSibling(l) == tail[l][meta[l].alt]

Store == UNION {meta[l].bitmap : l \in Published}

\* The chain a recovery would walk is sorted and complete at every instant,
\* between any two steps of a split: keys grow along it, so no key is in two
\* leaves, and every linked leaf but the first follows exactly one other.
ChainSorted ==
  /\ \A l \in Published :
       LET n == nextSibling(l) IN
       n # Null => /\ n \in Published
                   /\ \A x \in meta[l].bitmap, y \in meta[n].bitmap : x < y
  /\ \A l \in Published \ {first_lnode} :
       Cardinality({m \in Published : nextSibling(m) = l}) = 1
  /\ \A l, m \in Published :
       l # m => meta[l].bitmap \cap meta[m].bitmap = {}

-----------------------------------------------------------------------------
(* Locks.                                                                  *)

\* t works on leaf loc[t].lp.  A client's leaf is unlocked by the store that
\* publishes its split, before the client adds its key ("addleft").
HoldsLeaf(t) ==
  IF t \in Foreground
    THEN pc[t] \in {"copy", "fill", "build", "publish", "addleft"}
    ELSE pc[t] \notin {"pop", "lock"}

\* A leaf's lock bit is set exactly while one thread works on it, and nobody
\* else works on the leaf a client has unlocked early.  (The asserts on
\* lp->meta.lock in insert_lnode and split.)
LeafLockOwner ==
  /\ \A t \in Thread :
       HoldsLeaf(t) /\ pc[t] # "addleft" => meta[loc[t].lp].lock
  /\ \A t, u \in Thread :
       t # u /\ HoldsLeaf(t) /\ HoldsLeaf(u) => loc[t].lp # loc[u].lp
  /\ \A l \in LnodeId :
       meta[l].lock => \E t \in Thread : HoldsLeaf(t) /\ loc[t].lp = l

\* The inodes whose lock bit t has set and not cleared.
HeldInodes(t) ==
  LET path == loc[t].path
      lev  == loc[t].lev
  IN
  CASE pc[t] = "copy" /\ t \in Foreground ->
         IF isFull(loc[t].lp) THEN Locked(path) ELSE {}
    [] pc[t] \in {"build", "publish"} ->
         IF t \in Foreground THEN Locked(path) ELSE {}
    [] pc[t] \in {"addleft", "level"} -> Locked(path)
    [] pc[t] = "inode" -> {n \in Locked(path) : n[1] >= lev}
    [] pc[t] = "grow"  -> {<<lev - 1, path.parray[lev - 1]>>}
    [] pc[t] \in {"growroot", "growlevel", "unlockold"} ->
         {<<lev - 1, loc[t].old_root>>, <<lev, loc[t].ptr>>}
    [] pc[t] = "unlocknew" -> {<<lev, loc[t].ptr>>}
    [] OTHER -> {}

\* An inode's lock bit is set exactly while one thread is changing it: a
\* split walks up, releasing each level, and never clears or leaves set a
\* lock that is not its own, whatever root_level it read.
InodeLockOwner ==
  /\ \A n \in Inode : ilock[n] <=> \E t \in Thread : n \in HeldInodes(t)
  /\ \A t, u \in Thread : t # u => HeldInodes(t) \cap HeldInodes(u) = {}

\* Whoever reads an unlocked root reads its level right, in either order of
\* the two stores that grow the tree.
RootAgrees == ~ilock[tree_root] => tree_root[1] = root_level

\* A split reaches the top only with the root it locked still the root, and
\* no other thread growing the tree: root_level, read after the transaction
\* committed, is the level of that transaction.
TopIsRoot ==
  \A t \in Thread : pc[t] = "grow" =>
    /\ tree_root = <<loc[t].lev - 1, loc[t].path.parray[loc[t].lev - 1]>>
    /\ root_level = loc[t].lev - 1
    /\ loc[t].path.rl = root_level

-----------------------------------------------------------------------------
(* The search layer.                                                       *)

\* The node t has split, at the level below the inode it is about to change.
SplitNode(t) ==
  IF loc[t].lev = 0 THEN loc[t].lp ELSE loc[t].path.parray[loc[t].lev - 1]

Increasing(s) == \A i, j \in 1..Len(s) : i < j => s[i] < s[j]

\* The position a transaction recorded is still right when the split uses it:
\* the new node goes in just right of the node it was split from, and the
\* separators stay sorted.
PathStillRight ==
  \A t \in Thread : pc[t] = "inode" =>
    /\ ent[Here(t)].ch[loc[t].path.ppos[loc[t].lev] + 1] = SplitNode(t)
    /\ Increasing(MergedK(t))

\* Every linked leaf hangs from one inode, at one place, except a new leaf on
\* its way to its parent.
OneParent ==
  \A l \in Published \ Awaiting :
    Cardinality({x \in InodeNum \X (1..(NON_LEAF_KEY_NUM + 1)) :
                   /\ x[1] < ninode[0]
                   /\ x[2] <= Len(ent[<<0, x[1]>>].ch)
                   /\ ent[<<0, x[1]>>].ch[x[2]] = l}) = 1

-----------------------------------------------------------------------------
(* Background splits.                                                      *)

\* A leaf is split only when it is full: split does not look at the bitmap,
\* it relies on the version of the job ("leaf is full, split").
SplitsFullLeaf == \A t \in Thread : pc[t] = "build" => isFull(loc[t].lp)

\* t is about to queue, or is about to try, a split of l at its version.
WillSplit(t, l) ==
  /\ Job(t) = <<l, version[l]>>
  /\ \/ pc[t] = "flush" /\ FilledLeaf(t)
     \/ pc[t] = "lock"

\* A full leaf nobody holds is never forgotten: its job is queued, about to
\* be, or in the hands of a worker, whatever jobs workers have dropped.
NoStrandedLeaf ==
  \A l \in Published :
    isFull(l) /\ (\A t \in Thread : HoldsLeaf(t) => loc[t].lp # l) =>
      \/ <<l, version[l]>> \in job_queue
      \/ \E t \in Thread : WillSplit(t, l)

\* One job per filling of a leaf: none is queued while the same is queued or
\* taken.
EachJobOnce ==
  \A t \in Foreground : pc[t] = "flush" /\ FilledLeaf(t) =>
    /\ Job(t) \notin job_queue
    /\ \A u \in Thread \ {t} :
         \/ pc[u] = "flush" /\ FilledLeaf(u)
         \/ pc[u] = "lock"
         => Job(u) # Job(t)

-----------------------------------------------------------------------------
(* The index implements KVIndex: an insert takes effect at the store that   *)
(* makes its key reachable from the leaf chain, a search looks at its       *)
(* commit and reads the value afterwards.                                   *)

OpKind(t) ==
  CASE pc[t] \in {"search", "reading", "found", "other", "missing"} -> pc[t]
    [] pc[t] \in {"find", "copy", "fill", "build", "publish", "addleft"} ->
         "insert"
    [] OTHER -> "inserted"

OpOf(t) == IF pc[t] = "idle" THEN [kind |-> "idle"]
           ELSE [kind |-> OpKind(t), key |-> loc[t].key]

KV == INSTANCE KVIndex WITH
        Client <- Foreground, store <- Store,
        op <- [t \in Foreground |-> OpOf(t)]

\* Every insert appears to happen at once, every search tells whether its key
\* is stored at one instant, and neither a split nor another call loses, hides
\* or adds a key.  Of the value a search then reads it promises nothing.
Linearizable == KV!KVSpec

-----------------------------------------------------------------------------
(* Progress, under FairSpec.                                               *)

\* Every call returns, whoever splits meanwhile.
CallsReturn == \A t \in Foreground : pc[t] # "idle" ~> pc[t] = "idle"

\* A leaf that fills is split, by a worker or by a client that needs it.
FullLeafSplit == \A l \in LnodeId : isFull(l) ~> ~isFull(l)
=============================================================================
