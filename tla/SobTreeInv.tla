----------------------------- MODULE SobTreeInv -----------------------------
(***************************************************************************)
(* The inductive invariant behind the lock properties of SobTreeProps.     *)
(* Why it needs all of its parts: the positions recorded in a path are     *)
(* right because the path's inodes stay locked; a client locks them        *)
(* exactly when its leaf is full, which nobody changes because the leaf is *)
(* its own; and the leaf stays its own after the early unlock because its  *)
(* only parent is locked and every job for it is out of date.              *)
(***************************************************************************)
EXTENDS SobTreeProps

-----------------------------------------------------------------------------
(* What a thread holds.                                                    *)

\* The inodes of t's path are locked, from level Low(t) up.
HoldsPath(t) ==
  \/ pc[t] = "copy" /\ t \in Foreground /\ isFull(loc[t].lp)
  \/ pc[t] \in {"build", "publish"} /\ t \in Foreground
  \/ pc[t] \in {"addleft", "level", "inode"}

Low(t) == IF pc[t] = "inode" THEN loc[t].lev ELSE 0

\* Level i is among those path locks.
InReach(path, i) == i \in 0..path.rl /\ \A m \in 0..(i - 1) : path.isfull[m]

\* All levels of the path below the root are full: it holds the root.
ToRoot(path) == InReach(path, path.rl)

Growing == {"growroot", "growlevel", "unlockold"}

\* t has set the lock bit of <<i, x>> and not cleared it.
Holds(t, i, x) ==
  \/ /\ HoldsPath(t) /\ i >= Low(t) /\ InReach(loc[t].path, i)
     /\ x = loc[t].path.parray[i]
  \/ /\ pc[t] = "grow" /\ i = loc[t].lev - 1 /\ x = loc[t].path.parray[i]
  \/ /\ pc[t] \in Growing /\ i = loc[t].lev - 1 /\ x = loc[t].old_root
  \/ /\ pc[t] \in Growing \cup {"unlocknew"} /\ i = loc[t].lev
     /\ x = loc[t].ptr

InodeLocks ==
  /\ \A i \in Level, x \in InodeNum :
       ilock[<<i, x>>] <=> \E t \in Thread : Holds(t, i, x)
  /\ \A t, u \in Thread : t # u =>
       \A i \in Level, x \in InodeNum : ~(Holds(t, i, x) /\ Holds(u, i, x))

-----------------------------------------------------------------------------
(* The structure.                                                          *)

\* Only allocated nodes are linked, and no leaf hangs from two places.
Linked ==
  /\ tree_root[2] < ninode[tree_root[1]]
  /\ \A i \in Level, x \in InodeNum : x < ninode[i] =>
       \A j \in DOMAIN ent[<<i, x>>].ch :
         ent[<<i, x>>].ch[j] < IF i = 0 THEN nleaf ELSE ninode[i - 1]

ChildPlace == 1..(NON_LEAF_KEY_NUM + 1)

\* Leaf l is child j of the bottom inode x.
Hangs(l, x, j) ==
  /\ x < ninode[0]
  /\ j \in DOMAIN ent[<<0, x>>].ch
  /\ ent[<<0, x>>].ch[j] = l

OneUse ==
  \A l \in LnodeId, x, y \in InodeNum, i, j \in ChildPlace :
    Hangs(l, x, i) /\ Hangs(l, y, j) => x = y /\ i = j

\* t carries a new leaf that its parent does not know.
Carries(t) ==
  \/ pc[t] \in {"publish", "locate", "addleft", "level"}
  \/ pc[t] = "inode" /\ loc[t].lev = 0

CarriedLeaf ==
  /\ \A t \in Thread : Carries(t) =>
       /\ loc[t].ptr < nleaf
       /\ \A x \in InodeNum, j \in ChildPlace : ~Hangs(loc[t].ptr, x, j)
  /\ \A t, u \in Thread :
       t # u /\ Carries(t) /\ Carries(u) => loc[t].ptr # loc[u].ptr

\* A new inode, or the inodes of a growing root, are allocated.
CarriedInode(t) ==
  /\ pc[t] = "inode" /\ loc[t].lev > 0 => loc[t].ptr < ninode[loc[t].lev - 1]
  /\ pc[t] = "grow" => loc[t].ptr < ninode[loc[t].lev - 1]
  /\ pc[t] \in Growing \cup {"unlocknew"} => loc[t].ptr < ninode[loc[t].lev]
  /\ pc[t] \in Growing => loc[t].old_root < ninode[loc[t].lev - 1]

-----------------------------------------------------------------------------
(* Paths and the root.                                                     *)

\* What the path says of the inodes it holds is true of them.
PathTrue(t) ==
  HoldsPath(t) =>
    \A i \in Low(t)..loc[t].path.rl : InReach(loc[t].path, i) =>
      LET n == <<i, loc[t].path.parray[i]>> IN
      /\ n[2] < ninode[i]
      /\ loc[t].path.ppos[i] <= num(n)
      /\ loc[t].path.isfull[i] <=> num(n) = NON_LEAF_KEY_NUM

\* A client's leaf hangs where its path says.
LeafOfPath(t) ==
  t \in Foreground /\ HoldsPath(t) /\ pc[t] # "inode" =>
    ent[<<0, loc[t].path.parray[0]>>].ch[loc[t].path.ppos[0] + 1] = loc[t].lp

\* A split is at a level its path reaches, and it knows where the root is.
Climb(t) ==
  LET path == loc[t].path IN
  /\ HoldsPath(t) => path.rl <= root_level
  /\ HoldsPath(t) /\ ToRoot(path) =>
       /\ root_level = path.rl
       /\ tree_root = <<path.rl, path.parray[path.rl]>>
  /\ pc[t] = "inode" =>
       /\ InReach(path, loc[t].lev)
       /\ path.rl <= loc[t].total
       /\ ToRoot(path) => loc[t].total = path.rl

\* While t grows the tree, the root is what t makes it.
RootState(t) ==
  /\ pc[t] = "grow" =>
       /\ tree_root = <<loc[t].lev - 1, loc[t].path.parray[loc[t].lev - 1]>>
       /\ root_level = loc[t].lev - 1
       /\ loc[t].path.rl = root_level
  /\ pc[t] = "growroot" =>
       /\ tree_root = <<loc[t].lev - 1, loc[t].old_root>>
       /\ root_level = loc[t].lev
  /\ pc[t] = "growlevel" =>
       /\ tree_root = <<loc[t].lev, loc[t].ptr>>
       /\ root_level = loc[t].lev - 1

ClimbOK(t) ==
  PathTrue(t) /\ LeafOfPath(t) /\ Climb(t) /\ RootState(t) /\ CarriedInode(t)

\* The root's level is wrong only between the two stores of a new root.
RootLevel ==
  \/ tree_root[1] = root_level
  \/ \E t \in Thread : pc[t] \in {"growroot", "growlevel"}

-----------------------------------------------------------------------------
(* Leaves and jobs.                                                        *)

LeafAllocated ==
  /\ \A t \in Thread : HoldsLeaf(t) \/ pc[t] \in {"flush", "lock"} => loc[t].lp < nleaf
  /\ \A job \in job_queue : job[1] < nleaf

\* What a thread knows of its leaf.
LeafKnown(t) ==
  LET l == loc[t].lp IN
  /\ pc[t] \in {"fill", "build"} =>
       loc[t].meta.bitmap = meta[l].bitmap /\ loc[t].meta.alt = meta[l].alt
  /\ pc[t] = "fill" => ~isFull(l) /\ loc[t].version = version[l]
  /\ pc[t] = "build" => isFull(l)
  /\ pc[t] \in {"fill", "build", "publish", "addleft"} =>
       (loc[t].meta.lock <=> t \in Worker)
  /\ pc[t] = "copy" /\ t \in Worker => isFull(l)

\* <<l, v>> is a job some thread may act on.
Pending(l, v) ==
  \/ <<l, v>> \in job_queue
  \/ \E t \in Thread :
       /\ loc[t].lp = l /\ loc[t].version = v
       /\ pc[t] = "lock" \/ (pc[t] = "flush" /\ FilledLeaf(t))

\* A job with the current version is for a full leaf whose split has not begun.
JobsOK ==
  \A l \in LnodeId : Pending(l, version[l]) =>
    /\ isFull(l)
    /\ \A t \in Thread : pc[t] \in {"publish", "addleft"} => loc[t].lp # l

\* The hypothesis of the proofs: no job is so old that the version its leaf is
\* about to get is the job's, for the versions have come round since.
NoStaleJob ==
  \A t \in Thread : pc[t] = "build" =>
    ~Pending(loc[t].lp, NextVersion(version[loc[t].lp]))

TreeInv  == Linked /\ OneUse /\ CarriedLeaf
ClimbInv == InodeLocks /\ RootLevel /\ \A t \in Thread : ClimbOK(t)
LeafInv  == /\ LeafLockOwner /\ LeafAllocated /\ JobsOK
            /\ \A t \in Thread : LeafKnown(t)

IndInv == TypeOK /\ TreeInv /\ ClimbInv /\ LeafInv
=============================================================================
