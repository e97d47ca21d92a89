----------------------------- MODULE LbTreeInv -----------------------------
(***************************************************************************)
(* The inductive invariant of LbTree: which nodes each thread has locked,  *)
(* what of its transaction is still true of them, and how the nodes in use *)
(* hang together.  It says of keys only that a leaf has none twice.        *)
(***************************************************************************)
EXTENDS LbTree

-----------------------------------------------------------------------------
(* What a thread holds.                                                    *)

\* An insert on its way up.
Climbing == {"split", "publish", "addleft", "level", "bnode"}
\* The root has split and gets a parent.
Growing  == {"grow", "growroot", "growlevel", "unlockold"}
AtLeaf   == {"fill", "split", "publish", "addleft", "delleaf"}
OnPath   == Climbing \cup {"fill", "delleaf", "delnode"}

At(t, i)   == <<i, loc[t].path.parray[i]>>
RootOf(t)  == At(t, loc[t].path.rl)
NewRoot(t) == <<loc[t].lev, loc[t].ptr>>

\* The bnodes a delete has from level i up: to the first with two children.
Lone(t, i) ==
  {At(t, j) : j \in {h \in i..loc[t].path.rl :
                       \A m \in i..(h - 1) : num(At(t, m)) = 0}}

LastKey(t) == leaf[lp(t)].bitmap = {loc[t].pos}

HoldsLeaf(t, n) ==
  \/ pc[t] = "setval" /\ n = <<0, loc[t].ptr>>
  \/ pc[t] \in AtLeaf /\ n = <<0, lp(t)>>
  \/ pc[t] = "delleaf" /\ loc[t].sib # Null /\ n = <<0, loc[t].sib>>
  \/ pc[t] = "level" /\ loc[t].path.rl = 0 /\ n = <<0, lp(t)>>

HoldsBnode(t, n) ==
  \/ pc[t] \in Climbing \ {"bnode"} /\ n \in LockedFull(loc[t].path)
  \/ pc[t] = "bnode" /\ n \in LockedFull(loc[t].path) /\ n[1] >= loc[t].lev
  \/ pc[t] \in Growing /\ n = RootOf(t)
  \/ pc[t] \in Growing \cup {"unlocknew"} /\ pc[t] # "grow" /\ n = NewRoot(t)
  \/ pc[t] = "delleaf" /\ LastKey(t) /\ n \in Lone(t, 1)
  \/ pc[t] = "delnode" /\ n \in Lone(t, loc[t].lev)
  \/ pc[t] \in {"shrink", "shrinkroot"} /\ n = Here(t)

\* t has set the lock bit of n, and will clear it or free n.
Holds(t, n) == HoldsLeaf(t, n) \/ HoldsBnode(t, n)

LocksOK ==
  /\ \A t \in Thread : \A n \in Level \X Num :
       Holds(t, n) => n \in used /\ IsLocked(n)
  /\ \A t, u \in Thread : \A n \in Level \X Num :
       Holds(t, n) /\ Holds(u, n) => t = u

-----------------------------------------------------------------------------
(* How the nodes in use hang together.                                     *)

\* A split has made this node, and no bnode points to it yet.
Carries(t) == pc[t] \in {"publish", "addleft", "level", "bnode", "grow"}
Carried(t) == IF pc[t] \in {"bnode", "grow"} THEN <<loc[t].lev - 1, loc[t].ptr>>
                                             ELSE <<0, loc[t].ptr>>

\* A delete has freed the child and not yet reached its pointer.
Dangles(t, m, p) ==
  /\ pc[t] = "delnode" /\ loc[t].lev <= loc[t].path.rl
  /\ m = Here(t) /\ p = pos(t)

Inner == {m \in used : m[1] >= 1}

\* The pointers that count.
Live(m) == {p \in 0..num(m) : \A t \in Thread : ~Dangles(t, m, p)}

Below(m, p) == <<m[1] - 1, Child(m, p)>>

\* The node above all others: a new root before tree_root points to it.
IsApex(n) ==
  \/ \E t \in Thread : pc[t] = "growroot" /\ n = NewRoot(t)
  \/ n = tree_root /\ \A t \in Thread : pc[t] # "growroot"

ChildUsed ==
  \A m \in Inner : \A p \in Live(m) :
    /\ Below(m, p) \in used
    /\ ~IsApex(Below(m, p))
    /\ \A t \in Thread : Carries(t) => Below(m, p) # Carried(t)

OneParent ==
  \A m, n \in Inner : \A p \in Live(m), q \in Live(n) :
    Below(m, p) = Below(n, q) => m = n /\ p = q

HasParent ==
  \A n \in used :
    \/ IsApex(n)
    \/ \E t \in Thread : Carries(t) /\ n = Carried(t)
    \/ \E m \in Inner : \E p \in Live(m) : Below(m, p) = n

TopOnly ==
  \A a \in Level \X Num : IsApex(a) => \A n \in used :
    /\ n[1] <= a[1]
    /\ n[1] = a[1] => \/ n = a
                      \/ \E t \in Thread : Carries(t) /\ n = Carried(t)

\* Nobody has locked a node that no transaction can have come to.
CarriedApart ==
  /\ \A t \in Thread : Carries(t) =>
       /\ Carried(t) \in used /\ ~IsApex(Carried(t))
       /\ \A u \in Thread : /\ ~Holds(u, Carried(t))
                            /\ u # t /\ Carries(u) => Carried(u) # Carried(t)
  /\ \A t \in Thread : pc[t] = "growlevel" =>
       \A u \in Thread : ~Holds(u, Below(NewRoot(t), 1))

Forest == ChildUsed /\ OneParent /\ HasParent /\ TopOnly /\ CarriedApart

-----------------------------------------------------------------------------
(* The root.                                                               *)

RootSeen(t) ==
  /\ pc[t] \in OnPath /\ Holds(t, RootOf(t)) =>
       tree_root = RootOf(t) /\ root_level = loc[t].path.rl
  /\ pc[t] \in {"grow", "growroot"} => tree_root = RootOf(t)
  /\ pc[t] \in {"grow", "growlevel"} => root_level = loc[t].lev - 1
  /\ pc[t] \in {"growroot", "unlockold", "unlocknew"} => root_level = loc[t].lev
  /\ pc[t] \in {"growlevel", "unlockold", "unlocknew"} => tree_root = NewRoot(t)
  /\ pc[t] \in {"shrink", "shrinkroot"} => tree_root = Here(t)
  /\ pc[t] = "shrink" => root_level = loc[t].lev
  /\ pc[t] = "shrinkroot" => root_level = loc[t].lev - 1

\* tree_root and root_level agree but between the two stores that move them.
RootOK ==
  /\ IsLocked(tree_root) \/ tree_root \in used
  /\ \/ tree_root[1] = root_level
     \/ \E t \in Thread : pc[t] \in {"growroot", "growlevel", "shrinkroot"}
  /\ \A t \in Thread : RootSeen(t)

-----------------------------------------------------------------------------
(* What a thread knows of the nodes it has.                                *)

AllFull(path) == \A i \in 0..path.rl : path.isfull[i]

ClimbOK(t) ==
  LET path == loc[t].path IN
  /\ pc[t] \in OnPath \cup Growing => PathOK(path)
  /\ pc[t] \in Climbing => path.isfull[0]
  /\ pc[t] \in Climbing => \A n \in Level \X Num : HoldsBnode(t, n) =>
       /\ path.isfull[n[1]] <=> num(n) = NON_LEAF_KEY_NUM
       /\ path.ppos[n[1]] <= num(n)
  /\ pc[t] = "bnode" =>
       /\ Here(t) \in LockedFull(path) /\ loc[t].lev \in 1..path.rl
       /\ \A n \in LockedFull(path) : n[1] <= loc[t].total
       /\ AllFull(path) => loc[t].total = path.rl
  /\ pc[t] \in Growing =>
       AllFull(path) /\ loc[t].total = path.rl /\ loc[t].lev = path.rl + 1
  /\ pc[t] \in Growing \ {"grow"} => loc[t].old_root = RootOf(t)
  /\ pc[t] \in {"growroot", "growlevel", "unlockold", "unlocknew"} =>
       NewRoot(t) \in (Level \ {0}) \X Num
  /\ pc[t] = "growlevel" => num(NewRoot(t)) = 1
  /\ Carries(t) => loc[t].ptr \in Num /\ loc[t].sep \in Key

DeleteOK(t) ==
  LET path == loc[t].path IN
  /\ pc[t] \in {"delleaf", "delnode"} => \A n \in Level \X Num :
       HoldsBnode(t, n) => /\ path.ppos[n[1]] <= num(n)
                           /\ Child(n, path.ppos[n[1]]) = path.parray[n[1] - 1]
  /\ pc[t] = "delleaf" => loc[t].pos \in leaf[lp(t)].bitmap
  /\ pc[t] = "delnode" => loc[t].lev >= 1
  /\ pc[t] \in {"shrink", "shrinkroot"} =>
       Here(t) \in (Level \ {0}) \X Num /\ num(Here(t)) = 0

LeafOK(t) ==
  /\ pc[t] # "idle" => loc[t].key \in Key
  /\ pc[t] \in {"fill", "split", "publish", "addleft"} => loc[t].key \notin keys(lp(t))
  /\ pc[t] \in {"fill", "addleft"} => ~isFull(lp(t))
  /\ pc[t] \in {"split", "publish"} => isFull(lp(t))
  /\ pc[t] = "publish" => \E s \in Slot : leaf[lp(t)].ent[s] = loc[t].sep
  /\ pc[t] = "setval" => loc[t].ptr \in Num

ThreadOK(t) == ClimbOK(t) /\ DeleteOK(t) /\ LeafOK(t)

LeavesOK == \A l \in Num : <<0, l>> \in used => DistinctKeys(leaf[l])

-----------------------------------------------------------------------------
\* The two stores that lower the root by a level are not atomic: a delete
\* that finds its own bnode at the new root_level lowers it again, and the
\* first one's store of tree_root comes last (lbtree.cc:1560, 1574).
ShrinksApart ==
  \A t, u \in Thread :
    t # u /\ pc[t] = "shrinkroot" => pc[u] \notin {"shrink", "shrinkroot"}

LbInv ==
  /\ TypeOK /\ LeavesOK
  /\ LocksOK /\ RootOK /\ Forest
  /\ \A t \in Thread : ThreadOK(t)
=============================================================================
