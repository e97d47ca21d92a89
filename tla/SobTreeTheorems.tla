-------------------------- MODULE SobTreeTheorems --------------------------
(***************************************************************************)
(* What is proved of SobTree without the order of its keys, for every      *)
(* value of its constants: IndInv is an invariant, and with it locks are   *)
(* owned, the root is right, no split job is there twice, no full leaf is  *)
(* forgotten, and every leaf hangs from the search layer at one place.     *)
(***************************************************************************)
EXTENDS SobTreeProofs

-----------------------------------------------------------------------------
(* IndInv is inductive.                                                    *)

LEMMA InvInit == Init => IndInv
<1> SUFFICES ASSUME Init PROVE IndInv
  OBVIOUS
<1> USE Constants
<1>1. TypeOK
  BY TypeInit
<1>2. 0 \in Level /\ 0 \in InodeNum /\ first_lnode \in LnodeId
  BY DEF Level, InodeNum, LnodeId, first_lnode
<1>3. ASSUME NEW t \in Thread
      PROVE  /\ pc[t] \in {"idle", "pop"} /\ loc[t] = NoLocal
             /\ t \in Foreground => pc[t] = "idle"
             /\ t \notin Foreground => pc[t] = "pop"
  BY <1>3 DEF Init
<1>4. ASSUME NEW t \in Thread
      PROVE  /\ ~HoldsPath(t) /\ \A i, x : ~Holds(t, i, x)
             /\ ~Carries(t) /\ ~HoldsLeaf(t)
  BY <1>3, <1>4 DEF HoldsPath, Holds, Carries, HoldsLeaf, Growing
<1>5. ASSUME NEW n \in Inode
      PROVE  ent[n].ch = <<first_lnode>> /\ ilock[n] = FALSE
  BY <1>5 DEF Init
<1>6. nleaf = 1 /\ job_queue = {} /\ tree_root = <<0, 0>> /\ root_level = 0
      /\ \A i \in Level : ninode[i] = IF i = 0 THEN 1 ELSE 0
  BY DEF Init
<1>7. \A l \in LnodeId : meta[l].lock = FALSE
  BY DEF Init, NoMeta
<1>8. \A i \in Level, x \in InodeNum : x < ninode[i] => i = 0 /\ x = 0
  BY <1>6 DEF InodeNum
<1>9. TreeInv
  <2>1. Linked
    <3>1. ASSUME NEW i \in Level, NEW x \in InodeNum, x < ninode[i],
                 NEW j \in DOMAIN ent[<<i, x>>].ch
          PROVE  ent[<<i, x>>].ch[j] < IF i = 0 THEN nleaf ELSE ninode[i - 1]
      <4>1. <<i, x>> \in Inode /\ i = 0
        BY <1>8, <3>1 DEF Inode
      <4>2. ent[<<i, x>>].ch = <<first_lnode>>
        BY <1>5, <4>1
      <4> QED
        BY <1>6, <3>1, <4>1, <4>2 DEF first_lnode
    <3>2. tree_root[2] < ninode[tree_root[1]]
      BY <1>2, <1>6
    <3> QED
      BY <3>1, <3>2 DEF Linked
  <2>2. OneUse
    <3>1. ASSUME NEW l, NEW x \in InodeNum, NEW j, Hangs(l, x, j)
          PROVE  x = 0 /\ j = 1
      <4>1. x = 0
        BY <1>2, <1>8, <3>1 DEF Hangs
      <4>2. ent[<<0, x>>].ch = <<first_lnode>>
        BY <1>2, <1>5 DEF Inode
      <4> QED
        BY <3>1, <4>1, <4>2 DEF Hangs
    <3> QED
      BY <3>1 DEF OneUse
  <2>3. CarriedLeaf
    BY <1>4 DEF CarriedLeaf
  <2> QED
    BY <2>1, <2>2, <2>3 DEF TreeInv
<1>10. ClimbInv
  <2>1. InodeLocks
    BY <1>4, <1>5 DEF InodeLocks, Inode
  <2>2. RootLevel
    BY <1>6 DEF RootLevel
  <2>3. ASSUME NEW t \in Thread PROVE ClimbOK(t)
    BY <1>3, <1>4, <2>3
    DEF ClimbOK, PathTrue, LeafOfPath, Climb, RootState, CarriedInode, Growing
  <2> QED
    BY <2>1, <2>2, <2>3 DEF ClimbInv
<1>11. LeafInv
  <2>1. LeafLockOwner
    BY <1>4, <1>7 DEF LeafLockOwner
  <2>2. LeafAllocated
    BY <1>3, <1>4, <1>6 DEF LeafAllocated
  <2>3. JobsOK
    BY <1>3, <1>6 DEF JobsOK, Pending
  <2>4. ASSUME NEW t \in Thread PROVE LeafKnown(t)
    BY <1>3, <2>4 DEF LeafKnown
  <2> QED
    BY <2>1, <2>2, <2>3, <2>4 DEF LeafInv
<1> QED
  BY <1>1, <1>9, <1>10, <1>11 DEF IndInv

LEMMA InvStutter ==
  ASSUME IndInv, UNCHANGED vars PROVE IndInv'
<1>1. /\ UNCHANGED <<tree_root, root_level, ent, ilock, ninode>>
      /\ UNCHANGED <<meta, tail, version, nleaf, job_queue, pc, loc>>
  BY DEF vars
<1>2. TypeOK'
  BY <1>1 DEF IndInv, TypeOK, SearchTypeOK, LeafTypeOK, ThreadTypeOK, PtrTypeOK
<1>3. TreeInv'
  BY <1>1 DEF IndInv, TreeInv, Linked, OneUse, Hangs, CarriedLeaf, Carries
<1>4. ClimbInv'
  <2>1. InodeLocks'
    BY <1>1 DEF IndInv, ClimbInv, InodeLocks, Holds, HoldsPath, Low, isFull
  <2>2. RootLevel'
    BY <1>1 DEF IndInv, ClimbInv, RootLevel
  <2>3. ASSUME NEW t \in Thread PROVE ClimbOK(t)'
    <3>1. ClimbOK(t)
      BY DEF IndInv, ClimbInv
    <3>2. PathTrue(t)' /\ LeafOfPath(t)'
      BY <1>1, <3>1, SMTT(30)
      DEF ClimbOK, PathTrue, LeafOfPath, HoldsPath, Low, isFull, num
    <3>3. Climb(t)' /\ RootState(t)' /\ CarriedInode(t)'
      BY <1>1, <3>1
      DEF ClimbOK, Climb, RootState, CarriedInode, HoldsPath, isFull
    <3> QED
      BY <3>2, <3>3 DEF ClimbOK
  <2> QED
    BY <2>1, <2>2, <2>3 DEF ClimbInv
<1>5. LeafInv'
  <2>1. LeafLockOwner' /\ LeafAllocated'
    BY <1>1 DEF IndInv, LeafInv, LeafLockOwner, LeafAllocated, HoldsLeaf
  <2>2. JobsOK'
    BY <1>1 DEF IndInv, LeafInv, JobsOK, Pending, FilledLeaf, isFull
  <2>3. \A t \in Thread : LeafKnown(t)'
    BY <1>1 DEF IndInv, LeafInv, LeafKnown, isFull
  <2> QED
    BY <2>1, <2>2, <2>3 DEF LeafInv
<1> QED
  BY <1>2, <1>3, <1>4, <1>5 DEF IndInv

LEMMA InvNext ==
  ASSUME IndInv, NoStaleJob, [Next]_vars PROVE IndInv'
<1>1. CASE UNCHANGED vars
  BY <1>1, InvStutter
<1>2. ASSUME NEW t \in Foreground, Call(t) \/ ClientStep(t) PROVE IndInv'
  BY <1>2, InvCall, InvFindLeaf, InvCopyMeta, InvFillSlot, InvPushJob,
     InvInsertLeft DEF ClientStep
<1>3. ASSUME NEW w \in Worker, WorkerStep(w) PROVE IndInv'
  BY <1>3, InvPopJob, InvSplitLock, InvSplitCopy, InvFindInode,
     InvSplitUnlock DEF WorkerStep
<1>4. ASSUME NEW t \in Thread, SplitStep(t) PROVE IndInv'
  BY <1>4, InvSplitBuild, InvSplitPublish, InvReadLevel, InvInsertInode,
     InvSplitInode, InvGrowRoot, InvGrown DEF SplitStep
<1> QED
  BY <1>1, <1>2, <1>3, <1>4 DEF Next

\* The same of the steps that stand for any hand-over of a full leaf.
LEMMA InvNextAny ==
  ASSUME IndInv, NoStaleJob, [NextAny]_vars PROVE IndInv'
BY InvNext, InvTakeLeaf, InvFillOnly DEF NextAny

\* In every behaviour in which no job is so old that its leaf's version has come
\* round to it, IndInv holds: locks, recorded paths, carried pointers and jobs
\* stay right together.
THEOREM IndInvHolds == Spec /\ []NoStaleJob => []IndInv
<1>1. Init => IndInv
  BY InvInit
<1>2. IndInv /\ NoStaleJob /\ [Next]_vars => IndInv'
  BY InvNext
<1> QED
  BY <1>1, <1>2, PTL DEF Spec

-----------------------------------------------------------------------------
(* The properties it implies.                                              *)

\* Every pointer of the structure and of a thread's locals refers to a node of
\* the level it is used at (the type invariant).
THEOREM TypesHold == Spec /\ []NoStaleJob => []TypeOK
<1>1. IndInv => TypeOK
  BY DEF IndInv
<1> QED
  BY <1>1, IndInvHolds, PTL

\* The lock bit of a leaf is set exactly while one thread works on it, the
\* early unlock of a client's split (sobtree_v2.h:1025) aside, and then still
\* nobody else works on it.
THEOREM LeafLocksHold == Spec /\ []NoStaleJob => []LeafLockOwner
<1>1. IndInv => LeafLockOwner
  BY DEF IndInv, LeafInv
<1> QED
  BY <1>1, IndInvHolds, PTL

\* Holds and HeldInodes say the same of a thread whose locals are well typed.
LEMMA HoldsHeld ==
  ASSUME IndInv, NEW t \in Thread, NEW i \in Level, NEW x \in InodeNum
  PROVE  Holds(t, i, x) <=> <<i, x>> \in HeldInodes(t)
<1> DEFINE path == loc[t].path
<1>1. path \in Path /\ loc[t].lev \in Nat /\ i \in Nat /\ t \in Thread
  BY LocalFields, Constants DEF IndInv, Level
<1>2. <<i, x>> \in Locked(path) <=> InReach(path, i) /\ x = path.parray[i]
  BY <1>1, LockedReach
<1>3. (t \in Foreground => pc[t] \in ForegroundLabel)
      /\ (t \notin Foreground => pc[t] \in WorkerLabel)
  BY DEF IndInv, TypeOK, ThreadTypeOK, Thread
<1>4. CASE pc[t] = "copy"
  BY <1>1, <1>2, <1>4 DEF Holds, HoldsPath, Low, Growing, HeldInodes
<1>5. CASE pc[t] \in {"build", "publish"}
  BY <1>1, <1>2, <1>5 DEF Holds, HoldsPath, Low, Growing, HeldInodes
<1>6. CASE pc[t] \in {"addleft", "level"}
  BY <1>1, <1>2, <1>6 DEF Holds, HoldsPath, Low, Growing, HeldInodes
<1>7. CASE pc[t] = "inode"
  BY <1>1, <1>2, <1>7 DEF Holds, HoldsPath, Low, Growing, HeldInodes
<1>8. CASE pc[t] = "grow"
  BY <1>1, <1>8 DEF Holds, HoldsPath, Low, Growing, HeldInodes
<1>9. CASE pc[t] \in Growing
  BY <1>1, <1>9 DEF Holds, HoldsPath, Low, Growing, HeldInodes
<1>10. CASE pc[t] = "unlocknew"
  BY <1>1, <1>10 DEF Holds, HoldsPath, Low, Growing, HeldInodes
<1>11. CASE pc[t] \notin {"copy", "build", "publish", "addleft", "level",
                         "inode", "grow", "unlocknew"} \cup Growing
  BY <1>11 DEF Holds, HoldsPath, Growing, HeldInodes
<1> QED
  BY <1>4, <1>5, <1>6, <1>7, <1>8, <1>9, <1>10, <1>11

\* Nothing but an inode is ever held.
LEMMA HeldInode ==
  ASSUME IndInv, NEW t \in Thread, NEW n \in HeldInodes(t)
  PROVE  \E i \in Level, x \in InodeNum : n = <<i, x>>
<1> DEFINE path == loc[t].path
<1>1. /\ path \in Path /\ path.rl \in Level
      /\ path.parray \in [Level -> InodeNum]
  BY LocalFields DEF IndInv, Path
<1>2. ASSUME NEW m \in Locked(path)
      PROVE  \E i \in Level, x \in InodeNum : m = <<i, x>>
  <2>1. PICK j \in 0..path.rl : m = <<j, path.parray[j]>>
    BY DEF Locked
  <2>2. j \in Level
    BY <1>1, Constants DEF Level
  <2> QED
    BY <1>1, <2>1, <2>2
<1>3. CASE n \in Locked(path)
  BY <1>2, <1>3
<1>4. CASE pc[t] = "grow" /\ n = <<loc[t].lev - 1, path.parray[loc[t].lev - 1]>>
  <2>1. loc[t].lev - 1 \in Level
    BY <1>4, LocalFields, Constants DEF IndInv, PtrTypeOK, Level
  <2> QED
    BY <1>1, <1>4, <2>1
<1>5. CASE /\ pc[t] \in Growing \cup {"unlocknew"}
           /\ \/ n = <<loc[t].lev - 1, loc[t].old_root>>
              \/ n = <<loc[t].lev, loc[t].ptr>>
  <2>1. /\ loc[t].lev \in Level /\ loc[t].lev - 1 \in Level
        /\ loc[t].ptr \in InodeNum /\ loc[t].old_root \in InodeNum
    BY <1>5, LocalFields, Constants DEF IndInv, PtrTypeOK, Level, Growing
  <2> QED
    BY <1>5, <2>1
<1>6. \/ n \in Locked(path)
      \/ pc[t] = "grow" /\ n = <<loc[t].lev - 1, path.parray[loc[t].lev - 1]>>
      \/ /\ pc[t] \in Growing \cup {"unlocknew"}
         /\ \/ n = <<loc[t].lev - 1, loc[t].old_root>>
            \/ n = <<loc[t].lev, loc[t].ptr>>
  BY DEF HeldInodes, Growing
<1> QED
  BY <1>3, <1>4, <1>5, <1>6

LEMMA InodeLocksProperty ==
  ASSUME IndInv PROVE InodeLockOwner
<1>1. ASSUME NEW n \in Inode
      PROVE  ilock[n] <=> \E t \in Thread : n \in HeldInodes(t)
  <2>1. PICK i \in Level, x \in InodeNum : n = <<i, x>>
    BY DEF Inode
  <2> QED
    BY <2>1, HoldsHeld DEF IndInv, ClimbInv, InodeLocks
<1>2. ASSUME NEW t \in Thread, NEW u \in Thread, t # u,
             NEW n \in HeldInodes(t), n \in HeldInodes(u)
      PROVE  FALSE
  <2>1. PICK i \in Level, x \in InodeNum : n = <<i, x>>
    BY HeldInode
  <2>2. Holds(t, i, x) /\ Holds(u, i, x)
    BY <1>2, <2>1, HoldsHeld
  <2> QED
    BY <1>2, <2>2 DEF IndInv, ClimbInv, InodeLocks
<1> QED
  BY <1>1, <1>2 DEF InodeLockOwner

\* An inode's lock bit is set exactly while one thread changes the inode: no
\* split releases or forgets a lock, whatever root_level it read after its
\* transaction (sobtree_v2.h:1103).
THEOREM InodeLocksHold == Spec /\ []NoStaleJob => []InodeLockOwner
<1>1. IndInv => InodeLockOwner
  BY InodeLocksProperty
<1> QED
  BY <1>1, IndInvHolds, PTL

LEMMA RootProperty ==
  ASSUME IndInv PROVE RootAgrees
<1>1. tree_root[1] \in Level /\ tree_root[2] \in InodeNum
      /\ tree_root = <<tree_root[1], tree_root[2]>>
  BY DEF IndInv, TypeOK, SearchTypeOK, Inode
<1>2. ASSUME NEW t \in Thread, pc[t] \in {"growroot", "growlevel"}
      PROVE  ilock[tree_root]
  <2>1. Holds(t, tree_root[1], tree_root[2])
    BY <1>2 DEF IndInv, ClimbInv, ClimbOK, RootState, Holds, Growing
  <2> QED
    BY <1>1, <2>1 DEF IndInv, ClimbInv, InodeLocks
<1> QED
  BY <1>2 DEF RootAgrees, IndInv, ClimbInv, RootLevel

\* Whoever reads an unlocked root reads its level right, in either order of
\* the two stores of a growing root (sobtree_v2.h:1192).
THEOREM RootHolds == Spec /\ []NoStaleJob => []RootAgrees
<1>1. IndInv => RootAgrees
  BY RootProperty
<1> QED
  BY <1>1, IndInvHolds, PTL

\* A split that makes a new root locked the present one in the transaction
\* that recorded its path, and root_level is still the level it saw.
THEOREM TopHolds == Spec /\ []NoStaleJob => []TopIsRoot
<1>1. IndInv => TopIsRoot
  BY DEF IndInv, ClimbInv, ClimbOK, RootState, TopIsRoot
<1> QED
  BY <1>1, IndInvHolds, PTL

\* A leaf is split only when it is full, although split (sobtree_v2.h:1226)
\* looks only at the version of the job it was given.
THEOREM FullLeafHolds == Spec /\ []NoStaleJob => []SplitsFullLeaf
<1>1. IndInv => SplitsFullLeaf
  BY DEF IndInv, LeafInv, LeafKnown, SplitsFullLeaf
<1> QED
  BY <1>1, IndInvHolds, PTL

-----------------------------------------------------------------------------
(* What the actions have in common.                                        *)

NextStep(t) ==
  \/ t \in Foreground /\ (Call(t) \/ ClientStep(t))
  \/ t \in Worker /\ WorkerStep(t)
  \/ SplitStep(t)

LEMMA NextIsStep ==
  ASSUME Next PROVE \E t \in Thread : NextStep(t)
BY DEF Next, NextStep, Thread

\* A step of t, in SobTree or in SpecAny.
Step(t) ==
  \/ NextStep(t)
  \/ t \in Foreground /\ FillOnly(t)
  \/ t \in Worker /\ TakeLeaf(t)

LEMMA AnyIsStep ==
  ASSUME NextAny PROVE \E t \in Thread : Step(t)
BY NextIsStep DEF NextAny, Step, Thread

\* A step of t moves no other thread.
LEMMA StepStays ==
  ASSUME TypeOK, NEW t \in Thread, Step(t) PROVE OthersStay(t)
<1>1. /\ pc \in [Thread -> ForegroundLabel \cup WorkerLabel]
      /\ loc \in [Thread -> Local]
  BY DEF TypeOK, ThreadTypeOK
<1>2. CASE t \in Foreground /\ (SearchLnode(t) \/ ReadCh(t))
  <2>1. \E label : pc' = [pc EXCEPT ![t] = label]
    BY <1>2 DEF SearchLnode, ReadCh, Goto
  <2>2. \E r : loc' = [loc EXCEPT ![t] = r]
    BY <1>2, SearchLocal
  <2> QED
    BY <1>1, <2>1, <2>2 DEF OthersStay
<1>12. CASE t \in Foreground /\ (Call(t) \/ Return(t))
  BY <1>1, <1>12 DEF Call, Return, Goto, OthersStay
<1>3. CASE t \in Foreground /\ FindLeaf(t)
  <2>1. (\E label : pc' = [pc EXCEPT ![t] = label])
        /\ \/ loc' = loc
           \/ \E l, path : loc' = [loc EXCEPT ![t].lp = l, ![t].path = path]
    BY <1>3 DEF FindLeaf, Goto
  <2> QED
    BY <1>1, <2>1 DEF OthersStay
<1>4. CASE t \in Foreground
           /\ (CopyMeta(t) \/ FillSlot(t) \/ PushJob(t) \/ InsertLeft(t))
  BY <1>1, <1>4 DEF CopyMeta, FillSlot, PushJob, InsertLeft, Goto, OthersStay
<1>5. CASE t \in Worker /\ (PopJob(t) \/ SplitLock(t) \/ SplitCopy(t))
  BY <1>1, <1>5 DEF PopJob, SplitLock, SplitCopy, Goto, OthersStay
<1>6. CASE t \in Worker /\ (FindInode(t) \/ SplitUnlock(t))
  BY <1>1, <1>6 DEF FindInode, SplitUnlock, Goto, OthersStay
<1>7. CASE SplitBuild(t) \/ SplitPublish(t)
  BY <1>1, <1>7 DEF SplitBuild, SplitPublish, Goto, OthersStay
<1>8. CASE ReadLevel(t) \/ InsertInode(t) \/ SplitInode(t) \/ GrowRoot(t)
  BY <1>1, <1>8
  DEF ReadLevel, InsertInode, SplitInode, GrowRoot, Goto, OthersStay
<1>9. CASE GrowSecondStore(t) \/ UnlockOldRoot(t) \/ UnlockNewRoot(t)
  BY <1>1, <1>9 DEF GrowSecondStore, UnlockOldRoot, UnlockNewRoot, Goto,
                    OthersStay
<1>10. CASE t \in Foreground /\ FillOnly(t)
  BY <1>1, <1>10 DEF FillOnly, Goto, OthersStay
<1>11. CASE t \in Worker /\ TakeLeaf(t)
  <2>1. (\E label : pc' = [pc EXCEPT ![t] = label])
        /\ \E r : loc' = [loc EXCEPT ![t] = r]
    BY <1>11 DEF TakeLeaf, Goto
  <2> QED
    BY <1>1, <2>1 DEF OthersStay
<1> QED
  BY <1>2, <1>3, <1>4, <1>5, <1>6, <1>7, <1>8, <1>9, <1>10, <1>11, <1>12
  DEF Step, NextStep, ClientStep, WorkerStep, SplitStep

\* What is pending after a step was before, or is in the queue or t's now.
LEMMA PendingStep ==
  ASSUME NEW t \in Thread, OthersStay(t), NEW l, NEW v, Pending(l, v)'
  PROVE  \/ Pending(l, v)
         \/ <<l, v>> \in job_queue'
         \/ /\ loc'[t].lp = l /\ loc'[t].version = v
            /\ pc'[t] = "lock" \/ (pc'[t] = "flush" /\ FilledLeaf(t)')
<1>1. \A u \in Thread : u # t =>
        pc'[u] = pc[u] /\ (FilledLeaf(u)' <=> FilledLeaf(u))
        /\ loc'[u] = loc[u]
  BY DEF OthersStay, FilledLeaf
<1> QED
  BY <1>1 DEF Pending

\* A worker whose leaf has been split and is still locked.
Splitting == {"locate", "level", "inode", "grow", "growroot", "growlevel",
              "unlockold", "unlocknew", "unlock"}

\* The steps that neither touch the leaf layer or the queue, nor take or drop
\* a leaf or a job.
Elsewhere(t) ==
  \/ t \in Foreground /\ (Call(t) \/ Return(t) \/ CopyMeta(t))
  \/ t \in Foreground /\ (SearchLnode(t) \/ ReadCh(t))
  \/ t \in Worker /\ (SplitCopy(t) \/ FindInode(t))
  \/ ReadLevel(t) \/ InsertInode(t) \/ SplitInode(t) \/ GrowRoot(t)
  \/ GrowSecondStore(t) \/ UnlockOldRoot(t) \/ UnlockNewRoot(t)

LEMMA ElsewhereStep ==
  ASSUME TypeOK, NEW t \in Thread, Elsewhere(t)
  PROVE  /\ UNCHANGED <<meta, tail, version, nleaf, job_queue>>
         /\ HoldsLeaf(t)' <=> HoldsLeaf(t)
         /\ HoldsLeaf(t) => loc'[t].lp = loc[t].lp
         /\ pc[t] \notin {"flush", "lock", "publish", "addleft"}
         /\ pc'[t] \notin {"flush", "lock", "publish", "addleft"}
         /\ t \in Worker /\ pc'[t] \in Splitting => pc[t] \in Splitting
<1>1. /\ pc \in [Thread -> ForegroundLabel \cup WorkerLabel]
      /\ loc \in [Thread -> Local]
      /\ t \in Foreground => t \notin Worker
      /\ t \notin Foreground => t \in Worker
  BY Constants DEF TypeOK, ThreadTypeOK, Thread
<1>2. CASE t \in Foreground
           /\ (Call(t) \/ SearchLnode(t) \/ ReadCh(t) \/ Return(t))
  BY <1>1, <1>2
  DEF Call, SearchLnode, SearchResult, ReadCh, Return, Goto, HoldsLeaf,
      Splitting, leaf_layer
<1>3. CASE t \in Foreground /\ CopyMeta(t)
  BY <1>1, <1>3 DEF CopyMeta, Goto, HoldsLeaf, leaf_layer, Local
<1>4. CASE t \in Worker /\ (SplitCopy(t) \/ FindInode(t))
  BY <1>1, <1>4
  DEF SplitCopy, FindInode, Goto, HoldsLeaf, Splitting, leaf_layer, Local
<1>5. CASE ReadLevel(t) \/ InsertInode(t)
  BY <1>1, <1>5
  DEF ReadLevel, InsertInode, Done, Goto, HoldsLeaf, Splitting, leaf_layer,
      Local
<1>6. CASE SplitInode(t)
  <2>1. /\ pc[t] = "inode" /\ pc'[t] \in {"inode", "grow"}
        /\ UNCHANGED <<leaf_layer, job_queue>>
    BY <1>1, <1>6 DEF SplitInode, Goto
  <2>2. PICK sep, ptr, lev :
          loc' = [loc EXCEPT ![t].sep = sep, ![t].ptr = ptr, ![t].lev = lev]
    BY <1>6 DEF SplitInode
  <2>3. loc'[t].lp = loc[t].lp
    BY <1>1, <2>2 DEF Local
  <2> QED
    BY <1>1, <2>1, <2>3 DEF HoldsLeaf, Splitting, leaf_layer
<1>7. CASE GrowRoot(t)
  BY <1>1, <1>7 DEF GrowRoot, Goto, HoldsLeaf, Splitting, leaf_layer, Local
<1>8. CASE GrowSecondStore(t) \/ UnlockOldRoot(t) \/ UnlockNewRoot(t)
  BY <1>1, <1>8
  DEF GrowSecondStore, UnlockOldRoot, UnlockNewRoot, Done, Goto, HoldsLeaf,
      Splitting, leaf_layer
<1> QED
  BY <1>2, <1>3, <1>4, <1>5, <1>6, <1>7, <1>8 DEF Elsewhere

LEMMA NextStepCases ==
  ASSUME NEW t \in Thread, NextStep(t)
  PROVE  \/ Elsewhere(t)
         \/ t \in Foreground /\ (FindLeaf(t) \/ FillSlot(t) \/ PushJob(t)
                                 \/ InsertLeft(t))
         \/ t \in Worker /\ (PopJob(t) \/ SplitLock(t) \/ SplitUnlock(t))
         \/ SplitBuild(t) \/ SplitPublish(t)
BY DEF NextStep, Elsewhere, ClientStep, WorkerStep, SplitStep

LEMMA StepCases ==
  ASSUME NEW t \in Thread, Step(t)
  PROVE  \/ Elsewhere(t)
         \/ t \in Foreground /\ (FindLeaf(t) \/ Fills(t) \/ PushJob(t)
                                 \/ InsertLeft(t))
         \/ t \in Worker /\ (PopJob(t) \/ SplitLock(t) \/ TakeLeaf(t)
                             \/ SplitUnlock(t))
         \/ SplitBuild(t) \/ SplitPublish(t)
BY NextStepCases DEF Step, Fills

-----------------------------------------------------------------------------
(* Every job is in one place.                                              *)

\* t is about to queue its job, or has taken it from the queue.
Carrying(t) == pc[t] = "lock" \/ (pc[t] = "flush" /\ FilledLeaf(t))

JobOnce ==
  \A t \in Thread : Carrying(t) =>
    /\ Job(t) \notin job_queue
    /\ \A u \in Thread \ {t} : Carrying(u) => Job(u) # Job(t)

LEMMA OnceInit == Init => JobOnce
<1> SUFFICES ASSUME Init PROVE JobOnce
  OBVIOUS
<1>1. \A t \in Thread : pc[t] \in {"idle", "pop"}
  BY DEF Init
<1> QED
  BY <1>1 DEF JobOnce, Carrying

\* A step that leaves the queue alone and gives t no new job.
LEMMA OnceKept ==
  ASSUME JobOnce, NEW t \in Thread, OthersStay(t), UNCHANGED job_queue,
         pc'[t] \notin {"flush", "lock"}
  PROVE  JobOnce'
<1>1. ~Carrying(t)'
  BY DEF Carrying
<1>2. ASSUME NEW u \in Thread, u # t
      PROVE  (Carrying(u)' <=> Carrying(u)) /\ Job(u)' = Job(u)
  BY <1>2 DEF OthersStay, Carrying, FilledLeaf, Job
<1> QED
  BY <1>1, <1>2 DEF JobOnce

LEMMA OnceFillSlot ==
  ASSUME IndInv, JobOnce, NEW t \in Foreground, FillSlot(t) PROVE JobOnce'
<1>1. t \in Thread /\ OthersStay(t)
  BY StepStays DEF Thread, Step, NextStep, ClientStep, IndInv
<1>2. /\ pc[t] = "fill" /\ UNCHANGED job_queue
      /\ Job(t)' = Job(t) /\ Job(t) = <<loc[t].lp, version[loc[t].lp]>>
  <2>1. pc[t] = "fill" /\ loc[t].version = version[loc[t].lp]
    BY <1>1 DEF FillSlot, IndInv, LeafInv, LeafKnown
  <2>2. UNCHANGED job_queue /\ loc'[t].lp = loc[t].lp
        /\ loc'[t].version = loc[t].version
    BY <1>1 DEF FillSlot, IndInv, TypeOK, ThreadTypeOK, Local
  <2> QED
    BY <2>1, <2>2 DEF Job
\* The leaf had a free slot: no job with its present version can be about.
<1>3. ~Pending(loc[t].lp, version[loc[t].lp])
  <2>1. ~isFull(loc[t].lp)
    BY <1>1, <1>2 DEF IndInv, LeafInv, LeafKnown
  <2>2. loc[t].lp \in LnodeId /\ version[loc[t].lp] \in Version
    BY <1>1, LocalFields DEF IndInv, TypeOK, LeafTypeOK
  <2> QED
    BY <2>1, <2>2 DEF IndInv, LeafInv, JobsOK
<1>4. ASSUME NEW u \in Thread, u # t
      PROVE  /\ Carrying(u)' <=> Carrying(u)
             /\ Job(u)' = Job(u)
             /\ Carrying(u) => Job(u) # Job(t)
  <2>1. pc'[u] = pc[u] /\ loc'[u] = loc[u]
    BY <1>1, <1>4 DEF OthersStay
  <2>2. Carrying(u) => Job(u) # Job(t)
    BY <1>2, <1>3 DEF Carrying, Pending, Job
  <2> QED
    BY <2>1, <2>2 DEF Carrying, FilledLeaf, Job
<1>5. Job(t) \notin job_queue
  BY <1>2, <1>3 DEF Pending
<1> QED
  BY <1>2, <1>4, <1>5 DEF JobOnce

LEMMA OncePushJob ==
  ASSUME IndInv, JobOnce, NEW t \in Foreground, PushJob(t) PROVE JobOnce'
<1>1. t \in Thread /\ OthersStay(t)
  BY StepStays DEF Thread, Step, NextStep, ClientStep, IndInv
<1>2. /\ pc[t] = "flush" /\ pc'[t] = "ret"
      /\ job_queue' = job_queue \cup (IF FilledLeaf(t) THEN {Job(t)} ELSE {})
  BY <1>1 DEF PushJob, Goto, IndInv, TypeOK, ThreadTypeOK
<1>3. ~Carrying(t)'
  BY <1>2 DEF Carrying
<1>4. ASSUME NEW u \in Thread, u # t
      PROVE  /\ Carrying(u)' <=> Carrying(u)
             /\ Job(u)' = Job(u)
             /\ Carrying(u) => Job(u) \notin job_queue'
  <2>1. pc'[u] = pc[u] /\ loc'[u] = loc[u]
    BY <1>1, <1>4 DEF OthersStay
  <2>2. Carrying(u) => Job(u) \notin job_queue
    BY DEF JobOnce
  <2>3. Carrying(u) /\ FilledLeaf(t) => Job(u) # Job(t)
    BY <1>1, <1>2, <1>4 DEF JobOnce, Carrying
  <2> QED
    BY <1>2, <2>1, <2>2, <2>3 DEF Carrying, FilledLeaf, Job
<1> QED
  BY <1>3, <1>4 DEF JobOnce

LEMMA OncePopJob ==
  ASSUME IndInv, JobOnce, NEW w \in Worker, PopJob(w) PROVE JobOnce'
<1>1. w \in Thread /\ OthersStay(w)
  BY StepStays DEF Thread, Step, NextStep, WorkerStep, IndInv
<1>2. PICK job \in job_queue :
        /\ job_queue' = job_queue \ {job}
        /\ loc' = [loc EXCEPT ![w].lp = job[1], ![w].version = job[2]]
  BY DEF PopJob
<1>3. Job(w)' = job
  <2>1. loc'[w].lp = job[1] /\ loc'[w].version = job[2]
    BY <1>1, <1>2 DEF IndInv, TypeOK, ThreadTypeOK, Local
  <2>2. job = <<job[1], job[2]>>
    BY <1>2, LeafNumbers DEF IndInv
  <2> QED
    BY <2>1, <2>2 DEF Job
<1>4. ASSUME NEW u \in Thread, u # w
      PROVE  /\ Carrying(u)' <=> Carrying(u)
             /\ Job(u)' = Job(u)
             /\ Carrying(u) => Job(u) \notin job_queue
  <2>1. pc'[u] = pc[u] /\ loc'[u] = loc[u]
    BY <1>1, <1>4 DEF OthersStay
  <2> QED
    BY <2>1 DEF Carrying, FilledLeaf, Job, JobOnce
<1> QED
  BY <1>2, <1>3, <1>4 DEF JobOnce

LEMMA OnceNext ==
  ASSUME IndInv, JobOnce, [Next]_vars PROVE JobOnce'
<1>1. CASE UNCHANGED vars
  BY <1>1 DEF vars, JobOnce, Carrying, FilledLeaf, Job
<1>2. ASSUME NEW t \in Thread, NextStep(t) PROVE JobOnce'
  <2>1. TypeOK /\ OthersStay(t)
    BY <1>2, StepStays DEF Step, IndInv
  <2>2. CASE Elsewhere(t)
    BY <2>1, <2>2, ElsewhereStep, OnceKept
  <2>3. CASE FindLeaf(t) \/ InsertLeft(t) \/ SplitUnlock(t)
    <3>1. UNCHANGED job_queue /\ pc'[t] \in {"ret", "copy", "level", "pop"}
      BY <2>1, <2>3 DEF FindLeaf, InsertLeft, SplitUnlock, Goto, TypeOK,
                        ThreadTypeOK
    <3> QED
      BY <2>1, <3>1, OnceKept
  <2>4. CASE SplitLock(t) \/ SplitBuild(t) \/ SplitPublish(t)
    <3>1. UNCHANGED job_queue
          /\ pc'[t] \in {"pop", "copy", "publish", "locate", "addleft", "level"}
      BY <2>1, <2>4 DEF SplitLock, SplitBuild, SplitPublish, Goto, TypeOK,
                        ThreadTypeOK
    <3> QED
      BY <2>1, <3>1, OnceKept
  <2>5. CASE t \in Foreground /\ (FillSlot(t) \/ PushJob(t))
    BY <2>5, OnceFillSlot, OncePushJob
  <2>6. CASE t \in Worker /\ PopJob(t)
    BY <2>6, OncePopJob
  <2> QED
    BY <1>2, <2>2, <2>3, <2>4, <2>5, <2>6, NextStepCases
<1> QED
  BY <1>1, <1>2, NextIsStep

\* One job per filling of a leaf (sobtree_v2.h:945): while a client is about
\* to queue a job, the same job is neither queued nor in another thread's hands.
THEOREM JobsOnceHold == Spec /\ []NoStaleJob => []EachJobOnce
<1>1. Init => JobOnce
  BY OnceInit
<1>2. IndInv /\ JobOnce /\ [Next]_vars => JobOnce'
  BY OnceNext
<1>3. JobOnce => EachJobOnce
  BY DEF JobOnce, EachJobOnce, Carrying, Thread
<1> QED
  BY <1>1, <1>2, <1>3, IndInvHolds, PTL DEF Spec

-----------------------------------------------------------------------------
(* The hypothesis.  A leaf's version grows only when a split takes a leaf  *)
(* from the pool: where the pool holds fewer leaves than there are         *)
(* versions, none comes round, and no job is ever stale.                   *)

VersionOrder ==
  /\ \A l \in LnodeId : version[l] < nleaf
  /\ \A l \in LnodeId, v \in Version : Pending(l, v) => v <= version[l]

LEMMA OrderedNotStale ==
  ASSUME TypeOK, VersionOrder, VersionMod > MaxLeaf
  PROVE  NoStaleJob
<1> SUFFICES ASSUME NEW t \in Thread, pc[t] = "build"
             PROVE  ~Pending(loc[t].lp, NextVersion(version[loc[t].lp]))
  BY DEF NoStaleJob
<1> DEFINE l == loc[t].lp
<1>1. l \in LnodeId
  BY LocalFields
<1>2. /\ version[l] \in Nat /\ version[l] < nleaf /\ nleaf <= MaxLeaf
      /\ nleaf \in Nat /\ MaxLeaf \in Nat /\ VersionMod \in Nat
  BY <1>1, Constants, ConstantsOK DEF VersionOrder, TypeOK, LeafTypeOK, Version
<1>3. NextVersion(version[l]) = version[l] + 1
  BY <1>2 DEF NextVersion
<1>4. version[l] + 1 \in Version
  BY <1>2 DEF Version
<1> QED
  BY <1>1, <1>2, <1>3, <1>4 DEF VersionOrder

\* A step that gives no leaf another version.
LEMMA OrderKept ==
  ASSUME IndInv, VersionOrder, NEW t \in Thread, OthersStay(t),
         UNCHANGED version, nleaf' >= nleaf, nleaf' \in Nat,
         \A l, v : <<l, v>> \in job_queue' => Pending(l, v),
         pc'[t] \in {"flush", "lock"} =>
           \/ Pending(loc'[t].lp, loc'[t].version)
           \/ loc'[t].version = version[loc'[t].lp]
  PROVE  VersionOrder'
<1>1. /\ version \in [LnodeId -> Version] /\ nleaf \in Nat
      /\ \A v \in Version : v \in Nat
  BY Constants DEF IndInv, TypeOK, LeafTypeOK, Version
<1>2. \A l \in LnodeId : version'[l] < nleaf'
  BY <1>1 DEF VersionOrder
<1>3. ASSUME NEW l \in LnodeId, NEW v \in Version, Pending(l, v)'
      PROVE  v <= version'[l]
  <2>1. \/ Pending(l, v) \/ <<l, v>> \in job_queue'
        \/ /\ loc'[t].lp = l /\ loc'[t].version = v
           /\ pc'[t] \in {"flush", "lock"}
    BY <1>3, PendingStep
  <2>2. Pending(l, v) \/ v = version[l]
    BY <2>1
  <2> QED
    BY <1>1, <2>2 DEF VersionOrder
<1> QED
  BY <1>2, <1>3 DEF VersionOrder

LEMMA OrderedNext ==
  ASSUME IndInv, VersionOrder, VersionMod > MaxLeaf, [Next]_vars
  PROVE  VersionOrder'
<1>1. CASE UNCHANGED vars
  BY <1>1 DEF vars, VersionOrder, Pending, FilledLeaf
<1>2. ASSUME NEW t \in Thread, NextStep(t) PROVE VersionOrder'
  <2>1. /\ TypeOK /\ OthersStay(t) /\ nleaf \in Nat
        /\ pc \in [Thread -> ForegroundLabel \cup WorkerLabel]
        /\ loc \in [Thread -> Local]
        /\ loc[t].lp \in LnodeId
        /\ \A l, v : <<l, v>> \in job_queue => Pending(l, v)
    BY <1>2, StepStays, LeafNumbers, LocalFields
    DEF Step, IndInv, TypeOK, ThreadTypeOK, Pending
  <2>2. CASE Elsewhere(t)
    BY <2>1, <2>2, ElsewhereStep, OrderKept
  <2>3. CASE \/ t \in Foreground /\ (FindLeaf(t) \/ InsertLeft(t))
             \/ t \in Worker /\ SplitUnlock(t)
             \/ SplitPublish(t)
    <3>1. UNCHANGED <<version, nleaf, job_queue>>
          /\ pc'[t] \notin {"flush", "lock"}
      BY <2>1, <2>3 DEF FindLeaf, InsertLeft, SplitUnlock, SplitPublish, Goto
    <3> QED
      BY <2>1, <3>1, OrderKept
  <2>4. CASE t \in Foreground /\ FillSlot(t)
    <3>1. UNCHANGED <<version, nleaf, job_queue>>
      BY <2>4 DEF FillSlot
    <3>2. loc'[t].version = loc[t].version /\ loc'[t].lp = loc[t].lp
      BY <2>1, <2>4 DEF FillSlot, Local
    <3>3. loc[t].version = version[loc[t].lp]
      BY <2>4 DEF FillSlot, IndInv, LeafInv, LeafKnown
    <3> QED
      BY <2>1, <3>1, <3>2, <3>3, OrderKept
  <2>5. CASE t \in Foreground /\ PushJob(t)
    <3>1. /\ UNCHANGED <<version, nleaf, loc>> /\ pc[t] = "flush"
          /\ pc'[t] = "ret"
          /\ job_queue' = job_queue \cup (IF FilledLeaf(t) THEN {Job(t)} ELSE {})
      BY <2>1, <2>5 DEF PushJob, Goto, leaf_layer
    <3>2. ASSUME NEW l, NEW v, <<l, v>> \in job_queue' PROVE Pending(l, v)
      BY <2>1, <3>1, <3>2 DEF Pending, Job
    <3> QED
      BY <2>1, <3>1, <3>2, OrderKept
  <2>6. CASE t \in Worker /\ PopJob(t)
    <3>1. PICK job \in job_queue :
            /\ job_queue' = job_queue \ {job}
            /\ loc' = [loc EXCEPT ![t].lp = job[1], ![t].version = job[2]]
      BY <2>6 DEF PopJob
    <3>2. /\ UNCHANGED <<version, nleaf>> /\ job = <<job[1], job[2]>>
          /\ loc'[t].lp = job[1] /\ loc'[t].version = job[2]
      BY <2>1, <2>6, <3>1 DEF PopJob, leaf_layer, Local, TypeOK, LeafTypeOK
    <3>3. Pending(loc'[t].lp, loc'[t].version)
      BY <3>1, <3>2 DEF Pending
    <3> QED
      BY <2>1, <3>1, <3>2, <3>3, OrderKept
  <2>7. CASE t \in Worker /\ SplitLock(t)
    <3>1. UNCHANGED <<version, nleaf, job_queue>>
          /\ pc'[t] \notin {"flush", "lock"}
      BY <2>1, <2>7 DEF SplitLock, Goto
    <3> QED
      BY <2>1, <3>1, OrderKept
  <2>8. CASE SplitBuild(t)
    <3> DEFINE l == loc[t].lp
    <3>1. /\ version' = [version EXCEPT ![l] = NextVersion(@)]
          /\ nleaf' = nleaf + 1 /\ UNCHANGED job_queue
          /\ pc'[t] = "publish" /\ nleaf < MaxLeaf
      BY <2>1, <2>8 DEF SplitBuild, Goto
    <3>2. /\ version \in [LnodeId -> Version] /\ VersionMod \in Nat
          /\ MaxLeaf \in Nat /\ \A v \in Version : v \in Nat
      BY <2>1, ConstantsOK DEF TypeOK, LeafTypeOK, Version
    <3>3. version[l] < nleaf /\ version[l] \in Nat
      BY <2>1, <3>2 DEF VersionOrder
    <3>4. NextVersion(version[l]) = version[l] + 1
      BY <2>1, <3>1, <3>2, <3>3 DEF NextVersion
    <3>5. \A x \in LnodeId :
            version'[x] = IF x = l THEN version[x] + 1 ELSE version[x]
      BY <3>1, <3>2, <3>4
    <3>6. \A x \in LnodeId : version'[x] < nleaf'
      BY <2>1, <3>1, <3>2, <3>5 DEF VersionOrder
    <3>7. ASSUME NEW x \in LnodeId, NEW v \in Version, Pending(x, v)'
          PROVE  v <= version'[x]
      <4>1. Pending(x, v)
        BY <2>1, <3>1, <3>7, PendingStep
      <4>2. v <= version[x] /\ version[x] \in Nat /\ v \in Nat
        BY <3>2, <4>1 DEF VersionOrder
      <4> QED
        BY <3>5, <4>2
    <3> QED
      BY <3>6, <3>7 DEF VersionOrder
  <2>9. /\ t \in Foreground => ~FindLeaf(t) /\ ~FillSlot(t) /\ ~PushJob(t)
                                 /\ ~InsertLeft(t)
        /\ t \in Worker => ~PopJob(t) /\ ~SplitLock(t) /\ ~SplitUnlock(t)
        /\ ~SplitBuild(t) /\ ~SplitPublish(t)
        => Elsewhere(t)
    BY <1>2, NextStepCases
  <2> QED
    BY <2>2, <2>3, <2>4, <2>5, <2>6, <2>7, <2>8, <2>9
<1> QED
  BY <1>1, <1>2, NextIsStep

\* Where the pool holds fewer leaves than the 2^16 versions of
\* sobtree_v2.h:125, no job is stale, in any behaviour: the theorems of this
\* module then hold without their hypothesis.
THEOREM FewLeavesNotStale ==
  ASSUME VersionMod > MaxLeaf
  PROVE  Spec => []NoStaleJob
<1>1. Init => IndInv
  BY InvInit
<1>2. Init => VersionOrder
  <2> SUFFICES ASSUME Init PROVE VersionOrder
    OBVIOUS
  <2>1. job_queue = {} /\ \A t \in Thread : pc[t] \in {"idle", "pop"}
    BY DEF Init
  <2>2. \A l, v : ~Pending(l, v)
    BY <2>1 DEF Pending
  <2> QED
    BY <2>2 DEF VersionOrder, Init
<1>3. IndInv /\ VersionOrder => NoStaleJob
  BY OrderedNotStale DEF IndInv
<1>4. IndInv /\ VersionOrder /\ [Next]_vars => IndInv' /\ VersionOrder'
  BY <1>3, InvNext, OrderedNext
<1> QED
  BY <1>1, <1>2, <1>3, <1>4, PTL DEF Spec

-----------------------------------------------------------------------------
(* No full leaf is forgotten.  A split must leave both leaves with a free   *)
(* slot, the one that also receives the client's key included: that needs   *)
(* LEAF_KEY_NUM >= 4 (14 in the code).                                      *)

\* Leaf l, full and held by nobody, has a job.
Kept(l) ==
  /\ l \in Published /\ isFull(l)
  /\ \A t \in Thread : HoldsLeaf(t) => loc[t].lp # l
  => \/ <<l, version[l]>> \in job_queue
     \/ \E t \in Thread : WillSplit(t, l)

\* A leaf that is built and not linked is in nobody's hands and in no job.
Apart ==
  /\ \A u \in Thread : HoldsLeaf(u) \/ pc[u] \in {"flush", "lock"} =>
       loc[u].lp \notin Private
  /\ \A job \in job_queue : job[1] \notin Private

\* A split leaves room in both leaves, until they can be found again.
Room(t) ==
  /\ pc[t] \in {"publish", "addleft"} =>
       Cardinality(loc[t].meta.bitmap) = SPLIT
  /\ pc[t] = "publish" => ~isFull(loc[t].ptr)
  /\ t \in Worker /\ pc[t] \in Splitting => ~isFull(loc[t].lp)

KeptInv ==
  Apart /\ (\A t \in Thread : Room(t)) /\ (\A l \in LnodeId : Kept(l))

LEMMA KeptProperty ==
  ASSUME TypeOK, KeptInv PROVE NoStrandedLeaf
<1>1. nleaf \in Nat /\ nleaf <= MaxLeaf /\ MaxLeaf \in Nat
  BY Constants DEF TypeOK, LeafTypeOK
<1>2. Published \subseteq LnodeId
  BY <1>1 DEF Published, LnodeId
<1> QED
  BY <1>2 DEF KeptInv, Kept, NoStrandedLeaf

LEMMA HalfLeaf ==
  ASSUME LEAF_KEY_NUM >= 4
  PROVE  SPLIT \in Nat /\ SPLIT >= 2 /\ SPLIT + 1 < LEAF_KEY_NUM
<1>1. LEAF_KEY_NUM \in Nat
  BY Constants
<1> QED
  BY <1>1 DEF SPLIT

\* The two halves of a full leaf.
LEMMA LeafHalves ==
  ASSUME LEAF_KEY_NUM >= 4, NEW S \in SUBSET Key,
         Cardinality(S) = LEAF_KEY_NUM, NEW sk \in S, IsSplitKey(sk, S),
         NEW k
  PROVE  LET upper == {y \in S : y >= sk} IN
         /\ Cardinality(S \ upper) = SPLIT
         /\ Cardinality(upper) # LEAF_KEY_NUM
         /\ Cardinality(upper \cup {k}) # LEAF_KEY_NUM
<1> DEFINE upper == {y \in S : y >= sk}
<1>1. IsFiniteSet(S) /\ S \subseteq Int /\ LEAF_KEY_NUM \in Nat
  BY ConstantsOK, Constants, FS_Subset DEF ConstantsOK
<1>2. S \ upper = {y \in S : y < sk} /\ S \cap upper = upper
  <2>1. \A y \in S : y < sk <=> ~(y >= sk)
    BY <1>1
  <2> QED
    BY <2>1
<1>3. Cardinality(S \ upper) = SPLIT
  BY <1>2 DEF IsSplitKey
<1> HIDE DEF upper
<1>4. IsFiniteSet(upper) /\ Cardinality(upper) \in Nat
  BY <1>1, <1>2, FS_Intersection, FS_CardinalityType
<1>5. SPLIT = LEAF_KEY_NUM - Cardinality(upper)
  BY <1>1, <1>2, <1>3, FS_Difference
<1>6. Cardinality(upper \cup {k})
        \in {Cardinality(upper), Cardinality(upper) + 1}
  BY <1>4, FS_AddElement
<1> QED
  BY <1>1, <1>3, <1>4, <1>5, <1>6, HalfLeaf DEF upper

LEMMA KeptInit == ASSUME LEAF_KEY_NUM >= 4 PROVE Init => KeptInv
<1> SUFFICES ASSUME Init PROVE KeptInv
  OBVIOUS
<1>1. \A t \in Thread : pc[t] \in {"idle", "pop"}
                        /\ (t \in Foreground => pc[t] = "idle")
                        /\ (t \notin Foreground => pc[t] = "pop")
  BY DEF Init
<1>2. \A t \in Thread : ~HoldsLeaf(t)
  BY <1>1 DEF HoldsLeaf
<1>3. \A l \in LnodeId : ~isFull(l)
  <2>1. \A l \in LnodeId : meta[l].bitmap = {}
    BY DEF Init, NoMeta
  <2>2. Cardinality({}) # LEAF_KEY_NUM
    BY FS_EmptySet, Constants
  <2> QED
    BY <2>1, <2>2 DEF isFull
<1>4. Apart
  BY <1>1, <1>2 DEF Apart, Init
<1>5. \A t \in Thread : Room(t)
  BY <1>1 DEF Room, Splitting
<1> QED
  BY <1>3, <1>4, <1>5 DEF KeptInv, Kept

-----------------------------------------------------------------------------
(* How a step of t keeps each part.                                        *)

LEMMA ApartKept ==
  ASSUME Apart, NEW t \in Thread, OthersStay(t), pc'[t] # "publish",
         HoldsLeaf(t)' \/ pc'[t] \in {"flush", "lock"} =>
           loc'[t].lp \notin Private,
         \A job \in job_queue' : job[1] \notin Private
  PROVE  Apart'
<1>1. Private' \subseteq Private
  BY DEF Private, OthersStay
<1>2. ASSUME NEW u \in Thread, u # t
      PROVE  /\ pc'[u] = pc[u] /\ loc'[u] = loc[u]
             /\ HoldsLeaf(u)' <=> HoldsLeaf(u)
  BY <1>2 DEF OthersStay, HoldsLeaf
<1> QED
  BY <1>1, <1>2 DEF Apart

\* t changes the entries of its own leaf, or of the one it allocates.
LEMMA RoomKept ==
  ASSUME IndInv, Apart, \A u \in Thread : Room(u), NEW t \in Thread,
         OthersStay(t), Room(t)',
         \A x \in LnodeId :
           \/ meta'[x].bitmap = meta[x].bitmap
           \/ HoldsLeaf(t) /\ x = loc[t].lp
           \/ x = nleaf
  PROVE  \A u \in Thread : Room(u)'
<1> SUFFICES ASSUME NEW u \in Thread, u # t PROVE Room(u)'
  OBVIOUS
<1>1. pc'[u] = pc[u] /\ loc'[u] = loc[u] /\ Room(u)
  BY DEF OthersStay
<1>2. nleaf \in Nat
  BY LeafNumbers DEF IndInv
<1>3. ASSUME pc[u] = "publish"
      PROVE  isFull(loc[u].ptr)' <=> isFull(loc[u].ptr)
  <2>1. loc[u].ptr \in LnodeId
    BY <1>3, LocalFields DEF IndInv, PtrTypeOK
  <2>2. loc[u].ptr < nleaf /\ loc[u].ptr \in Private
    BY <1>3 DEF IndInv, TreeInv, CarriedLeaf, Carries, Private
  <2>3. HoldsLeaf(t) => loc[t].lp # loc[u].ptr
    BY <2>2 DEF Apart
  <2> QED
    BY <1>1, <1>2, <2>1, <2>2, <2>3 DEF isFull
<1>4. ASSUME u \in Worker, pc[u] \in Splitting
      PROVE  isFull(loc[u].lp)' <=> isFull(loc[u].lp)
  <2>1. HoldsLeaf(u)
    BY <1>4, Constants DEF HoldsLeaf, Splitting
  <2>2. loc[u].lp \in LnodeId /\ loc[u].lp < nleaf
    BY <2>1, LocalFields DEF IndInv, LeafInv, LeafAllocated
  <2>3. HoldsLeaf(t) => loc[t].lp # loc[u].lp
    BY <2>1 DEF IndInv, LeafInv, LeafLockOwner
  <2> QED
    BY <1>1, <1>2, <2>2, <2>3 DEF isFull
<1> QED
  BY <1>1, <1>3, <1>4 DEF Room

\* A leaf whose entries and version the step leaves alone stays kept, when t
\* does not let go of it.
LEMMA StillKept ==
  ASSUME NEW l, Kept(l), NEW t \in Thread, OthersStay(t),
         nleaf' = nleaf, pc[t] = "publish" => l # loc[t].ptr,
         meta'[l].bitmap = meta[l].bitmap, version'[l] = version[l],
         HoldsLeaf(t) /\ loc[t].lp = l => HoldsLeaf(t)' /\ loc'[t].lp = l,
         <<l, version[l]>> \in job_queue \/ WillSplit(t, l) =>
           \/ <<l, version[l]>> \in job_queue'
           \/ WillSplit(t, l)'
           \/ \E u \in Thread : HoldsLeaf(u)' /\ loc'[u].lp = l
  PROVE  Kept(l)'
<1> SUFFICES ASSUME (l \in Published)', isFull(l)',
                    \A u \in Thread : HoldsLeaf(u)' => loc'[u].lp # l
             PROVE  \/ <<l, version'[l]>> \in job_queue'
                    \/ \E u \in Thread : WillSplit(u, l)'
  BY DEF Kept
<1>1. ASSUME NEW u \in Thread, u # t
      PROVE  /\ pc'[u] = pc[u] /\ loc'[u] = loc[u]
             /\ HoldsLeaf(u)' <=> HoldsLeaf(u)
             /\ WillSplit(u, l)' <=> WillSplit(u, l)
  BY <1>1 DEF OthersStay, HoldsLeaf, WillSplit, FilledLeaf, Job
<1>2. l \in Published
  <2>1. l \in Private => l \in Private'
    BY <1>1 DEF Private
  <2> QED
    BY <2>1 DEF Published
<1>3. isFull(l) /\ \A u \in Thread : HoldsLeaf(u) => loc[u].lp # l
  BY <1>1 DEF isFull
<1>4. \/ <<l, version[l]>> \in job_queue
      \/ \E u \in Thread : WillSplit(u, l)
  BY <1>2, <1>3 DEF Kept
<1> QED
  BY <1>1, <1>4

\* A search never ends at a leaf that is not linked.
LEMMA FoundLinked ==
  ASSUME IndInv, NEW key \in Key, NEW p \in Descents(key)
  PROVE  LeafFor(p, key) \notin Private
<1> USE Constants
<1> DEFINE l == LeafFor(p, key)
           y == PathTaken(p, key).parray[0]
           m == PathTaken(p, key).ppos[0]
<1>1. /\ y \in InodeNum /\ y < ninode[0] /\ m \in Nat
      /\ m <= num(<<0, y>>) /\ ent[<<0, y>>].ch[m + 1] = l
  <2>1. 0 \in 0..root_level /\ 0 \in Level
    BY DEF IndInv, TypeOK, SearchTypeOK, Level
  <2>2. PathTaken(p, key) \in Path
    BY PathFacts DEF IndInv, TreeInv
  <2>3. y \in InodeNum /\ m \in Nat
    BY <2>1, <2>2 DEF Path
  <2> QED
    BY <2>1, <2>3, PathFacts DEF IndInv, TreeInv
<1> HIDE DEF l, y, m
<1>2. m + 1 \in ChildPlace /\ m + 1 \in DOMAIN ent[<<0, y>>].ch
  <2>1. <<0, y>> \in Inode
    BY <1>1 DEF Inode, Level
  <2>2. /\ ent[<<0, y>>].ch \in Seq(ChildId(0))
        /\ ent[<<0, y>>].k \in Seq(Key)
        /\ Len(ent[<<0, y>>].ch) = num(<<0, y>>) + 1
        /\ num(<<0, y>>) <= NON_LEAF_KEY_NUM
    BY <2>1 DEF IndInv, TypeOK, SearchTypeOK, num
  <2>3. num(<<0, y>>) \in Nat
    BY <2>2, LenProperties DEF num
  <2>4. m + 1 \in 1..Len(ent[<<0, y>>].ch) /\ m + 1 \in ChildPlace
    BY <1>1, <2>2, <2>3 DEF ChildPlace
  <2> QED
    BY <2>2, <2>4, LenProperties
<1>3. Hangs(l, y, m + 1)
  BY <1>1, <1>2 DEF Hangs
<1>4. \A u \in Thread : pc[u] = "publish" => loc[u].ptr # l
  BY <1>1, <1>2, <1>3 DEF IndInv, TreeInv, CarriedLeaf, Carries
<1> QED
  BY <1>4 DEF Private, l

-----------------------------------------------------------------------------
(* The steps.                                                              *)

LEMMA KeptElsewhere ==
  ASSUME IndInv, KeptInv, NEW t \in Thread, OthersStay(t), Elsewhere(t)
  PROVE  KeptInv'
<1>1. /\ UNCHANGED <<meta, version, nleaf, job_queue>>
      /\ HoldsLeaf(t)' <=> HoldsLeaf(t)
      /\ HoldsLeaf(t) => loc'[t].lp = loc[t].lp
      /\ pc[t] \notin {"flush", "lock", "publish", "addleft"}
      /\ pc'[t] \notin {"flush", "lock", "publish", "addleft"}
      /\ t \in Worker /\ pc'[t] \in Splitting => pc[t] \in Splitting
  BY ElsewhereStep DEF IndInv
<1>2. Apart'
  BY <1>1, ApartKept DEF KeptInv, Apart
<1>3. Room(t)'
  <2>1. t \in Worker /\ pc[t] \in Splitting => HoldsLeaf(t)
    BY Constants DEF HoldsLeaf, Splitting
  <2> QED
    BY <1>1, <2>1 DEF KeptInv, Room, isFull
<1>4. \A u \in Thread : Room(u)'
  BY <1>1, <1>3, RoomKept DEF KeptInv
<1>5. ASSUME NEW l \in LnodeId PROVE Kept(l)'
  <2>1. Kept(l) /\ ~WillSplit(t, l)
    BY <1>1 DEF KeptInv, WillSplit
  <2> QED
    BY <1>1, <2>1, StillKept
<1> QED
  BY <1>2, <1>4, <1>5 DEF KeptInv

LEMMA KeptFindLeaf ==
  ASSUME IndInv, KeptInv, NEW t \in Foreground, OthersStay(t), FindLeaf(t)
  PROVE  KeptInv'
<1>1. t \in Thread /\ t \notin Worker /\ loc[t].key \in Key
  BY Constants, LocalFields DEF Thread, IndInv
<1>2. /\ pc[t] = "find" /\ pc'[t] \in {"ret", "copy"}
      /\ UNCHANGED <<version, nleaf, job_queue>>
  BY <1>1 DEF FindLeaf, Goto, IndInv, TypeOK, ThreadTypeOK
<1>3. /\ \A x \in LnodeId : meta'[x].bitmap = meta[x].bitmap
      /\ pc'[t] = "copy" => loc'[t].lp \notin Private
  <2>1. PICK p \in Descents(loc[t].key) :
          \/ pc'[t] = "ret" /\ UNCHANGED meta
          \/ /\ meta' = [meta EXCEPT ![LeafFor(p, loc[t].key)].lock = TRUE]
             /\ loc' = [loc EXCEPT ![t].lp = LeafFor(p, loc[t].key),
                                   ![t].path = PathTaken(p, loc[t].key)]
    BY <1>1 DEF FindLeaf, Goto, IndInv, TypeOK, ThreadTypeOK
  <2>2. LeafFor(p, loc[t].key) \notin Private
    BY <1>1, FoundLinked
  <2>3. CASE pc'[t] = "ret" /\ UNCHANGED meta
    BY <2>3
  <2>4. CASE /\ meta' = [meta EXCEPT ![LeafFor(p, loc[t].key)].lock = TRUE]
             /\ loc' = [loc EXCEPT ![t].lp = LeafFor(p, loc[t].key),
                                   ![t].path = PathTaken(p, loc[t].key)]
    <3> DEFINE l == LeafFor(p, loc[t].key)
               q == PathTaken(p, loc[t].key)
    <3>1. /\ meta' = [meta EXCEPT ![l].lock = TRUE]
          /\ loc' = [loc EXCEPT ![t].lp = l, ![t].path = q]
          /\ l \notin Private
      BY <2>2, <2>4
    <3> HIDE DEF l, q
    <3>2. loc'[t].lp = l
      BY <1>1, <3>1 DEF IndInv, TypeOK, ThreadTypeOK, Local
    <3>3. \A x \in LnodeId : meta'[x].bitmap = meta[x].bitmap
      BY <3>1 DEF IndInv, TypeOK, LeafTypeOK, LnodeMeta
    <3> QED
      BY <3>1, <3>2, <3>3
  <2> QED
    BY <2>1, <2>3, <2>4
<1>4. ~HoldsLeaf(t) /\ (HoldsLeaf(t)' => pc'[t] = "copy")
  BY <1>2 DEF HoldsLeaf
<1>5. Apart'
  BY <1>1, <1>2, <1>3, <1>4, ApartKept DEF KeptInv, Apart
<1>6. Room(t)'
  BY <1>1, <1>2 DEF Room
<1>7. \A u \in Thread : Room(u)'
  BY <1>1, <1>3, <1>6, RoomKept DEF KeptInv
<1>8. ASSUME NEW l \in LnodeId PROVE Kept(l)'
  <2>1. Kept(l) /\ ~WillSplit(t, l)
    BY <1>2 DEF KeptInv, WillSplit
  <2> QED
    BY <1>1, <1>2, <1>3, <1>4, <2>1, StillKept
<1> QED
  BY <1>5, <1>7, <1>8 DEF KeptInv

LEMMA KeptFillSlot ==
  ASSUME IndInv, KeptInv, NEW t \in Foreground, OthersStay(t), FillSlot(t)
  PROVE  KeptInv'
<1>0. PICK l : l = loc[t].lp
  OBVIOUS
<1> DEFINE m == [loc[t].meta EXCEPT !.bitmap = @ \cup {loc[t].key}]
<1>1. t \in Thread /\ t \notin Worker /\ l \in LnodeId
  BY <1>0, Constants, LocalFields DEF Thread, IndInv
<1>2. /\ meta' = [meta EXCEPT ![l] = m] /\ loc' = [loc EXCEPT ![t].meta = m]
      /\ pc[t] = "fill" /\ pc'[t] = "flush"
      /\ UNCHANGED <<version, nleaf, job_queue>>
  BY <1>0, <1>1 DEF FillSlot, Goto, IndInv, TypeOK, ThreadTypeOK
<1> HIDE DEF m
<1>3. /\ loc'[t].lp = l /\ loc'[t].version = loc[t].version
      /\ loc'[t].meta = m /\ meta'[l] = m
      /\ \A x \in LnodeId : x # l => meta'[x] = meta[x]
  BY <1>0, <1>1, <1>2 DEF IndInv, TypeOK, ThreadTypeOK, LeafTypeOK, Local
<1>4. HoldsLeaf(t) /\ loc[t].version = version[l]
  BY <1>0, <1>1, <1>2 DEF HoldsLeaf, IndInv, LeafInv, LeafKnown
<1>5. Apart'
  BY <1>0, <1>1, <1>2, <1>3, <1>4, ApartKept DEF KeptInv, Apart
<1>6. Room(t)'
  BY <1>0, <1>1, <1>2 DEF Room
<1>7. \A u \in Thread : Room(u)'
  BY <1>0, <1>1, <1>3, <1>4, <1>6, RoomKept DEF KeptInv
<1>8. isFull(l)' => WillSplit(t, l)'
  BY <1>0, <1>2, <1>3, <1>4 DEF isFull, WillSplit, FilledLeaf, Job
<1>9. ASSUME NEW x \in LnodeId PROVE Kept(x)'
  <2>1. CASE x = l
    BY <1>0, <1>1, <1>8, <2>1 DEF Kept
  <2>2. CASE x # l
    <3>1. Kept(x) /\ ~WillSplit(t, x)
      BY <1>2 DEF KeptInv, WillSplit
    <3> QED
      BY <1>0, <1>1, <1>2, <1>3, <2>2, <3>1, StillKept
  <2> QED
    BY <2>1, <2>2
<1> QED
  BY <1>5, <1>7, <1>9 DEF KeptInv

LEMMA KeptPushJob ==
  ASSUME IndInv, KeptInv, NEW t \in Foreground, OthersStay(t), PushJob(t)
  PROVE  KeptInv'
<1>1. t \in Thread /\ t \notin Worker
  BY Constants DEF Thread
<1>2. /\ pc[t] = "flush" /\ pc'[t] = "ret"
      /\ job_queue' = job_queue \cup (IF FilledLeaf(t) THEN {Job(t)} ELSE {})
      /\ UNCHANGED <<meta, version, nleaf, loc>>
  BY <1>1 DEF PushJob, Goto, leaf_layer, IndInv, TypeOK, ThreadTypeOK
<1>3. ~HoldsLeaf(t) /\ ~HoldsLeaf(t)'
  BY <1>1, <1>2 DEF HoldsLeaf
<1>4. Apart'
  <2>1. loc[t].lp \notin Private
    BY <1>1, <1>2 DEF KeptInv, Apart
  <2>2. \A job \in job_queue' : job[1] \notin Private
    BY <1>2, <2>1 DEF KeptInv, Apart, Job
  <2> QED
    BY <1>1, <1>2, <1>3, <2>2, ApartKept DEF KeptInv
<1>5. Room(t)'
  BY <1>1, <1>2 DEF Room
<1>6. \A u \in Thread : Room(u)'
  BY <1>1, <1>2, <1>5, RoomKept DEF KeptInv
<1>7. ASSUME NEW l \in LnodeId PROVE Kept(l)'
  <2>1. <<l, version[l]>> \in job_queue \/ WillSplit(t, l) =>
          <<l, version[l]>> \in job_queue'
    BY <1>2 DEF WillSplit
  <2> QED
    BY <1>1, <1>2, <1>3, <2>1, StillKept DEF KeptInv
<1> QED
  BY <1>4, <1>6, <1>7 DEF KeptInv

LEMMA KeptInsertLeft ==
  ASSUME LEAF_KEY_NUM >= 4, IndInv, KeptInv, NEW t \in Foreground,
         OthersStay(t), InsertLeft(t)
  PROVE  KeptInv'
<1>0. PICK l : l = loc[t].lp
  OBVIOUS
<1> DEFINE b == loc[t].meta.bitmap
           m == [loc[t].meta EXCEPT !.bitmap = @ \cup {loc[t].key}]
<1>1. t \in Thread /\ t \notin Worker /\ l \in LnodeId
      /\ loc[t].meta \in LnodeMeta
  BY <1>0, Constants, LocalFields DEF Thread, IndInv
<1>2. /\ meta' = [meta EXCEPT ![l] = m] /\ loc' = [loc EXCEPT ![t].meta = m]
      /\ pc[t] = "addleft" /\ pc'[t] = "level"
      /\ UNCHANGED <<version, nleaf, job_queue>>
  BY <1>0, <1>1 DEF InsertLeft, Goto, IndInv, TypeOK, ThreadTypeOK
<1>3. m.bitmap = b \cup {loc[t].key} /\ b \in SUBSET Key
  BY <1>0, <1>1 DEF LnodeMeta
<1> HIDE DEF m
<1>4. /\ meta'[l] = m
      /\ \A x \in LnodeId : x # l => meta'[x] = meta[x]
  BY <1>0, <1>1, <1>2 DEF IndInv, TypeOK, LeafTypeOK
<1>5. HoldsLeaf(t) /\ ~HoldsLeaf(t)'
  BY <1>0, <1>1, <1>2 DEF HoldsLeaf
<1>6. Apart'
  BY <1>0, <1>1, <1>2, <1>5, ApartKept DEF KeptInv, Apart
<1>7. Room(t)'
  BY <1>0, <1>1, <1>2 DEF Room
<1>8. \A u \in Thread : Room(u)'
  BY <1>0, <1>1, <1>4, <1>5, <1>7, RoomKept DEF KeptInv
\* The left leaf has half its keys and the client's.
<1>9. ~isFull(l)'
  <2>1. IsFiniteSet(b) /\ Cardinality(b) = SPLIT
    BY <1>0, <1>1, <1>2, <1>3, ConstantsOK, FS_Subset
    DEF ConstantsOK, KeptInv, Room
  <2>2. Cardinality(b \cup {loc[t].key}) \in {SPLIT, SPLIT + 1}
    BY <2>1, FS_AddElement
  <2> QED
    BY <1>3, <1>4, <2>2, HalfLeaf, Constants, SMTT(20) DEF isFull
<1>10. ASSUME NEW x \in LnodeId PROVE Kept(x)'
  <2>1. CASE x = l
    BY <1>9, <2>1 DEF Kept
  <2>2. CASE x # l
    <3>1. Kept(x) /\ ~WillSplit(t, x)
      BY <1>2 DEF KeptInv, WillSplit
    <3> QED
      BY <1>0, <1>1, <1>2, <1>4, <2>2, <3>1, StillKept
  <2> QED
    BY <2>1, <2>2
<1> QED
  BY <1>6, <1>8, <1>10 DEF KeptInv

LEMMA KeptPopJob ==
  ASSUME IndInv, KeptInv, NEW w \in Worker, OthersStay(w), PopJob(w)
  PROVE  KeptInv'
<1>1. w \in Thread /\ w \notin Foreground
  BY Constants DEF Thread
<1>2. PICK job \in job_queue :
        /\ job_queue' = job_queue \ {job}
        /\ loc' = [loc EXCEPT ![w].lp = job[1], ![w].version = job[2]]
  BY DEF PopJob
<1>3. /\ pc[w] = "pop" /\ pc'[w] = "lock"
      /\ loc'[w].lp = job[1] /\ Job(w)' = job
      /\ UNCHANGED <<meta, version, nleaf>>
  <2>1. loc'[w].lp = job[1] /\ loc'[w].version = job[2]
    BY <1>1, <1>2 DEF IndInv, TypeOK, ThreadTypeOK, Local
  <2>2. job = <<job[1], job[2]>>
    BY <1>2, LeafNumbers DEF IndInv
  <2>3. Job(w)' = job
    BY <2>1, <2>2 DEF Job
  <2> QED
    BY <1>1, <2>1, <2>3
    DEF PopJob, Goto, leaf_layer, IndInv, TypeOK, ThreadTypeOK
<1>4. ~HoldsLeaf(w) /\ ~HoldsLeaf(w)'
  BY <1>1, <1>3 DEF HoldsLeaf
<1>5. Apart'
  BY <1>1, <1>2, <1>3, ApartKept DEF KeptInv, Apart
<1>6. Room(w)'
  BY <1>3 DEF Room, Splitting
<1>7. \A u \in Thread : Room(u)'
  BY <1>1, <1>3, <1>6, RoomKept DEF KeptInv
<1>8. ASSUME NEW l \in LnodeId PROVE Kept(l)'
  <2>1. ~WillSplit(w, l)
    BY <1>3 DEF WillSplit
  <2>2. <<l, version[l]>> \in job_queue =>
          <<l, version[l]>> \in job_queue' \/ WillSplit(w, l)'
    BY <1>2, <1>3 DEF WillSplit
  <2> QED
    BY <1>1, <1>3, <1>4, <2>1, <2>2, StillKept DEF KeptInv
<1> QED
  BY <1>5, <1>7, <1>8 DEF KeptInv

\* A worker drops a job for a leaf that is locked: its owner will split it, or
\* push its job again.
LEMMA KeptSplitLock ==
  ASSUME IndInv, KeptInv, NEW w \in Worker, OthersStay(w), SplitLock(w)
  PROVE  KeptInv'
<1>0. PICK l : l = loc[w].lp
  OBVIOUS
<1>1. w \in Thread /\ w \notin Foreground /\ l \in LnodeId
  BY <1>0, Constants, LocalFields DEF Thread, IndInv
<1>2. /\ pc[w] = "lock" /\ pc'[w] \in {"pop", "copy"}
      /\ UNCHANGED <<version, nleaf, job_queue>>
      /\ \/ /\ pc'[w] = "pop" /\ UNCHANGED meta
            /\ meta[l].lock \/ version[l] # loc[w].version
         \/ /\ pc'[w] = "copy" /\ UNCHANGED loc
            /\ meta' = [meta EXCEPT ![l].lock = TRUE]
  BY <1>0, <1>1 DEF SplitLock, Goto, IndInv, TypeOK, ThreadTypeOK
<1>3. \A x \in LnodeId : meta'[x].bitmap = meta[x].bitmap
  BY <1>2 DEF IndInv, TypeOK, LeafTypeOK, LnodeMeta
<1>4. ~HoldsLeaf(w) /\ (HoldsLeaf(w)' <=> pc'[w] = "copy")
      /\ (pc'[w] = "copy" => loc'[w].lp = l)
  BY <1>0, <1>1, <1>2 DEF HoldsLeaf
<1>5. Apart'
  <2>1. l \notin Private
    BY <1>0, <1>1, <1>2 DEF KeptInv, Apart
  <2> QED
    BY <1>1, <1>2, <1>4, <2>1, ApartKept DEF KeptInv, Apart
<1>6. Room(w)'
  BY <1>2 DEF Room, Splitting
<1>7. \A u \in Thread : Room(u)'
  BY <1>1, <1>3, <1>6, RoomKept DEF KeptInv
<1>8. ASSUME NEW x \in LnodeId, WillSplit(w, x)
      PROVE  \E u \in Thread : HoldsLeaf(u)' /\ loc'[u].lp = x
  <2>1. x = l /\ loc[w].version = version[l]
    BY <1>0, <1>8 DEF WillSplit, Job
  <2>2. CASE pc'[w] = "copy"
    BY <1>1, <1>4, <2>1, <2>2
  <2>3. CASE pc'[w] = "pop"
    <3>1. PICK u \in Thread : HoldsLeaf(u) /\ loc[u].lp = l
      BY <1>1, <1>2, <2>1, <2>3 DEF IndInv, LeafInv, LeafLockOwner
    <3>2. HoldsLeaf(u)' /\ loc'[u].lp = l
      BY <1>4, <3>1 DEF OthersStay, HoldsLeaf
    <3> QED
      BY <2>1, <3>2
  <2> QED
    BY <1>2, <2>2, <2>3
<1>9. ASSUME NEW x \in LnodeId PROVE Kept(x)'
  BY <1>1, <1>2, <1>3, <1>4, <1>8, StillKept DEF KeptInv
<1> QED
  BY <1>5, <1>7, <1>9 DEF KeptInv

LEMMA KeptSplitUnlock ==
  ASSUME IndInv, KeptInv, NEW w \in Worker, OthersStay(w), SplitUnlock(w)
  PROVE  KeptInv'
<1>0. PICK l : l = loc[w].lp
  OBVIOUS
<1>1. w \in Thread /\ w \notin Foreground /\ l \in LnodeId
  BY <1>0, Constants, LocalFields DEF Thread, IndInv
<1>2. /\ pc[w] = "unlock" /\ pc'[w] = "pop"
      /\ meta' = [meta EXCEPT ![l].lock = FALSE]
      /\ UNCHANGED <<version, nleaf, job_queue>>
  BY <1>0, <1>1 DEF SplitUnlock, Goto, IndInv, TypeOK, ThreadTypeOK
<1>3. \A x \in LnodeId : meta'[x].bitmap = meta[x].bitmap
  BY <1>2 DEF IndInv, TypeOK, LeafTypeOK, LnodeMeta
<1>4. ~HoldsLeaf(w)'
  BY <1>1, <1>2 DEF HoldsLeaf
<1>5. Apart'
  BY <1>1, <1>2, <1>4, ApartKept DEF KeptInv, Apart
<1>6. Room(w)'
  BY <1>2 DEF Room, Splitting
<1>7. \A u \in Thread : Room(u)'
  BY <1>1, <1>3, <1>6, RoomKept DEF KeptInv
<1>8. ~isFull(l)'
  <2>1. ~isFull(l)
    BY <1>0, <1>1, <1>2 DEF KeptInv, Room, Splitting
  <2> QED
    BY <1>1, <1>3, <2>1 DEF isFull
<1>9. ASSUME NEW x \in LnodeId PROVE Kept(x)'
  <2>1. CASE x = l
    BY <1>8, <2>1 DEF Kept
  <2>2. CASE x # l
    <3>1. Kept(x) /\ ~WillSplit(w, x)
      BY <1>2 DEF KeptInv, WillSplit
    <3> QED
      BY <1>0, <1>1, <1>2, <1>3, <2>2, <3>1, StillKept
  <2> QED
    BY <2>1, <2>2
<1> QED
  BY <1>5, <1>7, <1>9 DEF KeptInv

LEMMA KeptSplitBuild ==
  ASSUME LEAF_KEY_NUM >= 4, IndInv, KeptInv, NEW t \in Thread,
         OthersStay(t), SplitBuild(t)
  PROVE  KeptInv'
<1>0. PICK l, newp : l = loc[t].lp /\ newp = nleaf
  OBVIOUS
<1>1. PICK sk \in meta[l].bitmap :
        LET upper == {y \in meta[l].bitmap : y >= sk}
            mine  == IF t \in Foreground /\ loc[t].key > sk
                       THEN {loc[t].key} ELSE {}
            m     == [loc[t].meta EXCEPT !.bitmap = @ \ upper,
                                         !.alt = 1 - meta[l].alt]
        IN
        /\ IsSplitKey(sk, meta[l].bitmap)
        /\ meta' = [meta EXCEPT ![newp] =
                      [bitmap |-> upper \cup mine, lock |-> FALSE, alt |-> 0]]
        /\ loc' = [loc EXCEPT ![t].meta = m, ![t].sep = sk, ![t].ptr = newp]
  BY <1>0 DEF SplitBuild
<1> DEFINE upper == {y \in meta[l].bitmap : y >= sk}
           mine  == IF t \in Foreground /\ loc[t].key > sk
                      THEN {loc[t].key} ELSE {}
           m     == [loc[t].meta EXCEPT !.bitmap = @ \ upper,
                                        !.alt = 1 - meta[l].alt]
           f     == [bitmap |-> upper \cup mine, lock |-> FALSE, alt |-> 0]
<1>2. /\ pc[t] = "build" /\ pc'[t] = "publish"
      /\ version' = [version EXCEPT ![l] = NextVersion(@)]
      /\ nleaf' = nleaf + 1 /\ newp < MaxLeaf /\ UNCHANGED job_queue
      /\ meta' = [meta EXCEPT ![newp] = f]
      /\ loc' = [loc EXCEPT ![t].meta = m, ![t].sep = sk, ![t].ptr = newp]
  BY <1>0, <1>1 DEF SplitBuild, Goto, IndInv, TypeOK, ThreadTypeOK
<1>3. /\ l \in LnodeId /\ newp \in LnodeId /\ newp \in Nat
      /\ loc[t].meta \in LnodeMeta /\ meta[l] \in LnodeMeta
  <2>1. TypeOK /\ newp < MaxLeaf /\ newp = nleaf /\ l = loc[t].lp
    BY <1>0, <1>2 DEF IndInv
  <2>2. l \in LnodeId /\ loc[t].meta \in LnodeMeta
    BY <2>1, LocalFields
  <2>3. newp \in Nat /\ newp \in LnodeId
    BY <2>1, LeafNumbers, Constants DEF LnodeId
  <2> QED
    BY <2>1, <2>2, <2>3 DEF TypeOK, LeafTypeOK
<1>4. loc[t].meta.bitmap = meta[l].bitmap /\ isFull(l)
  BY <1>0, <1>2 DEF IndInv, LeafInv, LeafKnown
<1>5. m.bitmap = meta[l].bitmap \ upper /\ f.bitmap = upper \cup mine
  BY <1>3, <1>4 DEF LnodeMeta
\* Neither half is full.
<1>6. Cardinality(m.bitmap) = SPLIT /\ Cardinality(f.bitmap) # LEAF_KEY_NUM
  <2>1. meta[l].bitmap \in SUBSET Key
        /\ Cardinality(meta[l].bitmap) = LEAF_KEY_NUM
    BY <1>3, <1>4 DEF LnodeMeta, isFull
  <2>2. /\ Cardinality(meta[l].bitmap \ upper) = SPLIT
        /\ Cardinality(upper) # LEAF_KEY_NUM
        /\ Cardinality(upper \cup {loc[t].key}) # LEAF_KEY_NUM
    BY <1>1, <2>1, LeafHalves
  <2>3. f.bitmap \in {upper, upper \cup {loc[t].key}}
    BY <1>5
  <2> QED
    BY <1>5, <2>2, <2>3
<1> HIDE DEF upper, mine, m, f
<1>7. /\ loc'[t].lp = l /\ loc'[t].meta = m /\ loc'[t].ptr = newp
      /\ meta'[newp] = f
      /\ \A x \in LnodeId : x # newp => meta'[x] = meta[x]
      /\ \A x \in LnodeId : x # l => version'[x] = version[x]
  BY <1>0, <1>2, <1>3 DEF IndInv, TypeOK, LeafTypeOK, ThreadTypeOK, Local
<1>8. HoldsLeaf(t) /\ HoldsLeaf(t)'
  BY <1>2 DEF HoldsLeaf
\* Nobody knows of the new leaf.
<1>9. Apart'
  <2>1. \A x \in Private' : x \in Private \/ x = newp
    BY <1>7 DEF Private, OthersStay
  <2>2. ASSUME NEW u \in Thread,
               HoldsLeaf(u)' \/ pc'[u] \in {"flush", "lock"}
        PROVE  loc'[u].lp \notin Private'
    <3>1. loc'[u].lp = loc[u].lp
          /\ (HoldsLeaf(u) \/ pc[u] \in {"flush", "lock"})
      BY <1>0, <1>7, <1>8, <2>2 DEF OthersStay, HoldsLeaf
    <3>2. loc[u].lp < nleaf /\ loc[u].lp \in LnodeId
      BY <3>1, LocalFields DEF IndInv, LeafInv, LeafAllocated
    <3>3. loc[u].lp # newp
      BY <1>0, <1>3, <3>2, LeafNumbers DEF IndInv
    <3> QED
      BY <2>1, <3>1, <3>3 DEF KeptInv, Apart
  <2>3. ASSUME NEW job \in job_queue' PROVE job[1] \notin Private'
    <3>1. job \in job_queue /\ job[1] \in LnodeId /\ job[1] < nleaf
      BY <1>2, <2>3 DEF IndInv, LeafInv, LeafAllocated, TypeOK, LeafTypeOK
    <3>2. job[1] # newp
      BY <1>0, <1>3, <3>1, LeafNumbers DEF IndInv
    <3> QED
      BY <2>1, <3>1, <3>2 DEF KeptInv, Apart
  <2> QED
    BY <2>2, <2>3 DEF Apart
<1>10. Room(t)'
  BY <1>2, <1>6, <1>7 DEF Room, isFull, Splitting
<1>11. \A u \in Thread : Room(u)'
  BY <1>0, <1>7, <1>10, RoomKept DEF KeptInv
<1>12. ASSUME NEW x \in LnodeId PROVE Kept(x)'
  <2>1. CASE x = l
    BY <1>7, <1>8, <2>1 DEF Kept
  <2>2. CASE x = newp
    <3>1. (x \in Private)'
      BY <1>2, <1>7, <2>2 DEF Private
    <3> QED
      BY <3>1 DEF Kept, Published
  <2>3. CASE x # l /\ x # newp
    <3> SUFFICES ASSUME (x \in Published)', isFull(x)',
                        \A u \in Thread : HoldsLeaf(u)' => loc'[u].lp # x
                 PROVE  \/ <<x, version'[x]>> \in job_queue'
                        \/ \E u \in Thread : WillSplit(u, x)'
      BY DEF Kept
    <3>1. ASSUME NEW u \in Thread, u # t
          PROVE  /\ pc'[u] = pc[u] /\ loc'[u] = loc[u]
                 /\ HoldsLeaf(u)' <=> HoldsLeaf(u)
                 /\ WillSplit(u, x)' <=> WillSplit(u, x)
      BY <1>7, <2>3, <3>1
      DEF OthersStay, HoldsLeaf, WillSplit, FilledLeaf, Job
    <3>2. ~WillSplit(t, x)
      BY <1>2 DEF WillSplit
    <3>3. x \in Published
      <4>1. x < nleaf
        BY <1>0, <1>2, <1>3, <2>3, LeafNumbers DEF Published, IndInv
      <4>2. x \in Private => x \in Private'
        BY <1>2, <3>1 DEF Private
      <4> QED
        BY <1>0, <1>3, <4>1, <4>2, LeafNumbers DEF Published, IndInv
    <3>4. isFull(x) /\ \A u \in Thread : HoldsLeaf(u) => loc[u].lp # x
      BY <1>0, <1>7, <2>3, <3>1 DEF isFull
    <3>5. \/ <<x, version[x]>> \in job_queue
          \/ \E u \in Thread : WillSplit(u, x)
      BY <3>3, <3>4 DEF KeptInv, Kept
    <3> QED
      BY <1>2, <1>7, <2>3, <3>1, <3>2, <3>5
  <2> QED
    BY <2>1, <2>2, <2>3
<1> QED
  BY <1>9, <1>11, <1>12 DEF KeptInv

LEMMA KeptSplitPublish ==
  ASSUME LEAF_KEY_NUM >= 4, IndInv, KeptInv, NEW t \in Thread,
         OthersStay(t), SplitPublish(t)
  PROVE  KeptInv'
<1>0. PICK l, ptr : l = loc[t].lp /\ ptr = loc[t].ptr
  OBVIOUS
<1>1. l \in LnodeId /\ (t \in Foreground => t \notin Worker)
      /\ (t \notin Foreground => t \in Worker)
  BY <1>0, LocalFields, Constants DEF IndInv, Thread
<1>2. /\ pc[t] = "publish" /\ UNCHANGED <<version, nleaf, job_queue, loc>>
      /\ meta' = [meta EXCEPT ![l] = loc[t].meta]
      /\ pc'[t] \in (IF t \in Worker THEN {"locate"} ELSE {"addleft", "level"})
  BY <1>0 DEF SplitPublish, Goto, IndInv, TypeOK, ThreadTypeOK
<1>3. /\ meta'[l] = loc[t].meta
      /\ \A x \in LnodeId : x # l => meta'[x] = meta[x]
  BY <1>1, <1>2 DEF IndInv, TypeOK, LeafTypeOK
<1>4. HoldsLeaf(t)
  BY <1>1, <1>2 DEF HoldsLeaf
<1>5. Apart'
  BY <1>0, <1>1, <1>2, <1>4, ApartKept DEF KeptInv, Apart
\* The old leaf has half its keys.
<1>6. ~isFull(l)'
  <2>1. Cardinality(loc[t].meta.bitmap) = SPLIT
    BY <1>2 DEF KeptInv, Room
  <2> QED
    BY <1>3, <2>1, HalfLeaf, Constants DEF isFull
<1>7. Room(t)'
  BY <1>0, <1>1, <1>2, <1>6 DEF KeptInv, Room
<1>8. \A u \in Thread : Room(u)'
  BY <1>0, <1>3, <1>4, <1>7, RoomKept DEF KeptInv
<1>9. ~isFull(ptr)'
  <2>1. ptr \in LnodeId
    BY <1>0, <1>2, LocalFields DEF IndInv, PtrTypeOK
  <2>2. ptr \in Private /\ ptr # l
    BY <1>0, <1>2, <1>4 DEF Private, KeptInv, Apart
  <2>3. ~isFull(ptr)
    BY <1>0, <1>2 DEF KeptInv, Room
  <2> QED
    BY <1>3, <2>1, <2>2, <2>3 DEF isFull
<1>10. ASSUME NEW x \in LnodeId PROVE Kept(x)'
  <2>1. CASE x = l
    BY <1>6, <2>1 DEF Kept
  <2>2. CASE x = ptr
    BY <1>9, <2>2 DEF Kept
  <2>3. CASE x # l /\ x # ptr
    <3>1. Kept(x) /\ ~WillSplit(t, x)
      BY <1>2 DEF KeptInv, WillSplit
    <3> QED
      BY <1>0, <1>2, <1>3, <2>3, <3>1, StillKept
  <2> QED
    BY <2>1, <2>2, <2>3
<1> QED
  BY <1>5, <1>8, <1>10 DEF KeptInv

LEMMA KeptNext ==
  ASSUME LEAF_KEY_NUM >= 4, IndInv, KeptInv, [Next]_vars
  PROVE  KeptInv'
<1>1. CASE UNCHANGED vars
  <2>1. UNCHANGED <<meta, version, nleaf, job_queue, pc, loc>>
    BY <1>1 DEF vars
  <2>2. Apart' /\ \A t \in Thread : Room(t)'
    BY <2>1 DEF KeptInv, Apart, Private, HoldsLeaf, Room, isFull
  <2>3. \A l \in LnodeId : Kept(l)'
    BY <2>1 DEF KeptInv, Kept, Published, Private, isFull, HoldsLeaf,
                WillSplit, FilledLeaf, Job
  <2> QED
    BY <2>2, <2>3 DEF KeptInv
<1>2. ASSUME NEW t \in Thread, NextStep(t) PROVE KeptInv'
  <2>1. OthersStay(t)
    BY <1>2, StepStays DEF Step, IndInv
  <2>2. CASE Elsewhere(t)
    BY <2>1, <2>2, KeptElsewhere
  <2>3. CASE t \in Foreground /\ (FindLeaf(t) \/ FillSlot(t) \/ PushJob(t)
                                  \/ InsertLeft(t))
    BY <2>1, <2>3, KeptFindLeaf, KeptFillSlot, KeptPushJob, KeptInsertLeft
  <2>4. CASE t \in Worker /\ (PopJob(t) \/ SplitLock(t) \/ SplitUnlock(t))
    BY <2>1, <2>4, KeptPopJob, KeptSplitLock, KeptSplitUnlock
  <2>5. CASE SplitBuild(t) \/ SplitPublish(t)
    BY <2>1, <2>5, KeptSplitBuild, KeptSplitPublish
  <2> QED
    BY <1>2, <2>2, <2>3, <2>4, <2>5, NextStepCases
<1> QED
  BY <1>1, <1>2, NextIsStep

\* With leaves of at least four entries, a full leaf nobody holds has a job
\* that is queued, about to be, or in a worker's hands, however many jobs
\* workers drop (sobtree_v2.h:1226) and whoever else splits the leaf.
THEOREM NoneStrandedHold ==
  ASSUME LEAF_KEY_NUM >= 4
  PROVE  Spec /\ []NoStaleJob => []NoStrandedLeaf
<1>1. Init => KeptInv
  BY KeptInit
<1>2. IndInv /\ KeptInv /\ [Next]_vars => KeptInv'
  BY KeptNext
<1>3. IndInv /\ KeptInv => NoStrandedLeaf
  BY KeptProperty DEF IndInv
<1> QED
  BY <1>1, <1>2, <1>3, IndInvHolds, PTL DEF Spec

-----------------------------------------------------------------------------
(* Every leaf that its parent should know hangs from the search layer, at  *)
(* one place.  At most one place is OneUse of IndInv; what follows adds    *)
(* that there is one: an inode that is rewritten, or split in two, keeps   *)
(* all its children and gains the new one.                                 *)

\* Some bottom inode has l for a child.
InTree(l) == \E x \in InodeNum, j \in ChildPlace : Hangs(l, x, j)

\* Every allocated leaf that no thread carries is in the tree.
Rooted ==
  \A l \in LnodeId :
    l < nleaf /\ (\A u \in Thread : Carries(u) => loc[u].ptr # l) => InTree(l)

LEMMA RootedInit == Init => Rooted
<1> SUFFICES ASSUME Init, NEW l \in LnodeId, l < nleaf PROVE InTree(l)
  BY DEF Rooted
<1>1. l = 0 /\ 0 \in Level /\ 0 \in InodeNum /\ <<0, 0>> \in Inode
  BY Constants DEF Init, LnodeId, Level, InodeNum, Inode
<1>2. ent[<<0, 0>>].ch = <<first_lnode>> /\ ninode[0] = 1
  BY <1>1 DEF Init
<1>3. Hangs(l, 0, 1)
  BY <1>1, <1>2 DEF Hangs, first_lnode
<1>4. 1 \in ChildPlace
  BY Constants DEF ChildPlace
<1> QED
  BY <1>1, <1>3, <1>4 DEF InTree

LEMMA ParentProperty ==
  ASSUME IndInv, Rooted PROVE OneParent
<1> SUFFICES ASSUME NEW l \in Published \ Awaiting
             PROVE  Cardinality({x \in InodeNum \X (1..(NON_LEAF_KEY_NUM + 1)) :
                      /\ x[1] < ninode[0]
                      /\ x[2] <= Len(ent[<<0, x[1]>>].ch)
                      /\ ent[<<0, x[1]>>].ch[x[2]] = l}) = 1
  BY DEF OneParent
<1> DEFINE P == {x \in InodeNum \X (1..(NON_LEAF_KEY_NUM + 1)) :
                   /\ x[1] < ninode[0]
                   /\ x[2] <= Len(ent[<<0, x[1]>>].ch)
                   /\ ent[<<0, x[1]>>].ch[x[2]] = l}
<1>1. l \in LnodeId /\ l < nleaf
  <2>1. nleaf \in Nat /\ nleaf <= MaxLeaf /\ MaxLeaf \in Nat
    BY Constants DEF IndInv, TypeOK, LeafTypeOK
  <2> QED
    BY <2>1 DEF Published, LnodeId
<1>2. \A u \in Thread : Carries(u) => loc[u].ptr # l
  BY DEF Published, Private, Awaiting, Carries
<1>3. PICK x \in InodeNum, j \in ChildPlace : Hangs(l, x, j)
  BY <1>1, <1>2 DEF Rooted, InTree
<1>4. ASSUME NEW y \in InodeNum, NEW k \in ChildPlace
      PROVE  <<y, k>> \in P <=> Hangs(l, y, k)
  <2>1. /\ ent[<<0, y>>].ch \in Seq(LnodeId) /\ k \in Nat /\ k >= 1
    <3>1. <<0, y>> \in Inode
      BY Constants DEF Inode, Level
    <3>2. k \in Nat /\ k >= 1
      BY Constants DEF ChildPlace
    <3> QED
      BY <3>1, <3>2 DEF IndInv, TypeOK, SearchTypeOK, ChildId
  <2>2. k \in DOMAIN ent[<<0, y>>].ch <=> k <= Len(ent[<<0, y>>].ch)
    BY <2>1, LenProperties
  <2> QED
    BY <2>2 DEF Hangs, ChildPlace
<1>5. P = {<<x, j>>}
  <2>1. ASSUME NEW z \in P PROVE z = <<x, j>>
    <3>1. z[1] \in InodeNum /\ z[2] \in ChildPlace /\ z = <<z[1], z[2]>>
      BY DEF ChildPlace
    <3>2. Hangs(l, z[1], z[2])
      BY <1>4, <3>1
    <3> QED
      BY <1>1, <1>3, <3>1, <3>2 DEF IndInv, TreeInv, OneUse
  <2>2. <<x, j>> \in P
    BY <1>3, <1>4
  <2> HIDE DEF P
  <2> QED
    BY <2>1, <2>2
<1> HIDE DEF P
<1>6. Cardinality(P) = 1
  BY <1>5, FS_Singleton
<1> QED
  BY <1>6 DEF P

-----------------------------------------------------------------------------
(* The steps.                                                              *)

\* The tree keeps its leaves, and a leaf t stops carrying is in it.
LEMMA RootedStep ==
  ASSUME Rooted, NEW t \in Thread, OthersStay(t),
         \A l \in LnodeId : InTree(l) => InTree(l)',
         \A l \in LnodeId :
           l < nleaf' => l < nleaf \/ (Carries(t)' /\ loc'[t].ptr = l),
         \A l \in LnodeId :
           Carries(t) /\ loc[t].ptr = l =>
             InTree(l)' \/ (Carries(t)' /\ loc'[t].ptr = l)
  PROVE  Rooted'
<1> SUFFICES ASSUME NEW l \in LnodeId, l < nleaf',
                    \A u \in Thread : Carries(u)' => loc'[u].ptr # l
             PROVE  InTree(l)'
  BY DEF Rooted
<1>1. l < nleaf
  OBVIOUS
<1>2. \A u \in Thread : u # t => (Carries(u)' <=> Carries(u))
                                 /\ loc'[u].ptr = loc[u].ptr
  BY DEF OthersStay, Carries
<1>3. CASE Carries(t) /\ loc[t].ptr = l
  BY <1>3
<1>4. CASE ~(Carries(t) /\ loc[t].ptr = l)
  BY <1>1, <1>2, <1>4 DEF Rooted
<1> QED
  BY <1>3, <1>4

\* A step that does not write the bottom inodes.
LEMMA TreeUnchanged ==
  ASSUME \A y \in InodeNum : ent'[<<0, y>>] = ent[<<0, y>>],
         ninode'[0] = ninode[0], NEW l
  PROVE  InTree(l) => InTree(l)'
BY DEF InTree, Hangs

\* The n children that t puts in the bottom inode x hold its own and all that
\* x has.
MergedKeeps(t, x, n) ==
  /\ \E q \in 1..n : MergedCh(t)[q] = loc[t].ptr
  /\ \A l : \A j \in ChildPlace : Hangs(l, x, j) =>
       \E q \in 1..n : MergedCh(t)[q] = l
  /\ DOMAIN MergedCh(t) = 1..n
  /\ num(Here(t)) \in Nat /\ num(Here(t)) <= NON_LEAF_KEY_NUM
  /\ x \in InodeNum /\ x < ninode[0] /\ Here(t) = <<0, x>>

\* Nothing is lost when t adds its child to the bottom inode.
LEMMA MergedAll ==
  ASSUME IndInv, NEW t \in Thread, pc[t] = "inode", loc[t].lev = 0,
         NEW x, x = loc[t].path.parray[0], NEW n, n = num(Here(t)) + 2
  PROVE  MergedKeeps(t, x, n)
<1> DEFINE at == loc[t].path.ppos[0] + 2
           M  == MergedCh(t)
           ch == ent[Here(t)].ch
<1>1. TypeOK /\ PathTrue(t) /\ Climb(t)
  BY DEF IndInv, ClimbInv, ClimbOK
<1>2. /\ Here(t) = <<0, x>> /\ <<0, x>> \in Inode
      /\ x \in InodeNum /\ x < ninode[0]
      /\ num(Here(t)) \in Nat /\ num(Here(t)) <= NON_LEAF_KEY_NUM
      /\ ch \in Seq(ChildId(0)) /\ Len(ch) = n - 1
      /\ M \in Seq(ChildId(0)) /\ Len(M) = n /\ at \in 2..n
      /\ \A j \in 1..n : /\ j < at => M[j] = ch[j]
                         /\ j = at => M[j] = loc[t].ptr
                         /\ j > at => M[j] = ch[j - 1]
  <2>1. /\ Here(t) \in Inode /\ Here(t) = <<0, x>>
        /\ x \in InodeNum /\ x < ninode[0]
        /\ num(Here(t)) \in Nat /\ num(Here(t)) <= NON_LEAF_KEY_NUM
    BY <1>1, Merge, Zenon
  <2>2. /\ ch \in Seq(ChildId(0)) /\ Len(ch) = num(Here(t)) + 1
        /\ M \in Seq(ChildId(0)) /\ Len(M) = num(Here(t)) + 2
        /\ at \in 2..(num(Here(t)) + 2)
    BY <1>1, Merge
  <2>3. \A j \in 1..(num(Here(t)) + 2) :
          /\ j < at => M[j] = ch[j]
          /\ j = at => M[j] = loc[t].ptr
          /\ j > at => M[j] = ch[j - 1]
    BY <1>1, Merge
  <2> HIDE DEF M, ch, at
  <2>4. num(Here(t)) + 1 = n - 1 /\ <<0, x>> \in Inode
    BY <2>1
  <2>5. Len(ch) = n - 1 /\ Len(M) = n /\ at \in 2..n
    BY <2>2, <2>4
  <2>6. \A j \in 1..n : /\ j < at => M[j] = ch[j]
                        /\ j = at => M[j] = loc[t].ptr
                        /\ j > at => M[j] = ch[j - 1]
    BY <2>3
  <2> QED
    BY <2>1, <2>2, <2>4, <2>5, <2>6
<1>3. DOMAIN M = 1..n /\ DOMAIN ch = 1..(n - 1) /\ n \in Nat
  <2> HIDE DEF M, ch
  <2> QED
    BY <1>2, LenProperties
<1>4. \E q \in 1..n : M[q] = loc[t].ptr
  <2> HIDE DEF M, at, ch
  <2>1. at \in 1..n
    <3>1. at \in 2..n /\ n \in Nat
      BY <1>2, <1>3, SMTT(30)
    <3> QED
      BY <3>1
  <2>2. M[at] = loc[t].ptr
    BY <1>2, <2>1
  <2> QED
    BY <2>1, <2>2, Zenon
<1>5. ASSUME NEW l, NEW j \in ChildPlace, Hangs(l, x, j)
      PROVE  \E q \in 1..n : M[q] = l
  <2>1. j \in 1..(n - 1) /\ ch[j] = l
    BY <1>2, <1>3, <1>5 DEF Hangs
  <2> HIDE DEF M, at, ch
  <2>2. CASE j < at
    <3>1. j \in 1..n
      BY <1>3, <2>1
    <3>2. M[j] = l
      BY <1>2, <2>1, <2>2, <3>1
    <3> QED
      BY <3>1, <3>2
  <2>3. CASE ~(j < at)
    <3>1. j + 1 \in 1..n /\ j + 1 > at /\ (j + 1) - 1 = j
      BY <1>2, <1>3, <2>1, <2>3, SMTT(30)
    <3>2. M[j + 1] = l
      BY <1>2, <2>1, <3>1
    <3> QED
      BY <3>1, <3>2
  <2> QED
    BY <2>2, <2>3
<1> QED
  BY <1>2, <1>3, <1>4, <1>5 DEF MergedKeeps

\* Once every child of the merged inode hangs somewhere, and the other inodes
\* are as they were, no leaf is lost and t's is in the tree.
LEMMA MergedRooted ==
  ASSUME IndInv, Rooted, NEW t \in Thread, pc[t] = "inode", loc[t].lev = 0,
         OthersStay(t), UNCHANGED nleaf,
         NEW x, x = loc[t].path.parray[0], NEW n, n = num(Here(t)) + 2,
         \A l : (\E q \in 1..n : MergedCh(t)[q] = l) => InTree(l)',
         \A l : \A y \in InodeNum, j \in ChildPlace :
           Hangs(l, y, j) => y = x \/ Hangs(l, y, j)'
  PROVE  Rooted'
<1>1. MergedKeeps(t, x, n)
  BY MergedAll
<1>2. \A l \in LnodeId : loc[t].ptr = l => InTree(l)'
  BY <1>1 DEF MergedKeeps
<1>3. ASSUME NEW l \in LnodeId, InTree(l) PROVE InTree(l)'
  <2>1. PICK y \in InodeNum, j \in ChildPlace : Hangs(l, y, j)
    BY <1>3 DEF InTree
  <2>2. CASE y = x
    BY <1>1, <2>1, <2>2 DEF MergedKeeps
  <2>3. CASE y # x
    BY <2>1, <2>3 DEF InTree
  <2> QED
    BY <2>2, <2>3
<1> QED
  BY <1>2, <1>3, RootedStep

LEMMA RootedInsertInode ==
  ASSUME IndInv, Rooted, NEW t \in Thread, InsertInode(t) PROVE Rooted'
<1>1. TypeOK /\ OthersStay(t)
  BY StepStays DEF Step, NextStep, SplitStep, IndInv
<1>2. PICK x, n : x = loc[t].path.parray[loc[t].lev] /\ n = num(Here(t)) + 2
  OBVIOUS
<1>3. /\ pc[t] = "inode" /\ num(Here(t)) < NON_LEAF_KEY_NUM
      /\ Here(t) = <<loc[t].lev, x>>
      /\ ent' = [ent EXCEPT ![Here(t)] =
                   [k |-> MergedK(t), ch |-> MergedCh(t)]]
      /\ UNCHANGED <<ninode, nleaf, loc>>
  BY <1>2 DEF InsertInode, Here, leaf_layer
<1>4. ASSUME NEW y \in InodeNum
      PROVE  <<0, y>> # Here(t) => ent'[<<0, y>>] = ent[<<0, y>>]
  <2>1. <<0, y>> \in Inode /\ DOMAIN ent = Inode
    BY <1>1, Constants DEF TypeOK, SearchTypeOK, Inode, Level
  <2> QED
    BY <1>3, <2>1
<1>5. CASE loc[t].lev = 0
  <2>1. MergedKeeps(t, x, n)
    BY <1>2, <1>3, <1>5, MergedAll
  <2>2. ent'[<<0, x>>].ch = MergedCh(t)
    <3>1. <<0, x>> \in Inode /\ DOMAIN ent = Inode /\ Here(t) = <<0, x>>
      BY <1>1, <2>1, Constants, SMTT(30)
      DEF TypeOK, SearchTypeOK, Inode, Level, MergedKeeps
    <3> QED
      BY <1>3, <3>1
  <2>3. ASSUME NEW l, NEW q \in 1..n, MergedCh(t)[q] = l
        PROVE  InTree(l)'
    <3>1. q \in ChildPlace
      <4>1. PICK m : m = num(Here(t))
        OBVIOUS
      <4>2. m \in Nat /\ m < NON_LEAF_KEY_NUM /\ n = m + 2
        BY <1>2, <1>3, <2>1, <4>1 DEF MergedKeeps
      <4> QED
        BY <4>2, Constants DEF ChildPlace
    <3>2. Hangs(l, x, q)'
      BY <1>3, <2>1, <2>2, <2>3 DEF Hangs, MergedKeeps
    <3> QED
      BY <2>1, <3>1, <3>2 DEF InTree, MergedKeeps
  <2>4. ASSUME NEW l, NEW y \in InodeNum, NEW j \in ChildPlace, Hangs(l, y, j)
        PROVE  y = x \/ Hangs(l, y, j)'
    BY <1>3, <1>4, <1>5, <2>4 DEF Hangs
  <2> QED
    BY <1>1, <1>2, <1>3, <1>5, <2>3, <2>4, MergedRooted
<1>6. CASE loc[t].lev # 0
  <2>1. ASSUME NEW y \in InodeNum PROVE ent'[<<0, y>>] = ent[<<0, y>>]
    <3>1. <<0, y>> # <<loc[t].lev, x>>
      BY <1>6
    <3> QED
      BY <1>3, <1>4, <3>1
  <2>2. ~Carries(t)
    BY <1>3, <1>6 DEF Carries
  <2> QED
    BY <1>1, <1>3, <2>1, <2>2, RootedStep, TreeUnchanged
<1> QED
  BY <1>5, <1>6

LEMMA RootedSplitInode ==
  ASSUME IndInv, Rooted, NEW t \in Thread, SplitInode(t) PROVE Rooted'
<1>1. TypeOK /\ OthersStay(t)
  BY StepStays DEF Step, NextStep, SplitStep, IndInv
<1>2. PICK lev, x, newp, n, cut :
        /\ lev = loc[t].lev /\ x = loc[t].path.parray[lev]
        /\ newp = ninode[lev] /\ n = num(Here(t)) + 2
        /\ cut = LEFT_KEY_NUM + 1
  OBVIOUS
<1>3. pc[t] = "inode" /\ UNCHANGED nleaf
  BY DEF SplitInode, leaf_layer
<1>4. SplitWrote(t, lev, x, newp, n, cut)
  BY <1>2, SplitWrites
<1>5. 0 \in Level /\ lev \in Level
  BY <1>4, Constants DEF Level, SplitWrote
<1>6. CASE lev = 0
  <2>1. MergedKeeps(t, x, n)
    BY <1>2, <1>3, <1>6, MergedAll
  <2>2. \A q \in 1..n :
          \/ q \in 1..cut /\ q \in ChildPlace
          \/ (q - cut) \in 1..(n - cut) /\ (q - cut) \in ChildPlace
    <3>1. PICK m : m = num(Here(t))
      OBVIOUS
    <3>2. /\ m \in Nat /\ m <= NON_LEAF_KEY_NUM /\ n = m + 2
          /\ cut = LEFT_KEY_NUM + 1
      BY <1>2, <2>1, <3>1, SMTT(30) DEF MergedKeeps
    <3> QED
      BY <3>2, Constants DEF ChildPlace
  <2>3. newp \in Nat /\ newp \in InodeNum /\ x < newp /\ ninode'[0] = newp + 1
        /\ x \in InodeNum /\ x \in Nat /\ cut \in Nat /\ n \in Nat
    BY <1>4, <1>6 DEF SplitWrote, InodeNum
  <2>4. ASSUME NEW l, NEW q \in 1..n, MergedCh(t)[q] = l
        PROVE  InTree(l)'
    <3>1. CASE q \in 1..cut /\ q \in ChildPlace
      <4>1. Hangs(l, x, q)'
        <5>1. q \in DOMAIN ent'[<<0, x>>].ch /\ ent'[<<0, x>>].ch[q] = l
          BY <1>4, <1>6, <2>4, <3>1 DEF SplitWrote
        <5>2. x < ninode'[0]
          BY <2>3
        <5> QED
          BY <5>1, <5>2 DEF Hangs
      <4> QED
        BY <2>3, <3>1, <4>1 DEF InTree
    <3>2. CASE (q - cut) \in 1..(n - cut) /\ (q - cut) \in ChildPlace
      <4>1. PICK j : j = q - cut
        OBVIOUS
      <4>2. j \in 1..(n - cut) /\ j \in ChildPlace /\ j + cut = q
        BY <2>3, <3>2, <4>1
      <4>3. Hangs(l, newp, j)'
        <5>1. /\ j \in DOMAIN ent'[<<0, newp>>].ch
              /\ ent'[<<0, newp>>].ch[j] = l
          BY <1>4, <1>6, <2>4, <4>2 DEF SplitWrote
        <5>2. newp < ninode'[0]
          BY <2>3
        <5> QED
          BY <5>1, <5>2 DEF Hangs
      <4> QED
        BY <2>3, <4>2, <4>3 DEF InTree
    <3> QED
      BY <2>2, <3>1, <3>2
  <2>5. ASSUME NEW l, NEW y \in InodeNum, NEW j \in ChildPlace, Hangs(l, y, j)
        PROVE  y = x \/ Hangs(l, y, j)'
    <3>1. y < newp /\ y \in Nat
      BY <1>2, <1>6, <2>5 DEF Hangs, InodeNum
    <3>2. y # x => ent'[<<0, y>>] = ent[<<0, y>>]
      BY <1>4, <1>5, <1>6, <2>3, <3>1 DEF SplitWrote
    <3> QED
      BY <2>3, <2>5, <3>1, <3>2 DEF Hangs
  <2> QED
    BY <1>1, <1>2, <1>3, <1>6, <2>4, <2>5, MergedRooted
<1>7. CASE lev # 0
  <2>1. /\ \A y \in InodeNum : ent'[<<0, y>>] = ent[<<0, y>>]
        /\ ninode'[0] = ninode[0]
    BY <1>4, <1>5, <1>7 DEF SplitWrote
  <2>2. ~Carries(t)
    BY <1>2, <1>3, <1>7 DEF Carries
  <2> QED
    BY <1>1, <1>3, <2>1, <2>2, RootedStep, TreeUnchanged
<1> QED
  BY <1>6, <1>7

LEMMA RootedGrowRoot ==
  ASSUME IndInv, Rooted, NEW t \in Thread, GrowRoot(t) PROVE Rooted'
<1>1. TypeOK /\ OthersStay(t)
  BY StepStays DEF Step, NextStep, SplitStep, IndInv
<1>2. PICK lev, newp, e :
        /\ lev = loc[t].lev
        /\ ninode' = [ninode EXCEPT ![lev] = newp + 1]
        /\ ent' = [ent EXCEPT ![<<lev, newp>>] = e]
  BY DEF GrowRoot
<1>3. pc[t] = "grow" /\ UNCHANGED nleaf /\ ~Carries(t)
  BY DEF GrowRoot, leaf_layer, Carries
<1>4. lev # 0 /\ 0 \in Level
  BY <1>1, <1>2, <1>3, LocalFields, Constants DEF PtrTypeOK, Level
<1>5. ninode'[0] = ninode[0]
  BY <1>1, <1>2, <1>4 DEF TypeOK, SearchTypeOK
<1>6. ASSUME NEW y \in InodeNum PROVE ent'[<<0, y>>] = ent[<<0, y>>]
  BY <1>1, <1>2, <1>4 DEF TypeOK, SearchTypeOK, Inode
<1> QED
  BY <1>1, <1>3, <1>5, <1>6, RootedStep, TreeUnchanged

LEMMA RootedSplitBuild ==
  ASSUME IndInv, Rooted, NEW t \in Thread, SplitBuild(t) PROVE Rooted'
<1>1. TypeOK /\ OthersStay(t)
  BY StepStays DEF Step, NextStep, SplitStep, IndInv
<1>2. PICK m, sk :
        loc' = [loc EXCEPT ![t].meta = m, ![t].sep = sk, ![t].ptr = nleaf]
  BY DEF SplitBuild
<1>3. /\ pc[t] = "build" /\ pc'[t] = "publish" /\ nleaf' = nleaf + 1
      /\ UNCHANGED <<ent, ninode>> /\ nleaf \in Nat
  BY <1>1, LeafNumbers
  DEF SplitBuild, Goto, search_layer, TypeOK, ThreadTypeOK
<1>4. loc'[t].ptr = nleaf
  BY <1>1, <1>2 DEF TypeOK, ThreadTypeOK, Local
<1>5. ~Carries(t) /\ Carries(t)'
  BY <1>3 DEF Carries
<1>6. \A l \in LnodeId : l < nleaf' => l < nleaf \/ loc'[t].ptr = l
  BY <1>3, <1>4, LeafNumbers, <1>1
<1>7. \A l \in LnodeId : InTree(l) => InTree(l)'
  BY <1>3 DEF InTree, Hangs
<1> QED
  BY <1>1, <1>5, <1>6, <1>7, RootedStep

\* A step that leaves the bottom inodes alone; what t carries it goes on
\* carrying.
LEMMA RootedKept ==
  ASSUME Rooted, NEW t \in Thread, OthersStay(t),
         UNCHANGED <<ent, ninode, nleaf>>,
         Carries(t) => Carries(t)' /\ loc'[t].ptr = loc[t].ptr
  PROVE  Rooted'
<1>1. \A l \in LnodeId : InTree(l) => InTree(l)'
  BY DEF InTree, Hangs
<1> QED
  BY <1>1, RootedStep

LEMMA RootedNext ==
  ASSUME IndInv, Rooted, [NextAny]_vars PROVE Rooted'
<1>1. CASE UNCHANGED vars
  BY <1>1 DEF vars, Rooted, InTree, Hangs, Carries
<1>2. ASSUME NEW t \in Thread, Step(t) PROVE Rooted'
  <2>1. /\ TypeOK /\ OthersStay(t) /\ pc[t] \in ForegroundLabel \cup WorkerLabel
        /\ pc \in [Thread -> ForegroundLabel \cup WorkerLabel]
        /\ loc \in [Thread -> Local]
    BY <1>2, StepStays DEF IndInv, TypeOK, ThreadTypeOK
  <2>2. CASE Call(t) \/ ClientStep(t) \/ WorkerStep(t) \/ SplitPublish(t)
             \/ ReadLevel(t) \/ FillOnly(t) \/ TakeLeaf(t)
    <3>1. UNCHANGED <<ent, ninode>>
      BY <2>2
      DEF Call, ClientStep, WorkerStep, SearchLnode, ReadCh, FindLeaf, Return,
          CopyMeta, FillSlot, PushJob, InsertLeft, PopJob, SplitLock,
          SplitCopy, FindInode, SplitUnlock, SplitPublish, ReadLevel, FillOnly,
          TakeLeaf, search_layer
    <3>2. UNCHANGED nleaf
      BY <2>2
      DEF Call, ClientStep, WorkerStep, SearchLnode, ReadCh, FindLeaf, Return,
          CopyMeta, FillSlot, PushJob, InsertLeft, PopJob, SplitLock,
          SplitCopy, FindInode, SplitUnlock, SplitPublish, ReadLevel, FillOnly,
          TakeLeaf, leaf_layer
    <3>3. CASE ~Carries(t)
      BY <2>1, <3>1, <3>2, <3>3, RootedKept
    <3>4. CASE SplitPublish(t)
      <4>1. Carries(t)' /\ loc' = loc
        BY <2>1, <3>4 DEF SplitPublish, Goto, Carries
      <4> QED
        BY <2>1, <3>1, <3>2, <4>1, RootedKept
    <3>5. CASE InsertLeft(t)
      <4>1. Carries(t)' /\ loc'[t].ptr = loc[t].ptr
        BY <2>1, <3>5 DEF InsertLeft, Goto, Carries, Local
      <4> QED
        BY <2>1, <3>1, <3>2, <4>1, RootedKept
    <3>6. CASE FindInode(t)
      <4>1. PICK path : loc' = [loc EXCEPT ![t].path = path]
        BY <3>6 DEF FindInode
      <4>2. Carries(t)' /\ loc'[t].ptr = loc[t].ptr
        BY <2>1, <3>6, <4>1 DEF FindInode, Goto, Carries, Local
      <4> QED
        BY <2>1, <3>1, <3>2, <4>2, RootedKept
    <3>7. CASE ReadLevel(t)
      <4>1. Carries(t)' /\ loc'[t].ptr = loc[t].ptr
        BY <2>1, <3>7 DEF ReadLevel, Goto, Carries, Local
      <4> QED
        BY <2>1, <3>1, <3>2, <4>1, RootedKept
    <3>8. ~Carries(t) \/ SplitPublish(t) \/ InsertLeft(t) \/ FindInode(t)
          \/ ReadLevel(t)
      <4>1. Call(t) \/ SearchLnode(t) \/ ReadCh(t) \/ FindLeaf(t) \/ Return(t)
              => ~Carries(t)
        BY DEF Call, SearchLnode, ReadCh, FindLeaf, Return, Carries
      <4>2. CopyMeta(t) \/ FillSlot(t) \/ PushJob(t) => ~Carries(t)
        BY DEF CopyMeta, FillSlot, PushJob, Carries
      <4>3. PopJob(t) \/ SplitLock(t) \/ SplitCopy(t) => ~Carries(t)
        BY DEF PopJob, SplitLock, SplitCopy, Carries
      <4>4. SplitUnlock(t) \/ FillOnly(t) \/ TakeLeaf(t) => ~Carries(t)
        BY DEF SplitUnlock, FillOnly, TakeLeaf, Carries
      <4> QED
        BY <2>2, <4>1, <4>2, <4>3, <4>4 DEF ClientStep, WorkerStep
    <3> QED
      BY <3>3, <3>4, <3>5, <3>6, <3>7, <3>8
  <2>3. CASE SplitBuild(t) \/ InsertInode(t) \/ SplitInode(t) \/ GrowRoot(t)
    BY <2>3, RootedSplitBuild, RootedInsertInode, RootedSplitInode,
       RootedGrowRoot
  <2>4. CASE GrowSecondStore(t) \/ UnlockOldRoot(t) \/ UnlockNewRoot(t)
    <3>1. UNCHANGED <<ent, ninode, nleaf>> /\ ~Carries(t)
      BY <2>4 DEF GrowSecondStore, UnlockOldRoot, UnlockNewRoot, leaf_layer,
                  Carries
    <3> QED
      BY <2>1, <3>1, RootedKept
  <2> QED
    BY <1>2, <2>2, <2>3, <2>4 DEF Step, NextStep, SplitStep
<1> QED
  BY <1>1, <1>2, AnyIsStep

\* Whatever splits run, every linked leaf hangs from one bottom inode, at one
\* place, except a new one on its way there (sobtree_v2.h:1110): neither
\* insert_inode nor the split of an inode drops or duplicates a child.
THEOREM OneParentHolds == Spec /\ []NoStaleJob => []OneParent
<1>1. Init => Rooted
  BY RootedInit
<1>2. IndInv /\ Rooted /\ [Next]_vars => Rooted'
  BY RootedNext DEF NextAny
<1>3. IndInv /\ Rooted => OneParent
  BY ParentProperty
<1> QED
  BY <1>1, <1>2, <1>3, IndInvHolds, PTL DEF Spec
=============================================================================
