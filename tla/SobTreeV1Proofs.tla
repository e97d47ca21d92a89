-------------------------- MODULE SobTreeV1Proofs --------------------------
(***************************************************************************)
(* sobtree_v1.h does without split versions: what sobtree_v2.h checks of a *)
(* job holds of every job here.  So each behaviour of SobTreeV1 is one of  *)
(* SobTree in which no job is stale, and all that is proved of SobTree is  *)
(* true of it.                                                             *)
(***************************************************************************)
EXTENDS SobTreeV1, SobTreeLinear

\* The clients never split.
ClientLabelV1 ==
  {"idle", "find", "search", "reading", "found", "other", "missing", "copy",
   "fill", "flush", "ret"}

ClientV1OK(t) ==
  pc[t] \in ClientLabelV1 /\ (pc[t] = "copy" => ~isFull(loc[t].lp))

\* A leaf with a job is nobody's: no transaction locks a full leaf.
JobsUnlocked == \A l \in LnodeId : Pending(l, 0) => ~meta[l].lock

V1Inv ==
  IndInv /\ JobOnce /\ JobsUnlocked /\ (\A t \in Foreground : ClientV1OK(t))

StepV1(t) ==
  \/ t \in Foreground /\ (CallV1(t) \/ ClientV1(t))
  \/ t \in Worker /\ WorkerV1(t)

-----------------------------------------------------------------------------
(* What V1Inv says of a job.                                               *)

LEMMA ZeroVersion ==
  ASSUME TypeOK
  PROVE  /\ \A l \in LnodeId : version[l] = 0 /\ NextVersion(version[l]) = 0
         /\ \A t \in Thread : loc[t].version = 0 /\ Job(t) = <<loc[t].lp, 0>>
<1>1. Version = {0}
  BY NoVersions DEF Version
<1>2. ASSUME NEW l \in LnodeId
      PROVE  version[l] = 0 /\ NextVersion(version[l]) = 0
  BY <1>1, NoVersions DEF TypeOK, LeafTypeOK, NextVersion
<1>3. \A t \in Thread : loc[t].version = 0
  BY <1>1, LocalFields
<1> QED
  BY <1>2, <1>3 DEF Job

\* A thread that has a job.
LEMMA CarryingPends ==
  ASSUME V1Inv, NEW t \in Thread, Carrying(t)
  PROVE  /\ loc[t].lp \in LnodeId
         /\ isFull(loc[t].lp) /\ ~meta[loc[t].lp].lock
         /\ <<loc[t].lp, 0>> \notin job_queue
         /\ \A u \in Thread \ {t} : Carrying(u) => loc[u].lp # loc[t].lp
<1>1. TypeOK /\ JobsOK /\ JobOnce /\ JobsUnlocked
  BY DEF V1Inv, IndInv, LeafInv
<1>2. loc[t].lp \in LnodeId /\ version[loc[t].lp] = 0
  BY <1>1, LocalFields, ZeroVersion
<1>3. Pending(loc[t].lp, 0)
  BY <1>1, ZeroVersion DEF Pending, Carrying
<1>4. isFull(loc[t].lp) /\ ~meta[loc[t].lp].lock
  BY <1>1, <1>2, <1>3 DEF JobsOK, JobsUnlocked
<1>5. \A u \in Thread : Job(u) = <<loc[u].lp, 0>>
  BY <1>1, ZeroVersion
<1> QED
  BY <1>1, <1>2, <1>4, <1>5 DEF JobOnce

LEMMA HeldNotPending ==
  ASSUME V1Inv, NEW t \in Thread, HoldsLeaf(t), pc[t] # "addleft"
  PROVE  loc[t].lp \in LnodeId /\ ~Pending(loc[t].lp, 0)
<1>1. loc[t].lp \in LnodeId /\ meta[loc[t].lp].lock
  BY LocalFields DEF V1Inv, IndInv, LeafInv, LeafLockOwner
<1> QED
  BY <1>1 DEF V1Inv, JobsUnlocked

\* A worker that splits holds its leaf, so the leaf has no other job.
LEMMA V1NoStaleJob == V1Inv => NoStaleJob
<1> SUFFICES ASSUME V1Inv, NEW t \in Thread, pc[t] = "build"
             PROVE  ~Pending(loc[t].lp, NextVersion(version[loc[t].lp]))
  BY DEF NoStaleJob
<1>1. HoldsLeaf(t)
  BY DEF HoldsLeaf
<1>2. loc[t].lp \in LnodeId /\ ~Pending(loc[t].lp, 0)
  BY <1>1, HeldNotPending
<1> QED
  BY <1>2, ZeroVersion DEF V1Inv, IndInv

-----------------------------------------------------------------------------
(* A step of SobTreeV1 is one of SobTree.                                  *)

LEMMA V1IsStep ==
  ASSUME V1Inv, NEW t \in Thread, StepV1(t) PROVE NextStep(t) /\ Step(t)
<1>1. TypeOK
  BY DEF V1Inv, IndInv
<1>2. CASE t \in Foreground /\ PushJobV1(t)
  <2>1. Job(t) = <<loc[t].lp, 0>>
    BY <1>1, ZeroVersion
  <2>2. PushJob(t)
    BY <1>2, <2>1 DEF PushJobV1, PushJob, FullNow, FilledLeaf
  <2> QED
    BY <1>2, <2>2 DEF Step, NextStep, ClientStep
<1>3. CASE t \in Foreground
           /\ (\/ CallV1(t) \/ SearchLnodeV1(t) \/ ReadChV1(t) \/ ReturnV1(t)
               \/ InsertPart1V1(t) \/ InsertPart2V1(t))
  BY <1>3 DEF Step, NextStep, ClientStep, CallV1, SearchLnodeV1, ReadChV1,
              ReturnV1, InsertPart1V1, InsertPart2V1
<1>4. CASE t \in Worker /\ SplitLockV1(t)
  <2>1. Carrying(t)
    BY <1>4 DEF SplitLockV1, Carrying
  <2>2. ~meta[loc[t].lp].lock /\ version[loc[t].lp] = 0 /\ loc[t].version = 0
    BY <1>1, <2>1, CarryingPends, ZeroVersion
  <2>3. SplitLock(t)
    BY <1>4, <2>2 DEF SplitLockV1, SplitLock
  <2> QED
    BY <1>4, <2>3 DEF Step, NextStep, WorkerStep
<1>5. CASE t \in Worker /\ (PopJobV1(t) \/ SplitLeafV1(t)
                           \/ InsertInodePart1V1(t) \/ SplitUnlockV1(t))
  BY <1>5 DEF Step, NextStep, WorkerStep, SplitStep, PopJobV1, SplitLeafV1,
              InsertInodePart1V1, SplitUnlockV1
<1>6. CASE t \in Worker /\ InsertInodePart3V1(t)
  BY <1>6 DEF Step, NextStep, SplitStep, InsertInodePart3V1
<1> QED
  BY <1>2, <1>3, <1>4, <1>5, <1>6 DEF StepV1, ClientV1, WorkerV1

LEMMA NextIsV1Step ==
  ASSUME NextV1 PROVE \E t \in Thread : StepV1(t)
BY DEF NextV1, StepV1, Thread

LEMMA StepIsNext ==
  ASSUME NEW t \in Thread, NextStep(t) PROVE Next
BY DEF NextStep, Next

-----------------------------------------------------------------------------
(* V1Inv is inductive.                                                     *)

LEMMA V1Start == InitV1 => V1Inv
<1> SUFFICES ASSUME Init PROVE V1Inv
  BY DEF InitV1
<1>1. IndInv /\ JobOnce
  BY InvInit, OnceInit
<1>2. \A t \in Thread : pc[t] \in {"idle", "pop"}
  BY DEF Init
<1>3. \A t \in Foreground : pc[t] = "idle"
  BY DEF Init, Thread
<1>4. \A l \in LnodeId : ~Pending(l, 0)
  BY <1>2 DEF Pending, Init
<1> QED
  BY <1>1, <1>3, <1>4 DEF V1Inv, JobsUnlocked, ClientV1OK, ClientLabelV1

\* A step that takes no leaf and makes no job.
LEMMA UnlockedKept ==
  ASSUME JobsUnlocked, NEW t \in Thread, OthersStay(t),
         \A l \in LnodeId : meta'[l].lock => meta[l].lock \/ ~Pending(l, 0),
         \A l : <<l, 0>> \in job_queue' => Pending(l, 0),
         pc'[t] # "flush", pc'[t] # "lock"
  PROVE  JobsUnlocked'
<1> SUFFICES ASSUME NEW l \in LnodeId, Pending(l, 0)' PROVE ~meta'[l].lock
  BY DEF JobsUnlocked
<1>1. Pending(l, 0)
  BY PendingStep
<1> QED
  BY <1>1 DEF JobsUnlocked

\* An insert locks a leaf with room, and a full leaf alone has a job.
LEMMA UnlockedFindLeaf ==
  ASSUME V1Inv, NEW t \in Foreground, InsertPart1V1(t)
  PROVE  /\ JobsUnlocked'
         /\ pc'[t] \in {"ret", "copy"}
         /\ pc'[t] = "copy" => ~isFull(loc[t].lp)'
<1>1. /\ TypeOK /\ JobsOK /\ JobsUnlocked /\ t \in Thread /\ OthersStay(t)
      /\ FindLeaf(t) /\ RoomInLeaf(t) /\ loc[t].key \in Key
  BY StepStays, LocalFields
  DEF V1Inv, IndInv, LeafInv, Thread, Step, NextStep, ClientStep, InsertPart1V1
<1>2. PICK p \in Descents(loc[t].key) :
        LET l    == LeafFor(p, loc[t].key)
            path == PathTaken(p, loc[t].key)
        IN
        /\ ~meta[l].lock
        /\ IF loc[t].key \in meta[l].bitmap
             THEN /\ Goto(t, "ret")
                  /\ UNCHANGED <<meta, ilock, loc>>
             ELSE /\ meta' = [meta EXCEPT ![l].lock = TRUE]
                  /\ IF isFull(l) THEN LockInodes(path) ELSE UNCHANGED ilock
                  /\ loc' = [loc EXCEPT ![t].lp = l, ![t].path = path]
                  /\ Goto(t, "copy")
  BY <1>1 DEF FindLeaf
<1>3. PICK l : l = LeafFor(p, loc[t].key)
  OBVIOUS
<1>4. ~isFull(l) /\ UNCHANGED job_queue
  BY <1>1, <1>3 DEF RoomInLeaf, FindLeaf
<1>5. l \in LnodeId
  BY <1>1, <1>3, DescentType
<1>6. ~Pending(l, 0)
  BY <1>1, <1>4, <1>5, ZeroVersion DEF JobsOK
<1>7. \A x \in LnodeId : /\ meta'[x].bitmap = meta[x].bitmap
                         /\ meta'[x].lock => meta[x].lock \/ x = l
  BY <1>1, <1>2, <1>3 DEF TypeOK, LeafTypeOK, LnodeMeta
<1>8. \A x : <<x, 0>> \in job_queue' => Pending(x, 0)
  BY <1>4 DEF Pending
<1>9. pc'[t] \in {"ret", "copy"} /\ (pc'[t] = "copy" => loc'[t].lp = l)
  BY <1>1, <1>2, <1>3 DEF Goto, TypeOK, ThreadTypeOK, Local
<1>10. JobsUnlocked'
  BY <1>1, <1>6, <1>7, <1>8, <1>9, UnlockedKept
<1>11. pc'[t] = "copy" => ~isFull(loc[t].lp)'
  BY <1>4, <1>5, <1>7, <1>9 DEF isFull
<1> QED
  BY <1>9, <1>10, <1>11

\* The store that fills a leaf unlocks it.
LEMMA UnlockedFillSlot ==
  ASSUME V1Inv, NEW t \in Foreground, FillSlot(t)
  PROVE  JobsUnlocked' /\ pc'[t] = "flush"
<1>1. /\ TypeOK /\ JobsUnlocked /\ t \in Thread /\ OthersStay(t)
      /\ t \notin Worker /\ LeafKnown(t)
      /\ loc[t].lp \in LnodeId /\ loc[t].meta \in LnodeMeta
  BY StepStays, LocalFields, Constants
  DEF V1Inv, IndInv, LeafInv, Thread, Step, NextStep, ClientStep
<1>2. /\ pc[t] = "fill" /\ pc'[t] = "flush" /\ UNCHANGED job_queue
      /\ loc'[t].lp = loc[t].lp
      /\ meta' = [meta EXCEPT ![loc[t].lp] =
                    [loc[t].meta EXCEPT !.bitmap = @ \cup {loc[t].key}]]
  BY <1>1 DEF FillSlot, Goto, TypeOK, ThreadTypeOK, Local
<1>3. ~loc[t].meta.lock
  BY <1>1, <1>2 DEF LeafKnown
<1>4. \A l \in LnodeId : meta'[l].lock => meta[l].lock /\ l # loc[t].lp
  BY <1>1, <1>2, <1>3 DEF TypeOK, LeafTypeOK, LnodeMeta
<1>5. \A l : <<l, 0>> \in job_queue' => Pending(l, 0)
  BY <1>2 DEF Pending
<1> SUFFICES ASSUME NEW l \in LnodeId, Pending(l, 0)' PROVE ~meta'[l].lock
  BY <1>2 DEF JobsUnlocked
<1>6. Pending(l, 0) \/ l = loc[t].lp
  BY <1>1, <1>2, <1>5, PendingStep
<1> QED
  BY <1>1, <1>4, <1>6 DEF JobsUnlocked

\* A worker's store takes the only job of its leaf.
LEMMA UnlockedSplitLock ==
  ASSUME V1Inv, NEW w \in Worker, SplitLockV1(w) PROVE JobsUnlocked'
<1>1. /\ TypeOK /\ JobsUnlocked /\ w \in Thread /\ OthersStay(w)
      /\ Carrying(w)
  BY V1IsStep, StepStays
  DEF V1Inv, IndInv, Thread, StepV1, WorkerV1, SplitLockV1, Carrying
<1>2. /\ loc[w].lp \in LnodeId /\ <<loc[w].lp, 0>> \notin job_queue
      /\ \A u \in Thread \ {w} : Carrying(u) => loc[u].lp # loc[w].lp
  BY <1>1, CarryingPends
<1>3. /\ pc'[w] = "copy" /\ UNCHANGED <<job_queue, loc>>
      /\ \A l \in LnodeId : meta'[l].lock => meta[l].lock \/ l = loc[w].lp
  BY <1>1 DEF SplitLockV1, Goto, TypeOK, ThreadTypeOK, LeafTypeOK, LnodeMeta
<1> SUFFICES ASSUME NEW l \in LnodeId, Pending(l, 0)' PROVE ~meta'[l].lock
  BY DEF JobsUnlocked
<1>4. \A x : <<x, 0>> \in job_queue' => Pending(x, 0)
  BY <1>3 DEF Pending
<1>5. Pending(l, 0)
  BY <1>1, <1>3, <1>4, PendingStep
<1>6. l # loc[w].lp
  <2>1. CASE <<l, 0>> \in job_queue'
    BY <1>2, <1>3, <2>1
  <2>2. ASSUME NEW u \in Thread, loc'[u].lp = l,
               pc'[u] = "lock" \/ (pc'[u] = "flush" /\ FilledLeaf(u)')
        PROVE  l # loc[w].lp
    <3>1. u # w
      BY <1>3, <2>2
    <3>2. Carrying(u) /\ loc[u].lp = l
      BY <1>1, <2>2, <3>1 DEF OthersStay, Carrying, FilledLeaf
    <3> QED
      BY <1>2, <3>1, <3>2
  <2> QED
    BY <2>1, <2>2 DEF Pending
<1> QED
  BY <1>1, <1>3, <1>5, <1>6 DEF JobsUnlocked

LEMMA UnlockedJobMoves ==
  ASSUME V1Inv, NEW t \in Thread, OthersStay(t),
         (t \in Foreground /\ PushJobV1(t)) \/ (t \in Worker /\ PopJob(t))
  PROVE  JobsUnlocked'
<1>1. TypeOK /\ JobsUnlocked
  BY DEF V1Inv, IndInv
<1>2. CASE PushJobV1(t)
  <2>1. /\ pc[t] = "flush" /\ pc'[t] = "ret" /\ meta' = meta
        /\ job_queue' = job_queue \cup (IF FullNow(t)
                                          THEN {<<loc[t].lp, 0>>} ELSE {})
    BY <1>1, <1>2 DEF PushJobV1, Goto, leaf_layer, TypeOK, ThreadTypeOK
  <2>2. loc[t].version = 0
    BY <1>1, ZeroVersion
  <2>3. \A l : <<l, 0>> \in job_queue' => Pending(l, 0)
    BY <2>1, <2>2 DEF Pending, FullNow, FilledLeaf
  <2> QED
    BY <1>1, <2>1, <2>3, UnlockedKept
<1>3. CASE PopJob(t)
  <2>1. PICK j \in job_queue :
          /\ job_queue' = job_queue \ {j}
          /\ loc' = [loc EXCEPT ![t].lp = j[1], ![t].version = j[2]]
    BY <1>3 DEF PopJob
  <2>2. pc'[t] = "lock" /\ meta' = meta
    BY <1>1, <1>3 DEF PopJob, Goto, leaf_layer, TypeOK, ThreadTypeOK
  <2>3. loc'[t].lp = j[1] /\ loc'[t].version = j[2]
    BY <1>1, <2>1 DEF TypeOK, ThreadTypeOK, Local
  <2>4. j = <<j[1], j[2]>>
    BY <1>1, <2>1, LeafNumbers
  <2> SUFFICES ASSUME NEW l \in LnodeId, Pending(l, 0)' PROVE ~meta'[l].lock
    BY DEF JobsUnlocked
  <2>5. Pending(l, 0) \/ <<l, 0>> \in job_queue' \/ <<l, 0>> = j
    BY <2>3, <2>4, PendingStep
  <2>6. Pending(l, 0)
    BY <2>1, <2>5 DEF Pending
  <2> QED
    BY <1>1, <2>2, <2>6 DEF JobsUnlocked
<1> QED
  BY <1>2, <1>3

\* A leaf a worker splits stays locked, its new leaf is unlocked.
LEMMA UnlockedSplit ==
  ASSUME V1Inv, NEW w \in Worker, OthersStay(w),
         SplitBuild(w) \/ SplitPublish(w) \/ SplitUnlock(w)
  PROVE  JobsUnlocked'
<1>1. /\ TypeOK /\ JobsUnlocked /\ w \in Thread /\ loc[w].lp \in LnodeId
      /\ LeafLockOwner
  BY LocalFields DEF V1Inv, IndInv, LeafInv, Thread
<1>2. CASE SplitBuild(w)
  <2>1. PICK S : meta' = [meta EXCEPT ![nleaf] =
                            [bitmap |-> S, lock |-> FALSE, alt |-> 0]]
    BY <1>2 DEF SplitBuild
  <2>2. pc'[w] = "publish" /\ UNCHANGED job_queue
    BY <1>1, <1>2 DEF SplitBuild, Goto, TypeOK, ThreadTypeOK
  <2>3. \A l \in LnodeId : meta'[l].lock => meta[l].lock
    BY <1>1, <2>1 DEF TypeOK, LeafTypeOK, LnodeMeta
  <2>4. \A l : <<l, 0>> \in job_queue' => Pending(l, 0)
    BY <2>2 DEF Pending
  <2> QED
    BY <1>1, <2>2, <2>3, <2>4, UnlockedKept
<1>3. CASE SplitPublish(w)
  <2>1. HoldsLeaf(w) /\ pc[w] # "addleft" /\ w \notin Foreground
    BY <1>1, <1>3, Constants DEF SplitPublish, HoldsLeaf
  <2>2. meta[loc[w].lp].lock
    BY <1>1, <2>1 DEF LeafLockOwner
  <2>3. /\ pc'[w] = "locate" /\ UNCHANGED job_queue
        /\ \A l \in LnodeId : l # loc[w].lp => meta'[l] = meta[l]
    BY <1>1, <1>3 DEF SplitPublish, Goto, TypeOK, ThreadTypeOK, LeafTypeOK
  <2>4. \A l \in LnodeId : meta'[l].lock => meta[l].lock
    BY <2>2, <2>3
  <2>5. \A l : <<l, 0>> \in job_queue' => Pending(l, 0)
    BY <2>3 DEF Pending
  <2> QED
    BY <1>1, <2>3, <2>4, <2>5, UnlockedKept
<1>4. CASE SplitUnlock(w)
  <2>1. /\ pc'[w] = "pop" /\ UNCHANGED job_queue
        /\ \A l \in LnodeId : meta'[l].lock => meta[l].lock
    BY <1>1, <1>4 DEF SplitUnlock, Goto, TypeOK, ThreadTypeOK, LeafTypeOK,
                      LnodeMeta
  <2>2. \A l : <<l, 0>> \in job_queue' => Pending(l, 0)
    BY <2>1 DEF Pending
  <2> QED
    BY <1>1, <2>1, <2>2, UnlockedKept
<1> QED
  BY <1>2, <1>3, <1>4

LEMMA UnlockedStep ==
  ASSUME V1Inv, NEW t \in Thread, StepV1(t) PROVE JobsUnlocked'
<1>1. TypeOK /\ JobsUnlocked /\ Step(t) /\ OthersStay(t)
  BY V1IsStep, StepStays DEF V1Inv, IndInv
<1>2. CASE Elsewhere(t)
  <2>1. /\ UNCHANGED <<meta, job_queue>>
        /\ pc'[t] # "flush" /\ pc'[t] # "lock"
    BY <1>1, <1>2, ElsewhereStep
  <2>2. \A l : <<l, 0>> \in job_queue' => Pending(l, 0)
    BY <2>1 DEF Pending
  <2> QED
    BY <1>1, <2>1, <2>2, UnlockedKept
<1>3. CASE t \in Foreground /\ (InsertPart1V1(t) \/ FillSlot(t) \/ PushJobV1(t))
  BY <1>1, <1>3, UnlockedFindLeaf, UnlockedFillSlot, UnlockedJobMoves
<1>4. CASE t \in Worker /\ (PopJob(t) \/ SplitLockV1(t) \/ SplitUnlock(t)
                           \/ SplitBuild(t) \/ SplitPublish(t))
  BY <1>1, <1>4, UnlockedSplitLock, UnlockedJobMoves, UnlockedSplit
<1>5. \/ Elsewhere(t)
      \/ t \in Foreground /\ (InsertPart1V1(t) \/ FillSlot(t) \/ PushJobV1(t))
      \/ t \in Worker /\ (PopJob(t) \/ SplitLockV1(t) \/ SplitUnlock(t)
                          \/ SplitBuild(t) \/ SplitPublish(t))
  BY DEF StepV1, ClientV1, WorkerV1, CallV1, SearchLnodeV1, ReadChV1,
         ReturnV1, InsertPart2V1, PopJobV1, SplitLeafV1, InsertInodePart1V1,
         InsertInodePart3V1, SplitUnlockV1, Elsewhere
<1> QED
  BY <1>2, <1>3, <1>4, <1>5

LEMMA ClientsStep ==
  ASSUME V1Inv, NEW t \in Thread, StepV1(t), NEW u \in Foreground
  PROVE  ClientV1OK(u)'
<1>1. /\ TypeOK /\ Step(t) /\ OthersStay(t) /\ OwnLeafOnly(t)
      /\ u \in Thread /\ ClientV1OK(u) /\ u \notin Worker
      /\ LeafLockOwner /\ LeafAllocated /\ nleaf \in Nat
      /\ loc[u].lp \in LnodeId
  BY V1IsStep, StepStays, OwnLeaves, LeafNumbers, LocalFields, Constants
  DEF V1Inv, IndInv, LeafInv, Thread
<1>2. CASE u # t
  <2>1. pc'[u] = pc[u] /\ loc'[u] = loc[u]
    BY <1>1, <1>2 DEF OthersStay
  <2>2. ASSUME pc[u] = "copy" PROVE ~isFull(loc[u].lp)'
    <3>1. HoldsLeaf(u)
      BY <2>2 DEF HoldsLeaf
    <3>2. loc[u].lp # nleaf
      BY <1>1, <3>1 DEF LeafAllocated
    <3>3. ~(HoldsLeaf(t) /\ loc[u].lp = loc[t].lp)
      BY <1>1, <1>2, <3>1 DEF LeafLockOwner
    <3>4. SameLeaf(loc[u].lp)
      BY <1>1, <3>2, <3>3 DEF OwnLeafOnly
    <3> QED
      BY <1>1, <2>1, <2>2, <3>4 DEF SameLeaf, isFull, ClientV1OK
  <2> QED
    BY <1>1, <2>1, <2>2 DEF ClientV1OK
<1>3. CASE u = t
  <2>1. t \in Foreground /\ pc \in [Thread -> ForegroundLabel \cup WorkerLabel]
    BY <1>1, <1>3 DEF TypeOK, ThreadTypeOK
  <2>2. CASE InsertPart1V1(t)
    BY <1>3, <2>1, <2>2, UnlockedFindLeaf DEF ClientV1OK, ClientLabelV1
  <2>3. CASE CallV1(t) \/ SearchLnodeV1(t) \/ ReadChV1(t) \/ ReturnV1(t)
             \/ FillSlot(t) \/ PushJobV1(t)
    <3>1. pc'[t] \in ClientLabelV1 \ {"copy"}
      BY <2>1, <2>3, <1>1
      DEF CallV1, Call, SearchLnodeV1, SearchLnode, SearchResult, ReadChV1,
          ReadCh, ReturnV1, Return, FillSlot, PushJobV1, Goto, ClientLabelV1
    <3> QED
      BY <1>3, <3>1 DEF ClientV1OK
  <2>4. CASE CopyMeta(t)
    <3>1. pc[t] = "copy" /\ ~isFull(loc[t].lp)
      BY <1>1, <1>3, <2>4 DEF CopyMeta, ClientV1OK
    <3>2. pc'[t] = "fill"
      BY <1>1, <2>1, <2>4, <3>1 DEF CopyMeta, Goto
    <3> QED
      BY <1>3, <3>2 DEF ClientV1OK, ClientLabelV1
  <2> QED
    BY <1>1, <1>3, <2>2, <2>3, <2>4
    DEF StepV1, ClientV1, InsertPart2V1
<1> QED
  BY <1>2, <1>3

LEMMA V1Next ==
  ASSUME V1Inv, [NextV1]_vars PROVE V1Inv' /\ [Next]_vars
<1>1. IndInv /\ JobOnce /\ NoStaleJob
  BY V1NoStaleJob DEF V1Inv
<1>2. CASE UNCHANGED vars
  <2>1. IndInv' /\ JobOnce'
    BY <1>1, <1>2, InvNext, OnceNext
  <2>2. JobsUnlocked' /\ \A t \in Foreground : ClientV1OK(t)'
    BY <1>2 DEF vars, V1Inv, JobsUnlocked, Pending, FilledLeaf, ClientV1OK,
                isFull
  <2> QED
    BY <1>2, <2>1, <2>2 DEF V1Inv
<1>3. CASE NextV1
  <2>1. PICK t \in Thread : StepV1(t)
    BY <1>3, NextIsV1Step
  <2>2. Next
    BY <2>1, V1IsStep, StepIsNext
  <2>3. IndInv' /\ JobOnce'
    BY <1>1, <2>2, InvNext, OnceNext
  <2> QED
    BY <2>1, <2>2, <2>3, UnlockedStep, ClientsStep DEF V1Inv
<1> QED
  BY <1>2, <1>3

-----------------------------------------------------------------------------
(* The theorems.                                                           *)

\* Every behaviour of sobtree_v1.h is one of sobtree_v2.h with a single split
\* version, and no job in it is stale: what split of v1 does not check of a job
\* (sobtree_v1.h:925) is true of it.
THEOREM V1Refines == SpecV1 => Spec /\ [](V1Inv /\ NoStaleJob)
<1>1. InitV1 => V1Inv /\ Init
  BY V1Start DEF InitV1
<1>2. V1Inv /\ [NextV1]_vars => V1Inv' /\ [Next]_vars
  BY V1Next
<1>3. V1Inv => NoStaleJob
  BY V1NoStaleJob
<1> QED
  BY <1>1, <1>2, <1>3, PTL DEF SpecV1, Spec

\* The plain store split of v1 locks its leaf with is a lock: the leaf is full
\* and unlocked, and no other thread works on it or has a job for it.
THEOREM PlainStoreHolds == SpecV1 => []PlainStoreSafe
<1>1. V1Inv => PlainStoreSafe
  <2> SUFFICES ASSUME V1Inv, NEW w \in Worker, pc[w] = "lock"
      PROVE  /\ isFull(loc[w].lp) /\ ~meta[loc[w].lp].lock
             /\ <<loc[w].lp, 0>> \notin job_queue
             /\ \A t \in Thread \ {w} : loc[t].lp = loc[w].lp =>
                  ~HoldsLeaf(t) /\ pc[t] # "lock"
                  /\ ~(pc[t] = "flush" /\ FullNow(t))
    BY DEF PlainStoreSafe
  <2>1. w \in Thread /\ Carrying(w)
    BY DEF Thread, Carrying
  <2>2. /\ isFull(loc[w].lp) /\ ~meta[loc[w].lp].lock
        /\ <<loc[w].lp, 0>> \notin job_queue
        /\ \A u \in Thread \ {w} : Carrying(u) => loc[u].lp # loc[w].lp
    BY <2>1, CarryingPends
  <2>3. ASSUME NEW t \in Thread, HoldsLeaf(t) PROVE meta[loc[t].lp].lock
    <3>1. pc[t] # "addleft"
      <4>1. CASE t \in Foreground
        BY <4>1 DEF V1Inv, ClientV1OK, ClientLabelV1
      <4>2. CASE t \in Worker
        BY <4>2 DEF V1Inv, IndInv, TypeOK, ThreadTypeOK, WorkerLabel
      <4> QED
        BY <4>1, <4>2 DEF Thread
    <3> QED
      BY <2>3, <3>1 DEF V1Inv, IndInv, LeafInv, LeafLockOwner
  <2>4. ASSUME NEW t \in Thread \ {w}, loc[t].lp = loc[w].lp
        PROVE  /\ ~HoldsLeaf(t) /\ pc[t] # "lock"
               /\ ~(pc[t] = "flush" /\ FullNow(t))
    BY <2>2, <2>3, <2>4 DEF Carrying, FilledLeaf, FullNow
  <2> QED
    BY <2>2, <2>4
<1> QED
  BY <1>1, V1Refines, PTL

\* Locks, the leaf chain, parents and recorded positions of v1 are right as
\* those of v2 are, without the versions.
THEOREM V1StaysSound ==
  SpecV1 => [](/\ LeafLockOwner /\ InodeLockOwner /\ RootAgrees
               /\ ChainSorted /\ PathStillRight /\ OneParent /\ EachJobOnce)
BY V1Refines, LeafLocksHold, InodeLocksHold, RootHolds, ChainSortedHolds,
   PathHolds, OneParentHolds, JobsOnceHold, PTL

\* The inserts and searches of v1 implement KVIndex: an insert takes effect and
\* a search looks for its key (sobtree_v1.h:549-653) at one instant, whatever
\* the workers split; the value read at line 656 is no part of the promise.
THEOREM V1Linearizable == SpecV1 => Linearizable
BY V1Refines, LinearizableHolds, PTL
=============================================================================
