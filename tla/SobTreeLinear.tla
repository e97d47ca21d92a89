---------------------------- MODULE SobTreeLinear ----------------------------
(* The leaf chain of sobtree_v2.h stays sorted, the position a transaction  *)
(* recorded stays right, and the index implements KVIndex: what the tree    *)
(* does is in SobTreeOrder, what the leaves do is here.                     *)
EXTENDS SobTreeOrder

-----------------------------------------------------------------------------
(* What a step does to the leaves.                                         *)

\* The entries of leaf x and its place in the chain stay.
SameLeaf(x) ==
  /\ meta'[x].bitmap = meta[x].bitmap /\ meta'[x].alt = meta[x].alt
  /\ tail'[x] = tail[x]

\* Nothing happens to the leaves but lock bits.
LeavesStay == nleaf' = nleaf /\ \A x \in LnodeId : SameLeaf(x)

\* t changes its own leaf and a new one only.
OwnLeafOnly(t) ==
  \A x \in LnodeId : SameLeaf(x) \/ x = nleaf \/ (HoldsLeaf(t) /\ x = loc[t].lp)

\* FindLeaf took leaf c for a client, at the end of path p.
LeafTaken(t, p, c) ==
  /\ pc'[t] = "copy" /\ loc'[t].lp = c /\ loc'[t].key = loc[t].key
  /\ loc'[t].path = PathTaken(p, loc[t].key)
  /\ p \in Descents(loc[t].key) /\ c = LeafFor(p, loc[t].key)
  /\ c \in LnodeId /\ ~meta[c].lock /\ loc[t].key \notin meta[c].bitmap

FindWrote(t) ==
  /\ pc[t] = "find" /\ LeavesStay
  /\ UNCHANGED <<tree_root, root_level, ent, ninode, version, job_queue>>
  /\ \/ pc'[t] = "ret" /\ loc'[t] = loc[t]
     \/ \E p, c : LeafTaken(t, p, c)

LEMMA FindWrites ==
  ASSUME IndInv, NEW t \in Foreground, FindLeaf(t)
  PROVE  FindWrote(t)
<1>1. TypeOK /\ t \in Thread /\ loc[t].key \in Key
  BY LocalFields, Constants DEF IndInv, Thread
<1>2. PICK p \in Descents(loc[t].key) :
        /\ ~meta[LeafFor(p, loc[t].key)].lock
        /\ IF loc[t].key \in meta[LeafFor(p, loc[t].key)].bitmap
             THEN Goto(t, "ret") /\ UNCHANGED <<meta, ilock, loc>>
             ELSE /\ meta' = [meta EXCEPT
                                ![LeafFor(p, loc[t].key)].lock = TRUE]
                  /\ loc' = [loc EXCEPT
                               ![t].lp = LeafFor(p, loc[t].key),
                               ![t].path = PathTaken(p, loc[t].key)]
                  /\ Goto(t, "copy")
  BY DEF FindLeaf
<1>3. /\ pc[t] = "find"
      /\ UNCHANGED <<tree_root, root_level, ent, ninode, tail, version,
                     nleaf, job_queue>>
  BY DEF FindLeaf
<1> DEFINE c    == LeafFor(p, loc[t].key)
           path == PathTaken(p, loc[t].key)
<1>4. c \in LnodeId /\ path = PathTaken(p, loc[t].key)
  BY <1>1, DescentType
<1>5. CASE loc[t].key \in meta[c].bitmap
  <2>1. pc'[t] = "ret" /\ loc'[t] = loc[t] /\ meta' = meta
    BY <1>1, <1>2, <1>5 DEF Goto, TypeOK, ThreadTypeOK
  <2>2. LeavesStay
    BY <1>3, <2>1 DEF LeavesStay, SameLeaf
  <2> QED
    BY <1>3, <2>1, <2>2 DEF FindWrote
<1>6. CASE loc[t].key \notin meta[c].bitmap
  <2> HIDE DEF path
  <2>1. /\ meta' = [meta EXCEPT ![c].lock = TRUE]
        /\ loc' = [loc EXCEPT ![t].lp = c, ![t].path = path]
        /\ Goto(t, "copy") /\ ~meta[c].lock
    BY <1>2, <1>6 DEF path
  <2>2. c = LeafFor(p, loc[t].key)
    OBVIOUS
  <2> HIDE DEF c
  <2>3. /\ pc'[t] = "copy" /\ loc'[t].lp = c /\ loc'[t].path = path
        /\ loc'[t].key = loc[t].key
    BY <1>1, <2>1 DEF Goto, TypeOK, ThreadTypeOK, Local
  <2>4. LeafTaken(t, p, c)
    BY <1>4, <1>6, <2>1, <2>2, <2>3 DEF LeafTaken
  <2>5. \A x \in LnodeId : /\ meta'[x].bitmap = meta[x].bitmap
                           /\ meta'[x].alt = meta[x].alt
    BY <1>1, <1>4, <2>1 DEF TypeOK, LeafTypeOK, LnodeMeta
  <2>6. LeavesStay
    BY <1>3, <2>5 DEF LeavesStay, SameLeaf
  <2> QED
    BY <1>3, <2>4, <2>6 DEF FindWrote
<1> QED
  BY <1>5, <1>6

\* PopJob took job j for a worker.
PopWrote(t, j) ==
  /\ pc[t] = "pop" /\ pc'[t] = "lock" /\ LeavesStay
  /\ UNCHANGED <<tree_root, root_level, ent, ninode, version>>
  /\ j \in job_queue /\ job_queue' = job_queue \ {j}
  /\ loc'[t].lp = j[1] /\ loc'[t].version = j[2]

LEMMA PopWrites ==
  ASSUME IndInv, NEW t \in Worker, PopJob(t)
  PROVE  \E j : PopWrote(t, j)
<1>1. TypeOK /\ t \in Thread
  BY DEF IndInv, Thread
<1>2. PICK j \in job_queue :
        /\ job_queue' = job_queue \ {j}
        /\ loc' = [loc EXCEPT ![t].lp = j[1], ![t].version = j[2]]
  BY DEF PopJob
<1>3. /\ pc[t] = "pop" /\ pc'[t] = "lock"
      /\ UNCHANGED <<tree_root, root_level, ent, ninode, version>>
      /\ UNCHANGED <<meta, tail, nleaf>>
  BY <1>1 DEF PopJob, Goto, search_layer, leaf_layer, TypeOK, ThreadTypeOK
<1>4. loc'[t].lp = j[1] /\ loc'[t].version = j[2]
  BY <1>1, <1>2 DEF TypeOK, ThreadTypeOK, Local
<1>5. LeavesStay
  BY <1>3 DEF LeavesStay, SameLeaf
<1> QED
  BY <1>2, <1>3, <1>4, <1>5 DEF PopWrote

\* SplitLock dropped the job, or took the job's leaf, which nobody had split
\* since.
LockWrote(t) ==
  /\ pc[t] = "lock" /\ LeavesStay
  /\ UNCHANGED <<tree_root, root_level, ent, ninode, version, job_queue>>
  /\ \/ pc'[t] = "pop"
     \/ /\ pc'[t] = "copy" /\ loc'[t] = loc[t] /\ ~meta[loc[t].lp].lock
        /\ version[loc[t].lp] = loc[t].version

LEMMA LockWrites ==
  ASSUME IndInv, NEW t \in Worker, SplitLock(t)
  PROVE  LockWrote(t)
<1>1. TypeOK /\ t \in Thread /\ loc[t].lp \in LnodeId
  BY LocalFields DEF IndInv, Thread
<1>2. /\ pc[t] = "lock"
      /\ UNCHANGED <<tree_root, root_level, ent, ninode, version, job_queue>>
      /\ UNCHANGED <<tail, nleaf>>
  BY DEF SplitLock, search_layer
<1>3. CASE meta[loc[t].lp].lock \/ version[loc[t].lp] # loc[t].version
  <2>1. pc'[t] = "pop" /\ meta' = meta
    BY <1>1, <1>3 DEF SplitLock, Goto, TypeOK, ThreadTypeOK
  <2>2. LeavesStay
    BY <1>2, <2>1 DEF LeavesStay, SameLeaf
  <2> QED
    BY <1>2, <2>1, <2>2 DEF LockWrote
<1>4. CASE ~(meta[loc[t].lp].lock \/ version[loc[t].lp] # loc[t].version)
  <2>1. /\ pc'[t] = "copy" /\ loc' = loc
        /\ meta' = [meta EXCEPT ![loc[t].lp].lock = TRUE]
    BY <1>1, <1>4 DEF SplitLock, Goto, TypeOK, ThreadTypeOK
  <2>2. \A x \in LnodeId : /\ meta'[x].bitmap = meta[x].bitmap
                           /\ meta'[x].alt = meta[x].alt
    BY <1>1, <2>1 DEF TypeOK, LeafTypeOK, LnodeMeta
  <2>3. LeavesStay
    BY <1>2, <2>2 DEF LeavesStay, SameLeaf
  <2> QED
    BY <1>2, <1>4, <2>1, <2>3 DEF LockWrote
<1> QED
  BY <1>3, <1>4

\* TakeLeaf took a full leaf nobody else has use for.
TakeWrote(t) ==
  /\ pc[t] = "pop" /\ pc'[t] \in {"copy", "unlock"} /\ LeavesStay
  /\ UNCHANGED <<tree_root, root_level, ent, ninode, version, job_queue>>
  /\ loc'[t] \in Local /\ loc'[t].lp < nleaf
  /\ ~meta[loc'[t].lp].lock /\ isFull(loc'[t].lp) /\ NotCarried(loc'[t].lp)

LEMMA TakeWrites ==
  ASSUME IndInv, NEW t \in Worker, TakeLeaf(t)
  PROVE  TakeWrote(t)
<1>1. TypeOK /\ t \in Thread
  BY DEF IndInv, Thread
<1>2. PICK r \in Local, label \in {"copy", "unlock"} :
        /\ r.lp < nleaf
        /\ ~meta[r.lp].lock /\ isFull(r.lp) /\ NotCarried(r.lp)
        /\ meta' = [meta EXCEPT ![r.lp].lock = TRUE]
        /\ loc' = [loc EXCEPT ![t] = r]
        /\ Goto(t, label)
  BY DEF TakeLeaf
<1>3. /\ pc[t] = "pop" /\ UNCHANGED <<tail, nleaf>>
      /\ UNCHANGED <<tree_root, root_level, ent, ninode, version, job_queue>>
  BY DEF TakeLeaf, search_layer
<1>4. pc'[t] = label /\ loc'[t] = r
  BY <1>1, <1>2 DEF Goto, TypeOK, ThreadTypeOK
<1>5. \A x \in LnodeId : /\ meta'[x].bitmap = meta[x].bitmap
                         /\ meta'[x].alt = meta[x].alt
  BY <1>1, <1>2 DEF TypeOK, LeafTypeOK, LnodeMeta, Local
<1>6. LeavesStay
  BY <1>3, <1>5 DEF LeavesStay, SameLeaf
<1> QED
  BY <1>2, <1>3, <1>4, <1>6 DEF TakeWrote

LEMMA UnlockWrites ==
  ASSUME IndInv, NEW t \in Worker, SplitUnlock(t)
  PROVE  /\ pc[t] = "unlock" /\ pc'[t] = "pop" /\ LeavesStay
         /\ UNCHANGED <<tree_root, root_level, ent, ninode, version, job_queue>>
<1>1. TypeOK /\ t \in Thread /\ loc[t].lp \in LnodeId
  BY LocalFields DEF IndInv, Thread
<1>2. /\ pc[t] = "unlock" /\ pc'[t] = "pop"
      /\ UNCHANGED <<tree_root, root_level, ent, ninode, version, job_queue>>
      /\ UNCHANGED <<tail, nleaf>>
      /\ meta' = [meta EXCEPT ![loc[t].lp].lock = FALSE]
  BY <1>1 DEF SplitUnlock, search_layer, Goto, TypeOK, ThreadTypeOK
<1>3. \A x \in LnodeId : /\ meta'[x].bitmap = meta[x].bitmap
                         /\ meta'[x].alt = meta[x].alt
  BY <1>1, <1>2 DEF TypeOK, LeafTypeOK, LnodeMeta
<1> QED
  BY <1>2, <1>3 DEF LeavesStay, SameLeaf

LEMMA PushWrites ==
  ASSUME IndInv, NEW t \in Foreground, PushJob(t)
  PROVE  /\ pc[t] = "flush" /\ pc'[t] = "ret" /\ loc'[t] = loc[t] /\ LeavesStay
         /\ UNCHANGED <<tree_root, root_level, ent, ninode, version>>
         /\ \A j \in job_queue' :
              j \in job_queue \/ (FilledLeaf(t) /\ j = Job(t))
<1>1. TypeOK /\ t \in Thread
  BY DEF IndInv, Thread
<1>2. /\ pc[t] = "flush" /\ pc'[t] = "ret" /\ loc' = loc
      /\ UNCHANGED <<tree_root, root_level, ent, ninode, version>>
      /\ UNCHANGED <<meta, tail, nleaf>>
      /\ job_queue' = job_queue \cup (IF FilledLeaf(t) THEN {Job(t)} ELSE {})
  BY <1>1 DEF PushJob, search_layer, leaf_layer, Goto, TypeOK, ThreadTypeOK
<1> QED
  BY <1>2 DEF LeavesStay, SameLeaf

\* t's key was added to its leaf l, which was its copy of meta.
KeyWrote(t, l) ==
  /\ l = loc[t].lp /\ l \in LnodeId
  /\ UNCHANGED <<tree_root, root_level, ent, ninode, nleaf, version, job_queue>>
  /\ meta'[l].bitmap = loc[t].meta.bitmap \cup {loc[t].key}
  /\ meta'[l].alt = loc[t].meta.alt
  /\ tail' = tail
  /\ \A x \in LnodeId : x # l => meta'[x] = meta[x]
  /\ loc'[t].lp = l /\ loc'[t].key = loc[t].key /\ loc'[t].ptr = loc[t].ptr
  /\ loc'[t].path = loc[t].path /\ loc'[t].sep = loc[t].sep
  /\ \/ pc[t] = "fill" /\ pc'[t] \in {"flush", "ret"}
     \/ pc[t] = "addleft" /\ pc'[t] = "level"

LEMMA KeyWrites ==
  ASSUME IndInv, NEW t \in Foreground, Fills(t) \/ InsertLeft(t)
  PROVE  KeyWrote(t, loc[t].lp)
<1>1. TypeOK /\ t \in Thread /\ loc[t].lp \in LnodeId
  BY LocalFields DEF IndInv, Thread
<1> DEFINE m == [loc[t].meta EXCEPT !.bitmap = @ \cup {loc[t].key}]
<1>2. /\ UNCHANGED <<tree_root, root_level, ent, ninode, nleaf, version,
                     job_queue>>
      /\ tail' = tail
      /\ meta' = [meta EXCEPT ![loc[t].lp] = m]
      /\ loc' = [loc EXCEPT ![t].meta = m]
      /\ \/ pc[t] = "fill" /\ pc'[t] \in {"flush", "ret"}
         \/ pc[t] = "addleft" /\ pc'[t] = "level"
  BY <1>1
  DEF Fills, FillSlot, FillOnly, InsertLeft, search_layer, Goto, TypeOK,
      ThreadTypeOK
<1>3. /\ m.bitmap = loc[t].meta.bitmap \cup {loc[t].key}
      /\ m.alt = loc[t].meta.alt
  BY <1>1, LocalFields DEF LnodeMeta
<1> HIDE DEF m
<1>4. /\ meta'[loc[t].lp] = m
      /\ \A x \in LnodeId : x # loc[t].lp => meta'[x] = meta[x]
      /\ loc'[t] = [loc[t] EXCEPT !.meta = m]
  BY <1>1, <1>2 DEF TypeOK, LeafTypeOK, ThreadTypeOK
<1>5. /\ loc'[t].lp = loc[t].lp /\ loc'[t].key = loc[t].key
      /\ loc'[t].ptr = loc[t].ptr
      /\ loc'[t].path = loc[t].path /\ loc'[t].sep = loc[t].sep
  BY <1>1, <1>4, LocalFields DEF Local
<1> QED
  BY <1>1, <1>2, <1>3, <1>4, <1>5 DEF KeyWrote

\* t's new leaf n has the upper half of l, the key being inserted if it is
\* above sk, and l's next leaf; the copy of l's meta has the lower half.
NewLeafWrote(t, n, l, sk) ==
  /\ n # l /\ n \in LnodeId /\ l \in LnodeId
  /\ meta'[n].bitmap = {b \in meta[l].bitmap : b >= sk} \cup
       IF t \in Foreground /\ loc[t].key > sk THEN {loc[t].key} ELSE {}
  /\ nextSibling(n)' = nextSibling(l)
  /\ meta'[l] = meta[l] /\ tail'[l][1 - meta[l].alt] = n
  /\ tail'[l][meta[l].alt] = tail[l][meta[l].alt]
  /\ loc'[t].meta.bitmap = {b \in meta[l].bitmap : b < sk}
  /\ loc'[t].meta.alt = 1 - meta[l].alt
  /\ loc'[t].key = loc[t].key /\ loc'[t].path = loc[t].path
  /\ version' = [version EXCEPT ![l] = NextVersion(@)]
  /\ job_queue' = job_queue
  /\ \A x \in LnodeId : x # n => meta'[x] = meta[x]
  /\ \A x \in LnodeId : x # n /\ x # l => tail'[x] = tail[x]

LEMMA NewLeafWrites ==
  ASSUME IndInv, NEW t \in Thread, SplitBuild(t), NEW l, l = loc[t].lp,
         NEW n, n = nleaf
  PROVE  \E sk : BuildWrote(t, n, l, sk) /\ NewLeafWrote(t, n, l, sk)
<1>1. TypeOK /\ OthersStay(t) /\ LeafAllocated /\ l \in LnodeId /\ nleaf \in Nat
      /\ LeafKnown(t)
  BY StepStays, LocalFields, LeafNumbers
  DEF Step, NextStep, SplitStep, IndInv, LeafInv
<1>2. PICK sk \in meta[l].bitmap :
        /\ IsSplitKey(sk, meta[l].bitmap)
        /\ meta' = [meta EXCEPT ![n] =
             [bitmap |-> {y \in meta[l].bitmap : y >= sk} \cup
                           (IF t \in Foreground /\ loc[t].key > sk
                              THEN {loc[t].key} ELSE {}),
              lock |-> FALSE, alt |-> 0]]
        /\ tail' = LinkNew(l, meta[l].alt, n)
        /\ version' = [version EXCEPT ![l] = NextVersion(@)]
        /\ nleaf' = n + 1
        /\ loc' = [loc EXCEPT
             ![t].meta = [loc[t].meta EXCEPT
                !.bitmap = @ \ {y \in meta[l].bitmap : y >= sk},
                !.alt = 1 - meta[l].alt],
             ![t].sep = sk, ![t].ptr = n]
  BY DEF SplitBuild
<1> DEFINE mm == [loc[t].meta EXCEPT
                !.bitmap = @ \ {y \in meta[l].bitmap : y >= sk},
                !.alt = 1 - meta[l].alt]
           nm == [bitmap |-> {y \in meta[l].bitmap : y >= sk} \cup
                           (IF t \in Foreground /\ loc[t].key > sk
                              THEN {loc[t].key} ELSE {}),
                  lock |-> FALSE, alt |-> 0]
<1>3. /\ pc[t] = "build" /\ nleaf < MaxLeaf /\ job_queue' = job_queue
      /\ UNCHANGED <<tree_root, root_level, ent, ninode>>
      /\ pc'[t] = "publish"
  BY <1>1 DEF SplitBuild, search_layer, Goto, TypeOK, ThreadTypeOK
<1>4. /\ mm.bitmap = loc[t].meta.bitmap \ {y \in meta[l].bitmap : y >= sk}
      /\ mm.alt = 1 - meta[l].alt
      /\ nm.alt = 0
      /\ nm.bitmap = {y \in meta[l].bitmap : y >= sk} \cup
            (IF t \in Foreground /\ loc[t].key > sk
               THEN {loc[t].key} ELSE {})
  BY <1>1, LocalFields DEF LnodeMeta
<1>5. meta' = [meta EXCEPT ![n] = nm]
      /\ loc' = [loc EXCEPT ![t].meta = mm, ![t].sep = sk, ![t].ptr = n]
  BY <1>2
<1> HIDE DEF mm, nm
<1>6. HoldsLeaf(t) /\ ~Carries(t)
  BY <1>3 DEF HoldsLeaf, Carries
<1>7. l < nleaf /\ l \in Nat /\ n \in LnodeId /\ n \in Nat /\ n # l
  BY <1>1, <1>3, <1>6, Constants DEF LeafAllocated, LnodeId
<1>8. /\ sk \in Key /\ sk \in Int /\ meta[l].bitmap \subseteq Key
      /\ meta[l].alt \in {0, 1}
      /\ \A b \in meta[l].bitmap : b \in Int
  BY <1>1, Constants DEF TypeOK, LeafTypeOK, LnodeMeta
<1>9. /\ loc'[t] = [loc[t] EXCEPT !.meta = mm, !.sep = sk, !.ptr = n]
  BY <1>1, <1>5 DEF TypeOK, ThreadTypeOK
<1>10. /\ loc'[t].meta = mm /\ loc'[t].sep = sk /\ loc'[t].ptr = n
       /\ loc'[t].lp = loc[t].lp /\ loc'[t].key = loc[t].key
       /\ loc'[t].path = loc[t].path
  BY <1>1, <1>9, LocalFields DEF Local
<1>11. /\ meta'[n] = nm /\ \A x \in LnodeId : x # n => meta'[x] = meta[x]
  BY <1>1, <1>5, <1>7 DEF TypeOK, LeafTypeOK
<1>12. /\ tail'[n][0] = tail[l][meta[l].alt]
       /\ tail'[l][1 - meta[l].alt] = n
       /\ tail'[l][meta[l].alt] = tail[l][meta[l].alt]
       /\ \A x \in LnodeId : x # n /\ x # l => tail'[x] = tail[x]
  <2>1. tail' = [tail EXCEPT ![n][0] = tail[l][meta[l].alt],
                             ![l][1 - meta[l].alt] = n]
    BY <1>2 DEF LinkNew
  <2>2. meta[l].alt = 0 \/ meta[l].alt = 1
    BY <1>8
  <2>3. /\ tail \in [LnodeId -> [{0, 1} -> LnodeId \cup {Null}]]
        /\ 1 - 0 = 1 /\ 1 - 1 = 0
    BY <1>1 DEF TypeOK, LeafTypeOK
  <2>4. CASE meta[l].alt = 0
    BY <1>1, <1>7, <2>1, <2>3, <2>4
  <2>5. CASE meta[l].alt = 1
    BY <1>1, <1>7, <2>1, <2>3, <2>5
  <2> QED
    BY <2>2, <2>4, <2>5
<1>13. nextSibling(n)' = nextSibling(l)
  BY <1>4, <1>11, <1>12 DEF nextSibling
<1>14. loc'[t].meta.bitmap = {b \in meta[l].bitmap : b < sk}
  <2>1. loc[t].meta.bitmap = meta[l].bitmap
    BY <1>1, <1>2, <1>3 DEF LeafKnown
  <2> QED
    BY <1>4, <1>8, <1>10, <2>1
<1>15. NewLeafWrote(t, n, l, sk)
  BY <1>1, <1>2, <1>3, <1>4, <1>7, <1>10, <1>11, <1>12, <1>13, <1>14 DEF NewLeafWrote
<1>16. ~Bears(t) /\ Bears(t)' /\ BornAt(t)' = -1 /\ Origin(t)' = l
  BY <1>3, <1>10 DEF Bears, Carries, BornAt, Origin
<1>17. BuildWrote(t, n, l, sk)
  BY <1>1, <1>2, <1>3, <1>6, <1>7, <1>8, <1>10, <1>16 DEF BuildWrote
<1> QED
  BY <1>15, <1>17

\* One store of t's copy of meta links the new leaf.
PublishWrote(t) ==
  /\ pc[t] = "publish" /\ loc'[t] = loc[t] /\ loc[t].lp \in LnodeId
  /\ UNCHANGED <<tree_root, root_level, ent, ninode, nleaf, version, job_queue>>
  /\ tail' = tail
  /\ meta'[loc[t].lp] = loc[t].meta
  /\ \A x \in LnodeId : x # loc[t].lp => meta'[x] = meta[x]
  /\ pc'[t] = IF t \in Worker THEN "locate"
              ELSE IF loc[t].key <= loc[t].sep THEN "addleft" ELSE "level"

LEMMA PublishWrites ==
  ASSUME IndInv, NEW t \in Thread, SplitPublish(t)
  PROVE  PublishWrote(t)
<1>1. TypeOK /\ loc[t].lp \in LnodeId
  BY LocalFields DEF IndInv
<1>2. /\ pc[t] = "publish" /\ loc' = loc
      /\ UNCHANGED <<tree_root, root_level, ent, ninode, nleaf, version,
                     job_queue>>
      /\ tail' = tail
      /\ meta' = [meta EXCEPT ![loc[t].lp] = loc[t].meta]
      /\ pc'[t] = IF t \in Worker THEN "locate"
                  ELSE IF loc[t].key <= loc[t].sep THEN "addleft" ELSE "level"
  BY <1>1 DEF SplitPublish, search_layer, Goto, TypeOK, ThreadTypeOK
<1>3. /\ meta'[loc[t].lp] = loc[t].meta
      /\ \A x \in LnodeId : x # loc[t].lp => meta'[x] = meta[x]
  BY <1>1, <1>2 DEF TypeOK, LeafTypeOK
<1> QED
  BY <1>1, <1>2, <1>3 DEF PublishWrote

LEMMA OwnLeaves ==
  ASSUME IndInv, NEW t \in Thread, Step(t)
  PROVE  OwnLeafOnly(t)
<1>1. TypeOK
  BY DEF IndInv
<1>2. CASE Elsewhere(t)
  BY <1>1, <1>2, ElsewhereStep DEF OwnLeafOnly, SameLeaf
<1>3. CASE t \in Foreground /\ (FindLeaf(t) \/ PushJob(t))
  BY <1>3, FindWrites, PushWrites DEF FindWrote, OwnLeafOnly, LeavesStay
<1>4. CASE t \in Worker /\ (PopJob(t) \/ SplitLock(t) \/ TakeLeaf(t)
                              \/ SplitUnlock(t))
  <2>1. LeavesStay
    BY <1>4, PopWrites, LockWrites, TakeWrites, UnlockWrites
    DEF PopWrote, LockWrote, TakeWrote
  <2> QED
    BY <2>1 DEF OwnLeafOnly, LeavesStay
<1>5. CASE t \in Foreground /\ (Fills(t) \/ InsertLeft(t))
  <2>1. KeyWrote(t, loc[t].lp)
    BY <1>5, KeyWrites
  <2>2. HoldsLeaf(t)
    BY <1>5, <2>1 DEF KeyWrote, HoldsLeaf
  <2> QED
    BY <2>1, <2>2 DEF OwnLeafOnly, KeyWrote, SameLeaf
<1>6. CASE SplitBuild(t)
  <2>1. PICK sk : /\ BuildWrote(t, nleaf, loc[t].lp, sk)
                  /\ NewLeafWrote(t, nleaf, loc[t].lp, sk)
    BY <1>6, NewLeafWrites
  <2> QED
    BY <2>1, SMTT(30) DEF OwnLeafOnly, BuildWrote, NewLeafWrote, SameLeaf
<1>7. CASE SplitPublish(t)
  <2>1. PublishWrote(t)
    BY <1>7, PublishWrites
  <2>2. HoldsLeaf(t)
    BY <2>1 DEF PublishWrote, HoldsLeaf
  <2> QED
    BY <2>1, <2>2 DEF OwnLeafOnly, PublishWrote, SameLeaf
<1> QED
  BY <1>2, <1>3, <1>4, <1>5, <1>6, <1>7, StepCases

\* A thread's leaf and the new leaf it carries are nobody else's to change.
LEMMA OthersLeaves ==
  ASSUME IndInv, ShapeInv, NEW t \in Thread, Step(t), NEW u \in Thread, u # t
  PROVE  /\ HoldsLeaf(u) => SameLeaf(loc[u].lp)
         /\ Carries(u) => SameLeaf(loc[u].ptr)
<1>1. /\ TypeOK /\ OwnLeafOnly(t) /\ LeafLockOwner /\ LeafAllocated
      /\ LeafAlone /\ CarriedLeaf /\ nleaf \in Nat
      /\ loc[u].lp \in LnodeId /\ PtrTypeOK(u)
  BY Parts, OwnLeaves, LocalFields, LeafNumbers
<1>2. ASSUME HoldsLeaf(u) PROVE SameLeaf(loc[u].lp)
  <2>1. loc[u].lp # nleaf
    BY <1>1, <1>2 DEF LeafAllocated
  <2>2. ~(HoldsLeaf(t) /\ loc[u].lp = loc[t].lp)
    BY <1>1, <1>2 DEF LeafLockOwner
  <2> QED
    BY <1>1, <2>1, <2>2 DEF OwnLeafOnly
<1>3. ASSUME Carries(u) PROVE SameLeaf(loc[u].ptr)
  <2>1. loc[u].ptr \in LnodeId
    BY <1>1, <1>3 DEF PtrTypeOK, Carries, ChildId
  <2>2. loc[u].ptr # nleaf
    BY <1>1, <1>3 DEF CarriedLeaf
  <2>3. ~(HoldsLeaf(t) /\ loc[u].ptr = loc[t].lp)
    BY <1>1, <1>3 DEF LeafAlone, Uses
  <2> QED
    BY <1>1, <2>1, <2>2, <2>3 DEF OwnLeafOnly
<1> QED
  BY <1>2, <1>3

\* A step does not change which inodes the others hold.
LEMMA OthersHold ==
  ASSUME IndInv, ShapeInv, NEW t \in Thread, Step(t), NEW u \in Thread, u # t
  PROVE  SameClimb(u)
<1>1. /\ pc'[u] = pc[u] /\ loc'[u] = loc[u]
  BY StepStays DEF OthersStay, IndInv
<1>2. HoldsLeaf(u) => SameLeaf(loc[u].lp)
  BY OthersLeaves
<1>3. HoldsPath(u)' <=> HoldsPath(u)
  <2>1. pc[u] = "copy" => HoldsLeaf(u)
    BY DEF HoldsLeaf
  <2>2. pc[u] = "copy" => (isFull(loc[u].lp)' <=> isFull(loc[u].lp))
    BY <1>1, <1>2, <2>1 DEF SameLeaf, isFull
  <2> QED
    BY <1>1, <2>2 DEF HoldsPath
<1> QED
  BY <1>1, <1>3 DEF SameClimb

-----------------------------------------------------------------------------
(* A leaf a thread splits stays its own.                                   *)

\* The second conjunct of LeafAlone.
CarriesAlone(t) ==
  Carries(t) =>
    /\ loc[t].lp < nleaf
    /\ ~Pending(loc[t].lp, version[loc[t].lp])
    /\ \A u \in Thread : Uses(u) \/ pc[u] \in {"flush", "lock"} =>
         loc[u].lp # loc[t].ptr
    /\ \A job \in job_queue : job[1] # loc[t].ptr

LEMMA AloneStep ==
  ASSUME LeafAlone, NEW t \in Thread, OthersStay(t), nleaf <= nleaf',
         nleaf \in Nat, nleaf' \in Nat,
         \A u \in Thread : Carries(u) => loc[u].lp \in Nat,
         \A u \in Thread : u # t /\ Uses(u) /\ Uses(t)' =>
           loc'[t].lp # loc[u].lp,
         \A u \in Thread : u # t /\ Carries(u) =>
           /\ Uses(t)' \/ pc'[t] \in {"flush", "lock"} =>
                loc'[t].lp # loc[u].ptr
           /\ version'[loc[u].lp] = version[loc[u].lp]
           /\ \A job \in job_queue' : job[1] # loc[u].ptr,
         \A l, v : Pending(l, v)' =>
           Pending(l, v) \/ \A u \in Thread \ {t} : Carries(u) => loc[u].lp # l,
         CarriesAlone(t)'
  PROVE  LeafAlone'
<1>1. \A u \in Thread : u # t =>
        /\ pc'[u] = pc[u] /\ loc'[u] = loc[u]
        /\ Uses(u)' <=> Uses(u)
        /\ Carries(u)' <=> Carries(u)
  BY DEF OthersStay, Uses, HoldsLeaf, Carries
<1>2. \A u, w \in Thread : u # w /\ Uses(u)' /\ Uses(w)' => loc'[u].lp # loc'[w].lp
  BY <1>1 DEF LeafAlone
<1>3. ASSUME NEW u \in Thread, u # t PROVE CarriesAlone(u)'
  <2> SUFFICES ASSUME Carries(u)'
               PROVE  /\ loc'[u].lp < nleaf'
                      /\ ~Pending(loc[u].lp, version[loc[u].lp])'
                      /\ \A w \in Thread : Uses(w)' \/ pc'[w] \in {"flush", "lock"}
                           => loc'[w].lp # loc'[u].ptr
                      /\ \A job \in job_queue' : job[1] # loc'[u].ptr
    BY DEF CarriesAlone
  <2>1. Carries(u) /\ loc'[u].lp = loc[u].lp /\ loc'[u].ptr = loc[u].ptr
    BY <1>1, <1>3
  <2>2. loc[u].lp < nleaf'
    BY <2>1 DEF LeafAlone
  <2>3. PICK l, v : l = loc[u].lp /\ v = version[loc[u].lp]
    OBVIOUS
  <2>4. ~Pending(l, v)'
    BY <1>3, <2>1, <2>3 DEF LeafAlone
  <2>5. loc'[u].lp = l /\ version'[loc'[u].lp] = v
    BY <1>3, <2>1, <2>3
  <2>6. ~Pending(loc[u].lp, version[loc[u].lp])'
    BY <2>4, <2>5 DEF Pending
  <2>7. \A w \in Thread : Uses(w)' \/ pc'[w] \in {"flush", "lock"}
                           => loc'[w].lp # loc[u].ptr
    BY <1>1, <1>3, <2>1 DEF LeafAlone
  <2> QED
    BY <1>3, <2>1, <2>2, <2>6, <2>7
<1>4. \A u \in Thread : CarriesAlone(u)'
  BY <1>3
<1> QED
  BY <1>2, <1>4 DEF LeafAlone, CarriesAlone

\* The steps that take neither a leaf nor a job, and add no leaf.
LEMMA AloneKept ==
  ASSUME IndInv, ShapeInv, NEW t \in Thread, OthersStay(t),
         UNCHANGED <<nleaf, version>>,
         Uses(t)' => Uses(t) /\ loc'[t].lp = loc[t].lp,
         pc'[t] \in {"flush", "lock"} =>
           Uses(t) /\ ~Carries(t) /\ loc'[t].lp = loc[t].lp,
         Carries(t)' => Carries(t) /\ loc'[t].ptr = loc[t].ptr,
         pc'[t] # "lock",
         \A job \in job_queue' :
           \/ job \in job_queue
           \/ pc[t] = "flush" /\ FilledLeaf(t) /\ job = Job(t)
  PROVE  LeafAlone'
<1>1. /\ LeafAlone /\ nleaf \in Nat
      /\ \A u \in Thread : loc[u].lp \in Nat
      /\ \A u \in Thread : Carries(u) => CarriesAlone(u)
      /\ \A job \in job_queue : job = <<job[1], job[2]>>
  BY Parts, LocalFields, LeafNumbers DEF LeafAlone, CarriesAlone
<1>2. \A l, v : <<l, v>> \in job_queue' => Pending(l, v)
  <2> SUFFICES ASSUME NEW l, NEW v, <<l, v>> \in job_queue'
               PROVE  Pending(l, v)
    OBVIOUS
  <2>1. CASE <<l, v>> \in job_queue
    BY <2>1 DEF Pending
  <2>2. CASE pc[t] = "flush" /\ FilledLeaf(t) /\ <<l, v>> = Job(t)
    BY <2>2 DEF Pending, Job
  <2> QED
    BY <2>1, <2>2
<1>3. \A l, v : Pending(l, v)' =>
        \/ Pending(l, v)
        \/ Uses(t) /\ ~Carries(t) /\ l = loc[t].lp
  BY <1>2, PendingStep
<1>4. \A u \in Thread : u # t /\ Uses(u) /\ Uses(t)' => loc'[t].lp # loc[u].lp
  BY <1>1 DEF LeafAlone
<1>5. \A u \in Thread : Carries(u) => \A job \in job_queue' : job[1] # loc[u].ptr
  <2> SUFFICES ASSUME NEW u \in Thread, Carries(u), NEW job \in job_queue'
               PROVE  job[1] # loc[u].ptr
    OBVIOUS
  <2>1. CASE job \in job_queue
    BY <1>1, <2>1 DEF LeafAlone
  <2>2. CASE pc[t] = "flush" /\ job = Job(t)
    <3>1. job[1] = loc[t].lp
      BY <2>2 DEF Job
    <3> QED
      BY <1>1, <2>2, <3>1 DEF LeafAlone
  <2> QED
    BY <2>1, <2>2
<1>6. ASSUME NEW u \in Thread, u # t, Carries(u)
      PROVE  /\ Uses(t)' \/ pc'[t] \in {"flush", "lock"} =>
                  loc'[t].lp # loc[u].ptr
             /\ version'[loc[u].lp] = version[loc[u].lp]
  BY <1>1, <1>6 DEF LeafAlone
<1>7. \A l, v : Pending(l, v)' =>
        Pending(l, v) \/ \A u \in Thread \ {t} : Carries(u) => loc[u].lp # l
  <2> SUFFICES ASSUME NEW l, NEW v, Uses(t), l = loc[t].lp,
                      NEW u \in Thread \ {t}, Carries(u)
               PROVE  loc[u].lp # l
    BY <1>3
  <2> QED
    BY <1>1 DEF LeafAlone, Uses
<1>8. CarriesAlone(t)'
  <2> SUFFICES ASSUME Carries(t)'
               PROVE  /\ loc'[t].lp < nleaf'
                      /\ ~Pending(loc[t].lp, version[loc[t].lp])'
                      /\ \A w \in Thread : Uses(w)' \/ pc'[w] \in {"flush", "lock"}
                           => loc'[w].lp # loc'[t].ptr
                      /\ \A job \in job_queue' : job[1] # loc'[t].ptr
    BY DEF CarriesAlone
  <2>1. /\ Carries(t) /\ loc'[t].ptr = loc[t].ptr /\ loc'[t].lp = loc[t].lp
        /\ Uses(t) /\ pc'[t] # "flush"
    BY DEF Uses, Carries
  <2>2. loc[t].lp < nleaf' /\ version' = version
    BY <1>1, <2>1 DEF LeafAlone
  <2>3. PICK l, v : l = loc[t].lp /\ v = version[loc[t].lp]
    OBVIOUS
  <2>4. ~Pending(l, v)'
    BY <1>1, <1>3, <2>1, <2>3 DEF LeafAlone
  <2>5. loc'[t].lp = l /\ version'[loc'[t].lp] = v
    BY <2>1, <2>2, <2>3
  <2>6. ~Pending(loc[t].lp, version[loc[t].lp])'
    BY <2>4, <2>5 DEF Pending
  <2>7. ASSUME NEW w \in Thread, Uses(w)' \/ pc'[w] \in {"flush", "lock"}
        PROVE  loc'[w].lp # loc[t].ptr
    <3>1. CASE w = t
      BY <1>1, <2>1, <3>1 DEF LeafAlone
    <3>2. CASE w # t
      <4>1. /\ pc'[w] = pc[w] /\ loc'[w] = loc[w] /\ (Uses(w)' <=> Uses(w))
        BY <3>2 DEF OthersStay, Uses, HoldsLeaf, Carries
      <4> QED
        BY <1>1, <2>1, <2>7, <4>1 DEF LeafAlone
    <3> QED
      BY <3>1, <3>2
  <2> QED
    BY <1>5, <2>1, <2>2, <2>6, <2>7
<1> QED
  <2>1. nleaf <= nleaf' /\ nleaf' \in Nat
    BY <1>1
  <2> QED
    BY <1>1, <1>4, <1>5, <1>6, <1>7, <1>8, <2>1, AloneStep

\* A new leaf is carried from the step that builds it.
LEMMA CarriesStep ==
  ASSUME TypeOK, NEW t \in Thread, Step(t), ~SplitBuild(t), Carries(t)'
  PROVE  Carries(t) /\ loc'[t].ptr = loc[t].ptr /\ loc'[t].lp = loc[t].lp
<1>1. /\ pc \in [Thread -> ForegroundLabel \cup WorkerLabel]
      /\ loc \in [Thread -> Local] /\ loc[t].lev \in Nat
  BY LocalFields, Constants DEF TypeOK, ThreadTypeOK
<1>2. CASE SplitPublish(t) \/ InsertLeft(t) \/ FindInode(t) \/ ReadLevel(t)
  <2>1. pc[t] \in {"publish", "addleft", "locate", "level"}
    BY <1>2 DEF SplitPublish, InsertLeft, FindInode, ReadLevel
  <2>2. /\ loc'[t].ptr = loc[t].ptr /\ loc'[t].lp = loc[t].lp
    BY <1>1, <1>2
    DEF SplitPublish, InsertLeft, FindInode, ReadLevel, Local
  <2> QED
    BY <2>1, <2>2 DEF Carries
<1>3. CASE SplitInode(t)
  <2>1. loc'[t].lev = loc[t].lev + 1
    BY <1>1, <1>3 DEF SplitInode, Local
  <2>2. loc'[t].lev # 0 /\ pc'[t] \in {"inode", "grow"}
    BY <1>1, <1>3, <2>1 DEF SplitInode, Goto
  <2> QED
    BY <2>2 DEF Carries
<1>4. CASE \/ Call(t) \/ SearchLnode(t) \/ ReadCh(t) \/ FindLeaf(t) \/ Return(t)
           \/ CopyMeta(t) \/ Fills(t) \/ PushJob(t) \/ PopJob(t)
           \/ SplitLock(t) \/ TakeLeaf(t) \/ SplitCopy(t) \/ SplitUnlock(t)
           \/ UnlockOldRoot(t) \/ UnlockNewRoot(t) \/ InsertInode(t)
           \/ GrowRoot(t) \/ GrowSecondStore(t)
  <2>1. pc'[t] \notin {"publish", "locate", "addleft", "level", "inode"}
    BY <1>1, <1>4
    DEF Call, SearchLnode, ReadCh, FindLeaf, Return, CopyMeta, Fills, FillSlot,
        FillOnly, PushJob, PopJob, SplitLock, TakeLeaf, SplitCopy, SplitUnlock,
        UnlockOldRoot,
        UnlockNewRoot, InsertInode, GrowRoot, GrowSecondStore, Goto,
        SearchResult, Done
  <2> QED
    BY <2>1 DEF Carries
<1> QED
  BY <1>2, <1>3, <1>4
  DEF Step, NextStep, ClientStep, WorkerStep, SplitStep, Fills

\* Every step but five keeps it.
LEMMA AloneMost ==
  ASSUME IndInv, ShapeInv, NEW t \in Thread, Step(t), ~SplitBuild(t),
         ~(t \in Foreground /\ FindLeaf(t)),
         ~(t \in Worker /\ (PopJob(t) \/ SplitLock(t) \/ TakeLeaf(t)))
  PROVE  LeafAlone'
<1>1. TypeOK /\ OthersStay(t)
  BY Parts, StepStays
<1>2. Carries(t)' => /\ Carries(t) /\ loc'[t].ptr = loc[t].ptr
                     /\ loc'[t].lp = loc[t].lp
  BY <1>1, CarriesStep
<1>3. CASE Elsewhere(t)
  <2>1. /\ UNCHANGED <<nleaf, version>> /\ job_queue' = job_queue
        /\ HoldsLeaf(t)' => HoldsLeaf(t) /\ loc'[t].lp = loc[t].lp
        /\ pc'[t] \notin {"flush", "lock"}
    BY <1>1, <1>3, ElsewhereStep
  <2>2. Uses(t)' => Uses(t) /\ loc'[t].lp = loc[t].lp
    BY <1>2, <2>1 DEF Uses
  <2> QED
    BY <1>1, <1>2, <2>1, <2>2, AloneKept
<1>4. CASE t \in Foreground /\ PushJob(t)
  <2>1. /\ pc[t] = "flush" /\ pc'[t] = "ret" /\ LeavesStay
        /\ UNCHANGED version
        /\ \A j \in job_queue' :
             j \in job_queue \/ (FilledLeaf(t) /\ j = Job(t))
    BY <1>4, PushWrites
  <2>2. ~Uses(t)' /\ ~Carries(t)'
    BY <1>4, <2>1 DEF Uses, HoldsLeaf, Carries
  <2> QED
    BY <1>1, <2>1, <2>2, AloneKept DEF LeavesStay
<1>5. CASE t \in Worker /\ SplitUnlock(t)
  <2>1. /\ pc'[t] = "pop" /\ nleaf' = nleaf
        /\ UNCHANGED version /\ job_queue' = job_queue
    BY <1>5, UnlockWrites DEF LeavesStay
  <2>2. ~Uses(t)' /\ ~Carries(t)'
    BY <1>5, <2>1, Constants DEF Uses, HoldsLeaf, Carries
  <2> QED
    BY <1>1, <2>1, <2>2, AloneKept
<1>6. CASE t \in Foreground /\ (Fills(t) \/ InsertLeft(t))
  <2>1. KeyWrote(t, loc[t].lp)
    BY <1>6, KeyWrites
  <2>2. /\ Uses(t) /\ loc'[t].lp = loc[t].lp /\ nleaf' = nleaf
        /\ UNCHANGED version /\ job_queue' = job_queue
        /\ pc'[t] \in {"flush", "ret", "level"}
        /\ pc'[t] = "flush" => ~Carries(t)
    BY <1>6, <2>1 DEF KeyWrote, Uses, HoldsLeaf, Carries
  <2> QED
    BY <1>1, <1>2, <2>2, AloneKept
<1>7. CASE SplitPublish(t)
  <2>1. PublishWrote(t)
    BY <1>7, PublishWrites
  <2>2. /\ Uses(t) /\ loc'[t].lp = loc[t].lp /\ nleaf' = nleaf
        /\ UNCHANGED version /\ job_queue' = job_queue
        /\ pc'[t] \notin {"flush", "lock"}
    BY <2>1 DEF PublishWrote, Uses, Carries
  <2> QED
    BY <1>1, <1>2, <2>2, AloneKept
<1> QED
  BY <1>3, <1>4, <1>5, <1>6, <1>7, StepCases

\* The leaf a search of the tree ends at is carried by nobody.
LEMMA FoundNotCarried ==
  ASSUME IndInv, ShapeInv, NEW low \in Bounds, TreeOrder(low), NEW key \in Key,
         NEW p \in Descents(key), NEW c, c = LeafFor(p, key),
         NEW u \in Thread, Carries(u)
  PROVE  loc[u].ptr # c
<1>1. TypeOK /\ Linked /\ CarriedLeaf
  BY Parts
<1>2. PICK x, j : x = p[0] /\ j = ChildPos(<<0, x>>, key) + 1
  OBVIOUS
<1>3. 0 \in Level /\ x \in InodeNum /\ ChildAt(0, x, j, c)
  BY <1>2, BottomLast
<1>4. /\ Len(ent[<<0, x>>].ch) = Size(0, x) + 1
      /\ ent[<<0, x>>].ch \in Seq(ChildId(0))
      /\ \A m \in 1..(Size(0, x) + 1) : m \in ChildPlace
  BY <1>1, <1>3, Entries
<1>5. j \in ChildPlace /\ Hangs(c, x, j)
  BY <1>3, <1>4 DEF ChildAt, Kid, Hangs
<1> QED
  BY <1>1, <1>3, <1>5 DEF CarriedLeaf

LEMMA AloneFindLeaf ==
  ASSUME IndInv, ShapeInv, NEW low \in Bounds, TreeOrder(low),
         NEW t \in Foreground, FindLeaf(t)
  PROVE  LeafAlone'
<1>1. /\ TypeOK /\ OthersStay(t) /\ t \in Thread /\ loc[t].key \in Key
      /\ LeafAlone /\ nleaf \in Nat
      /\ \A u \in Thread : loc[u].lp \in Nat
      /\ t \notin Worker
  <2>1. t \in Thread /\ t \notin Worker
    BY Constants DEF Thread
  <2>2. OthersStay(t)
    BY <2>1, Parts, StepStays DEF Step, NextStep, ClientStep
  <2> QED
    BY <2>1, <2>2, Parts, LocalFields, LeafNumbers
<1>2. FindWrote(t)
  BY FindWrites
<1>3. CASE pc'[t] = "ret"
  <2>1. ~Uses(t)' /\ ~Carries(t)'
    BY <1>1, <1>3 DEF Uses, HoldsLeaf, Carries
  <2> QED
    BY <1>1, <1>2, <1>3, <2>1, AloneKept DEF FindWrote, LeavesStay
<1>4. ASSUME NEW p, NEW c, LeafTaken(t, p, c) PROVE LeafAlone'
  <2>1. /\ pc'[t] = "copy" /\ loc'[t].lp = c /\ c = LeafFor(p, loc[t].key)
        /\ p \in Descents(loc[t].key) /\ ~meta[c].lock
        /\ UNCHANGED <<nleaf, version>> /\ job_queue' = job_queue
    BY <1>2, <1>4 DEF LeafTaken, FindWrote, LeavesStay
  <2>2. \A u \in Thread : Uses(u) => loc[u].lp # c
    BY <1>1, <2>1, FreeLeaf, FreeOrigin DEF Uses
  <2>3. \A u \in Thread : Carries(u) => loc[u].ptr # c
    BY <1>1, <2>1, FoundNotCarried
  <2>4. ~Carries(t)'
    BY <2>1 DEF Carries
  <2>5. \A l, v : Pending(l, v)' => Pending(l, v)
    <3>1. \A l, v : <<l, v>> \in job_queue' => Pending(l, v)
      BY <2>1 DEF Pending
    <3> QED
      BY <1>1, <2>1, <3>1, PendingStep
  <2>6. CarriesAlone(t)'
    BY <2>4 DEF CarriesAlone
  <2>7. \A u \in Thread : Carries(u) => \A job \in job_queue' : job[1] # loc[u].ptr
    BY <1>1, <2>1 DEF LeafAlone
  <2>8. nleaf <= nleaf' /\ nleaf' \in Nat
    BY <1>1, <2>1
  <2> QED
    BY <1>1, <2>1, <2>2, <2>3, <2>5, <2>6, <2>7, <2>8, AloneStep
<1> QED
  BY <1>2, <1>3, <1>4 DEF FindWrote

LEMMA AlonePopJob ==
  ASSUME IndInv, ShapeInv, NEW t \in Worker, PopJob(t)
  PROVE  LeafAlone'
<1>1. /\ TypeOK /\ OthersStay(t) /\ t \in Thread
      /\ LeafAlone /\ nleaf \in Nat
      /\ \A u \in Thread : loc[u].lp \in Nat
      /\ \A job \in job_queue : job = <<job[1], job[2]>>
      /\ t \notin Foreground
  <2>1. t \in Thread /\ t \notin Foreground
    BY Constants DEF Thread
  <2>2. OthersStay(t)
    BY <2>1, Parts, StepStays DEF Step, NextStep, WorkerStep
  <2> QED
    BY <2>1, <2>2, Parts, LocalFields, LeafNumbers
<1>2. PICK j : PopWrote(t, j)
  BY PopWrites
<1>3. /\ pc'[t] = "lock" /\ loc'[t].lp = j[1] /\ loc'[t].version = j[2]
      /\ UNCHANGED <<nleaf, version>>
      /\ j \in job_queue /\ job_queue' = job_queue \ {j}
  BY <1>2 DEF PopWrote, LeavesStay
<1>4. ~Uses(t)' /\ ~Carries(t)'
  BY <1>1, <1>3 DEF Uses, HoldsLeaf, Carries
<1>5. \A l, v : Pending(l, v)' => Pending(l, v)
  <2>1. \A l, v : <<l, v>> \in job_queue => Pending(l, v)
    BY DEF Pending
  <2>2. Pending(j[1], j[2])
    BY <1>1, <1>3, <2>1
  <2>3. \A l, v : <<l, v>> \in job_queue' => Pending(l, v)
    BY <1>3, <2>1
  <2>4. ASSUME NEW l, NEW v, Pending(l, v)' PROVE Pending(l, v)
    <3>1. CASE loc'[t].lp = l /\ loc'[t].version = v
      BY <1>3, <2>2, <3>1
    <3>2. CASE ~(loc'[t].lp = l /\ loc'[t].version = v)
      BY <1>1, <2>3, <2>4, <3>2, PendingStep
    <3> QED
      BY <3>1, <3>2
  <2> QED
    BY <2>4
<1>6. CarriesAlone(t)'
  BY <1>4 DEF CarriesAlone
<1>7. \A u \in Thread : Carries(u) =>
        /\ loc'[t].lp # loc[u].ptr
        /\ \A job \in job_queue' : job[1] # loc[u].ptr
  BY <1>1, <1>3 DEF LeafAlone
<1>8. nleaf <= nleaf' /\ nleaf' \in Nat
  BY <1>1, <1>3
<1> QED
  BY <1>1, <1>3, <1>4, <1>5, <1>6, <1>7, <1>8, AloneStep

\* A job with the leaf's version is for a leaf whose split has not begun.
LEMMA AloneSplitLock ==
  ASSUME IndInv, ShapeInv, NEW t \in Worker, SplitLock(t)
  PROVE  LeafAlone'
<1>1. /\ TypeOK /\ OthersStay(t) /\ t \in Thread
      /\ LeafAlone /\ nleaf \in Nat /\ LeafLockOwner /\ JobsOK
      /\ \A u \in Thread : loc[u].lp \in Nat
      /\ loc[t].lp \in LnodeId /\ loc[t].version \in Version
      /\ t \notin Foreground
  <2>1. t \in Thread /\ t \notin Foreground
    BY Constants DEF Thread
  <2>2. OthersStay(t) /\ JobsOK
    BY <2>1, Parts, StepStays DEF Step, NextStep, WorkerStep, IndInv, LeafInv
  <2> QED
    BY <2>1, <2>2, Parts, LocalFields, LeafNumbers
<1>2. LockWrote(t)
  BY LockWrites
<1>3. /\ pc[t] = "lock" /\ UNCHANGED <<nleaf, version>>
      /\ job_queue' = job_queue
  BY <1>2 DEF LockWrote, LeavesStay
<1>4. CASE pc'[t] = "pop"
  <2>1. ~Uses(t)' /\ ~Carries(t)'
    BY <1>1, <1>4 DEF Uses, HoldsLeaf, Carries
  <2> QED
    BY <1>1, <1>3, <1>4, <2>1, AloneKept
<1>5. CASE /\ pc'[t] = "copy" /\ loc'[t] = loc[t] /\ ~meta[loc[t].lp].lock
           /\ version[loc[t].lp] = loc[t].version
  <2>1. PICK l, v : l = loc[t].lp /\ v = loc[t].version
    OBVIOUS
  <2>2. Pending(l, v) /\ v = version[l] /\ l \in LnodeId /\ v \in Version
    BY <1>1, <1>3, <1>5, <2>1 DEF Pending
  <2>3. \A u \in Thread : Carries(u) => loc[u].lp # l /\ loc[u].ptr # l
    BY <1>1, <1>3, <2>1, <2>2 DEF LeafAlone
  <2>4. \A u \in Thread : HoldsLeaf(u) => loc[u].lp # l
    <3> SUFFICES ASSUME NEW u \in Thread, HoldsLeaf(u), loc[u].lp = l
                 PROVE  FALSE
      OBVIOUS
    <3>1. pc[u] = "addleft"
      BY <1>1, <1>5, <2>1 DEF LeafLockOwner
    <3> QED
      BY <1>1, <2>2, <3>1 DEF JobsOK
  <2>5. \A u \in Thread : Uses(u) => loc[u].lp # l
    BY <2>3, <2>4 DEF Uses
  <2>6. ~Carries(t)'
    BY <1>5 DEF Carries
  <2>7. CarriesAlone(t)'
    BY <2>6 DEF CarriesAlone
  <2>8. \A a, b : Pending(a, b)' => Pending(a, b)
    <3>1. \A a, b : <<a, b>> \in job_queue' => Pending(a, b)
      BY <1>3 DEF Pending
    <3> QED
      BY <1>1, <1>5, <3>1, PendingStep
  <2>9. \A u \in Thread : Carries(u) => \A job \in job_queue' : job[1] # loc[u].ptr
    BY <1>1, <1>3 DEF LeafAlone
  <2>10. nleaf <= nleaf' /\ nleaf' \in Nat
    BY <1>1, <1>3
  <2> QED
    BY <1>1, <1>3, <1>5, <2>1, <2>3, <2>5, <2>7, <2>8, <2>9, <2>10, AloneStep
<1> QED
  BY <1>2, <1>4, <1>5 DEF LockWrote

\* A full leaf that is free and not carried is nobody's.
LEMMA AloneTakeLeaf ==
  ASSUME IndInv, ShapeInv, NEW t \in Worker, TakeLeaf(t)
  PROVE  LeafAlone'
<1>1. /\ TypeOK /\ OthersStay(t) /\ t \in Thread
      /\ LeafAlone /\ nleaf \in Nat /\ LeafLockOwner /\ JobsOK
      /\ \A u \in Thread : loc[u].lp \in Nat
      /\ t \notin Foreground
  <2>1. t \in Thread /\ t \notin Foreground
    BY Constants DEF Thread
  <2>2. OthersStay(t) /\ JobsOK
    BY <2>1, Parts, StepStays DEF Step, IndInv, LeafInv
  <2> QED
    BY <2>1, <2>2, Parts, LocalFields, LeafNumbers
<1>2. TakeWrote(t)
  BY TakeWrites
<1>3. PICK l : l = loc'[t].lp
  OBVIOUS
<1>4. /\ pc[t] = "pop" /\ pc'[t] \in {"copy", "unlock"}
      /\ UNCHANGED <<nleaf, version>> /\ job_queue' = job_queue
      /\ l \in LnodeId /\ l < nleaf /\ ~meta[l].lock
      /\ isFull(l) /\ NotCarried(l)
  BY <1>2, <1>3 DEF TakeWrote, LeavesStay, Local
<1>5. \A u \in Thread : Carries(u) => loc[u].lp # l /\ loc[u].ptr # l
  BY <1>4 DEF NotCarried
<1>6. \A u \in Thread : HoldsLeaf(u) => loc[u].lp # l
  BY <1>1, <1>4, <1>5 DEF LeafLockOwner, Carries
<1>7. \A u \in Thread : Uses(u) => loc[u].lp # l
  BY <1>5, <1>6 DEF Uses
<1>8. ~Carries(t)'
  BY <1>1, <1>4 DEF Carries
<1>9. CarriesAlone(t)'
  BY <1>8 DEF CarriesAlone
<1>10. \A a, b : Pending(a, b)' => Pending(a, b)
  <2>1. \A a, b : <<a, b>> \in job_queue' => Pending(a, b)
    BY <1>4 DEF Pending
  <2> QED
    BY <1>1, <1>4, <2>1, PendingStep
<1>11. \A u \in Thread : Carries(u) => \A job \in job_queue' : job[1] # loc[u].ptr
  BY <1>1, <1>4 DEF LeafAlone
<1>12. nleaf <= nleaf' /\ nleaf' \in Nat
  BY <1>1, <1>4
<1> QED
  BY <1>1, <1>3, <1>4, <1>5, <1>7, <1>9, <1>10, <1>11, <1>12, AloneStep

LEMMA AloneSplitBuild ==
  ASSUME IndInv, ShapeInv, NoStaleJob, NEW t \in Thread, NEW l, NEW n, NEW sk,
         n = nleaf, BuildWrote(t, n, l, sk), NewLeafWrote(t, n, l, sk)
  PROVE  LeafAlone'
<1>1. /\ TypeOK /\ OthersStay(t)
      /\ LeafAlone /\ n = nleaf /\ nleaf \in Nat /\ LeafAllocated /\ JobsOK
      /\ \A u \in Thread : loc[u].lp \in Nat
      /\ version \in [LnodeId -> Version] /\ VersionMod \in Nat
      /\ VersionMod >= 1
  BY Parts, LocalFields, LeafNumbers, Constants
  DEF BuildWrote, IndInv, LeafInv, TypeOK, LeafTypeOK
<1>2. /\ l \in LnodeId /\ l \in Nat /\ l < nleaf /\ l = loc[t].lp
      /\ loc'[t].lp = l /\ loc'[t].ptr = nleaf /\ nleaf' = nleaf + 1
      /\ pc'[t] = "publish" /\ HoldsLeaf(t) /\ Uses(t) /\ ~Carries(t)
      /\ job_queue' = job_queue
      /\ version' = [version EXCEPT ![l] = NextVersion(@)]
  BY <1>1, SMTT(30) DEF BuildWrote, NewLeafWrote, Uses
<1>3. \A u \in Thread : u # t /\ Uses(u) => loc[u].lp # l
  BY <1>1, <1>2 DEF LeafAlone
<1>4. \A u \in Thread : Carries(u) => /\ u # t /\ loc[u].ptr # l
                                      /\ Uses(u) /\ loc[u].lp \in LnodeId
  BY <1>1, <1>2, LocalFields DEF LeafAlone, Uses
<1>5. \A a, b : Pending(a, b)' => Pending(a, b)
  <2>1. \A a, b : <<a, b>> \in job_queue' => Pending(a, b)
    BY <1>2 DEF Pending
  <2> QED
    BY <1>1, <1>2, <2>1, PendingStep
<1>6. version'[l] = NextVersion(version[l])
  BY <1>1, <1>2
<1>7. PICK v : v = NextVersion(version[l])
  OBVIOUS
<1>8. ~Pending(l, v)
  BY <1>2, <1>7 DEF NoStaleJob, BuildWrote
<1>9. CarriesAlone(t)'
  <2>1. ~Pending(loc[t].lp, version[loc[t].lp])'
    <3>1. ~Pending(l, v)'
      BY <1>5, <1>8
    <3>2. loc'[t].lp = l /\ version'[loc'[t].lp] = v
      BY <1>2, <1>6, <1>7
    <3> QED
      BY <3>1, <3>2 DEF Pending
  <2>2. loc'[t].lp < nleaf'
    BY <1>1, <1>2
  <2>3. ASSUME NEW w \in Thread, Uses(w)' \/ pc'[w] \in {"flush", "lock"}
        PROVE  loc'[w].lp # loc'[t].ptr
    <3>1. CASE w = t
      BY <1>1, <1>2, <3>1
    <3>2. CASE w # t
      <4>1. /\ pc'[w] = pc[w] /\ loc'[w] = loc[w] /\ (Uses(w)' <=> Uses(w))
        BY <1>1, <3>2 DEF OthersStay, Uses, HoldsLeaf, Carries
      <4>2. loc[w].lp < nleaf
        BY <1>1, <2>3, <4>1 DEF LeafAllocated, LeafAlone, Uses
      <4> QED
        BY <1>1, <1>2, <4>1, <4>2
    <3> QED
      BY <3>1, <3>2
  <2>4. \A job \in job_queue' : job[1] # loc'[t].ptr
    BY <1>1, <1>2 DEF LeafAllocated
  <2> QED
    BY <2>1, <2>2, <2>3, <2>4 DEF CarriesAlone
<1>10. \A u \in Thread : Carries(u) =>
         /\ version'[loc[u].lp] = version[loc[u].lp]
         /\ \A job \in job_queue' : job[1] # loc[u].ptr
  BY <1>1, <1>2, <1>3, <1>4 DEF LeafAlone
<1>11. nleaf <= nleaf' /\ nleaf' \in Nat
  BY <1>1, <1>2
<1> QED
  BY <1>1, <1>2, <1>3, <1>4, <1>5, <1>9, <1>10, <1>11, AloneStep

\* What a thread splits is its own, and no old job can take it away.
LEMMA AloneNext ==
  ASSUME IndInv, ShapeInv, NoStaleJob, NEW low \in Bounds, TreeOrder(low),
         NEW t \in Thread, Step(t)
  PROVE  LeafAlone'
<1>1. CASE SplitBuild(t)
  <2>1. PICK l, n : l = loc[t].lp /\ n = nleaf
    OBVIOUS
  <2>2. PICK sk : BuildWrote(t, n, l, sk) /\ NewLeafWrote(t, n, l, sk)
    BY <1>1, <2>1, NewLeafWrites
  <2> QED
    BY <2>1, <2>2, AloneSplitBuild
<1>2. CASE t \in Foreground /\ FindLeaf(t)
  BY <1>2, AloneFindLeaf
<1>3. CASE t \in Worker /\ (PopJob(t) \/ SplitLock(t) \/ TakeLeaf(t))
  BY <1>3, AlonePopJob, AloneSplitLock, AloneTakeLeaf
<1> QED
  BY <1>1, <1>2, <1>3, AloneMost

-----------------------------------------------------------------------------
(* The path a thread holds.                                                *)

NoPathHeld(t) == ~HoldsPath(t)' /\ pc'[t] \notin Growing \cup {"grow", "unlocknew"}

SamePathHeld(t) ==
  /\ HoldsPath(t) /\ HoldsPath(t)' /\ Low(t) = 0 /\ Low(t)' = 0
  /\ loc'[t].path = loc[t].path /\ loc'[t].lp = loc[t].lp
  /\ pc'[t] \notin Growing \cup {"grow", "unlocknew"} /\ ent' = ent
  /\ pc'[t] = "inode" => loc'[t].lev = 0

PathTook(t, p, key) ==
  /\ key \in Key /\ p \in Descents(key) /\ loc'[t].path = PathTaken(p, key)
  /\ HoldsPath(t)' /\ Low(t)' = 0 /\ ent' = ent
  /\ pc'[t] \in {"copy", "level"}
  /\ \/ loc'[t].lp = LeafFor(p, key)
     \/ loc'[t].lp = loc[t].lp /\ pc[t] = "locate" /\ key = loc[t].sep

LEMMA PathStep ==
  ASSUME IndInv, NEW t \in Thread, Step(t)
  PROVE  \/ NoPathHeld(t)
         \/ SamePathHeld(t)
         \/ \E p, key : PathTook(t, p, key)
         \/ SplitInode(t) \/ GrowRoot(t) \/ GrowSecondStore(t)
         \/ UnlockOldRoot(t)
<1>1. /\ TypeOK /\ (t \in Foreground => t \notin Worker)
      /\ pc \in [Thread -> ForegroundLabel \cup WorkerLabel]
      /\ loc \in [Thread -> Local]
      /\ t \notin Foreground => t \in Worker
  BY Constants DEF IndInv, TypeOK, ThreadTypeOK, Thread
<1>2. CASE \/ Call(t) \/ SearchLnode(t) \/ ReadCh(t) \/ Return(t) \/ Fills(t)
           \/ PushJob(t) \/ PopJob(t) \/ SplitUnlock(t) \/ InsertInode(t)
           \/ UnlockNewRoot(t)
  <2>1. pc'[t] \in {"find", "search", "reading", "found", "other", "missing",
                    "idle", "flush", "ret", "lock", "pop", "unlock"}
    BY <1>1, <1>2
    DEF Call, SearchLnode, ReadCh, Return, Fills, FillSlot, FillOnly, PushJob,
        PopJob, SplitUnlock,
        InsertInode, UnlockNewRoot, Goto, SearchResult, Done
  <2> QED
    BY <2>1 DEF NoPathHeld, HoldsPath, Growing
<1>3. CASE t \in Worker /\ (SplitLock(t) \/ TakeLeaf(t) \/ SplitCopy(t))
  <2>1. pc'[t] \in {"pop", "copy", "unlock", "build"}
    BY <1>1, <1>3 DEF SplitLock, TakeLeaf, SplitCopy, Goto
  <2> QED
    BY <1>1, <1>3, <2>1 DEF NoPathHeld, HoldsPath, Growing
<1>4. CASE t \in Foreground /\ FindLeaf(t)
  <2>1. FindWrote(t) /\ loc[t].key \in Key
    BY <1>1, <1>4, FindWrites, LocalFields
  <2>2. CASE pc'[t] = "ret"
    BY <2>2 DEF NoPathHeld, HoldsPath, Growing
  <2>3. ASSUME NEW p, NEW c, LeafTaken(t, p, c)
        PROVE  NoPathHeld(t) \/ PathTook(t, p, loc[t].key)
    <3>1. pc'[t] = "copy" /\ ent' = ent /\ Low(t)' = 0
      BY <2>1, <2>3 DEF LeafTaken, FindWrote, Low
    <3>2. CASE HoldsPath(t)'
      BY <2>1, <2>3, <3>1, <3>2 DEF PathTook, LeafTaken
    <3>3. CASE ~HoldsPath(t)'
      BY <3>1, <3>3 DEF NoPathHeld, Growing
    <3> QED
      BY <3>2, <3>3
  <2> QED
    BY <2>1, <2>2, <2>3 DEF FindWrote
<1>5. CASE t \in Worker /\ FindInode(t)
  <2>1. /\ pc[t] = "locate" /\ pc'[t] = "level" /\ ent' = ent
        /\ loc[t].sep \in Key
    BY <1>1, <1>5, LocalFields DEF FindInode, Goto
  <2>2. PICK p \in Descents(loc[t].sep) :
          loc' = [loc EXCEPT ![t].path = PathTaken(p, loc[t].sep)]
    BY <1>5 DEF FindInode
  <2>3. loc'[t].path = PathTaken(p, loc[t].sep) /\ loc'[t].lp = loc[t].lp
    BY <1>1, <2>2 DEF Local
  <2>4. HoldsPath(t)' /\ Low(t)' = 0
    BY <2>1 DEF HoldsPath, Low
  <2> QED
    BY <2>1, <2>2, <2>3, <2>4 DEF PathTook
<1>6. CASE t \in Foreground /\ CopyMeta(t)
  <2>1. /\ pc[t] = "copy" /\ loc'[t].path = loc[t].path
        /\ loc'[t].lp = loc[t].lp /\ ent' = ent
        /\ pc'[t] = IF isFull(loc[t].lp) THEN "build" ELSE "fill"
    BY <1>1, <1>6 DEF CopyMeta, Goto, Local, search_layer
  <2>2. CASE isFull(loc[t].lp)
    BY <1>6, <2>1, <2>2 DEF SamePathHeld, HoldsPath, Low, Growing
  <2>3. CASE ~isFull(loc[t].lp)
    BY <2>1, <2>3 DEF NoPathHeld, HoldsPath, Growing
  <2> QED
    BY <2>2, <2>3
<1>7. CASE SplitBuild(t)
  <2>1. PICK sk : /\ BuildWrote(t, nleaf, loc[t].lp, sk)
                  /\ NewLeafWrote(t, nleaf, loc[t].lp, sk)
    BY <1>7, NewLeafWrites
  <2>2. /\ pc[t] = "build" /\ pc'[t] = "publish" /\ ent' = ent
        /\ loc'[t].path = loc[t].path /\ loc'[t].lp = loc[t].lp
    BY <2>1, SMTT(30) DEF BuildWrote, NewLeafWrote
  <2> QED
    BY <2>2 DEF SamePathHeld, NoPathHeld, HoldsPath, Low, Growing
<1>8. CASE SplitPublish(t)
  <2>1. PublishWrote(t)
    BY <1>8, PublishWrites
  <2>2. CASE t \in Worker
    BY <1>1, <2>1, <2>2 DEF PublishWrote, NoPathHeld, HoldsPath, Growing
  <2>3. CASE t \in Foreground
    BY <1>1, <2>1, <2>3 DEF PublishWrote, SamePathHeld, HoldsPath, Low, Growing
  <2> QED
    BY <1>1, <2>2, <2>3
<1>9. CASE t \in Foreground /\ InsertLeft(t)
  <2>1. KeyWrote(t, loc[t].lp) /\ pc[t] = "addleft"
    BY <1>9, KeyWrites DEF InsertLeft
  <2>2. pc'[t] = "level"
    BY <2>1 DEF KeyWrote
  <2> QED
    BY <2>1, <2>2 DEF KeyWrote, SamePathHeld, HoldsPath, Low, Growing
<1>10. CASE ReadLevel(t)
  <2>1. /\ pc[t] = "level" /\ pc'[t] = "inode" /\ loc'[t].lev = 0
        /\ loc'[t].path = loc[t].path /\ loc'[t].lp = loc[t].lp /\ ent' = ent
    BY <1>1, <1>10 DEF ReadLevel, Goto, Local, search_layer
  <2> QED
    BY <2>1 DEF SamePathHeld, HoldsPath, Low, Growing
<1> QED
  BY <1>2, <1>3, <1>4, <1>5, <1>6, <1>7, <1>8, <1>9, <1>10
  DEF Step, NextStep, ClientStep, WorkerStep, SplitStep, Fills

\* An inode t holds after its step it held before, or is on an unlocked path
\* from the root, or is new.
LEMMA NewHold ==
  ASSUME IndInv, ShapeInv, NEW t \in Thread, Step(t), NEW i, NEW x,
         Holds(t, i, x)'
  PROVE  \/ Holds(t, i, x)
         \/ \E key \in Key : \E p \in Descents(key) :
              i \in 0..root_level /\ x = p[i]
         \/ i \in Level /\ ~Node(i, x)
<1>1. /\ TypeOK /\ ClimbOK(t) /\ Climb(t) /\ RootState(t)
      /\ pc \in [Thread -> ForegroundLabel \cup WorkerLabel]
      /\ loc \in [Thread -> Local] /\ loc[t].lev \in Nat
      /\ loc[t].path \in Path /\ root_level \in Nat /\ root_level <= MaxLevel
      /\ MaxLevel \in Nat
  <2>1. TypeOK /\ ClimbOK(t) /\ Climb(t) /\ RootState(t)
    BY Parts
  <2>2. /\ pc \in [Thread -> ForegroundLabel \cup WorkerLabel]
        /\ loc \in [Thread -> Local]
    BY <2>1 DEF TypeOK, ThreadTypeOK
  <2>3. loc[t].path \in Path /\ loc[t].lev \in 0..(MaxLevel + 1)
    BY <2>1, LocalFields
  <2>4. root_level \in 0..MaxLevel /\ MaxLevel \in Nat
    BY <2>1, Constants DEF TypeOK, SearchTypeOK, Level
  <2> QED
    BY <2>1, <2>2, <2>3, <2>4
<1>2. CASE NoPathHeld(t)
  BY <1>2 DEF NoPathHeld, Holds, Growing
<1>3. CASE SamePathHeld(t)
  BY <1>3 DEF SamePathHeld, Holds, Growing
<1>4. ASSUME NEW p, NEW key, PathTook(t, p, key)
      PROVE  i \in 0..root_level /\ x = p[i]
  <2>1. /\ HoldsPath(t)' /\ i >= Low(t)' /\ Low(t)' = 0
        /\ InReach(loc'[t].path, i) /\ x = loc'[t].path.parray[i]
        /\ loc'[t].path = PathTaken(p, key)
    BY <1>4 DEF PathTook, Holds, Growing
  <2>2. loc'[t].path.rl = root_level
    BY <2>1 DEF PathTaken
  <2>3. i \in 0..root_level
    BY <2>1, <2>2 DEF InReach
  <2>4. i \in Level /\ i <= root_level
    BY <1>1, <2>3 DEF Level
  <2>5. loc'[t].path.parray[i] = p[i]
    BY <2>1, <2>4 DEF PathTaken
  <2> QED
    BY <2>1, <2>3, <2>5
<1>5. CASE SplitInode(t)
  <2>1. /\ pc[t] = "inode" /\ loc'[t].lev = loc[t].lev + 1
        /\ loc'[t].path = loc[t].path /\ pc'[t] \in {"inode", "grow"}
    BY <1>1, <1>5 DEF SplitInode, Goto, Local
  <2>2. HoldsPath(t) /\ Low(t) = loc[t].lev /\ InReach(loc[t].path, loc[t].lev)
    BY <1>1, <2>1 DEF HoldsPath, Low, Climb
  <2>3. CASE pc'[t] = "grow"
    <3>1. i = loc'[t].lev - 1 /\ x = loc'[t].path.parray[i]
      BY <2>3 DEF Holds, HoldsPath, Growing
    <3>2. i = loc[t].lev /\ x = loc[t].path.parray[i] /\ i >= Low(t)
      BY <1>1, <2>1, <2>2, <3>1
    <3> QED
      BY <2>2, <3>2 DEF Holds
  <2>4. CASE pc'[t] = "inode"
    <3>1. /\ i >= loc'[t].lev /\ InReach(loc'[t].path, i)
          /\ x = loc'[t].path.parray[i]
      BY <2>4 DEF Holds, Low, Growing
    <3>2. i \in Int
      BY <1>1, <2>1, <3>1 DEF InReach, Path, Level
    <3>3. i >= Low(t)
      BY <1>1, <2>1, <2>2, <3>1, <3>2
    <3> QED
      BY <2>1, <2>2, <3>1, <3>3 DEF Holds
  <2> QED
    BY <2>1, <2>3, <2>4
<1>6. CASE GrowRoot(t)
  <2>1. PICK a, n, o : a = loc[t].lev /\ n = ninode[a] /\ o = Origin(t)
    OBVIOUS
  <2>2. RootWrote(t, a, n, o)
    BY <1>6, <2>1, RootWrites
  <2>3. /\ pc'[t] \in {"growroot", "growlevel"} /\ pc[t] = "grow"
        /\ loc'[t].lev = a /\ loc'[t].ptr = n /\ loc'[t].old_root = o
        /\ a \in Level /\ a \in Nat /\ a > 0 /\ a - 1 # -1 /\ BornAt(t) = a - 1
        /\ ~(n < ninode[a])
    BY <2>2 DEF RootWrote
  <2>4. (i = a - 1 /\ x = o) \/ (i = a /\ x = n)
    <3>1. ~HoldsPath(t)' /\ pc'[t] # "grow" /\ pc'[t] # "unlocknew"
      BY <2>3 DEF HoldsPath
    <3>2. \/ i = loc'[t].lev - 1 /\ x = loc'[t].old_root
          \/ i = loc'[t].lev /\ x = loc'[t].ptr
      BY <3>1 DEF Holds
    <3> QED
      BY <2>3, <3>2
  <2>5. o = loc[t].path.parray[a - 1]
    BY <2>1, <2>3 DEF Origin
  <2> QED
    BY <2>1, <2>3, <2>4, <2>5 DEF Holds, Node
<1>7. CASE GrowSecondStore(t) \/ UnlockOldRoot(t)
  <2>1. /\ pc[t] \in Growing /\ pc'[t] \in {"unlockold", "unlocknew"}
        /\ loc'[t] = loc[t]
    BY <1>1, <1>7 DEF GrowSecondStore, UnlockOldRoot, Goto, Growing
  <2> QED
    BY <2>1 DEF Holds, HoldsPath, Growing
<1> QED
  BY <1>2, <1>3, <1>4, <1>5, <1>6, <1>7, PathStep DEF PathTook

\* An inode a thread has split and unlocked is taken by nobody else before its
\* parent knows.
LEMMA InodeAloneNext ==
  ASSUME IndInv, ShapeInv, NEW low \in Bounds, TreeOrder(low),
         NEW t \in Thread, Step(t), NEW u \in Thread
  PROVE  InodeAlone(u)'
<1>1. /\ TypeOK /\ OthersStay(t) /\ InodeLocks /\ Linked
      /\ \A w \in Thread : ClimbOK(w) /\ Climb(w)
      /\ loc \in [Thread -> Local] /\ loc[t].lev \in Nat
      /\ pc \in [Thread -> ForegroundLabel \cup WorkerLabel]
  BY Parts, StepStays, LocalFields, Constants DEF TypeOK, ThreadTypeOK
<1>2. \A w \in Thread : w # t => SameClimb(w)
  BY OthersHold
<1> SUFFICES ASSUME pc'[u] = "inode", loc'[u].lev > 0,
                    NEW w \in Thread, w # u, NEW i, i = loc'[u].lev - 1,
                    NEW o, o = Origin(u)', Holds(w, i, o)'
             PROVE  FALSE
  BY DEF InodeAlone
<1>3. CASE u # t
  <2>1. /\ pc[u] = "inode" /\ loc[u].lev > 0 /\ i = loc[u].lev - 1
        /\ o = Origin(u) /\ Bears(u) /\ loc[u].lev \in Nat
        /\ BornAt(u) = i /\ InodeAlone(u)
    BY <1>1, <1>3, OthersBear, LocalFields, Parts
    DEF OthersStay, Bears, BornAt
  <2>2. ~Holds(w, i, o)
    BY <2>1 DEF InodeAlone
  <2>3. w = t
    <3> SUFFICES ASSUME w # t PROVE FALSE
      OBVIOUS
    <3> QED
      BY <1>2, <2>2, HoldsSame
  <2>4. Holds(t, i, o)'
    BY <2>3
  <2>5. CASE \E key \in Key : \E p \in Descents(key) :
                i \in 0..root_level /\ o = p[i]
    BY <2>1, <2>5, PathApart
  <2>6. CASE i \in Level /\ ~Node(i, o)
    <3>1. BornNodes(u)
      BY <2>1, BornType
    <3> QED
      BY <2>1, <2>6, <3>1 DEF BornNodes
  <2> QED
    BY <2>2, <2>3, <2>4, <2>5, <2>6, NewHold
<1>4. CASE u = t
  <2>1. SplitInode(t)
    <3>1. CASE ReadLevel(t)
      <4>1. loc'[t].lev = 0
        BY <1>1, <3>1 DEF ReadLevel, Local
      <4> QED
        BY <1>4, <4>1
    <3>2. CASE ~ReadLevel(t) /\ ~SplitInode(t)
      <4>1. pc'[t] # "inode"
        BY <1>1, <3>2
        DEF Step, NextStep, ClientStep, WorkerStep, SplitStep, Call, SearchLnode,
            ReadCh, FindLeaf, Return, CopyMeta, Fills, FillSlot, FillOnly, PushJob,
            PopJob, SplitLock, TakeLeaf, SplitCopy, SplitUnlock,
            UnlockOldRoot, UnlockNewRoot,
            InsertInode, GrowRoot, GrowSecondStore, SplitBuild, SplitPublish,
            InsertLeft, FindInode, Goto, SearchResult, Done
      <4> QED
        BY <1>4, <4>1
    <3> QED
      BY <3>1, <3>2
  <2>2. /\ pc[t] = "inode" /\ loc'[t].lev = loc[t].lev + 1
        /\ loc'[t].path = loc[t].path
    BY <1>1, <2>1 DEF SplitInode, Local
  <2>3. i = loc[t].lev /\ i \in Nat /\ i # -1
    BY <1>1, <1>4, <2>2
  <2>4. BornAt(t)' = i
    BY <1>4 DEF BornAt
  <2>5. o = loc[t].path.parray[i]
    BY <1>4, <2>2, <2>3, <2>4 DEF Origin
  <2>6. Holds(t, i, o)
    <3>1. HoldsPath(t) /\ Low(t) = i /\ InReach(loc[t].path, i)
      BY <1>1, <2>2, <2>3 DEF HoldsPath, Low, Climb
    <3> QED
      BY <2>3, <2>5, <3>1 DEF Holds
  <2>7. ~Holds(w, i, o)
    <3>1. i \in Level /\ o \in InodeNum
      BY <1>1, <2>6, HeldAllocated
    <3> QED
      BY <1>1, <1>4, <2>6, <3>1 DEF InodeLocks
  <2> QED
    BY <1>2, <1>4, <2>7, HoldsSame
<1> QED
  BY <1>3, <1>4

\* Nobody changes an inode another thread holds.
LEMMA HeldEntry ==
  ASSUME IndInv, ShapeInv, NEW t \in Thread, Step(t), NEW u \in Thread, u # t,
         NEW a, NEW y, Holds(u, a, y)
  PROVE  ent'[<<a, y>>] = ent[<<a, y>>]
<1>1. /\ TypeOK /\ InodeLocks /\ Linked /\ ClimbOK(u)
  BY Parts
<1>2. /\ a \in Level /\ y \in InodeNum /\ y < ninode[a] /\ y \in Nat
  BY <1>1, HeldAllocated, Constants DEF InodeNum
<1>3. ~Holds(t, a, y)
  BY <1>1, <1>2 DEF InodeLocks
<1>4. CASE Aside(t)
  BY <1>4 DEF Aside
<1>5. CASE SplitBuild(t) \/ GrowSecondStore(t)
  BY <1>5, SecondWrites DEF SplitBuild, search_layer, SecondWrote
<1>6. PICK i, x, pos : i = loc[t].lev /\ x = loc[t].path.parray[i]
                       /\ pos = loc[t].path.ppos[i]
  OBVIOUS
<1>7. CASE InsertInode(t)
  <2>1. Spot(t, i, x, pos) /\ InsertWrote(t, i, x)
    BY <1>6, <1>7, InsertWrites
  <2>2. ~(a = i /\ y = x)
    BY <1>3, <2>1 DEF Spot
  <2> QED
    BY <1>2, <2>1, <2>2 DEF InsertWrote
<1>8. PICK n, o : n = ninode[i] /\ o = Origin(t)
  OBVIOUS
<1>9. CASE SplitInode(t)
  <2>1. Spot(t, i, x, pos) /\ HalvesWrote(t, i, x, n)
    BY <1>6, <1>8, <1>9, HalvesWrites
  <2>2. ~(a = i /\ y = x) /\ ~(a = i /\ y = n)
    BY <1>2, <1>3, <1>8, <2>1 DEF Spot, HalvesWrote
  <2> QED
    BY <1>2, <2>1, <2>2 DEF HalvesWrote
<1>10. CASE GrowRoot(t)
  <2>1. RootWrote(t, i, n, o)
    BY <1>6, <1>8, <1>10, RootWrites
  <2>2. ~(a = i /\ y = n)
    BY <1>2, <2>1 DEF RootWrote
  <2> QED
    BY <1>2, <2>1, <2>2 DEF RootWrote
<1> QED
  BY <1>1, <1>4, <1>5, <1>7, <1>9, <1>10, AsideStep DEF TreeStep

\* The path a thread holds leads to its leaf.
LEMMA PathLinkedNext ==
  ASSUME IndInv, ShapeInv, Rooted, NEW low \in Bounds, TreeOrder(low),
         NEW t \in Thread, Step(t), NEW u \in Thread
  PROVE  PathLinked(u)'
<1>1. /\ TypeOK /\ OthersStay(t) /\ ClimbOK(u) /\ Climb(u) /\ PathLinked(u)
      /\ loc[u].path \in Path /\ loc[u].lev \in Nat /\ Linked
      /\ loc \in [Thread -> Local]
  BY Parts, StepStays, LocalFields, Constants DEF TypeOK, ThreadTypeOK
<1> SUFFICES ASSUME HoldsPath(u)', NEW low0, low0 = Low(u)',
                    NEW i \in low0..loc'[u].path.rl, InReach(loc'[u].path, i)
             PROVE  ent'[<<i, loc'[u].path.parray[i]>>].ch
                        [loc'[u].path.ppos[i] + 1]
                      = IF i = 0 THEN loc'[u].lp ELSE loc'[u].path.parray[i - 1]
  BY DEF PathLinked, Kid
<1>2. ASSUME HoldsPath(u), low0 >= Low(u), loc'[u].path = loc[u].path,
             loc'[u].lp = loc[u].lp, low0 \in Nat,
             i \in Level =>
               ent'[<<i, loc[u].path.parray[i]>>] = ent[<<i, loc[u].path.parray[i]>>]
      PROVE  ent'[<<i, loc'[u].path.parray[i]>>].ch[loc'[u].path.ppos[i] + 1]
               = IF i = 0 THEN loc'[u].lp ELSE loc'[u].path.parray[i - 1]
  <2>1. Low(u) \in Nat /\ loc[u].path.rl \in Nat /\ loc[u].path.rl \in Level
    <3>1. loc[u].path.rl \in Level
      BY <1>1 DEF Path
    <3>2. Low(u) \in Nat
      BY <1>1 DEF Low
    <3> QED
      BY <3>1, <3>2, Constants DEF Level
  <2>2. i \in Low(u)..loc[u].path.rl /\ i \in Nat /\ i \in Level
    BY <1>2, <2>1, Constants DEF Level
  <2>3. ent[<<i, loc[u].path.parray[i]>>].ch[loc[u].path.ppos[i] + 1]
          = IF i = 0 THEN loc[u].lp ELSE loc[u].path.parray[i - 1]
    BY <1>1, <1>2, <2>2 DEF PathLinked, Kid
  <2> QED
    BY <1>2, <2>2, <2>3, SMTT(30)
<1>3. CASE u # t
  <2>1. /\ pc'[u] = pc[u] /\ loc'[u] = loc[u] /\ SameClimb(u)
    BY <1>1, <1>3, OthersHold DEF OthersStay
  <2>2. HoldsPath(u) /\ low0 = Low(u) /\ low0 \in Nat
    BY <1>1, <2>1 DEF SameClimb, Low
  <2>3. ASSUME i \in Level
        PROVE  ent'[<<i, loc[u].path.parray[i]>>] = ent[<<i, loc[u].path.parray[i]>>]
    <3>1. i \in Nat /\ low0 <= i
      BY <2>2, <2>3, Constants DEF Level
    <3>2. Holds(u, i, loc[u].path.parray[i])
      BY <2>1, <2>2, <3>1 DEF Holds
    <3> QED
      BY <1>3, <3>2, HeldEntry
  <2>4. low0 >= Low(u)
    BY <2>2
  <2> QED
    BY <1>2, <2>1, <2>2, <2>3, <2>4
<1>4. CASE u = t /\ SamePathHeld(t)
  <2>1. /\ HoldsPath(u) /\ low0 = 0 /\ Low(u) = 0 /\ ent' = ent
        /\ loc'[u].path = loc[u].path /\ loc'[u].lp = loc[u].lp
    BY <1>4 DEF SamePathHeld
  <2> QED
    BY <1>2, <2>1
<1>5. ASSUME NEW p, NEW key, u = t, PathTook(t, p, key)
      PROVE  ent'[<<i, loc'[u].path.parray[i]>>].ch[loc'[u].path.ppos[i] + 1]
               = IF i = 0 THEN loc'[u].lp ELSE loc'[u].path.parray[i - 1]
  <2>1. /\ key \in Key /\ p \in Descents(key) /\ ent' = ent /\ low0 = 0
        /\ loc'[u].path = PathTaken(p, key)
        /\ root_level \in Nat /\ root_level <= MaxLevel /\ MaxLevel \in Nat
    BY <1>1, <1>5, Constants DEF PathTook, TypeOK, SearchTypeOK, Level
  <2>2. loc'[u].path.rl = root_level
    BY <2>1 DEF PathTaken
  <2>3. i \in 0..root_level /\ i \in Level /\ i <= root_level /\ i \in Nat
    BY <2>1, <2>2 DEF Level
  <2>4. /\ loc'[u].path.parray[i] = p[i]
        /\ loc'[u].path.ppos[i] = ChildPos(<<i, p[i]>>, key)
    BY <2>1, <2>3 DEF PathTaken
  <2>5. ent[<<i, p[i]>>].ch[ChildPos(<<i, p[i]>>, key) + 1]
          = Child(<<i, p[i]>>, key)
    BY DEF Child
  <2>6. CASE i = 0
    <3>1. LeafFor(p, key) = loc'[u].lp
      BY <1>1, <1>5, <2>1, FoundOrigin DEF PathTook
    <3>2. Child(<<0, p[0]>>, key) = loc'[u].lp
      BY <3>1 DEF LeafFor
    <3> QED
      BY <2>1, <2>4, <2>5, <2>6, <3>2
  <2>7. CASE i # 0
    <3>1. i \in 1..root_level /\ i - 1 \in Level /\ i - 1 <= root_level
      BY <2>1, <2>3, <2>7 DEF Level
    <3>2. p[i - 1] = Child(<<i, p[i]>>, key)
      BY <2>1, <3>1 DEF Descents, IsDescent
    <3>3. loc'[u].path.parray[i - 1] = p[i - 1]
      BY <2>1, <3>1 DEF PathTaken
    <3> QED
      BY <2>1, <2>4, <2>5, <2>7, <3>2, <3>3
  <2> QED
    BY <2>6, <2>7, SMTT(30)
<1>6. CASE u = t /\ SplitInode(t)
  <2>1. PICK a, x, pos, n : a = loc[t].lev /\ x = loc[t].path.parray[a]
                       /\ pos = loc[t].path.ppos[a] /\ n = ninode[a]
    OBVIOUS
  <2>2. HalvesWrote(t, a, x, n)
    BY <1>6, <2>1, HalvesWrites
  <2>3. /\ pc[t] = "inode" /\ loc'[t].lev = a + 1 /\ a \in Nat
        /\ loc'[t].path = loc[t].path /\ loc'[t].lp = loc[t].lp
        /\ pc'[t] \in {"inode", "grow"}
    BY <1>1, <1>6, <2>1, <2>2 DEF HalvesWrote
  <2>4. pc'[t] = "inode"
    BY <1>6, <2>3 DEF HoldsPath
  <2>5. HoldsPath(u) /\ low0 = a + 1 /\ Low(u) = a
    BY <1>6, <2>1, <2>3, <2>4 DEF HoldsPath, Low
  <2>6. ASSUME i \in Level
        PROVE  ent'[<<i, loc[u].path.parray[i]>>] = ent[<<i, loc[u].path.parray[i]>>]
    <3>1. i \in Nat /\ i # a
      BY <2>3, <2>5, <2>6, Constants DEF Level
    <3>2. loc[u].path.parray[i] \in InodeNum
      BY <1>1, <2>6 DEF Path
    <3> QED
      BY <2>2, <2>6, <3>1, <3>2 DEF HalvesWrote
  <2>7. low0 >= Low(u) /\ low0 \in Nat
    BY <2>3, <2>5
  <2> QED
    BY <1>2, <1>6, <2>3, <2>5, <2>6, <2>7, SMTT(30)
<1>7. CASE u = t /\ (NoPathHeld(t) \/ GrowRoot(t) \/ GrowSecondStore(t)
                     \/ UnlockOldRoot(t))
  <2>1. ~HoldsPath(t)'
    <3>1. CASE NoPathHeld(t)
      BY <3>1 DEF NoPathHeld
    <3>2. CASE GrowRoot(t) \/ GrowSecondStore(t) \/ UnlockOldRoot(t)
      <4>1. pc'[t] \in {"growroot", "growlevel", "unlockold", "unlocknew"}
        BY <1>1, <3>2
        DEF GrowRoot, GrowSecondStore, UnlockOldRoot, Goto, TypeOK, ThreadTypeOK
      <4> QED
        BY <4>1 DEF HoldsPath
    <3> QED
      BY <1>7, <3>1, <3>2
  <2> QED
    BY <1>7, <2>1
<1> QED
  BY <1>3, <1>4, <1>5, <1>6, <1>7, PathStep

LEMMA TreeShapeNext ==
  ASSUME IndInv, IndInv', ShapeInv, NEW t \in Thread, Step(t)
  PROVE  TreeShape'
<1>1. TypeOK /\ OthersStay(t) /\ TreeShape
  BY Parts, StepStays DEF TreeShape, ShapeInv
<1>2. CASE Aside(t)
  BY <1>1, <1>2, TreeShapeAside
<1>3. CASE SplitBuild(t)
  <2>1. PICK l : l = loc[t].lp
    OBVIOUS
  <2>2. PICK sk : BuildWrote(t, nleaf, l, sk)
    BY <1>3, <2>1, NewLeafWrites
  <2> QED
    BY <2>2, ShapeSplitBuild
<1>4. CASE TreeStep(t) /\ ~SplitBuild(t)
  BY <1>4, ShapeInsertInode, ShapeSplitInode, ShapeGrowRoot, ShapeSecondStore
  DEF TreeStep
<1> QED
  BY <1>1, <1>2, <1>3, <1>4, AsideStep

\* What nodes, paths and leaves belong to whom, after each step.
LEMMA ShapeNext ==
  ASSUME IndInv, IndInv', NoStaleJob, ShapeInv, Rooted, NEW low \in Bounds,
         TreeOrder(low), NEW t \in Thread, Step(t)
  PROVE  ShapeInv'
<1>1. TreeShape'
  BY TreeShapeNext
<1>2. LeafAlone'
  BY AloneNext
<1>3. \A u \in Thread : InodeAlone(u)' /\ PathLinked(u)'
  BY InodeAloneNext, PathLinkedNext
<1> QED
  BY <1>1, <1>2, <1>3 DEF TreeShape, ShapeInv

-----------------------------------------------------------------------------
(* The bounds after a step.                                                *)

\* The bounds nl are those of low for leaves, or the new leaf n has sk.
LeafBounds(low, nl, t) ==
  \/ ~SplitBuild(t) /\ \A y \in Nat : nl[-1][y] = low[-1][y]
  \/ \E sk : /\ BuildWrote(t, nleaf, loc[t].lp, sk)
             /\ NewLeafWrote(t, nleaf, loc[t].lp, sk)
             /\ Grown(low, nl, -1, nleaf, sk) /\ SplitBuild(t)

LEMMA TreeOrderNext ==
  ASSUME IndInv, ShapeInv, NEW low \in Bounds, TreeOrder(low), KeysOwned(low),
         NEW t \in Thread, Step(t)
  PROVE  \E nl \in Bounds : TreeOrder(nl)' /\ LeafBounds(low, nl, t)
<1>1. TypeOK /\ OthersStay(t) /\ PtrTypeOK(t)
  BY Parts, StepStays, LocalFields
<1>2. CASE Aside(t) \/ InsertInode(t) \/ GrowSecondStore(t)
  <2>1. TreeOrder(low)'
    BY <1>1, <1>2, TreeOrderAside, OrderInsertInode, OrderSecondStore
  <2>2. ~SplitBuild(t)
    <3>1. ASSUME SplitBuild(t) PROVE FALSE
      <4>1. PICK sk : BuildWrote(t, nleaf, loc[t].lp, sk)
        BY <3>1, NewLeafWrites
      <4>2. ~Bears(t) /\ Bears(t)' /\ pc[t] = "build"
        BY <4>1 DEF BuildWrote
      <4> QED
        BY <1>2, <4>2 DEF Aside, InsertInode, GrowSecondStore
    <3> QED
      BY <3>1
  <2> QED
    BY <2>1, <2>2 DEF LeafBounds
<1>3. CASE SplitInode(t) \/ GrowRoot(t)
  <2>1. PICK nl \in Bounds :
          (\E n, k : Grown(low, nl, loc[t].lev, n, k)) /\ TreeOrder(nl)'
    BY <1>3, OrderSplitInode, OrderGrowRoot
  <2>2. loc[t].lev # -1 /\ -1 \in NodeLevel
    <3>1. loc[t].lev \in Level
      BY <1>1, <1>3 DEF SplitInode, GrowRoot, PtrTypeOK
    <3> QED
      BY <3>1, Constants DEF Level, NodeLevel
  <2>3. \A y \in Nat : nl[-1][y] = low[-1][y]
    BY <2>1, <2>2 DEF Grown
  <2>4. ~SplitBuild(t)
    BY <1>3 DEF SplitInode, GrowRoot, SplitBuild
  <2> QED
    BY <2>1, <2>3, <2>4 DEF LeafBounds
<1>4. CASE SplitBuild(t)
  <2>1. PICK l : l = loc[t].lp
    OBVIOUS
  <2>2. PICK sk : BuildWrote(t, nleaf, l, sk) /\ NewLeafWrote(t, nleaf, l, sk)
    BY <1>4, <2>1, NewLeafWrites
  <2>3. PICK nl \in Bounds : Grown(low, nl, -1, nleaf, sk) /\ TreeOrder(nl)'
    BY <2>2, OrderSplitBuild
  <2> QED
    BY <1>4, <2>1, <2>2, <2>3 DEF LeafBounds
<1> QED
  BY <1>1, <1>2, <1>3, <1>4, AsideStep DEF TreeStep

-----------------------------------------------------------------------------
(* Keys and chain after a step.                                            *)

\* A thread that builds or links a leaf does it by the step of that name.
LEMMA StepLabels ==
  ASSUME IndInv, NEW t \in Thread, Step(t)
  PROVE  /\ pc[t] = "publish" <=> SplitPublish(t)
         /\ SplitPublish(t) => PublishWrote(t)
         /\ pc'[t] = "publish" <=> SplitBuild(t)
         /\ pc'[t] = "addleft" => SplitPublish(t)
         /\ ~SplitBuild(t) => nleaf' = nleaf
         /\ pc[t] = "fill" => t \in Foreground /\ Fills(t)
         /\ pc[t] = "addleft" => t \in Foreground /\ InsertLeft(t)
<1>1. /\ TypeOK /\ (t \in Foreground => t \notin Worker)
      /\ pc \in [Thread -> ForegroundLabel \cup WorkerLabel]
      /\ t \in Foreground => pc[t] \in ForegroundLabel
      /\ t \in Worker => pc[t] \in WorkerLabel
  BY Constants DEF IndInv, TypeOK, ThreadTypeOK
<1>2. CASE SplitBuild(t)
  <2>1. PICK sk : BuildWrote(t, nleaf, loc[t].lp, sk)
    BY <1>2, NewLeafWrites
  <2>2. pc[t] = "build" /\ pc'[t] = "publish"
    BY <2>1 DEF BuildWrote
  <2> QED
    BY <1>2, <2>2 DEF SplitPublish
<1>3. CASE SplitPublish(t)
  <2>1. PublishWrote(t)
    BY <1>3, PublishWrites
  <2> QED
    BY <1>3, <2>1 DEF PublishWrote, SplitBuild
<1>4. CASE Elsewhere(t)
  <2>1. /\ pc[t] \notin {"publish", "addleft"} /\ pc'[t] \notin {"publish", "addleft"}
        /\ nleaf' = nleaf
    BY <1>1, <1>4, ElsewhereStep
  <2>2. pc[t] # "fill"
    BY <1>4 DEF Elsewhere, Call, SearchLnode, ReadCh, Return, CopyMeta, SplitCopy,
      FindInode, ReadLevel, InsertInode, SplitInode, GrowRoot,
      GrowSecondStore, UnlockOldRoot, UnlockNewRoot
  <2>3. ~SplitBuild(t) /\ ~SplitPublish(t)
    BY <1>1, <2>1 DEF SplitBuild, SplitPublish, Goto
  <2> QED
    BY <2>1, <2>2, <2>3
<1>5. CASE t \in Foreground /\ (FindLeaf(t) \/ Fills(t) \/ PushJob(t)
                                 \/ InsertLeft(t))
  <2>1. /\ nleaf' = nleaf /\ pc[t] \in {"find", "fill", "flush", "addleft"}
        /\ pc'[t] \in {"ret", "copy", "flush", "level"}
        /\ pc[t] = "fill" => Fills(t)
        /\ pc[t] = "addleft" => InsertLeft(t)
    BY <1>1, <1>5
    DEF FindLeaf, Fills, FillSlot, FillOnly, PushJob, InsertLeft, Goto,
        leaf_layer
  <2>2. ~SplitBuild(t) /\ ~SplitPublish(t)
    BY <2>1 DEF SplitBuild, SplitPublish
  <2> QED
    BY <1>5, <2>1, <2>2
<1>6. CASE t \in Worker /\ (PopJob(t) \/ SplitLock(t) \/ TakeLeaf(t)
                              \/ SplitUnlock(t))
  <2>1. /\ nleaf' = nleaf /\ pc[t] \in {"pop", "lock", "unlock"}
        /\ pc'[t] \in {"lock", "pop", "copy", "unlock"}
    BY <1>1, <1>6 DEF PopJob, SplitLock, TakeLeaf, SplitUnlock, Goto, leaf_layer
  <2>2. ~SplitBuild(t) /\ ~SplitPublish(t)
    BY <2>1 DEF SplitBuild, SplitPublish
  <2> QED
    BY <2>1, <2>2
<1> QED
  BY <1>2, <1>3, <1>4, <1>5, <1>6, StepCases

\* A leaf somebody works on is linked.
LEMMA HeldPublic ==
  ASSUME IndInv, ShapeInv, NEW t \in Thread, HoldsLeaf(t)
  PROVE  /\ Public(-1, loc[t].lp) /\ loc[t].lp \in LnodeId /\ loc[t].lp \in Nat
         /\ \A u \in Thread : Carries(u) => loc[t].lp # loc[u].ptr
<1>1. LeafAllocated /\ LeafAlone /\ loc[t].lp \in LnodeId /\ loc[t].lp \in Nat
  BY Parts, LocalFields, LeafNumbers
<1>2. \A u \in Thread : Carries(u) => loc[t].lp # loc[u].ptr
  BY <1>1 DEF LeafAlone, Uses
<1>3. loc[t].lp \notin Private
  BY <1>2 DEF Private, Carries
<1> QED
  BY <1>1, <1>2, <1>3 DEF Public, Node, LeafAllocated

\* A leaf is linked by SplitPublish.
LEMMA PublicStep ==
  ASSUME IndInv, ShapeInv, NEW t \in Thread, Step(t)
  PROVE  \A x \in Nat : Public(-1, x)' <=>
           Public(-1, x) \/ (pc[t] = "publish" /\ x = loc[t].ptr)
<1>1. /\ TypeOK /\ OthersStay(t) /\ CarriedLeaf /\ nleaf \in Nat
  BY Parts, StepStays, LeafNumbers
<1>2. \A x : x \in Private <=>
        \/ \E u \in Thread : u # t /\ pc[u] = "publish" /\ loc[u].ptr = x
        \/ pc[t] = "publish" /\ loc[t].ptr = x
  BY DEF Private
<1>3. \A x : x \in Private' <=>
        \/ \E u \in Thread : u # t /\ pc[u] = "publish" /\ loc[u].ptr = x
        \/ pc'[t] = "publish" /\ loc'[t].ptr = x
  BY <1>1 DEF Private, OthersStay
<1>4. CASE SplitPublish(t)
  <2>1. pc[t] = "publish" /\ pc'[t] # "publish" /\ nleaf' = nleaf
    BY <1>4, StepLabels DEF PublishWrote
  <2>2. \A u \in Thread : u # t /\ pc[u] = "publish" => loc[u].ptr # loc[t].ptr
    BY <1>1, <2>1 DEF CarriedLeaf, Carries
  <2>3. loc[t].ptr < nleaf
    BY <1>1, <2>1 DEF CarriedLeaf, Carries
  <2> QED
    BY <1>2, <1>3, <2>1, <2>2, <2>3 DEF Public, Node
<1>5. CASE SplitBuild(t)
  <2>1. PICK sk : BuildWrote(t, nleaf, loc[t].lp, sk)
    BY <1>5, NewLeafWrites
  <2>2. /\ pc[t] = "build" /\ pc'[t] = "publish" /\ nleaf' = nleaf + 1
        /\ loc'[t].ptr = nleaf
    BY <2>1 DEF BuildWrote
  <2>3. \A x \in Nat : x < nleaf' <=> x < nleaf \/ x = nleaf
    BY <1>1, <2>2
  <2>4. \A x \in Nat : x < nleaf => x # nleaf
    BY <1>1
  <2> QED
    BY <1>2, <1>3, <2>2, <2>3, <2>4 DEF Public, Node
<1>6. CASE ~SplitPublish(t) /\ ~SplitBuild(t)
  <2>1. pc[t] # "publish" /\ pc'[t] # "publish" /\ nleaf' = nleaf
    BY <1>6, StepLabels
  <2> QED
    BY <1>2, <1>3, <2>1 DEF Public, Node
<1> QED
  BY <1>4, <1>5, <1>6

\* Leaves keep their bounds.
LEMMA BoundsStay ==
  ASSUME NEW low \in Bounds, NEW nl \in Bounds, NEW t \in Thread,
         LeafBounds(low, nl, t), NEW y, Node(-1, y)
  PROVE  /\ nl[-1][y] = low[-1][y] /\ low[-1][y] \in Int /\ nl[-1][y] \in Int
         /\ y \in Nat /\ y < nleaf
<1>1. y \in Nat /\ y < nleaf /\ -1 \in NodeLevel
  BY Constants DEF Node, NodeLevel
<1>2. low[-1][y] \in Int
  BY <1>1, BoundType
<1>3. nl[-1][y] = low[-1][y]
  <2>1. ASSUME NEW sk, Grown(low, nl, -1, nleaf, sk), BuildWrote(t, nleaf, loc[t].lp, sk)
        PROVE  nl[-1][y] = low[-1][y]
    <3>1. y # nleaf
      BY <1>1, <2>1 DEF BuildWrote
    <3> QED
      BY <1>1, <2>1, <3>1 DEF Grown
  <2> QED
    BY <1>1, <2>1 DEF LeafBounds
<1> QED
  BY <1>1, <1>2, <1>3

\* The bound of a leaf that is being linked comes next after its origin's.
LEMMA LinkBound ==
  ASSUME IndInv, ShapeInv, NEW low \in Bounds, TreeOrder(low),
         NEW t \in Thread, pc[t] = "publish", NEW l, l = loc[t].lp,
         NEW n, n = loc[t].ptr
  PROVE  /\ l \in LnodeId /\ l \in Nat /\ n \in LnodeId /\ n \in Nat /\ l # n
         /\ Public(-1, l) /\ Node(-1, l) /\ Node(-1, n) /\ ~Public(-1, n)
         /\ low[-1][n] = loc[t].sep /\ loc[t].sep \in Int
         /\ low[-1][l] \in Int /\ low[-1][l] < loc[t].sep
         /\ \A y \in Nat : Node(-1, y) /\ low[-1][y] < loc[t].sep =>
              low[-1][y] <= low[-1][l]
<1>1. /\ TypeOK /\ CarriedLeaf /\ HoldsLeaf(t) /\ Carries(t) /\ Bears(t)
      /\ BornAt(t) = -1 /\ Origin(t) = l /\ BornBound(low, t)
  <2>1. HoldsLeaf(t) /\ Carries(t) /\ Bears(t) /\ BornAt(t) = -1
    BY DEF HoldsLeaf, Carries, Bears, BornAt
  <2> QED
    BY <2>1, Parts DEF Origin, TreeOrder
<1>2. Public(-1, l) /\ l \in LnodeId /\ l \in Nat /\ l # n
  BY <1>1, HeldPublic
<1>3. n \in LnodeId /\ n < nleaf /\ loc[t].sep \in Int
  BY <1>1, LocalFields, Constants DEF PtrTypeOK, CarriedLeaf
<1>4. n \in Nat /\ n \in Private
  BY <1>1, <1>3, LeafNumbers DEF Private
<1>5. /\ low[-1][n] = loc[t].sep /\ low[-1][l] < loc[t].sep
      /\ \A y \in Nat : Node(-1, y) /\ low[-1][y] < loc[t].sep =>
              low[-1][y] <= low[-1][l]
  BY <1>1 DEF BornBound
<1>6. low[-1][l] \in Int /\ Node(-1, l) /\ Node(-1, n) /\ ~Public(-1, n)
  <2>1. Node(-1, l) /\ Node(-1, n) /\ ~Public(-1, n)
    BY <1>2, <1>3, <1>4 DEF Public, Node
  <2>2. -1 \in NodeLevel
    BY Constants DEF NodeLevel
  <2> QED
    BY <1>2, <2>1, <2>2, BoundType
<1> QED
  BY <1>2, <1>3, <1>4, <1>5, <1>6

\* A key a leaf owns it keeps, but for those the leaf split off it takes.
LEMMA OwnsStays ==
  ASSUME IndInv, ShapeInv, NEW low \in Bounds, TreeOrder(low),
         NEW nl \in Bounds, NEW t \in Thread, Step(t), LeafBounds(low, nl, t),
         NEW l, Node(-1, l), NEW b \in Int, Owns(low, -1, l, b),
         pc[t] = "publish" /\ l = loc[t].lp => b < loc[t].sep
  PROVE  Owns(nl, -1, l, b)'
<1>1. /\ nl[-1][l] = low[-1][l] /\ low[-1][l] \in Int /\ l \in Nat
      /\ -1 \in NodeLevel
  BY BoundsStay, Constants DEF NodeLevel
<1>2. low[-1][l] <= b
  BY DEF Owns
<1>3. ASSUME NEW y \in Nat, Public(-1, y), nl[-1][y] <= b
      PROVE  nl[-1][y] <= nl[-1][l]
  <2>1. nl[-1][y] = low[-1][y]
    BY <1>3, BoundsStay DEF Public
  <2> QED
    BY <1>1, <1>3, <2>1 DEF Owns
<1>4. ASSUME pc[t] = "publish", NEW n, n = loc[t].ptr, nl[-1][n] <= b
      PROVE  nl[-1][n] <= nl[-1][l]
  <2>1. PICK o : o = loc[t].lp
    OBVIOUS
  <2>2. /\ o \in Nat /\ Public(-1, o) /\ Node(-1, o) /\ Node(-1, n)
        /\ low[-1][n] = loc[t].sep /\ loc[t].sep \in Int
        /\ low[-1][o] \in Int /\ low[-1][o] < loc[t].sep
        /\ low[-1][l] < loc[t].sep => low[-1][l] <= low[-1][o]
    BY <1>1, <1>4, <2>1, LinkBound
  <2>3. nl[-1][n] = loc[t].sep
    BY <2>2, BoundsStay
  <2>4. CASE low[-1][l] < loc[t].sep
    <3>1. low[-1][o] <= b
      BY <1>4, <2>2, <2>3
    <3>2. low[-1][o] <= low[-1][l]
      BY <2>2, <3>1 DEF Owns
    <3>3. low[-1][l] = low[-1][o]
      BY <1>1, <2>2, <2>4, <3>2
    <3>4. l = o
      BY <1>1, <2>2, <3>3 DEF TreeOrder, Distinct
    <3> QED
      BY <1>4, <2>1, <2>2, <2>3, <3>4
  <2>5. CASE ~(low[-1][l] < loc[t].sep)
    BY <1>1, <2>2, <2>3, <2>5
  <2> QED
    BY <2>4, <2>5
<1>5. ASSUME NEW y \in Nat, Public(-1, y)', nl[-1][y] <= b
      PROVE  nl[-1][y] <= nl[-1][l]
  BY <1>3, <1>4, <1>5, PublicStep
<1>6. nl[-1][l] <= b
  BY <1>1, <1>2
<1> QED
  BY <1>5, <1>6 DEF Owns

\* A client that stores its key stores it with the keys that are there.
LEMMA KeyAdded ==
  ASSUME IndInv, NEW low, LeafOrder(low), NEW t \in Foreground,
         Fills(t) \/ InsertLeft(t), NEW l, l = loc[t].lp
  PROVE  /\ KeyWrote(t, l) /\ HoldsLeaf(t)
         /\ meta'[l].bitmap = meta[l].bitmap \cup {loc[t].key}
         /\ meta'[l].alt = meta[l].alt
         /\ Owns(low, -1, l, loc[t].key)
<1>1. /\ t \in Thread /\ KeyWrote(t, l) /\ LeafKnown(t) /\ SplitReady(t)
      /\ KeyFits(low, t)
  BY KeyWrites DEF Thread, IndInv, LeafInv, LeafOrder
<1>2. HoldsLeaf(t) /\ pc[t] \in {"fill", "addleft"}
  BY <1>1 DEF KeyWrote, HoldsLeaf
<1>3. loc[t].meta.bitmap = meta[l].bitmap /\ loc[t].meta.alt = meta[l].alt
  BY <1>1, <1>2 DEF LeafKnown, SplitReady
<1>4. Owns(low, -1, l, loc[t].key)
  BY <1>1, <1>2 DEF KeyFits
<1> QED
  BY <1>1, <1>2, <1>3, <1>4 DEF KeyWrote

\* Only four actions change the entries of a leaf or its place in the chain.
LEMMA LeafStill ==
  ASSUME IndInv, NEW t \in Thread, Step(t), ~SplitPublish(t), ~SplitBuild(t),
         ~(t \in Foreground /\ (Fills(t) \/ InsertLeft(t))),
         NEW l \in LnodeId
  PROVE  SameLeaf(l)
<1>1. TypeOK
  BY DEF IndInv
<1>2. CASE Elsewhere(t)
  BY <1>1, <1>2, ElsewhereStep DEF SameLeaf
<1>3. CASE t \in Foreground /\ (FindLeaf(t) \/ PushJob(t))
  BY <1>3, FindWrites, PushWrites DEF FindWrote, LeavesStay
<1>4. CASE t \in Worker /\ (PopJob(t) \/ SplitLock(t) \/ TakeLeaf(t)
                              \/ SplitUnlock(t))
  <2>1. LeavesStay
    BY <1>4, PopWrites, LockWrites, TakeWrites, UnlockWrites
    DEF PopWrote, LockWrote, TakeWrote
  <2> QED
    BY <2>1 DEF LeavesStay
<1> QED
  BY <1>2, <1>3, <1>4, StepCases

\* Where the entries of a leaf after a step come from.
LEMMA EntriesFrom ==
  ASSUME IndInv, NEW low, LeafOrder(low), NEW t \in Thread, Step(t),
         NEW l \in LnodeId, l < nleaf, NEW b \in meta'[l].bitmap
  PROVE  \/ /\ b \in meta[l].bitmap
            /\ pc[t] = "publish" /\ l = loc[t].lp => b < loc[t].sep
         \/ b = loc[t].key /\ l = loc[t].lp /\ Owns(low, -1, l, b)
            /\ pc[t] # "publish"
<1>1. TypeOK /\ OwnLeafOnly(t) /\ nleaf \in Nat /\ l # nleaf
  BY OwnLeaves, LeafNumbers DEF IndInv
<1>2. CASE l # loc[t].lp \/ ~HoldsLeaf(t)
  <2>1. SameLeaf(l)
    BY <1>1, <1>2 DEF OwnLeafOnly
  <2>2. ~(pc[t] = "publish" /\ l = loc[t].lp)
    BY <1>2 DEF HoldsLeaf
  <2> QED
    BY <2>1, <2>2 DEF SameLeaf
<1>3. CASE SplitPublish(t) /\ l = loc[t].lp
  <2>1. PublishWrote(t) /\ SplitReady(t)
    BY <1>3, StepLabels DEF LeafOrder
  <2>2. meta'[l].bitmap = {a \in meta[l].bitmap : a < loc[t].sep}
    BY <1>3, <2>1 DEF PublishWrote, SplitReady
  <2> QED
    BY <2>2
<1>4. CASE SplitBuild(t) /\ l = loc[t].lp
  <2>1. PICK sk : /\ BuildWrote(t, nleaf, l, sk) /\ NewLeafWrote(t, nleaf, l, sk)
    BY <1>4, NewLeafWrites
  <2>2. meta'[l] = meta[l] /\ pc[t] = "build"
    BY <2>1, SMTT(30) DEF BuildWrote, NewLeafWrote
  <2> QED
    BY <2>2
<1>5. CASE t \in Foreground /\ (Fills(t) \/ InsertLeft(t)) /\ l = loc[t].lp
  <2>1. /\ KeyWrote(t, l) /\ Owns(low, -1, l, loc[t].key)
        /\ meta'[l].bitmap = meta[l].bitmap \cup {loc[t].key}
    BY <1>5, KeyAdded
  <2>2. pc[t] # "publish"
    BY <2>1 DEF KeyWrote
  <2> QED
    BY <1>5, <2>1, <2>2
<1>6. CASE ~SplitPublish(t) /\ ~SplitBuild(t)
             /\ ~(t \in Foreground /\ (Fills(t) \/ InsertLeft(t)))
  <2>1. pc[t] # "publish"
    BY <1>6, StepLabels
  <2>2. SameLeaf(l)
    BY <1>6, LeafStill
  <2> QED
    BY <2>1, <2>2 DEF SameLeaf
<1> QED
  BY <1>2, <1>3, <1>4, <1>5, <1>6

LEMMA KeysOwnedNext ==
  ASSUME IndInv, IndInv', ShapeInv, NEW low \in Bounds, Ordered(low),
         NEW nl \in Bounds, NEW t \in Thread, Step(t), LeafBounds(low, nl, t)
  PROVE  KeysOwned(nl)'
<1>1. /\ TypeOK /\ TreeOrder(low) /\ LeafOrder(low) /\ KeysOwned(low)
      /\ nleaf \in Nat
  BY LeafNumbers DEF Ordered, LeafOrder, IndInv
<1> SUFFICES ASSUME NEW l \in LnodeId, l < nleaf', NEW b \in meta'[l].bitmap
             PROVE  Owns(nl, -1, l, b)'
  BY DEF KeysOwned
<1>2. l \in Nat /\ b \in Int
  BY <1>1, LeafNumbers, Constants DEF IndInv, TypeOK, LeafTypeOK, LnodeMeta
<1>3. CASE l < nleaf
  <2>1. Node(-1, l)
    BY <1>2, <1>3 DEF Node
  <2>2. Owns(low, -1, l, b) /\ (pc[t] = "publish" /\ l = loc[t].lp => b < loc[t].sep)
    <3>1. CASE /\ b \in meta[l].bitmap
               /\ pc[t] = "publish" /\ l = loc[t].lp => b < loc[t].sep
      BY <1>1, <1>3, <3>1 DEF KeysOwned
    <3> QED
      BY <1>1, <1>3, <3>1, EntriesFrom
  <2> QED
    BY <1>1, <1>2, <2>1, <2>2, OwnsStays
<1>4. CASE ~(l < nleaf)
  <2>1. SplitBuild(t)
    BY <1>4, StepLabels
  <2>2. PICK o : o = loc[t].lp
    OBVIOUS
  <2>3. PICK sk : /\ BuildWrote(t, nleaf, o, sk) /\ NewLeafWrote(t, nleaf, o, sk)
                  /\ Grown(low, nl, -1, nleaf, sk)
    BY <2>1, <2>2 DEF LeafBounds
  <2>4. /\ o \in LnodeId /\ o < nleaf /\ o \in Nat /\ sk \in meta[o].bitmap
        /\ sk \in Int /\ IsSplitKey(sk, meta[o].bitmap) /\ nl[-1][nleaf] = sk
        /\ l = nleaf /\ pc[t] = "build"
    BY <1>1, <1>2, <1>4, <2>3 DEF BuildWrote, Grown
  <2>5. isFull(o)
    BY <2>2, <2>4 DEF IndInv, LeafInv, LeafKnown
  <2>6. low[-1][o] \in Int /\ low[-1][o] < sk
    BY <1>1, <2>4, <2>5, SplitKeyOwned
  <2>7. sk <= b /\ Owns(low, -1, o, b)
    <3>1. CASE b \in meta[o].bitmap /\ b >= sk
      BY <1>1, <1>2, <2>4, <3>1 DEF KeysOwned
    <3>2. CASE t \in Foreground /\ b = loc[t].key /\ loc[t].key > sk
      <4>1. Owns(low, -1, o, loc[t].key)
        BY <1>1, <2>2, <2>4, <3>2 DEF LeafOrder, KeyFits
      <4> QED
        BY <1>2, <2>4, <3>2, <4>1
    <3> QED
      BY <2>3, <2>4, <3>1, <3>2 DEF NewLeafWrote
  <2>8. ASSUME NEW y \in Nat, Public(-1, y)', nl[-1][y] <= b
        PROVE  nl[-1][y] <= sk
    <3>1. Public(-1, y)
      BY <2>4, <2>8, PublicStep
    <3>2. nl[-1][y] = low[-1][y] /\ low[-1][y] \in Int
      BY <3>1, BoundsStay DEF Public
    <3>3. low[-1][y] <= low[-1][o]
      BY <2>7, <2>8, <3>1, <3>2 DEF Owns
    <3> QED
      BY <2>4, <2>6, <3>2, <3>3
  <2> QED
    BY <2>4, <2>7, <2>8 DEF Owns
<1> QED
  BY <1>3, <1>4

-----------------------------------------------------------------------------
(* The chain after a step.                                                 *)

\* A linked leaf keeps its successor, but for the leaf that is split.
LEMMA SiblingStays ==
  ASSUME IndInv, NEW low, LeafOrder(low), NEW t \in Thread, Step(t),
         NEW l \in LnodeId, l < nleaf, ~(SplitPublish(t) /\ l = loc[t].lp)
  PROVE  nextSibling(l)' = nextSibling(l)
<1>1. OwnLeafOnly(t) /\ nleaf \in Nat /\ l # nleaf
  BY OwnLeaves, LeafNumbers DEF IndInv
<1>2. CASE SameLeaf(l)
  BY <1>2 DEF SameLeaf, nextSibling
<1>3. CASE SplitBuild(t) /\ l = loc[t].lp
  <2>1. PICK sk : NewLeafWrote(t, nleaf, l, sk)
    BY <1>3, NewLeafWrites
  <2> QED
    BY <2>1 DEF NewLeafWrote, nextSibling
<1>4. CASE t \in Foreground /\ (Fills(t) \/ InsertLeft(t)) /\ l = loc[t].lp
  <2>1. KeyWrote(t, l) /\ meta'[l].alt = meta[l].alt
    BY <1>4, KeyAdded
  <2> QED
    BY <2>1 DEF KeyWrote, nextSibling
<1> QED
  BY <1>1, <1>2, <1>3, <1>4, LeafStill DEF OwnLeafOnly

\* The store that links leaf n right of l.
LEMMA SiblingLinked ==
  ASSUME IndInv, NEW low, LeafOrder(low), NEW t \in Thread, PublishWrote(t),
         NEW l, l = loc[t].lp, NEW n, n = loc[t].ptr
  PROVE  nextSibling(l)' = n /\ nextSibling(n) = nextSibling(l)
<1>1. SplitReady(t) /\ pc[t] = "publish" /\ PublishWrote(t)
  BY DEF LeafOrder, PublishWrote
<1>2. /\ loc[t].meta.alt = 1 - meta[l].alt /\ tail[l][1 - meta[l].alt] = n
      /\ nextSibling(n) = nextSibling(l)
  BY <1>1 DEF SplitReady
<1>3. meta'[l].alt = 1 - meta[l].alt /\ tail' = tail
  BY <1>1, <1>2 DEF PublishWrote
<1> QED
  BY <1>2, <1>3 DEF nextSibling

LEMMA PublicLeaf ==
  ASSUME TypeOK, NEW x, Public(-1, x)
  PROVE  x \in LnodeId /\ x \in Nat /\ x < nleaf /\ Node(-1, x)
<1>1. x \in Nat /\ x < nleaf /\ nleaf \in Nat /\ nleaf <= MaxLeaf
  BY Constants DEF Public, Node, TypeOK, LeafTypeOK
<1> QED
  BY <1>1, Constants DEF LnodeId, Public

\* Where a linked leaf's successor is after a step.
ChainRight(low, l) ==
  IF nextSibling(l) = Null THEN IsLast(low, l)
                           ELSE Follows(low, l, nextSibling(l))

LEMMA ChainKept ==
  ASSUME IndInv, ShapeInv, NEW low \in Bounds, Ordered(low),
         NEW nl \in Bounds, NEW t \in Thread, Step(t), LeafBounds(low, nl, t),
         ~SplitPublish(t)
  PROVE  ChainLinked(nl)'
<1>1. /\ TypeOK /\ LeafOrder(low) /\ ChainLinked(low) /\ pc[t] # "publish"
      /\ nleaf \in Nat
  BY StepLabels, LeafNumbers DEF Ordered, LeafOrder, IndInv
<1>2. \A x \in Nat : Public(-1, x)' <=> Public(-1, x)
  BY <1>1, PublicStep
<1>3. \A x : Public(-1, x) => nl[-1][x] = low[-1][x]
  BY BoundsStay DEF Public
<1>4. \A x \in LnodeId : Public(-1, x) => nextSibling(x)' = nextSibling(x)
  BY <1>1, SiblingStays, PublicLeaf
<1>5. ASSUME NEW l \in LnodeId, Public(-1, l)'
      PROVE  ChainRight(nl, l)'
  <2>1. l \in Nat /\ Public(-1, l)
    BY <1>1, <1>2, <1>5, LeafNumbers
  <2>2. PICK q : q = nextSibling(l)
    OBVIOUS
  <2>3. nextSibling(l)' = q
    BY <1>4, <1>5, <2>1, <2>2
  <2>4. CASE q = Null
    <3>1. IsLast(low, l)
      BY <1>1, <1>5, <2>1, <2>2, <2>4 DEF ChainLinked
    <3>2. IsLast(nl, l)'
      BY <1>2, <1>3, <2>1, <3>1 DEF IsLast
    <3> QED
      BY <2>3, <2>4, <3>2 DEF ChainRight
  <2>5. CASE q # Null
    <3>1. Follows(low, l, q)
      BY <1>1, <1>5, <2>1, <2>2, <2>5 DEF ChainLinked
    <3>2. Public(-1, q) /\ q \in Nat
      BY <1>1, <3>1, PublicLeaf DEF Follows
    <3>3. Public(-1, q)'
      BY <1>2, <3>2
    <3>4. Follows(nl, l, q)'
      BY <1>2, <1>3, <2>1, <3>1, <3>2, <3>3 DEF Follows
    <3> QED
      BY <2>3, <2>5, <3>4 DEF ChainRight
  <2> QED
    BY <2>4, <2>5
<1>6. ASSUME NEW l \in LnodeId, Public(-1, l)', l # first_lnode
      PROVE  \E m \in LnodeId : Public(-1, m)' /\ nextSibling(m)' = l
  <2>1. l \in Nat /\ Public(-1, l)
    BY <1>1, <1>2, <1>6, LeafNumbers
  <2>2. PICK m \in LnodeId : Public(-1, m) /\ nextSibling(m) = l
    BY <1>1, <1>6, <2>1 DEF ChainLinked
  <2>3. Public(-1, m)' /\ nextSibling(m)' = l
    BY <1>1, <1>2, <1>4, <2>2, LeafNumbers
  <2> QED
    BY <2>3
<1> QED
  BY <1>5, <1>6 DEF ChainLinked, ChainRight

LEMMA ChainGrown ==
  ASSUME IndInv, ShapeInv, NEW low \in Bounds, Ordered(low),
         NEW nl \in Bounds, NEW t \in Thread, Step(t), LeafBounds(low, nl, t),
         SplitPublish(t)
  PROVE  ChainLinked(nl)'
<1> DEFINE k == loc[t].sep
<1>1. /\ TypeOK /\ LeafOrder(low) /\ TreeOrder(low) /\ ChainLinked(low)
      /\ Distinct(low) /\ pc[t] = "publish" /\ PublishWrote(t)
      /\ ~SplitBuild(t) /\ nleaf \in Nat
  BY StepLabels, LeafNumbers
  DEF Ordered, LeafOrder, TreeOrder, IndInv, PublishWrote
<1>2. PICK l, n : l = loc[t].lp /\ n = loc[t].ptr
  OBVIOUS
<1>3. /\ l \in LnodeId /\ l \in Nat /\ n \in LnodeId /\ n \in Nat /\ l # n
      /\ Public(-1, l) /\ Node(-1, l) /\ Node(-1, n) /\ ~Public(-1, n)
      /\ low[-1][n] = k /\ k \in Int
      /\ low[-1][l] \in Int /\ low[-1][l] < k
      /\ \A y \in Nat : Node(-1, y) /\ low[-1][y] < k =>
           low[-1][y] <= low[-1][l]
  BY <1>1, <1>2, LinkBound
<1> HIDE DEF k
<1>4. \A x \in Nat : Public(-1, x)' <=> Public(-1, x) \/ x = n
  BY <1>1, <1>2, PublicStep
<1>5. \A x : Node(-1, x) => nl[-1][x] = low[-1][x] /\ low[-1][x] \in Int
  BY BoundsStay
<1>6. /\ nextSibling(l)' = n /\ nextSibling(n)' = nextSibling(l)
      /\ \A x \in LnodeId : Public(-1, x) /\ x # l =>
           nextSibling(x)' = nextSibling(x)
  <2>1. nextSibling(l)' = n /\ nextSibling(n) = nextSibling(l)
    BY <1>1, <1>2, SiblingLinked
  <2>2. n < nleaf
    BY <1>3 DEF Node
  <2>3. \A x \in LnodeId : x < nleaf /\ x # l => nextSibling(x)' = nextSibling(x)
    BY <1>1, <1>2, SiblingStays
  <2> QED
    BY <1>1, <1>3, <2>1, <2>2, <2>3, PublicLeaf
<1>7. \A x : Public(-1, x) =>
        /\ x \in Nat /\ x \in LnodeId /\ x # n /\ Node(-1, x)
        /\ nl[-1][x] = low[-1][x] /\ low[-1][x] \in Int
        /\ low[-1][x] < k \/ k < low[-1][x]
        /\ low[-1][x] < k => low[-1][x] <= low[-1][l]
        /\ x # l => low[-1][x] # low[-1][l]
  <2> SUFFICES ASSUME NEW x, Public(-1, x)
               PROVE  /\ x \in Nat /\ x \in LnodeId /\ x # n /\ Node(-1, x)
                      /\ nl[-1][x] = low[-1][x] /\ low[-1][x] \in Int
                      /\ low[-1][x] < k \/ k < low[-1][x]
                      /\ low[-1][x] < k => low[-1][x] <= low[-1][l]
                      /\ x # l => low[-1][x] # low[-1][l]
    OBVIOUS
  <2>1. /\ x \in Nat /\ x \in LnodeId /\ x # n /\ Node(-1, x)
        /\ nl[-1][x] = low[-1][x] /\ low[-1][x] \in Int
    BY <1>1, <1>3, <1>5, PublicLeaf
  <2>2. -1 \in NodeLevel
    BY Constants DEF NodeLevel
  <2>3. low[-1][x] # k /\ (x # l => low[-1][x] # low[-1][l])
    BY <1>1, <1>3, <2>1, <2>2 DEF Distinct
  <2>4. low[-1][x] < k \/ k < low[-1][x]
    BY <1>3, <2>1, <2>3
  <2> QED
    BY <1>3, <2>1, <2>3, <2>4
<1>8. nl[-1][n] = k
  BY <1>3, <1>5
<1>9. Follows(nl, l, n)'
  <2>1. nl[-1][l] < nl[-1][n] /\ nl[-1][l] = low[-1][l]
    BY <1>3, <1>7, <1>8
  <2>2. ASSUME NEW m \in Nat, Public(-1, m)', nl[-1][l] < nl[-1][m]
        PROVE  nl[-1][n] <= nl[-1][m]
    <3>1. CASE m = n
      BY <1>3, <1>8, <3>1
    <3>2. CASE m # n
      <4>1. Public(-1, m)
        BY <1>4, <2>2, <3>2
      <4> QED
        BY <1>3, <1>7, <1>8, <2>1, <2>2, <4>1
    <3> QED
      BY <3>1, <3>2
  <2>3. Public(-1, n)'
    BY <1>3, <1>4
  <2> QED
    BY <2>1, <2>2, <2>3 DEF Follows
<1>10. PICK q : q = nextSibling(l)
  OBVIOUS
<1>11. ChainRight(nl, n)'
  <2>1. CASE q = Null
    <3>1. \A m \in Nat : Public(-1, m) => low[-1][m] <= low[-1][l]
      BY <1>1, <1>3, <1>10, <2>1 DEF ChainLinked, IsLast
    <3>2. ASSUME NEW m \in Nat, Public(-1, m)' PROVE nl[-1][m] <= nl[-1][n]
      <4>1. CASE m = n
        BY <1>3, <1>8, <4>1
      <4>2. CASE m # n
        <5>1. Public(-1, m)
          BY <1>4, <3>2, <4>2
        <5> QED
          BY <1>3, <1>7, <1>8, <3>1, <5>1
      <4> QED
        BY <4>1, <4>2
    <3>3. IsLast(nl, n)'
      BY <3>2 DEF IsLast
    <3>4. nextSibling(n)' = Null
      BY <1>6, <1>10, <2>1
    <3> QED
      BY <3>3, <3>4 DEF ChainRight
  <2>2. CASE q # Null
    <3>1. /\ Public(-1, q) /\ low[-1][l] < low[-1][q]
          /\ \A m \in Nat : Public(-1, m) /\ low[-1][l] < low[-1][m] =>
               low[-1][q] <= low[-1][m]
      BY <1>1, <1>3, <1>10, <2>2 DEF ChainLinked, Follows
    <3>2. k < low[-1][q] /\ nl[-1][q] = low[-1][q]
      BY <1>3, <1>7, <3>1
    <3>3. ASSUME NEW m \in Nat, Public(-1, m)', nl[-1][n] < nl[-1][m]
          PROVE  nl[-1][q] <= nl[-1][m]
      <4>1. m # n
        BY <1>3, <1>8, <3>3
      <4>2. Public(-1, m)
        BY <1>4, <3>3, <4>1
      <4> QED
        BY <1>3, <1>7, <1>8, <3>1, <3>2, <3>3, <4>2
    <3>4. Public(-1, q)'
      BY <1>4, <1>7, <3>1
    <3>5. Follows(nl, n, q)'
      BY <1>8, <3>2, <3>3, <3>4 DEF Follows
    <3>6. nextSibling(n)' = q
      BY <1>6, <1>10
    <3> QED
      BY <2>2, <3>5, <3>6 DEF ChainRight
  <2> QED
    BY <2>1, <2>2
<1>12. ASSUME NEW m, Public(-1, m), m # l PROVE ChainRight(nl, m)'
  <2>1. PICK r : r = nextSibling(m)
    OBVIOUS
  <2>2. nextSibling(m)' = r /\ m \in LnodeId /\ m \in Nat
    BY <1>6, <1>7, <1>12, <2>1
  <2>3. CASE r = Null
    <3>1. \A y \in Nat : Public(-1, y) => low[-1][y] <= low[-1][m]
      BY <1>1, <1>12, <2>1, <2>2, <2>3 DEF ChainLinked, IsLast
    <3>2. k < low[-1][m]
      BY <1>3, <1>7, <1>12, <3>1
    <3>3. ASSUME NEW y \in Nat, Public(-1, y)' PROVE nl[-1][y] <= nl[-1][m]
      <4>1. CASE y = n
        BY <1>3, <1>7, <1>8, <1>12, <3>2, <4>1
      <4>2. CASE y # n
        <5>1. Public(-1, y)
          BY <1>4, <3>3, <4>2
        <5> QED
          BY <1>7, <1>12, <3>1, <5>1
      <4> QED
        BY <4>1, <4>2
    <3>4. IsLast(nl, m)'
      BY <3>3 DEF IsLast
    <3> QED
      BY <2>2, <2>3, <3>4 DEF ChainRight
  <2>4. CASE r # Null
    <3>1. /\ Public(-1, r) /\ low[-1][m] < low[-1][r]
          /\ \A y \in Nat : Public(-1, y) /\ low[-1][m] < low[-1][y] =>
               low[-1][r] <= low[-1][y]
      BY <1>1, <1>12, <2>1, <2>2, <2>4 DEF ChainLinked, Follows
    <3>2. low[-1][m] < k => low[-1][r] < k
      BY <1>3, <1>7, <1>12, <3>1
    <3>3. ASSUME NEW y \in Nat, Public(-1, y)', nl[-1][m] < nl[-1][y]
          PROVE  nl[-1][r] <= nl[-1][y]
      <4>1. CASE y = n
        BY <1>3, <1>7, <1>8, <1>12, <3>1, <3>2, <3>3, <4>1
      <4>2. CASE y # n
        <5>1. Public(-1, y)
          BY <1>4, <3>3, <4>2
        <5> QED
          BY <1>7, <1>12, <3>1, <3>3, <5>1
      <4> QED
        BY <4>1, <4>2
    <3>4. Public(-1, r)' /\ nl[-1][m] < nl[-1][r]
      BY <1>4, <1>7, <1>12, <3>1
    <3>5. Follows(nl, m, r)'
      BY <3>3, <3>4 DEF Follows
    <3> QED
      BY <2>2, <2>4, <3>5 DEF ChainRight
  <2> QED
    BY <2>3, <2>4
<1>13. ASSUME NEW x \in LnodeId, Public(-1, x)' PROVE ChainRight(nl, x)'
  <2>1. x \in Nat
    BY <1>1, LeafNumbers
  <2>2. CASE x = l
    <3>1. n # Null
      BY <1>3 DEF Null
    <3> QED
      BY <1>6, <1>9, <2>2, <3>1 DEF ChainRight
  <2>3. CASE x = n
    BY <1>11, <2>3
  <2>4. CASE x # n /\ x # l
    <3>1. Public(-1, x)
      BY <1>4, <1>13, <2>1, <2>4
    <3> QED
      BY <1>12, <2>4, <3>1
  <2> QED
    BY <2>2, <2>3, <2>4
<1>14. ASSUME NEW x \in LnodeId, Public(-1, x)', x # first_lnode
       PROVE  \E m \in LnodeId : Public(-1, m)' /\ nextSibling(m)' = x
  <2>1. CASE x = n
    <3>1. Public(-1, l)' /\ nextSibling(l)' = x
      BY <1>3, <1>4, <1>6, <2>1
    <3> QED
      BY <1>3, <3>1
  <2>2. CASE x # n
    <3>1. Public(-1, x)
      BY <1>1, <1>4, <1>14, <2>2, LeafNumbers
    <3>2. PICK m \in LnodeId : Public(-1, m) /\ nextSibling(m) = x
      BY <1>1, <1>14, <3>1 DEF ChainLinked
    <3>3. CASE m = l
      <4>1. Public(-1, n)' /\ nextSibling(n)' = x
        BY <1>3, <1>4, <1>6, <3>2, <3>3
      <4> QED
        BY <1>3, <4>1
    <3>4. CASE m # l
      <4>1. Public(-1, m)' /\ nextSibling(m)' = x
        BY <1>4, <1>6, <1>7, <3>2, <3>4
      <4> QED
        BY <4>1
    <3> QED
      BY <3>3, <3>4
  <2> QED
    BY <2>1, <2>2
<1> QED
  BY <1>13, <1>14 DEF ChainLinked, ChainRight

-----------------------------------------------------------------------------
(* What a thread knows of its leaf after a step.                           *)

WithKey == {"copy", "fill", "build", "publish", "addleft"}

\* t keeps its leaf and its key.
SameCall(t) ==
  HoldsLeaf(t) /\ loc'[t].lp = loc[t].lp /\ loc'[t].key = loc[t].key

\* How a client comes to have a key for a leaf.
LEMMA KeyLabels ==
  ASSUME IndInv, NEW t \in Foreground, Step(t), pc'[t] \in WithKey
  PROVE  \/ \E p, c : pc[t] = "find" /\ LeavesStay /\ LeafTaken(t, p, c)
         \/ pc[t] = "copy" /\ pc'[t] \in {"fill", "build"} /\ SameCall(t)
            /\ SameLeaf(loc[t].lp)
         \/ pc[t] = "build" /\ pc'[t] = "publish" /\ SameCall(t)
            /\ meta'[loc[t].lp] = meta[loc[t].lp]
         \/ pc[t] = "publish" /\ pc'[t] = "addleft" /\ SameCall(t)
            /\ loc'[t] = loc[t] /\ loc[t].key <= loc[t].sep
<1>1. /\ TypeOK /\ t \in Thread /\ t \notin Worker /\ loc[t].lp \in LnodeId
      /\ pc \in [Thread -> ForegroundLabel \cup WorkerLabel]
      /\ loc \in [Thread -> Local]
  BY LocalFields, Constants DEF IndInv, TypeOK, ThreadTypeOK, Thread
<1>2. CASE Elsewhere(t)
  <2>1. UNCHANGED <<meta, tail>>
    BY <1>1, <1>2, ElsewhereStep
  <2>2. CASE CopyMeta(t)
    <3>1. pc[t] = "copy" /\ pc'[t] \in {"fill", "build"}
      BY <1>1, <2>2 DEF CopyMeta, Goto
    <3>2. loc'[t].lp = loc[t].lp /\ loc'[t].key = loc[t].key
      BY <1>1, <2>2 DEF CopyMeta, Local
    <3>3. SameCall(t) /\ SameLeaf(loc[t].lp)
      BY <2>1, <3>1, <3>2 DEF SameCall, SameLeaf, HoldsLeaf
    <3> QED
      BY <3>1, <3>3
  <2>3. CASE ~CopyMeta(t)
    <3>1. pc'[t] \notin WithKey
      BY <1>1, <1>2, <2>3 DEF Elsewhere, Call, SearchLnode, SearchResult, ReadCh, Return,
        ReadLevel, InsertInode, SplitInode, GrowRoot, GrowSecondStore,
        UnlockOldRoot, UnlockNewRoot, Goto, Done, WithKey
    <3> QED
      BY <3>1
  <2> QED
    BY <2>2, <2>3
<1>3. CASE FindLeaf(t)
  BY <1>3, FindWrites DEF FindWrote, WithKey
<1>4. CASE PushJob(t)
  BY <1>4, PushWrites DEF WithKey
<1>5. CASE Fills(t) \/ InsertLeft(t)
  BY <1>5, KeyWrites DEF KeyWrote, WithKey
<1>6. CASE SplitBuild(t)
  <2>1. PICK sk : /\ BuildWrote(t, nleaf, loc[t].lp, sk)
                  /\ NewLeafWrote(t, nleaf, loc[t].lp, sk)
    BY <1>1, <1>6, NewLeafWrites
  <2> QED
    BY <2>1, SMTT(30) DEF BuildWrote, NewLeafWrote, SameCall
<1>7. CASE SplitPublish(t)
  <2>1. PublishWrote(t)
    BY <1>1, <1>7, PublishWrites
  <2>2. pc[t] = "publish" /\ pc'[t] = "addleft" /\ loc'[t] = loc[t]
        /\ loc[t].key <= loc[t].sep
    BY <1>1, <2>1 DEF PublishWrote, WithKey
  <2> QED
    BY <2>2 DEF SameCall, HoldsLeaf
<1> QED
  BY <1>1, <1>2, <1>3, <1>4, <1>5, <1>6, <1>7, StepCases

LEMMA KeyFitsNext ==
  ASSUME IndInv, ShapeInv, Rooted, NEW low \in Bounds, Ordered(low),
         NEW nl \in Bounds, NEW t \in Thread, Step(t), LeafBounds(low, nl, t),
         NEW u \in Foreground
  PROVE  KeyFits(nl, u)'
<1>1. /\ TypeOK /\ TreeOrder(low) /\ LeafOrder(low) /\ OthersStay(t)
      /\ u \in Thread /\ LeafLockOwner /\ KeyFits(low, u) /\ SplitReady(u)
  BY Parts, StepStays DEF Ordered, LeafOrder, Thread
<1>2. ASSUME NEW v \in Thread, HoldsLeaf(v), loc'[v].lp = loc[v].lp,
             loc'[v].key = loc[v].key, Owns(low, -1, loc[v].lp, loc[v].key),
             v # t \/ (pc[t] = "publish" => loc[t].key < loc[t].sep)
      PROVE  Owns(nl, -1, loc[v].lp, loc[v].key)'
  <2>1. PICK l, k : l = loc[v].lp /\ k = loc[v].key
    OBVIOUS
  <2>2. Node(-1, l) /\ k \in Int
    BY <1>1, <1>2, <2>1, HeldPublic, LocalFields, Constants DEF Public
  <2>3. pc[t] = "publish" /\ l = loc[t].lp => k < loc[t].sep
    <3>1. pc[t] = "publish" => HoldsLeaf(t)
      BY DEF HoldsLeaf
    <3> QED
      BY <1>1, <1>2, <2>1, <3>1 DEF LeafLockOwner
  <2>4. Owns(nl, -1, l, k)'
    BY <1>1, <1>2, <2>1, <2>2, <2>3, OwnsStays
  <2> QED
    BY <1>2, <2>1, <2>4 DEF Owns
<1>3. CASE u # t
  <2>1. pc'[u] = pc[u] /\ loc'[u] = loc[u]
    BY <1>1, <1>3 DEF OthersStay
  <2>2. CASE pc[u] \in WithKey
    <3>1. HoldsLeaf(u) /\ SameLeaf(loc[u].lp)
      BY <1>3, <2>2, OthersLeaves, <1>1 DEF HoldsLeaf, WithKey
    <3>2. Owns(low, -1, loc[u].lp, loc[u].key)
      BY <1>1, <2>2 DEF KeyFits, WithKey
    <3>3. Owns(nl, -1, loc[u].lp, loc[u].key)'
      BY <1>1, <1>2, <1>3, <2>1, <3>1, <3>2
    <3>4. meta'[loc[u].lp].bitmap = meta[loc[u].lp].bitmap
      BY <3>1 DEF SameLeaf
    <3> QED
      BY <1>1, <2>1, <3>3, <3>4 DEF KeyFits
  <2>3. CASE pc[u] \notin WithKey
    BY <2>1, <2>3 DEF KeyFits, WithKey
  <2> QED
    BY <2>2, <2>3
<1>4. CASE u = t /\ pc'[t] \in WithKey
  <2>1. t \in Foreground
    BY <1>4
  <2>2. CASE \E p, c : pc[t] = "find" /\ LeavesStay /\ LeafTaken(t, p, c)
    <3>1. PICK p, c : pc[t] = "find" /\ LeavesStay /\ LeafTaken(t, p, c)
      BY <2>2
    <3>2. PICK k : k = loc[t].key
      OBVIOUS
    <3>3. /\ k \in Key /\ k \in Int /\ p \in Descents(k) /\ c = LeafFor(p, k)
          /\ ~meta[c].lock /\ c \in LnodeId /\ k \notin meta[c].bitmap
      BY <1>1, <3>1, <3>2, LocalFields, Constants DEF LeafTaken
    <3>4. Owns(low, -1, c, k) /\ Node(-1, c)
      BY <1>1, <3>3, FoundLeaf, BottomLast
    <3>5. Owns(nl, -1, c, k)'
      BY <1>1, <3>1, <3>3, <3>4, OwnsStays
    <3>6. /\ loc'[t].lp = c /\ loc'[t].key = k /\ pc'[t] = "copy"
          /\ meta'[c].bitmap = meta[c].bitmap
      BY <3>1, <3>2, <3>3 DEF LeafTaken, LeavesStay, SameLeaf
    <3>7. Owns(nl, -1, loc[t].lp, loc[t].key)'
      BY <3>5, <3>6 DEF Owns
    <3> QED
      BY <1>4, <3>3, <3>6, <3>7 DEF KeyFits
  <2>3. CASE /\ pc[t] = "copy" /\ pc'[t] \in {"fill", "build"} /\ SameCall(t)
             /\ SameLeaf(loc[t].lp)
    <3>1. /\ Owns(low, -1, loc[t].lp, loc[t].key)
          /\ loc[t].key \notin meta[loc[t].lp].bitmap
      BY <1>1, <1>4, <2>3 DEF KeyFits
    <3>2. Owns(nl, -1, loc[t].lp, loc[t].key)'
      BY <1>2, <2>3, <3>1 DEF SameCall
    <3>3. loc'[t].key \notin meta'[loc'[t].lp].bitmap
      BY <2>3, <3>1 DEF SameCall, SameLeaf
    <3> QED
      BY <1>4, <2>3, <3>2, <3>3 DEF KeyFits
  <2>4. CASE /\ pc[t] = "build" /\ pc'[t] = "publish" /\ SameCall(t)
             /\ meta'[loc[t].lp] = meta[loc[t].lp]
    <3>1. /\ Owns(low, -1, loc[t].lp, loc[t].key)
          /\ loc[t].key \notin meta[loc[t].lp].bitmap
      BY <1>1, <1>4, <2>4 DEF KeyFits
    <3>2. Owns(nl, -1, loc[t].lp, loc[t].key)'
      BY <1>2, <2>4, <3>1 DEF SameCall
    <3>3. loc'[t].key \notin meta'[loc'[t].lp].bitmap
      BY <2>4, <3>1 DEF SameCall
    <3> QED
      BY <1>4, <2>4, <3>2, <3>3 DEF KeyFits
  <2>5. CASE /\ pc[t] = "publish" /\ pc'[t] = "addleft" /\ SameCall(t)
             /\ loc'[t] = loc[t] /\ loc[t].key <= loc[t].sep
    <3>1. /\ Owns(low, -1, loc[t].lp, loc[t].key)
          /\ loc[t].key \notin meta[loc[t].lp].bitmap
          /\ loc[t].sep \in meta[loc[t].lp].bitmap
      BY <1>1, <1>4, <2>5 DEF KeyFits, SplitReady
    <3>2. loc[t].key < loc[t].sep
      <4>1. loc[t].key # loc[t].sep /\ loc[t].key \in Int /\ loc[t].sep \in Int
        BY <1>1, <3>1, LocalFields, Constants
      <4> QED
        BY <2>5, <4>1
    <3>3. Owns(nl, -1, loc[t].lp, loc[t].key)'
      BY <1>2, <2>5, <3>1, <3>2 DEF SameCall
    <3>4. loc'[t].key < loc'[t].sep
      BY <2>5, <3>2
    <3> QED
      BY <1>4, <2>5, <3>3, <3>4 DEF KeyFits
  <2> QED
    BY <1>1, <1>4, <2>1, <2>2, <2>3, <2>4, <2>5, KeyLabels
<1>5. CASE u = t /\ pc'[t] \notin WithKey
  BY <1>5 DEF KeyFits, WithKey
<1> QED
  BY <1>3, <1>4, <1>5

LEMMA SplitReadyNext ==
  ASSUME IndInv, ShapeInv, NEW low, LeafOrder(low),
         NEW t \in Thread, Step(t), NEW u \in Thread
  PROVE  SplitReady(u)'
<1>1. TypeOK /\ OthersStay(t) /\ SplitReady(u) /\ SplitReady(t)
  BY StepStays DEF LeafOrder, IndInv
<1>2. CASE u # t
  <2>1. pc'[u] = pc[u] /\ loc'[u] = loc[u]
    BY <1>1, <1>2 DEF OthersStay
  <2>2. PICK l, n : l = loc[u].lp /\ n = loc[u].ptr
    OBVIOUS
  <2>3. CASE pc[u] \in {"publish", "addleft"}
    <3>1. HoldsLeaf(u) /\ Carries(u)
      BY <2>3 DEF HoldsLeaf, Carries
    <3>2. /\ meta'[l].bitmap = meta[l].bitmap /\ meta'[l].alt = meta[l].alt
          /\ tail'[l] = tail[l]
          /\ meta'[n].bitmap = meta[n].bitmap /\ meta'[n].alt = meta[n].alt
          /\ tail'[n] = tail[n]
      BY <1>2, <2>2, <3>1, OthersLeaves DEF SameLeaf
    <3>3. nextSibling(n)' = nextSibling(n) /\ nextSibling(l)' = nextSibling(l)
      BY <3>2 DEF nextSibling
    <3>4. CASE pc[u] = "publish"
      <4>1. PICK S, R, a : S = meta[l].bitmap /\ R = meta[n].bitmap /\ a = meta[l].alt
        OBVIOUS
      <4>2. /\ loc[u].sep \in S
            /\ loc[u].meta.bitmap = {b \in S : b < loc[u].sep}
            /\ loc[u].meta.alt = 1 - a
            /\ tail[l][1 - a] = n
            /\ R = {b \in S : b >= loc[u].sep} \cup
                 IF u \in Foreground /\ loc[u].key > loc[u].sep THEN {loc[u].key}
                                                               ELSE {}
            /\ nextSibling(n) = nextSibling(l)
        BY <1>1, <2>2, <3>4, <4>1, SMTT(30) DEF SplitReady
      <4>3. /\ meta'[l].bitmap = S /\ meta'[n].bitmap = R /\ meta'[l].alt = a
            /\ tail'[l] = tail[l]
        BY <3>2, <4>1
      <4> QED
        BY <2>1, <2>2, <3>3, <3>4, <4>2, <4>3 DEF SplitReady
    <3>5. CASE pc[u] = "addleft"
      BY <1>1, <2>1, <2>2, <3>2, <3>5 DEF SplitReady
    <3> QED
      BY <2>3, <3>4, <3>5
  <2>4. CASE pc[u] \notin {"publish", "addleft"}
    BY <2>1, <2>4 DEF SplitReady
  <2> QED
    BY <2>3, <2>4
<1>3. CASE u = t /\ pc'[t] = "publish"
  <2>1. PICK l, n : l = loc[t].lp /\ n = nleaf
    OBVIOUS
  <2>2. SplitBuild(t)
    BY <1>3, StepLabels
  <2>3. PICK sk : BuildWrote(t, n, l, sk) /\ NewLeafWrote(t, n, l, sk)
    BY <2>1, <2>2, NewLeafWrites
  <2>4. /\ loc'[t].sep = sk /\ loc'[t].lp = l /\ loc'[t].ptr = n
        /\ loc'[t].key = loc[t].key /\ sk \in meta[l].bitmap
        /\ meta'[l] = meta[l]
        /\ loc'[t].meta.bitmap = {b \in meta[l].bitmap : b < sk}
        /\ loc'[t].meta.alt = 1 - meta[l].alt
        /\ tail'[l][1 - meta[l].alt] = n
        /\ meta'[n].bitmap = {b \in meta[l].bitmap : b >= sk} \cup
             IF t \in Foreground /\ loc[t].key > sk THEN {loc[t].key} ELSE {}
    BY <2>3, SMTT(30) DEF BuildWrote, NewLeafWrote
  <2>5. nextSibling(n)' = nextSibling(l)'
    BY <2>3 DEF NewLeafWrote, nextSibling
  <2>6. (nextSibling(loc[t].ptr) = nextSibling(loc[t].lp))'
    BY <2>4, <2>5 DEF nextSibling
  <2> QED
    BY <1>3, <2>4, <2>6 DEF SplitReady
<1>4. CASE u = t /\ pc'[t] = "addleft"
  <2>1. PublishWrote(t)
    BY <1>4, StepLabels
  <2>2. meta'[loc[t].lp] = loc[t].meta /\ loc'[t] = loc[t]
    BY <2>1 DEF PublishWrote
  <2> QED
    BY <1>4, <2>2 DEF SplitReady
<1>5. CASE u = t /\ pc'[t] \notin {"publish", "addleft"}
  BY <1>5 DEF SplitReady
<1> QED
  BY <1>2, <1>3, <1>4, <1>5

-----------------------------------------------------------------------------
(* The invariant.                                                          *)

\* There is a number below all keys.
LEMMA BelowKeys == \E b \in Int : \A k \in Key : b < k
<1> DEFINE X == {A \in SUBSET Key : ~ \E b \in Int : \A k \in A : b < k}
<1>1. IsFiniteSet(Key) /\ Key \subseteq Int
  BY ConstantsOK, Constants DEF ConstantsOK
<1>2. IsWellFoundedOn(StrictSubsetOrdering(Key), SUBSET Key)
  BY <1>1, FS_StrictSubsetOrderingWellFounded, FS_FiniteSubsetsOfFinite
<1>3. ASSUME X # {} PROVE FALSE
  <2>1. PICK A \in X : \A B \in X : ~(<<B, A>> \in StrictSubsetOrdering(Key))
    <3>1. X \subseteq SUBSET Key
      OBVIOUS
    <3> HIDE DEF X
    <3> QED
      BY <1>2, <1>3, <3>1, WFMin
  <2>2. A \subseteq Key
    OBVIOUS
  <2>3. PICK x : x \in A
    <3>1. CASE A = {}
      <4>1. \A k \in A : 0 < k
        BY <3>1
      <4> QED
        BY <4>1
    <3> QED
      BY <3>1
  <2>4. A \ {x} \notin X
    BY <2>1, <2>2, <2>3 DEF StrictSubsetOrdering
  <2>5. PICK b \in Int : \A k \in A \ {x} : b < k
    BY <2>2, <2>4
  <2>6. x \in Int /\ \A k \in A : k \in Int
    BY <1>1, <2>2, <2>3
  <2>7. PICK c \in Int : c <= b /\ c < x
    <3>1. (b < x \/ ~(b < x)) /\ x - 1 \in Int /\ x - 1 < x
      BY <2>6
    <3>2. ~(b < x) => x - 1 <= b
      BY <2>6
    <3> QED
      BY <2>6, <3>1, <3>2
  <2>8. \A k \in A : c < k
    BY <2>5, <2>6, <2>7
  <2> QED
    BY <2>8
<1>4. Key \notin X
  BY <1>3
<1> QED
  BY <1>4

LEMMA OrderInit == Init => OrderInv
<1> SUFFICES ASSUME Init PROVE OrderInv
  OBVIOUS
<1>1. /\ tree_root = <<0, 0>> /\ root_level = 0 /\ nleaf = 1 /\ job_queue = {}
      /\ \A i \in Level : ninode[i] = IF i = 0 THEN 1 ELSE 0
      /\ \A i \in Level, x \in InodeNum :
           /\ ent[<<i, x>>].k = <<>> /\ ent[<<i, x>>].ch = <<0>>
           /\ Size(i, x) = 0 /\ Kid(i, x, 1) = 0
      /\ \A l \in LnodeId : meta[l].bitmap = {} /\ nextSibling(l) = Null
      /\ \A t \in Thread : pc[t] = "idle" \/ pc[t] = "pop"
  BY Constants DEF Init, Inode, Size, Kid, num, NoMeta, nextSibling, first_lnode
<1>2. \A t \in Foreground : pc[t] = "idle"
  BY DEF Init, Thread
<1>3. /\ 0 \in Level /\ 0 \in InodeNum /\ 0 \in LnodeId
      /\ \A x \in Nat : x < 1 <=> x = 0
      /\ \A x \in InodeNum : x \in Nat
      /\ \A x \in LnodeId : x \in Nat
      /\ \A i \in Level : i \in Nat /\ i \in NodeLevel /\ i - 1 \in NodeLevel
                          /\ (i = 0 \/ i > 0)
      /\ -1 \in NodeLevel
  BY Constants DEF Level, InodeNum, LnodeId, NodeLevel
<1>4. \A t \in Thread : /\ ~Bears(t) /\ ~Carries(t) /\ ~HoldsPath(t)
                        /\ pc[t] \notin {"inode", "growroot", "publish", "addleft",
                             "copy", "fill", "build", "lock", "flush"}
  BY <1>1 DEF Bears, Carries, HoldsPath
<1>5. ShapeInv
  <2>1. CarriedApart
    BY <1>4 DEF CarriedApart
  <2>2. InodesRooted
    BY <1>1, <1>3 DEF InodesRooted
  <2>3. TopEmpty
    BY <1>1, <1>3 DEF TopEmpty
  <2>4. LeafAlone
    <3>1. \A t, u \in Thread : t # u => ~(Uses(t) /\ Uses(u) /\ loc[t].lp = loc[u].lp)
      <4>1. \A t \in Thread : ~Uses(t)
        BY <1>1, <1>2, <1>4 DEF Uses, HoldsLeaf, Thread, Init
      <4> QED
        BY <4>1
    <3> QED
      BY <1>4, <3>1 DEF LeafAlone
  <2>5. \A t \in Thread : InodeAlone(t) /\ PathLinked(t) /\ RootMade(t)
    BY <1>4 DEF InodeAlone, PathLinked, RootMade
  <2> QED
    BY <2>1, <2>2, <2>3, <2>4, <2>5 DEF ShapeInv
<1>6. PICK b \in Int : \A k \in Key : b < k
  BY BelowKeys
<1>7. PICK low : low = [i \in NodeLevel |-> [x \in Nat |-> b]]
  OBVIOUS
<1>8. low \in Bounds /\ \A i \in NodeLevel, x \in Nat : low[i][x] = b
  BY <1>7 DEF Bounds
<1>9. \A i \in NodeLevel, x \in Nat : Node(i, x) => x = 0
  BY <1>1, <1>3, Constants DEF Node, NodeLevel, Level
<1>10. TreeOrder(low)
  <2>1. Distinct(low)
    BY <1>9 DEF Distinct
  <2>2. ChildBounds(low)
    <3>1. ASSUME NEW i \in Level, NEW x \in InodeNum,
                 NEW j \in 1..(Size(i, x) + 1)
          PROVE  j = 1 /\ Kid(i, x, j) = 0 /\ 0 \in Nat
      <4>1. Size(i, x) = 0 /\ Kid(i, x, 1) = 0
        BY <1>1
      <4>2. j \in 1..(0 + 1)
        BY <4>1
      <4>3. j = 1
        BY <4>2
      <4> QED
        BY <4>1, <4>3
    <3> QED
      BY <1>3, <1>8, <3>1 DEF ChildBounds
  <2>3. SepsOwned(low)
    <3>1. ASSUME NEW i \in Level, NEW x \in InodeNum PROVE 1..Size(i, x) = {}
      <4>1. Size(i, x) = 0
        BY <1>1
      <4>2. 1..0 = {}
        OBVIOUS
      <4> QED
        BY <4>1, <4>2
    <3> QED
      BY <3>1 DEF SepsOwned
  <2>4. RootBound(low)
    <3>1. tree_root[1] = 0 /\ tree_root[2] = 0 /\ low[0][0] = b
      BY <1>1, <1>3, <1>8
    <3> QED
      BY <1>6, <3>1 DEF RootBound
  <2>5. \A t \in Thread : BornBound(low, t)
    BY <1>4 DEF BornBound
  <2> QED
    BY <2>1, <2>2, <2>3, <2>4, <2>5 DEF TreeOrder
<1>11. LeafOrder(low)
  <2>1. KeysOwned(low)
    BY <1>1 DEF KeysOwned
  <2>2. \A x \in Nat : Public(-1, x) => x = 0
    BY <1>1, <1>3, <1>9 DEF Public
  <2>3. ChainLinked(low)
    <3>1. \A l \in LnodeId : Public(-1, l) => l = 0 /\ nextSibling(l) = Null
      BY <1>1, <1>3, <2>2
    <3>2. IsLast(low, 0)
      BY <1>3, <1>8, <2>2 DEF IsLast
    <3> QED
      BY <3>1, <3>2 DEF ChainLinked, first_lnode
  <2>4. \A t \in Thread : KeyFits(low, t) /\ SplitReady(t)
    BY <1>4 DEF KeyFits, SplitReady
  <2> QED
    BY <2>1, <2>3, <2>4 DEF LeafOrder
<1>12. Ordered(low)
  BY <1>10, <1>11 DEF Ordered
<1> QED
  BY <1>5, <1>8, <1>12 DEF OrderInv

\* A step that changes nothing.
LEMMA OrderStutter ==
  ASSUME OrderInv, UNCHANGED vars
  PROVE  OrderInv'
<1>1. /\ UNCHANGED <<tree_root, root_level, ent, ilock, ninode>>
      /\ UNCHANGED <<meta, tail, version, nleaf, job_queue, pc, loc>>
  BY DEF vars
<1>2. PICK low \in Bounds : Ordered(low)
  BY DEF OrderInv
<1>3. ShapeInv
  BY DEF OrderInv
<1>4. CarriedApart' /\ InodesRooted'
  <2>1. \A i, c : IsChild(i, c)' <=> IsChild(i, c)
    BY <1>1 DEF IsChild, ChildAt, Size, Kid, num
  <2>2. \A t : (Bears(t)' <=> Bears(t)) /\ BornAt(t)' = BornAt(t)
    BY <1>1 DEF Bears, BornAt, Carries
  <2>3. CarriedApart'
    BY <1>1, <1>3, <2>2 DEF ShapeInv, CarriedApart, IsChild, ChildAt, Size, Kid,
      num
  <2>4. InodesRooted'
    BY <1>1, <1>3, <2>1, <2>2 DEF ShapeInv, InodesRooted
  <2> QED
    BY <2>3, <2>4
<1>5. TopEmpty' /\ \A t \in Thread : RootMade(t)'
  BY <1>1, <1>3 DEF ShapeInv, TopEmpty, RootMade, ChildAt, Size, Kid, num
<1>6. LeafAlone'
  BY <1>1, <1>3 DEF ShapeInv, LeafAlone, Uses, HoldsLeaf, Carries, Pending,
    FilledLeaf
<1>7. \A t \in Thread : InodeAlone(t)' /\ PathLinked(t)'
  <2>1. \A t : (HoldsPath(t)' <=> HoldsPath(t)) /\ Low(t)' = Low(t)
    BY <1>1 DEF HoldsPath, Low, isFull
  <2>2. \A t \in Thread : PathLinked(t)'
    BY <1>1, <1>3, <2>1 DEF ShapeInv, PathLinked, Kid
  <2>3. \A t \in Thread : InodeAlone(t)'
    BY <1>1, <1>3, <2>1 DEF ShapeInv, InodeAlone, Holds, Origin, BornAt
  <2> QED
    BY <2>2, <2>3
<1>8. TreeOrder(low)'
  <2>1. TreeOrder(low)
    BY <1>2 DEF Ordered
  <2>2. Distinct(low)'
    BY <1>1, <2>1 DEF TreeOrder, Distinct, Node
  <2>3. ChildBounds(low)'
    BY <1>1, <2>1 DEF TreeOrder, ChildBounds, Size, Kid, Sep, num
  <2>4. SepsOwned(low)'
    <3>1. \A i, x : Public(i, x)' <=> Public(i, x)
      BY <1>1 DEF Public, Node, Private
    <3>2. \A i, x, j : Size(i, x)' = Size(i, x) /\ Sep(i, x, j)' = Sep(i, x, j)
      BY <1>1 DEF Size, Sep, num
    <3> QED
      BY <1>1, <2>1, <3>1, <3>2 DEF TreeOrder, SepsOwned, Owns
  <2>5. RootBound(low)' /\ \A t \in Thread : BornBound(low, t)'
    <3>1. RootBound(low)'
      BY <1>1, <2>1 DEF TreeOrder, RootBound
    <3>2. \A t \in Thread : /\ Bears(t)' <=> Bears(t)
                            /\ BornAt(t)' = BornAt(t) /\ Origin(t)' = Origin(t)
      BY <1>1 DEF Bears, Carries, BornAt, Origin
    <3>3. \A i, x : Node(i, x)' <=> Node(i, x)
      BY <1>1 DEF Node
    <3>4. loc' = loc
      BY <1>1
    <3> QED
      BY <2>1, <3>1, <3>2, <3>3, <3>4 DEF TreeOrder, BornBound
  <2> QED
    BY <2>2, <2>3, <2>4, <2>5 DEF TreeOrder
<1>9. LeafOrder(low)'
  <2>1. LeafOrder(low)
    BY <1>2 DEF Ordered
  <2>2. KeysOwned(low)'
    BY <1>1, <2>1 DEF LeafOrder, KeysOwned, Owns, Public, Node, Private
  <2>3. ChainLinked(low)'
    BY <1>1, <2>1 DEF LeafOrder, ChainLinked, IsLast, Follows, Public, Node,
      Private, nextSibling
  <2>4. \A t \in Thread : KeyFits(low, t)'
    BY <1>1, <2>1 DEF LeafOrder, KeyFits, Owns, Public, Node, Private
  <2>5. \A t \in Thread : SplitReady(t)'
    BY <1>1, <2>1 DEF LeafOrder, SplitReady, nextSibling
  <2> QED
    BY <2>2, <2>3, <2>4, <2>5 DEF LeafOrder
<1>10. ShapeInv'
  BY <1>4, <1>5, <1>6, <1>7 DEF ShapeInv
<1>11. Ordered(low)'
  BY <1>8, <1>9 DEF Ordered
<1> QED
  BY <1>2, <1>10, <1>11 DEF OrderInv

LEMMA OrderNext ==
  ASSUME IndInv, NoStaleJob, Rooted, OrderInv, [NextAny]_vars
  PROVE  OrderInv'
<1>1. IndInv'
  BY InvNextAny
<1>2. CASE UNCHANGED vars
  BY <1>2, OrderStutter
<1>3. ASSUME NextAny PROVE OrderInv'
  <2>1. PICK t \in Thread : Step(t)
    BY <1>3, AnyIsStep
  <2>2. PICK low \in Bounds : Ordered(low)
    BY DEF OrderInv
  <2>3. ShapeInv /\ TreeOrder(low) /\ LeafOrder(low) /\ KeysOwned(low)
    BY <2>2 DEF OrderInv, Ordered, LeafOrder
  <2>4. ShapeInv'
    BY <1>1, <2>1, <2>3, ShapeNext
  <2>5. PICK nl \in Bounds : TreeOrder(nl)' /\ LeafBounds(low, nl, t)
    BY <2>1, <2>3, TreeOrderNext
  <2>6. KeysOwned(nl)'
    BY <1>1, <2>1, <2>2, <2>3, <2>5, KeysOwnedNext
  <2>7. ChainLinked(nl)'
    BY <2>1, <2>2, <2>3, <2>5, ChainKept, ChainGrown
  <2>8. \A u \in Thread : KeyFits(nl, u)'
    <3>1. \A u \in Foreground : KeyFits(nl, u)'
      BY <2>1, <2>2, <2>3, <2>5, KeyFitsNext
    <3>2. ASSUME NEW u \in Thread, u \notin Foreground PROVE KeyFits(nl, u)'
      BY <3>2 DEF KeyFits
    <3> QED
      BY <3>1, <3>2
  <2>9. \A u \in Thread : SplitReady(u)'
    BY <2>1, <2>3, SplitReadyNext
  <2>10. Ordered(nl)'
    BY <2>5, <2>6, <2>7, <2>8, <2>9 DEF Ordered, LeafOrder
  <2> QED
    BY <2>4, <2>5, <2>10 DEF OrderInv
<1> QED
  BY <1>2, <1>3

\* Each node keeps the bound it was made with, whatever runs: the order of
\* separators, keys and leaves holds, also between the steps of a split.
THEOREM OrderHolds == Spec /\ []NoStaleJob => [](IndInv /\ Rooted /\ OrderInv)
<1>1. Init => Rooted /\ OrderInv
  BY RootedInit, OrderInit
<1>2. IndInv /\ NoStaleJob /\ Rooted /\ OrderInv /\ [Next]_vars =>
        Rooted' /\ OrderInv'
  BY RootedNext, OrderNext DEF NextAny
<1> QED
  BY <1>1, <1>2, IndInvHolds, PTL DEF Spec

-----------------------------------------------------------------------------
(* The leaves of a split have room: LEAF_KEY_NUM >= 4 (14 in the code).    *)

LEMMA RoomInit == Init => RoomInv
<1> SUFFICES ASSUME Init PROVE RoomInv
  OBVIOUS
<1>1. \A t \in Thread : pc[t] \in {"idle", "pop"}
  BY DEF Init
<1> QED
  BY <1>1 DEF RoomInv, Carries

\* Another thread's split leaf and its new one are not t's to fill.
LEMMA RoomOthers ==
  ASSUME IndInv, ShapeInv, RoomInv, NEW t \in Thread, Step(t),
         NEW u \in Thread, u # t
  PROVE  /\ Carries(u)' => /\ ~isFull(loc[u].ptr)'
                           /\ pc'[u] # "publish" => ~isFull(loc[u].lp)'
         /\ pc'[u] \in {"publish", "addleft"} =>
              Cardinality(loc'[u].meta.bitmap) = SPLIT
<1>1. /\ OwnLeafOnly(t) /\ LeafAlone /\ OthersStay(t) /\ nleaf \in Nat
      /\ loc[u].lp \in LnodeId
  BY Parts, OwnLeaves, StepStays, LocalFields, LeafNumbers
<1>2. pc'[u] = pc[u] /\ loc'[u] = loc[u]
  BY <1>1 DEF OthersStay
<1>3. Carries(u)' <=> Carries(u)
  BY <1>2 DEF Carries
<1>4. ASSUME Carries(u) PROVE SameLeaf(loc[u].ptr) /\ SameLeaf(loc[u].lp)
  <2>1. loc[u].lp < nleaf /\ loc[u].lp # nleaf
    BY <1>1, <1>4 DEF LeafAlone
  <2>2. ~(HoldsLeaf(t) /\ loc[u].lp = loc[t].lp)
    BY <1>1, <1>4 DEF LeafAlone, Uses
  <2>3. SameLeaf(loc[u].ptr)
    BY <1>4, OthersLeaves
  <2> QED
    BY <1>1, <2>1, <2>2, <2>3 DEF OwnLeafOnly
<1> QED
  BY <1>2, <1>3, <1>4 DEF RoomInv, SameLeaf, isFull

\* The halves of a full leaf have room, the new key included.
LEMMA RoomNext ==
  ASSUME LEAF_KEY_NUM >= 4, IndInv, ShapeInv, RoomInv, NEW t \in Thread, Step(t)
  PROVE  RoomInv'
<1>1. /\ TypeOK /\ LeafAlone /\ loc[t].lp \in LnodeId /\ LeafKnown(t)
      /\ loc \in [Thread -> Local] /\ PtrTypeOK(t)
  BY Parts, LocalFields DEF IndInv, LeafInv, TypeOK, ThreadTypeOK
<1>2. PICK l, n : l = loc[t].lp /\ n = nleaf
  OBVIOUS
<1>3. /\ Carries(t)' => /\ ~isFull(loc[t].ptr)'
                        /\ pc'[t] # "publish" => ~isFull(loc[t].lp)'
      /\ pc'[t] \in {"publish", "addleft"} =>
           Cardinality(loc'[t].meta.bitmap) = SPLIT
  <2>1. CASE SplitBuild(t)
    <3>1. PICK sk : BuildWrote(t, n, l, sk) /\ NewLeafWrote(t, n, l, sk)
      BY <1>2, <2>1, NewLeafWrites
    <3>2. PICK S : S = meta[l].bitmap
      OBVIOUS
    <3>3. /\ S \in SUBSET Key /\ Cardinality(S) = LEAF_KEY_NUM
          /\ sk \in S /\ IsSplitKey(sk, S)
      BY <1>1, <1>2, <3>1, <3>2
      DEF BuildWrote, LeafKnown, isFull, TypeOK, LeafTypeOK, LnodeMeta
    <3> DEFINE upper == {y \in S : y >= sk}
    <3>4. /\ Cardinality(upper) # LEAF_KEY_NUM
          /\ \A k : Cardinality(upper \cup {k}) # LEAF_KEY_NUM
      BY <3>3, LeafHalves
    <3>5. \/ meta'[n].bitmap = upper
          \/ meta'[n].bitmap = upper \cup {loc[t].key}
      BY <3>1, <3>2 DEF NewLeafWrote
    <3>6. /\ pc'[t] = "publish" /\ loc'[t].ptr = n
          /\ loc'[t].meta.bitmap = {b \in S : b < sk}
      BY <3>1, <3>2, SMTT(30) DEF BuildWrote, NewLeafWrote
    <3>7. Cardinality(loc'[t].meta.bitmap) = SPLIT
      BY <3>3, <3>6 DEF IsSplitKey
    <3>8. Cardinality(meta'[n].bitmap) # LEAF_KEY_NUM
      BY <3>4, <3>5
    <3> QED
      BY <3>6, <3>7, <3>8 DEF isFull
  <2>2. CASE SplitPublish(t)
    <3>1. PublishWrote(t) /\ pc[t] = "publish"
      BY <2>2, PublishWrites DEF PublishWrote
    <3>2. Carries(t) /\ Uses(t)
      BY <3>1 DEF Carries, Uses
    <3>3. loc[t].ptr # loc[t].lp /\ loc[t].ptr \in LnodeId
      BY <1>1, <3>1, <3>2 DEF LeafAlone, PtrTypeOK
    <3>4. /\ meta'[loc[t].ptr] = meta[loc[t].ptr] /\ loc'[t] = loc[t]
          /\ meta'[loc[t].lp].bitmap = loc[t].meta.bitmap
      BY <3>1, <3>3 DEF PublishWrote
    <3>5. /\ Cardinality(loc[t].meta.bitmap) = SPLIT
          /\ ~isFull(loc[t].ptr)
      BY <3>1, <3>2 DEF RoomInv
    <3>6. SPLIT # LEAF_KEY_NUM
      BY HalfLeaf, Constants
    <3> QED
      BY <3>4, <3>5, <3>6 DEF isFull
  <2>3. CASE t \in Foreground /\ (Fills(t) \/ InsertLeft(t))
    <3>1. KeyWrote(t, l) /\ loc'[t].lp = l
      BY <1>2, <2>3, KeyWrites DEF KeyWrote
    <3>2. CASE pc'[t] \in {"flush", "ret"}
      BY <3>2 DEF Carries
    <3>3. CASE pc[t] = "addleft" /\ pc'[t] = "level"
      <4>1. Carries(t) /\ Uses(t)
        BY <3>3 DEF Carries, Uses
      <4>2. loc[t].ptr # l /\ loc[t].ptr \in LnodeId
        BY <1>1, <1>2, <3>3, <4>1 DEF LeafAlone, PtrTypeOK
      <4>3. /\ meta'[loc[t].ptr] = meta[loc[t].ptr] /\ loc'[t].ptr = loc[t].ptr
            /\ meta'[l].bitmap = loc[t].meta.bitmap \cup {loc[t].key}
        BY <3>1, <4>2 DEF KeyWrote
      <4>4. /\ Cardinality(loc[t].meta.bitmap) = SPLIT
            /\ ~isFull(loc[t].ptr)
        BY <3>3, <4>1 DEF RoomInv
      <4>5. IsFiniteSet(loc[t].meta.bitmap)
        BY <1>1, LocalFields, ConstantsOK, FS_Subset DEF ConstantsOK, LnodeMeta
      <4>6. Cardinality(meta'[l].bitmap) \in {SPLIT, SPLIT + 1}
        BY <4>3, <4>4, <4>5, FS_AddElement
      <4>7. Cardinality(meta'[l].bitmap) # LEAF_KEY_NUM
        BY <4>6, HalfLeaf, Constants
      <4> QED
        BY <3>1, <3>3, <4>3, <4>4, <4>7 DEF isFull
    <3> QED
      BY <3>1, <3>2, <3>3 DEF KeyWrote
  <2>4. CASE /\ ~SplitBuild(t) /\ ~SplitPublish(t)
             /\ ~(t \in Foreground /\ (Fills(t) \/ InsertLeft(t)))
    <3>1. pc[t] # "publish" /\ pc'[t] \notin {"publish", "addleft"}
      BY <2>4, StepLabels
    <3>2. ASSUME Carries(t)'
          PROVE  ~isFull(loc[t].ptr)' /\ ~isFull(loc[t].lp)'
      <4>1. /\ Carries(t) /\ loc'[t].ptr = loc[t].ptr
            /\ loc'[t].lp = loc[t].lp
        BY <1>1, <2>4, <3>2, CarriesStep
      <4>2. loc[t].ptr \in LnodeId
        BY <1>1, <4>1 DEF Carries, PtrTypeOK, ChildId
      <4>3. SameLeaf(loc[t].ptr) /\ SameLeaf(loc[t].lp)
        BY <1>1, <2>4, <4>2, LeafStill
      <4> QED
        BY <3>1, <4>1, <4>3 DEF RoomInv, SameLeaf, isFull
    <3> QED
      BY <3>1, <3>2
  <2> QED
    BY <2>1, <2>2, <2>3, <2>4
<1> QED
  BY <1>3, RoomOthers DEF RoomInv

-----------------------------------------------------------------------------
(* The properties it implies.                                              *)

LEMMA PublicIs ==
  ASSUME TypeOK
  PROVE  \A l : l \in Published <=> Public(-1, l)
<1>1. nleaf \in Nat
  BY LeafNumbers
<1>2. \A l : l \in 0..(nleaf - 1) <=> l \in Nat /\ l < nleaf
  BY <1>1
<1> QED
  BY <1>2 DEF Published, Public, Node

\* No two linked leaves own the same key.
LEMMA OneOwner ==
  ASSUME TypeOK, NEW low \in Bounds, Distinct(low), NEW k \in Int,
         NEW l, Public(-1, l), Owns(low, -1, l, k),
         NEW m, Public(-1, m), Owns(low, -1, m, k)
  PROVE  l = m
<1>1. -1 \in NodeLevel /\ l \in Nat /\ m \in Nat /\ Node(-1, l) /\ Node(-1, m)
  BY PublicLeaf, Constants DEF NodeLevel
<1>2. low[-1][l] \in Int /\ low[-1][m] \in Int
  BY <1>1, BoundType
<1>3. low[-1][l] <= low[-1][m] /\ low[-1][m] <= low[-1][l]
  BY <1>1 DEF Owns
<1>4. low[-1][l] = low[-1][m]
  BY <1>2, <1>3
<1> QED
  BY <1>1, <1>4 DEF Distinct

LEMMA ChainProperty ==
  ASSUME IndInv, OrderInv
  PROVE  ChainSorted
<1>1. PICK low \in Bounds : Ordered(low)
  BY DEF OrderInv
<1>2. TypeOK /\ Distinct(low) /\ KeysOwned(low) /\ ChainLinked(low)
  BY <1>1 DEF IndInv, Ordered, TreeOrder, LeafOrder
<1>3. \A l : l \in Published => /\ Public(-1, l) /\ l \in LnodeId /\ l \in Nat
                                /\ l < nleaf /\ Node(-1, l)
                                /\ low[-1][l] \in Int
  BY <1>2, PublicIs, PublicLeaf, BoundType, Constants DEF NodeLevel
<1>4. \A l \in Published : \A b \in meta[l].bitmap :
        b \in Int /\ Owns(low, -1, l, b)
  BY <1>2, <1>3, Constants DEF KeysOwned, TypeOK, LeafTypeOK, LnodeMeta
<1>5. ASSUME NEW l \in Published, NEW n, n = nextSibling(l), n # Null
      PROVE  n \in Published /\ low[-1][l] < low[-1][n]
             /\ \A m \in Published : low[-1][l] < low[-1][m] =>
                  low[-1][n] <= low[-1][m]
  <2>1. Follows(low, l, n)
    BY <1>2, <1>3, <1>5 DEF ChainLinked
  <2> QED
    BY <1>2, <1>3, <2>1, PublicIs DEF Follows
<1>6. ASSUME NEW l \in Published, NEW n, n = nextSibling(l), n # Null
      PROVE  /\ n \in Published
             /\ \A x \in meta[l].bitmap, y \in meta[n].bitmap : x < y
  <2>1. n \in Published /\ low[-1][l] < low[-1][n]
    BY <1>5, <1>6
  <2>2. ASSUME NEW x \in meta[l].bitmap, NEW y \in meta[n].bitmap
        PROVE  x < y
    <3>1. /\ x \in Int /\ Owns(low, -1, l, x) /\ y \in Int
          /\ Owns(low, -1, n, y)
      BY <1>4, <2>1
    <3>2. low[-1][n] <= y /\ (low[-1][n] <= x => low[-1][n] <= low[-1][l])
      BY <1>3, <2>1, <3>1 DEF Owns
    <3>3. low[-1][l] \in Int /\ low[-1][n] \in Int
      BY <1>3, <2>1
    <3> QED
      BY <2>1, <3>1, <3>2, <3>3
  <2> QED
    BY <2>1, <2>2
<1>7. ASSUME NEW l \in Published \ {first_lnode}
      PROVE  Cardinality({m \in Published : nextSibling(m) = l}) = 1
  <2>1. PICK m \in LnodeId : Public(-1, m) /\ nextSibling(m) = l
    BY <1>2, <1>3 DEF ChainLinked
  <2>2. m \in Published /\ l # Null
    <3>1. l \in Nat /\ -1 \notin Nat
      BY <1>3
    <3> QED
      BY <1>2, <2>1, <3>1, PublicIs DEF Null
  <2>3. ASSUME NEW y \in Published, nextSibling(y) = l PROVE y = m
    <3>1. /\ low[-1][m] < low[-1][l] /\ low[-1][y] < low[-1][l]
          /\ low[-1][y] < low[-1][m] => low[-1][l] <= low[-1][m]
          /\ low[-1][m] < low[-1][y] => low[-1][l] <= low[-1][y]
      BY <1>5, <2>1, <2>2, <2>3
    <3>2. low[-1][m] \in Int /\ low[-1][y] \in Int /\ low[-1][l] \in Int
      BY <1>3, <2>2, <2>3
    <3>3. low[-1][m] = low[-1][y]
      BY <3>1, <3>2
    <3> QED
      BY <1>2, <1>3, <2>2, <2>3, <3>3, Constants DEF Distinct, NodeLevel
  <2>4. {y \in Published : nextSibling(y) = l} = {m}
    BY <2>1, <2>2, <2>3
  <2> QED
    BY <2>4, FS_Singleton
<1>8. ASSUME NEW l \in Published, NEW m \in Published, l # m
      PROVE  meta[l].bitmap \cap meta[m].bitmap = {}
  BY <1>2, <1>3, <1>4, <1>8, OneOwner
<1> QED
  BY <1>6, <1>7, <1>8 DEF ChainSorted

\* The leaf chain is sorted and complete at every instant, between any two
\* steps of the splits (sobtree_v2.h:1021): keys grow along it, no key is in
\* two leaves, and every linked leaf but the first follows exactly one.
THEOREM ChainSortedHolds == Spec /\ []NoStaleJob => []ChainSorted
<1>1. IndInv /\ OrderInv => ChainSorted
  BY ChainProperty
<1> QED
  BY <1>1, OrderHolds, PTL

LEMMA PathProperty ==
  ASSUME IndInv, OrderInv, NEW t \in Thread, pc[t] = "inode"
  PROVE  /\ ent[Here(t)].ch[loc[t].path.ppos[loc[t].lev] + 1] = SplitNode(t)
         /\ Increasing(MergedK(t))
<1>1. PICK low \in Bounds : Ordered(low)
  BY DEF OrderInv
<1>2. TypeOK /\ Linked /\ ShapeInv /\ TreeOrder(low)
  BY <1>1, Parts DEF OrderInv, Ordered
<1>3. PICK i, x, pos : /\ i = loc[t].lev /\ x = loc[t].path.parray[i]
                       /\ pos = loc[t].path.ppos[i]
  OBVIOUS
<1>4. Spot(t, i, x, pos)
  BY <1>2, <1>3, SpotFacts
<1>5. MergedEntries(t, i, x, pos)
  BY <1>2, <1>3, <1>4, MergedIs
<1>6. MergedRight(low, t, i, x)
  BY <1>2, <1>4, <1>5, MergedOrder
<1>7. ent[Here(t)].ch[pos + 1] = SplitNode(t)
  <2>1. /\ Here(t) = <<i, x>> /\ Kid(i, x, pos + 1) = Origin(t) /\ i \in Nat
        /\ BornAt(t) = i - 1
    BY <1>4 DEF Spot, ChildAt
  <2>2. Origin(t) = SplitNode(t)
    BY <1>3, <2>1 DEF Origin, SplitNode, BornAt
  <2> QED
    BY <2>1, <2>2 DEF Kid
<1>8. Increasing(MergedK(t))
  <2>1. Len(MergedK(t)) = Size(i, x) + 1
    BY <1>5 DEF MergedEntries
  <2> QED
    BY <1>6, <2>1 DEF Increasing, MergedRight
<1> QED
  BY <1>3, <1>7, <1>8

\* The position a transaction recorded is right when the split uses it, at
\* every level it climbs to: the new node goes in just right of the one it
\* was split from, and the separators stay sorted (sobtree_v2.h:1110).
THEOREM PathHolds == Spec /\ []NoStaleJob => []PathStillRight
<1>1. IndInv /\ OrderInv => PathStillRight
  BY PathProperty DEF PathStillRight
<1> QED
  BY <1>1, OrderHolds, PTL

-----------------------------------------------------------------------------
(* The index implements KVIndex.                                           *)

\* A call of t goes from kind a with key k to kind b with key k.
OpMoves(t, a, b, k) ==
  /\ OpOf(t) = [kind |-> a, key |-> k]
  /\ OpOf(t)' = [kind |-> b, key |-> k]

OthersOps(t) == \A u \in Foreground : u # t => OpOf(u)' = OpOf(u)

LEMMA StepInsert ==
  ASSUME NEW t \in Foreground, OthersOps(t), NEW k,
         OpMoves(t, "insert", "inserted", k), Store' = Store \cup {k}
  PROVE  KV!KVNext
<1> DEFINE op == [u \in Foreground |-> OpOf(u)]
<1> DEFINE r == [kind |-> "inserted", key |-> k]
<1>1. op[t] = [kind |-> "insert", key |-> k] /\ OpOf(t)' = r
  BY DEF OpMoves
<1> HIDE DEF r
<1>2. op' = [op EXCEPT ![t] = r]
  BY <1>1 DEF OthersOps
<1>3. op[t].kind = "insert" /\ op[t].key = k
  BY <1>1
<1>4. KV!KVInsert(t)
  BY <1>2, <1>3 DEF KV!KVInsert, KV!Become, r
<1> QED
  BY <1>4 DEF KV!KVNext

LEMMA StepSearch ==
  ASSUME NEW t \in Foreground, OthersOps(t), NEW k, NEW b,
         OpMoves(t, "search", b, k), Store' = Store,
         b = IF k \in Store THEN "reading" ELSE "missing"
  PROVE  KV!KVNext
<1> DEFINE op == [u \in Foreground |-> OpOf(u)]
<1> DEFINE r == [kind |-> b, key |-> k]
<1>1. op[t] = [kind |-> "search", key |-> k] /\ OpOf(t)' = r
  BY DEF OpMoves
<1> HIDE DEF r
<1>2. op' = [op EXCEPT ![t] = r]
  BY <1>1 DEF OthersOps
<1>3. op[t].kind = "search" /\ op[t].key = k
  BY <1>1
<1>4. KV!KVSearch(t)
  BY <1>2, <1>3 DEF KV!KVSearch, KV!Become, r
<1> QED
  BY <1>4 DEF KV!KVNext

LEMMA StepRead ==
  ASSUME NEW t \in Foreground, OthersOps(t), NEW k, NEW b \in {"found", "other"},
         OpMoves(t, "reading", b, k), Store' = Store
  PROVE  KV!KVNext
<1> DEFINE op == [u \in Foreground |-> OpOf(u)]
<1> DEFINE r == [kind |-> b, key |-> k]
<1>1. op[t] = [kind |-> "reading", key |-> k] /\ OpOf(t)' = r
  BY DEF OpMoves
<1> HIDE DEF r
<1>2. op' = [op EXCEPT ![t] = r]
  BY <1>1 DEF OthersOps
<1>3. op[t].kind = "reading" /\ op[t].key = k
  BY <1>1
<1>4. KV!KVRead(t)
  BY <1>2, <1>3 DEF KV!KVRead, KV!Become, r
<1> QED
  BY <1>4 DEF KV!KVNext

LEMMA StepCall ==
  ASSUME NEW t \in Foreground, OthersOps(t), NEW k \in Work[t],
         NEW b \in {"insert", "search"}, OpOf(t) = [kind |-> "idle"],
         OpOf(t)' = [kind |-> b, key |-> k], Store' = Store
  PROVE  KV!KVNext
<1> DEFINE op == [u \in Foreground |-> OpOf(u)]
<1>1. /\ op[t] = KV!NoOp
      /\ op' = [op EXCEPT ![t] = [kind |-> b, key |-> k]]
  BY DEF OthersOps, KV!NoOp
<1>2. KV!KVCall(t)
  BY <1>1 DEF KV!KVCall
<1> QED
  BY <1>2 DEF KV!KVNext

LEMMA StepReturn ==
  ASSUME NEW t \in Foreground, OthersOps(t), NEW k,
         NEW a \in {"inserted", "found", "other", "missing"},
         OpOf(t) = [kind |-> a, key |-> k], OpOf(t)' = [kind |-> "idle"],
         Store' = Store
  PROVE  KV!KVNext
<1> DEFINE op == [u \in Foreground |-> OpOf(u)]
<1> DEFINE r == [kind |-> "idle"]
<1>1. op[t] = [kind |-> a, key |-> k] /\ OpOf(t)' = r
  OBVIOUS
<1> HIDE DEF r
<1>2. op' = [op EXCEPT ![t] = r]
  BY <1>1 DEF OthersOps
<1>3. op[t].kind = a
  BY <1>1
<1>4. KV!KVReturn(t)
  BY <1>2, <1>3 DEF KV!KVReturn, KV!NoOp, r
<1> QED
  BY <1>4 DEF KV!KVNext

LEMMA StepHidden ==
  ASSUME \A u \in Foreground : OpOf(u)' = OpOf(u), Store' = Store
  PROVE  UNCHANGED KV!kvars
BY DEF KV!kvars

\* The keys stored are those of the linked leaves, before and after a step.
LEMMA StoreIs ==
  ASSUME TypeOK, TypeOK'
  PROVE  /\ \A b : b \in Store <=>
              \E l : l \in Nat /\ Public(-1, l) /\ b \in meta[l].bitmap
         /\ \A b : b \in Store' <=>
              \E l : l \in Nat /\ Public(-1, l)' /\ b \in meta'[l].bitmap
<1>1. nleaf \in Nat /\ nleaf' \in Nat
  BY DEF TypeOK, LeafTypeOK
<1>2. \A l : l \in 0..(nleaf - 1) <=> l \in Nat /\ l < nleaf
  BY <1>1
<1>3. \A l : l \in 0..(nleaf' - 1) <=> l \in Nat /\ l < nleaf'
  BY <1>1
<1>4. \A l : l \in Published <=> l \in Nat /\ Public(-1, l)
  BY <1>2 DEF Published, Public, Node
<1>5. \A l : l \in Published' <=> l \in Nat /\ Public(-1, l)'
  BY <1>3 DEF Published, Public, Node
<1> QED
  BY <1>4, <1>5 DEF Store

LEMMA StoreStays ==
  ASSUME IndInv, IndInv', ShapeInv, NEW t \in Thread, Step(t),
         ~SplitPublish(t), ~(t \in Foreground /\ (Fills(t) \/ InsertLeft(t)))
  PROVE  Store' = Store
<1>1. TypeOK /\ TypeOK' /\ pc[t] # "publish" /\ nleaf \in Nat
  BY StepLabels, LeafNumbers DEF IndInv
<1>2. \A l \in Nat : Public(-1, l)' <=> Public(-1, l)
  BY <1>1, PublicStep
<1>3. ASSUME NEW l, Public(-1, l) PROVE meta'[l].bitmap = meta[l].bitmap
  <2>1. l # nleaf /\ l \in LnodeId
    BY <1>1, <1>3, PublicLeaf
  <2>2. CASE SplitBuild(t)
    <3>1. PICK sk : NewLeafWrote(t, nleaf, loc[t].lp, sk)
      BY <2>2, NewLeafWrites
    <3> QED
      BY <2>1, <3>1 DEF NewLeafWrote
  <2>3. CASE ~SplitBuild(t)
    <3>1. SameLeaf(l)
      BY <2>1, <2>3, LeafStill
    <3> QED
      BY <3>1 DEF SameLeaf
  <2> QED
    BY <2>2, <2>3
<1>4. \A b : b \in Store' <=> b \in Store
  BY <1>1, <1>2, <1>3, StoreIs
<1> QED
  BY <1>4

LEMMA StoreKey ==
  ASSUME IndInv, IndInv', ShapeInv, NEW low, LeafOrder(low),
         NEW t \in Foreground, Step(t), Fills(t) \/ InsertLeft(t),
         NEW k, k = loc[t].key
  PROVE  Store' = Store \cup {k}
<1>1. /\ TypeOK /\ TypeOK' /\ t \in Thread /\ nleaf \in Nat
  BY LeafNumbers DEF IndInv, Thread
<1>2. PICK o : o = loc[t].lp
  OBVIOUS
<1>3. /\ KeyWrote(t, o) /\ HoldsLeaf(t)
      /\ meta'[o].bitmap = meta[o].bitmap \cup {k}
  BY <1>2, KeyAdded
<1>4. /\ pc[t] # "publish" /\ \A x \in LnodeId : x # o => meta'[x] = meta[x]
  BY <1>3 DEF KeyWrote
<1>5. \A x \in Nat : Public(-1, x)' <=> Public(-1, x)
  BY <1>1, <1>4, PublicStep
<1>6. Public(-1, o) /\ o \in Nat
  BY <1>1, <1>2, <1>3, HeldPublic
<1>7. \A x : Public(-1, x) =>
        meta'[x].bitmap = meta[x].bitmap \cup IF x = o THEN {k} ELSE {}
  BY <1>1, <1>3, <1>4, PublicLeaf
<1>8. \A b : b \in Store' <=> b \in Store \/ b = k
  BY <1>1, <1>5, <1>6, <1>7, StoreIs
<1> QED
  BY <1>8

\* The store that links a new leaf takes the keys of the upper half from one
\* leaf and shows them in the other, with the client's if it is above them.
LEMMA StorePublish ==
  ASSUME IndInv, IndInv', ShapeInv, NEW low \in Bounds, Ordered(low),
         NEW t \in Thread, Step(t), SplitPublish(t), NEW k, k = loc[t].key
  PROVE  Store' = Store \cup
           IF t \in Foreground /\ k > loc[t].sep THEN {k} ELSE {}
<1> DEFINE mine == IF t \in Foreground /\ k > loc[t].sep THEN {k} ELSE {}
<1>1. /\ TypeOK /\ TypeOK' /\ TreeOrder(low) /\ SplitReady(t)
      /\ PublishWrote(t) /\ pc[t] = "publish"
  BY StepLabels DEF IndInv, Ordered, LeafOrder
<1>2. PICK l, n, sk : l = loc[t].lp /\ n = loc[t].ptr /\ sk = loc[t].sep
  OBVIOUS
<1>3. /\ l \in LnodeId /\ l \in Nat /\ n \in LnodeId /\ n \in Nat /\ l # n
      /\ Public(-1, l) /\ ~Public(-1, n) /\ sk \in Int
  BY <1>1, <1>2, LinkBound
<1>4. \A x \in Nat : Public(-1, x)' <=> Public(-1, x) \/ x = n
  BY <1>1, <1>2, PublicStep
<1>5. \A b \in meta[l].bitmap : b \in Int
  BY <1>1, <1>3, Constants DEF TypeOK, LeafTypeOK, LnodeMeta
<1>6. /\ meta'[l].bitmap = {b \in meta[l].bitmap : b < sk}
      /\ meta'[n].bitmap = {b \in meta[l].bitmap : b >= sk} \cup mine
      /\ \A x \in LnodeId : x # l => meta'[x] = meta[x]
  BY <1>1, <1>2, <1>3, SMTT(30) DEF PublishWrote, SplitReady
<1> HIDE DEF mine
<1>7. \A b : b \in meta'[l].bitmap \/ b \in meta'[n].bitmap <=>
             b \in meta[l].bitmap \/ b \in mine
  <2>1. \A b \in meta[l].bitmap : b < sk \/ b >= sk
    BY <1>3, <1>5
  <2> QED
    BY <1>6, <2>1
<1>8. \A x : Public(-1, x) /\ x # l =>
        x \in Nat /\ x # n /\ meta'[x].bitmap = meta[x].bitmap
  BY <1>1, <1>3, <1>6, PublicLeaf
<1>9. \A b : b \in Store' <=> b \in Store \/ b \in mine
  <2>1. ASSUME NEW b, b \in Store' PROVE b \in Store \/ b \in mine
    <3>1. PICK x \in Nat : Public(-1, x)' /\ b \in meta'[x].bitmap
      BY <1>1, <2>1, StoreIs
    <3>2. CASE x = l \/ x = n
      BY <1>1, <1>3, <1>7, <3>1, <3>2, StoreIs
    <3>3. CASE x # l /\ x # n
      BY <1>1, <1>4, <1>8, <3>1, <3>3, StoreIs
    <3> QED
      BY <3>2, <3>3
  <2>2. ASSUME NEW b, b \in Store \/ b \in mine PROVE b \in Store'
    <3>1. CASE b \in meta[l].bitmap \/ b \in mine
      BY <1>1, <1>3, <1>4, <1>7, <3>1, StoreIs
    <3>2. CASE b \notin meta[l].bitmap /\ b \notin mine
      <4>1. PICK x \in Nat : Public(-1, x) /\ b \in meta[x].bitmap
        BY <1>1, <2>2, <3>2, StoreIs
      <4>2. x # l
        BY <3>2, <4>1
      <4> QED
        BY <1>1, <1>4, <1>8, <4>1, <4>2, StoreIs
    <3> QED
      BY <3>1, <3>2
  <2> QED
    BY <2>1, <2>2
<1> QED
  BY <1>9 DEF mine

\* The leaf a transaction reaches tells whether its key is stored.
LEMMA LeafTells ==
  ASSUME IndInv, ShapeInv, Rooted, NEW low \in Bounds, Ordered(low),
         NEW k \in Key, NEW p \in Descents(k), NEW c, c = LeafFor(p, k),
         ~meta[c].lock
  PROVE  k \in Store <=> k \in meta[c].bitmap
<1>1. /\ TypeOK /\ TreeOrder(low) /\ KeysOwned(low) /\ Distinct(low)
      /\ k \in Int
  BY Constants DEF IndInv, Ordered, LeafOrder, TreeOrder
<1>2. Owns(low, -1, c, k) /\ Node(-1, c) /\ c \notin Private
  BY <1>1, FoundLeaf, BottomLast, FoundLinked
<1>3. Public(-1, c) /\ c \in Nat
  BY <1>2 DEF Public, Node
<1>4. ASSUME NEW x, Public(-1, x), k \in meta[x].bitmap PROVE x = c
  <2>1. Owns(low, -1, x, k)
    BY <1>1, <1>4, PublicLeaf DEF KeysOwned
  <2> QED
    BY <1>1, <1>2, <1>3, <1>4, <2>1, OneOwner
<1>5. \A b : b \in Store <=>
        \E l : l \in Nat /\ Public(-1, l) /\ b \in meta[l].bitmap
  <2>1. \A l : l \in Published <=> Public(-1, l)
    BY <1>1, PublicIs
  <2> QED
    BY <1>1, <2>1, PublicLeaf DEF Store
<1> QED
  BY <1>3, <1>4, <1>5

Insert   == {"find", "copy", "fill", "build", "publish", "addleft"}
Answered == {"search", "reading", "found", "other", "missing"}

LEMMA OpIs ==
  ASSUME NEW t
  PROVE  /\ pc[t] = "idle" => OpOf(t) = [kind |-> "idle"]
         /\ pc[t] \in Insert => OpOf(t) = [kind |-> "insert", key |-> loc[t].key]
         /\ pc[t] \in Answered => OpOf(t) = [kind |-> pc[t], key |-> loc[t].key]
         /\ pc[t] \notin Insert \cup Answered \cup {"idle"} =>
              OpOf(t) = [kind |-> "inserted", key |-> loc[t].key]
         /\ pc'[t] = "idle" => OpOf(t)' = [kind |-> "idle"]
         /\ pc'[t] \in Insert =>
              OpOf(t)' = [kind |-> "insert", key |-> loc'[t].key]
         /\ pc'[t] \in Answered =>
              OpOf(t)' = [kind |-> pc'[t], key |-> loc'[t].key]
         /\ pc'[t] \notin Insert \cup Answered \cup {"idle"} =>
              OpOf(t)' = [kind |-> "inserted", key |-> loc'[t].key]
BY DEF OpOf, OpKind, Insert, Answered

\* Most steps of a call are hidden.
LEMMA OpStays ==
  ASSUME IndInv, NEW t \in Foreground,
         \/ CopyMeta(t) \/ PushJob(t) \/ SplitBuild(t) \/ ReadLevel(t)
         \/ InsertInode(t) \/ SplitInode(t) \/ GrowRoot(t)
         \/ GrowSecondStore(t) \/ UnlockOldRoot(t) \/ UnlockNewRoot(t)
  PROVE  OpOf(t)' = OpOf(t)
<1> DEFINE Rest == {"flush", "level", "inode", "grow", "growroot", "growlevel",
                    "unlockold", "unlocknew", "ret"}
<1>1. /\ TypeOK /\ t \in Thread /\ loc[t] \in Local
      /\ pc \in [Thread -> ForegroundLabel \cup WorkerLabel]
      /\ loc \in [Thread -> Local]
  BY LocalFields DEF IndInv, TypeOK, ThreadTypeOK, Thread
<1>2. loc'[t].key = loc[t].key
  <2>1. CASE CopyMeta(t)
    BY <1>1, <2>1 DEF CopyMeta, Local
  <2>2. CASE SplitBuild(t)
    <3>1. PICK sk : NewLeafWrote(t, nleaf, loc[t].lp, sk)
      BY <1>1, <2>2, NewLeafWrites
    <3> QED
      BY <3>1 DEF NewLeafWrote
  <2>3. CASE ReadLevel(t)
    BY <1>1, <2>3 DEF ReadLevel, Local
  <2>4. CASE SplitInode(t)
    <3>1. PICK a, b, c : loc' = [loc EXCEPT ![t].sep = a, ![t].ptr = b,
                                            ![t].lev = c]
      BY <2>4 DEF SplitInode
    <3> QED
      BY <1>1, <3>1 DEF Local
  <2>5. CASE GrowRoot(t)
    <3>1. PICK a, b : loc' = [loc EXCEPT ![t].old_root = a, ![t].ptr = b]
      BY <2>5 DEF GrowRoot
    <3> QED
      BY <1>1, <3>1 DEF Local
  <2>6. CASE \/ PushJob(t) \/ InsertInode(t) \/ GrowSecondStore(t)
             \/ UnlockOldRoot(t) \/ UnlockNewRoot(t)
    BY <2>6 DEF PushJob, InsertInode, GrowSecondStore, UnlockOldRoot,
      UnlockNewRoot
  <2> QED
    BY <2>1, <2>2, <2>3, <2>4, <2>5, <2>6
<1>3. \/ pc[t] \in Insert /\ pc'[t] \in Insert
      \/ pc[t] \in Rest /\ pc'[t] \in Rest
  <2>1. CASE CopyMeta(t)
    BY <1>1, <2>1 DEF CopyMeta, Goto, Insert
  <2>2. CASE SplitBuild(t)
    BY <1>1, <2>2 DEF SplitBuild, Goto, Insert
  <2>3. CASE PushJob(t) \/ ReadLevel(t) \/ InsertInode(t)
    BY <1>1, <2>3 DEF PushJob, ReadLevel, InsertInode, Goto, Done
  <2>4. CASE SplitInode(t)
    BY <1>1, <2>4 DEF SplitInode, Goto
  <2>5. CASE GrowRoot(t)
    BY <1>1, <2>5 DEF GrowRoot, Goto
  <2>6. CASE GrowSecondStore(t) \/ UnlockOldRoot(t) \/ UnlockNewRoot(t)
    BY <1>1, <2>6 DEF GrowSecondStore, UnlockOldRoot, UnlockNewRoot, Goto, Done
  <2> QED
    BY <2>1, <2>2, <2>3, <2>4, <2>5, <2>6
<1>4. CASE pc[t] \in Insert /\ pc'[t] \in Insert
  BY <1>2, <1>4, OpIs
<1>5. CASE pc[t] \in Rest /\ pc'[t] \in Rest
  <2>1. /\ pc[t] \notin Insert \cup Answered \cup {"idle"}
        /\ pc'[t] \notin Insert \cup Answered \cup {"idle"}
    BY <1>5 DEF Insert, Answered
  <2> QED
    BY <1>2, <2>1, OpIs
<1> QED
  BY <1>3, <1>4, <1>5

LEMMA OthersCalls ==
  ASSUME IndInv, NEW t \in Thread, Step(t), NEW u \in Foreground, u # t
  PROVE  OpOf(u)' = OpOf(u)
<1>1. pc'[u] = pc[u] /\ loc'[u] = loc[u]
  BY StepStays DEF IndInv, OthersStay, Thread
<1> QED
  BY <1>1 DEF OpOf, OpKind

\* Every step is a step of KVIndex or changes nothing it speaks of.
LEMMA KVStep ==
  ASSUME IndInv, IndInv', Rooted, OrderInv, NEW t \in Thread, Step(t)
  PROVE  [KV!KVNext]_(KV!kvars)
<1>1. PICK low \in Bounds : Ordered(low)
  BY DEF OrderInv
<1>2. /\ TypeOK /\ ShapeInv /\ LeafOrder(low) /\ OthersOps(t)
      /\ pc \in [Thread -> ForegroundLabel \cup WorkerLabel]
      /\ loc \in [Thread -> Local] /\ loc[t] \in Local /\ loc[t].key \in Key
      /\ loc[t].sep \in Int /\ loc[t].key \in Int
      /\ t \in Foreground => t \notin Worker
  BY <1>1, OthersCalls, LocalFields, Constants
  DEF IndInv, OrderInv, Ordered, OthersOps, TypeOK, ThreadTypeOK
<1>3. PICK k : k = loc[t].key
  OBVIOUS
<1> DEFINE Quiet == ~SplitPublish(t)
             /\ ~(t \in Foreground /\ (Fills(t) \/ InsertLeft(t)))
<1>4. Quiet => Store' = Store
  BY <1>2, StoreStays
<1>5. CASE t \notin Foreground
  <2>1. \A u \in Foreground : OpOf(u)' = OpOf(u)
    BY <1>2, <1>5 DEF OthersOps
  <2>2. Store' = Store
    <3>1. CASE SplitPublish(t)
      BY <1>1, <1>2, <1>3, <1>5, <3>1, StorePublish
    <3> QED
      BY <1>4, <1>5, <3>1
  <2> QED
    BY <2>1, <2>2, StepHidden
<1>6. CASE t \in Foreground /\ Call(t)
  <2>1. PICK c \in Work[t], label \in {"find", "search"} :
          loc' = [loc EXCEPT ![t].key = c] /\ Goto(t, label)
    BY <1>6 DEF Call
  <2>2. pc[t] = "idle" /\ pc'[t] = label /\ loc'[t].key = c
    BY <1>2, <1>6, <2>1 DEF Call, Goto, Local
  <2>3. PICK b \in {"insert", "search"} :
          OpOf(t)' = [kind |-> b, key |-> c]
    BY <2>2, OpIs DEF Insert, Answered
  <2>4. OpOf(t) = [kind |-> "idle"]
    BY <2>2, OpIs
  <2>5. Store' = Store
    <3>1. pc[t] # "fill" /\ pc[t] # "addleft" /\ pc[t] # "publish"
      BY <2>2
    <3> QED
      BY <1>4, <3>1 DEF Fills, FillSlot, FillOnly, InsertLeft, SplitPublish
  <2> QED
    BY <1>2, <1>6, <2>3, <2>4, <2>5, StepCall
<1>7. CASE t \in Foreground /\ SearchLnode(t)
  <2>1. PICK p \in Descents(k) :
          /\ ~meta[LeafFor(p, k)].lock
          /\ Goto(t, SearchResult(k, LeafFor(p, k)))
    BY <1>3, <1>7, Zenon DEF SearchLnode
  <2>2. PICK c : c = LeafFor(p, k)
    OBVIOUS
  <2>3. k \in Store <=> k \in meta[c].bitmap
    BY <1>1, <1>2, <1>3, <2>1, <2>2, LeafTells
  <2>4. PICK b : b = IF k \in Store THEN "reading" ELSE "missing"
    OBVIOUS
  <2>5. pc[t] = "search" /\ pc'[t] = b /\ loc'[t].key = k
    <3>1. pc[t] = "search" /\ pc'[t] = b
      BY <1>2, <1>3, <1>7, <2>1, <2>2, <2>3, <2>4
      DEF SearchLnode, SearchResult, Goto
    <3>2. loc'[t].key = k
      BY <1>2, <1>3, <1>7, SearchLocal
    <3> QED
      BY <3>1, <3>2
  <2>6. OpMoves(t, "search", b, k)
    BY <1>3, <2>4, <2>5, OpIs DEF OpMoves, Answered
  <2>7. Store' = Store
    BY <1>4, <2>5 DEF Fills, FillSlot, FillOnly, InsertLeft, SplitPublish
  <2> QED
    BY <1>2, <1>7, <2>4, <2>6, <2>7, StepSearch
<1>13. CASE t \in Foreground /\ ReadCh(t)
  <2>1. PICK b \in {"found", "other"} : pc[t] = "reading" /\ pc'[t] = b
    BY <1>2, <1>13 DEF ReadCh, Goto
  <2>2. loc'[t].key = k
    BY <1>2, <1>3, <1>13, SearchLocal
  <2>3. OpMoves(t, "reading", b, k)
    BY <1>3, <2>1, <2>2, OpIs DEF OpMoves, Answered
  <2>4. Store' = Store
    BY <1>4, <2>1 DEF Fills, FillSlot, FillOnly, InsertLeft, SplitPublish
  <2> QED
    BY <1>2, <1>13, <2>3, <2>4, StepRead
<1>8. CASE t \in Foreground /\ FindLeaf(t)
  <2>1. FindWrote(t)
    BY <1>8, FindWrites
  <2>2. Store' = Store /\ pc[t] = "find"
    BY <1>4, <2>1
    DEF FindWrote, Fills, FillSlot, FillOnly, InsertLeft, SplitPublish
  <2>3. CASE pc'[t] = "copy" /\ loc'[t].key = loc[t].key
    <3>1. OpOf(t)' = OpOf(t)
      BY <2>2, <2>3, OpIs DEF Insert
    <3> QED
      BY <1>2, <2>2, <3>1, StepHidden DEF OthersOps
  <2>4. CASE ~(pc'[t] = "copy" /\ loc'[t].key = loc[t].key)
    <3>1. pc'[t] = "ret" /\ loc'[t] = loc[t]
      BY <2>1, <2>4 DEF FindWrote, LeafTaken
    <3>2. PICK p \in Descents(k) :
            ~meta[LeafFor(p, k)].lock /\ k \in meta[LeafFor(p, k)].bitmap
      <4>1. PICK p \in Descents(k) :
              /\ ~meta[LeafFor(p, k)].lock
              /\ k \notin meta[LeafFor(p, k)].bitmap => Goto(t, "copy")
        BY <1>3, <1>8 DEF FindLeaf
      <4>2. ~Goto(t, "copy")
        BY <1>2, <3>1 DEF Goto
      <4> QED
        BY <4>1, <4>2
    <3>3. k \in Store
      BY <1>1, <1>2, <1>3, <3>2, LeafTells
    <3>4. OpMoves(t, "insert", "inserted", k)
      BY <1>3, <2>2, <3>1, OpIs DEF OpMoves, Insert, Answered
    <3>5. Store' = Store \cup {k}
      BY <2>2, <3>3
    <3> QED
      BY <1>2, <1>8, <3>4, <3>5, StepInsert
  <2> QED
    BY <2>3, <2>4
<1>9. CASE t \in Foreground /\ Return(t)
  <2>1. pc[t] \in {"ret", "found", "other", "missing"} /\ pc'[t] = "idle"
    BY <1>2, <1>9 DEF Return, Goto
  <2>2. OpOf(t)' = [kind |-> "idle"]
    BY <2>1, OpIs
  <2>3. PICK a \in {"inserted", "found", "other", "missing"} :
          OpOf(t) = [kind |-> a, key |-> k]
    BY <1>3, <2>1, OpIs DEF Insert, Answered
  <2>4. Store' = Store
    BY <1>4, <2>1 DEF Fills, FillSlot, FillOnly, InsertLeft, SplitPublish
  <2> QED
    BY <1>2, <1>9, <2>2, <2>3, <2>4, StepReturn
<1>10. CASE t \in Foreground /\ (Fills(t) \/ InsertLeft(t))
  <2>1. KeyWrote(t, loc[t].lp)
    BY <1>10, KeyWrites
  <2>2. OpMoves(t, "insert", "inserted", k)
    BY <1>3, <2>1, OpIs DEF KeyWrote, OpMoves, Insert, Answered
  <2>3. Store' = Store \cup {k}
    BY <1>2, <1>3, <1>10, StoreKey
  <2> QED
    BY <1>2, <1>10, <2>2, <2>3, StepInsert
<1>11. CASE t \in Foreground /\ SplitPublish(t)
  <2>1. PublishWrote(t)
    BY <1>11, PublishWrites
  <2>2. /\ pc[t] = "publish" /\ loc'[t] = loc[t]
        /\ pc'[t] = IF loc[t].key <= loc[t].sep THEN "addleft" ELSE "level"
    BY <1>2, <1>11, <2>1 DEF PublishWrote
  <2>3. Store' = Store \cup IF k > loc[t].sep THEN {k} ELSE {}
    BY <1>1, <1>2, <1>3, <1>11, StorePublish
  <2>4. CASE loc[t].key <= loc[t].sep
    <3>1. OpOf(t)' = OpOf(t)
      BY <2>2, <2>4, OpIs DEF Insert
    <3>2. ~(k > loc[t].sep)
      BY <1>2, <1>3, <2>4
    <3>3. Store' = Store
      BY <2>3, <3>2
    <3> QED
      BY <1>2, <3>1, <3>3, StepHidden DEF OthersOps
  <2>5. CASE ~(loc[t].key <= loc[t].sep)
    <3>1. OpMoves(t, "insert", "inserted", k)
      BY <1>3, <2>2, <2>5, OpIs DEF OpMoves, Insert, Answered
    <3>2. k > loc[t].sep
      BY <1>2, <1>3, <2>5
    <3>3. Store' = Store \cup {k}
      BY <2>3, <3>2
    <3> QED
      BY <1>2, <1>11, <3>1, <3>3, StepInsert
  <2> QED
    BY <2>4, <2>5
<1>12. CASE t \in Foreground /\
         (\/ CopyMeta(t) \/ PushJob(t) \/ SplitBuild(t) \/ ReadLevel(t)
          \/ InsertInode(t) \/ SplitInode(t) \/ GrowRoot(t)
          \/ GrowSecondStore(t) \/ UnlockOldRoot(t) \/ UnlockNewRoot(t))
  <2>1. OpOf(t)' = OpOf(t)
    BY <1>2, <1>12, OpStays
  <2>2. \A u \in Foreground : OpOf(u)' = OpOf(u)
    BY <1>2, <2>1 DEF OthersOps
  <2>3. pc[t] \notin {"fill", "addleft", "publish"}
    BY <1>12 DEF CopyMeta, PushJob, SplitBuild, ReadLevel, InsertInode,
      SplitInode, GrowRoot, GrowSecondStore, UnlockOldRoot, UnlockNewRoot
  <2>4. Store' = Store
    BY <1>4, <2>3 DEF Fills, FillSlot, FillOnly, InsertLeft, SplitPublish
  <2> QED
    BY <2>2, <2>4, StepHidden
<1> QED
  <2>1. t \in Foreground =>
          \/ Call(t) \/ SearchLnode(t) \/ ReadCh(t) \/ FindLeaf(t) \/ Return(t)
          \/ CopyMeta(t) \/ Fills(t) \/ PushJob(t) \/ InsertLeft(t)
          \/ SplitStep(t)
    BY <1>2 DEF Step, NextStep, ClientStep, Fills
  <2> QED
    BY <1>5, <1>6, <1>7, <1>8, <1>9, <1>10, <1>11, <1>12, <1>13, <2>1
    DEF SplitStep

LEMMA KVStart ==
  ASSUME Init
  PROVE  KV!KVInit
<1>1. Store = {}
  <2>1. \A l \in LnodeId : meta[l].bitmap = {}
    BY DEF Init, NoMeta
  <2>2. \A l : l \in Published => l \in LnodeId
    BY Constants DEF Init, Published, LnodeId
  <2> QED
    BY <2>1, <2>2 DEF Store
<1>2. \A t \in Foreground : OpOf(t) = [kind |-> "idle"]
  BY DEF Init, Thread, OpOf
<1> QED
  BY <1>1, <1>2 DEF KV!KVInit, KV!NoOp

\* Every step of the tree keeps the promise, a worker's free choice of a leaf
\* included.
LEMMA KVNextAny ==
  ASSUME IndInv, IndInv', Rooted, OrderInv, [NextAny]_vars
  PROVE  [KV!KVNext]_(KV!kvars)
<1>1. CASE UNCHANGED vars
  <2>1. UNCHANGED <<meta, nleaf, pc, loc>>
    BY <1>1 DEF vars
  <2>2. Store' = Store
    BY <2>1 DEF Store, Published, Private
  <2>3. \A u \in Foreground : OpOf(u)' = OpOf(u)
    BY <2>1 DEF OpOf, OpKind
  <2> QED
    BY <2>2, <2>3, StepHidden
<1>2. CASE NextAny
  BY <1>2, AnyIsStep, KVStep
<1> QED
  BY <1>1, <1>2

\* Every insert of the clients appears to happen, and every search to look for
\* its key, at one instant between its call and its return, and no split, by
\* whichever thread and wherever it stands, loses, hides or adds a key: the
\* clients see the index KVIndex describes (insert_lnode at sobtree_v2.h:694,
\* search_lnode at sobtree_v2.h:584).  The value a search then reads, after its
\* transaction (line 691), is no part of the promise.
THEOREM LinearizableHolds == Spec /\ []NoStaleJob => Linearizable
<1>1. Init => KV!KVInit
  BY KVStart
<1>2. IndInv /\ IndInv' /\ Rooted /\ OrderInv /\ [Next]_vars =>
        [KV!KVNext]_(KV!kvars)
  BY KVNextAny DEF NextAny
<1> QED
  BY <1>1, <1>2, OrderHolds, PTL DEF Spec, Linearizable, KV!KVSpec

\* Where the pool holds fewer leaves than the 2^16 versions of sobtree_v2.h:125,
\* every behaviour of the index is one of KVIndex: no split ever meets a job of
\* a version that has come round.
THEOREM FewLeavesLinearizable ==
  ASSUME VersionMod > MaxLeaf
  PROVE  Spec => Linearizable
<1>1. Spec => []NoStaleJob
  BY FewLeavesNotStale
<1> QED
  BY <1>1, LinearizableHolds, PTL
=============================================================================
