------------------------------ MODULE SobTree ------------------------------
(***************************************************************************)
(* The two-layer index of sobtree_v2.h, the version test/interface.h       *)
(* builds, with BACKGROUND defined: foreground threads run insert_lnode    *)
(* and search_lnode, background workers run split on the jobs the          *)
(* foreground queues.  The search layer (inodes) is in DRAM, the leaf      *)
(* layer (lnodes) is a chain in persistent memory.                         *)
(*                                                                         *)
(* Granularity.  An RTM transaction is one action, enabled when it would   *)
(* commit: a transaction that meets a set lock bit aborts and retries,     *)
(* that is, waits.  Outside a transaction, every store another thread can  *)
(* observe before the next one is an action of its own; stores to a node   *)
(* that is private, or that no transaction reads because its lock bit is   *)
(* set, are grouped.                                                       *)
(*                                                                         *)
(* Data.  A leaf's entries are the set of keys its bitmap marks (slots and *)
(* fingerprints are left out); of the value stored with a key only whether *)
(* a search reads it or that of another key is kept.                       *)
(* An inode of level i is <<i, n>>, where n is its allocation number; a    *)
(* pointer to a node is that number, the level is known from where the     *)
(* pointer is.  ch[j] here is ch(j - 1) of the code.                       *)
(***************************************************************************)
EXTENDS Integers, Sequences, FiniteSets, SequencesExt

CONSTANTS
  Key,                \* the keys of the workload
  Foreground,         \* client threads
  Worker,             \* background split threads (NUM_WORKERS)
  Work,               \* Work[t]: the keys client t inserts and searches
  LEAF_KEY_NUM,       \* entries of an lnode, 14 in the code
  NON_LEAF_KEY_NUM,   \* keys of an inode, 14 in the code
  VersionMod,         \* split versions wrap here, 2^16 in the code
  MaxLeaf,            \* bound: lnodes the pool can hold
  MaxInode,           \* bound: inodes per level
  MaxLevel            \* bound: highest level, 31 in the code (parray[32])

ASSUME ConstantsOK ==
  /\ Key \subseteq Int /\ Key # {} /\ IsFiniteSet(Key)
  /\ Foreground \cap Worker = {}
  /\ Work \in [Foreground -> SUBSET Key]
  /\ LEAF_KEY_NUM \in Nat \ {0, 1}
  /\ NON_LEAF_KEY_NUM \in Nat \ {0, 1}
  /\ VersionMod \in Nat \ {0}
  /\ MaxLeaf \in Nat \ {0}
  /\ MaxInode \in Nat \ {0}
  /\ MaxLevel \in Nat

VARIABLES
  tree_root, root_level,   \* the root pointer and the root's level
  ent,                     \* ent[n]: separators and children of inode n
  ilock,                   \* ilock[n]: lock bit of inode n
  ninode,                  \* ninode[i]: inodes allocated at level i
  meta,                    \* meta[l]: bitmap, lock and alt of lnode l
  tail,                    \* tail[l]: the two sibling pointers of lnode l
  version,                 \* version[l]: split version, in tail[0].version
  nleaf,                   \* lnodes allocated
  job_queue,               \* <<leaf, version>> jobs pushed and not popped
  pc, loc                  \* control point and local variables per thread

search_layer == <<tree_root, root_level, ent, ilock, ninode>>
leaf_layer   == <<meta, tail, version, nleaf>>
vars == <<tree_root, root_level, ent, ilock, ninode, meta, tail, version,
          nleaf, job_queue, pc, loc>>

-----------------------------------------------------------------------------
Thread   == Foreground \cup Worker
Level    == 0..MaxLevel
InodeNum == 0..(MaxInode - 1)
Inode    == Level \X InodeNum
LnodeId  == 0..(MaxLeaf - 1)
Null     == -1
Version  == 0..(VersionMod - 1)
first_lnode == 0

LEFT_KEY_NUM == NON_LEAF_KEY_NUM \div 2
SPLIT == LEAF_KEY_NUM \div 2

LnodeMeta == [bitmap : SUBSET Key, lock : BOOLEAN, alt : {0, 1}]

\* parray, ppos and isfull of the code; rl is the root level the transaction
\* read ("0 .. root_level will be used").
Path == [parray : [Level -> InodeNum],
         ppos   : [Level -> 0..NON_LEAF_KEY_NUM],
         isfull : [Level -> BOOLEAN],
         rl     : Level]

\* The local variables of a call.  sep and ptr are the (key, ptr) the search
\* layer is about to receive: the code reuses key and ptr for them.
Local == [key : Key, lp : LnodeId, meta : LnodeMeta, version : Version,
          sep : Key, ptr : Nat, path : Path, lev : 0..(MaxLevel + 1),
          total : Level, old_root : InodeNum]

\* What a thread's locals are worth outside a call: never read.
NoMeta  == [bitmap |-> {}, lock |-> FALSE, alt |-> 0]
NoPath  == [parray |-> [i \in Level |-> 0], ppos |-> [i \in Level |-> 0],
            isfull |-> [i \in Level |-> FALSE], rl |-> 0]
SomeKey == CHOOSE k \in Key : TRUE
NoLocal == [key |-> SomeKey, lp |-> 0, meta |-> NoMeta, version |-> 0,
            sep |-> SomeKey, ptr |-> 0, path |-> NoPath, lev |-> 0,
            total |-> 0, old_root |-> 0]

Init ==
  /\ tree_root = <<0, 0>>
  /\ root_level = 0
  /\ ent = [n \in Inode |-> [k |-> <<>>, ch |-> <<first_lnode>>]]
  /\ ilock = [n \in Inode |-> FALSE]
  /\ ninode = [i \in Level |-> IF i = 0 THEN 1 ELSE 0]
  /\ meta = [l \in LnodeId |-> NoMeta]
  /\ tail = [l \in LnodeId |-> [a \in {0, 1} |-> Null]]
  /\ version = [l \in LnodeId |-> 0]
  /\ nleaf = 1
  /\ job_queue = {}
  /\ pc = [t \in Thread |-> IF t \in Foreground THEN "idle" ELSE "pop"]
  /\ loc = [t \in Thread |-> NoLocal]

-----------------------------------------------------------------------------
(* Reading the search layer.                                               *)

num(n) == Len(ent[n].k)

\* Mutant: a key equal to a separator goes to its left.
ChildPosBefore(n, key) ==
  Cardinality({b \in 1..num(n) : ent[n].k[b] < key})

\* Keys of n that do not exceed key: the index of the child to follow.
ChildPos(n, key) == Cardinality({b \in 1..num(n) : ent[n].k[b] <= key})
Child(n, key)    == ent[n].ch[ChildPos(n, key) + 1]

\* The path a transaction follows for key: p[i] is the inode of level i.  A
\* set lock bit on the path aborts the transaction.
IsDescent(p, key) ==
  /\ tree_root = <<root_level, p[root_level]>>
  /\ \A i \in 0..root_level : ~ilock[<<i, p[i]>>]
  /\ \A i \in 1..root_level : p[i - 1] = Child(<<i, p[i]>>, key)

Descents(key) == {p \in [0..root_level -> InodeNum] : IsDescent(p, key)}

LeafFor(p, key) == Child(<<0, p[0]>>, key)

\* What the transaction records on its way down.
PathTaken(p, key) ==
  LET at(i) == <<i, p[i]>> IN
  [parray |-> [i \in Level |-> IF i <= root_level THEN p[i] ELSE 0],
   ppos   |-> [i \in Level |-> IF i <= root_level
                                 THEN ChildPos(at(i), key) ELSE 0],
   isfull |-> [i \in Level |-> /\ i <= root_level
                               /\ num(at(i)) = NON_LEAF_KEY_NUM],
   rl     |-> root_level]

\* Mutant: the first inode that is not full is left unlocked.
LockedFullOnly(path) ==
  {<<i, path.parray[i]>> :
     i \in {j \in 0..path.rl : \A m \in 0..j : path.isfull[m]}}

\* The inodes a split will change: from the bottom up to the first that is
\* not full.
Locked(path) ==
  {<<i, path.parray[i]>> :
     i \in {j \in 0..path.rl : \A m \in 0..(j - 1) : path.isfull[m]}}

\* Mutant: only the bottom inode is locked.
LockBottom(path) == ilock' = [ilock EXCEPT ![<<0, path.parray[0]>>] = TRUE]

LockInodes(path) ==
  ilock' = [n \in Inode |-> ilock[n] \/ n \in Locked(path)]

isFull(l) == Cardinality(meta[l].bitmap) = LEAF_KEY_NUM

Goto(t, label) == pc' = [pc EXCEPT ![t] = label]

-----------------------------------------------------------------------------
(* insert_lnode and search_lnode, part 1: the transaction.                 *)

\* A client calls insert_lnode(k, k) or search_lnode(k).
Call(t) ==
  /\ pc[t] = "idle"
  /\ \E k \in Work[t], label \in {"find", "search"} :
       /\ loc' = [loc EXCEPT ![t].key = k]
       /\ Goto(t, label)
  /\ UNCHANGED <<search_layer, leaf_layer, job_queue>>

\* Mutant: a search that finds nothing starts again.
SearchAgain(key, l) == IF key \in meta[l].bitmap THEN "reading" ELSE "search"

SearchResult(key, l) == IF key \in meta[l].bitmap THEN "reading" ELSE "missing"

\* search_lnode's transaction finds the leaf and the slot of the key in it.
\* In place of the slot, ret_pos, t keeps the leaf's meta and the number of
\* leaves: they tell whether the slot can have changed hands since.
SearchLnode(t) ==
  /\ pc[t] = "search"
  /\ \E p \in Descents(loc[t].key) :
       LET l == LeafFor(p, loc[t].key) IN
       /\ ~meta[l].lock
       /\ Goto(t, SearchResult(loc[t].key, l))
       /\ IF loc[t].key \in meta[l].bitmap
            THEN loc' = [loc EXCEPT ![t].lp = l, ![t].meta = meta[l],
                                    ![t].ptr = nleaf]
            ELSE UNCHANGED loc
  /\ UNCHANGED <<search_layer, leaf_layer, job_queue>>

\* A slot is given up only by an insert that moves it out of line 0 or by a
\* split; unless the leaf has a new key or a leaf was split, the slot is as the
\* transaction saw it.
SlotMayBeReused(t) ==
  meta[loc[t].lp].bitmap # loc[t].meta.bitmap \/ nleaf # loc[t].ptr

\* lp->ch(ret_pos) is read after the commit: an insert may have put another
\* key in the slot.
ReadCh(t) ==
  /\ pc[t] = "reading"
  /\ \/ Goto(t, "found")
     \/ SlotMayBeReused(t) /\ Goto(t, "other")
  /\ loc' = [loc EXCEPT ![t] = [NoLocal EXCEPT !.key = loc[t].key]]
  /\ UNCHANGED <<search_layer, leaf_layer, job_queue>>

\* insert_lnode finds the leaf and locks it, with the inodes to change when
\* the leaf is full; a key already there ends the call.
FindLeaf(t) ==
  /\ pc[t] = "find"
  /\ \E p \in Descents(loc[t].key) :
       LET l    == LeafFor(p, loc[t].key)
           path == PathTaken(p, loc[t].key)
       IN
       /\ ~meta[l].lock
       /\ IF loc[t].key \in meta[l].bitmap
            THEN /\ Goto(t, "ret")
                 /\ UNCHANGED <<meta, ilock, loc>>
            ELSE /\ meta' = [meta EXCEPT ![l].lock = TRUE]
                 /\ IF isFull(l) THEN LockInodes(path) ELSE UNCHANGED ilock
                 /\ loc' = [loc EXCEPT ![t].lp = l, ![t].path = path]
                 /\ Goto(t, "copy")
  /\ UNCHANGED <<tree_root, root_level, ent, ninode, tail, version, nleaf,
                 job_queue>>

\* The call returns to the client.
Return(t) ==
  /\ pc[t] \in {"ret", "found", "other", "missing"}
  /\ loc' = [loc EXCEPT ![t] = NoLocal]
  /\ Goto(t, "idle")
  /\ UNCHANGED <<search_layer, leaf_layer, job_queue>>

-----------------------------------------------------------------------------
(* insert_lnode, part 2: the leaf.                                         *)

\* Mutant: a worker's copy loses the lock bit too.
TempMetaUnlocked(t) == [meta[loc[t].lp] EXCEPT !.lock = FALSE]

\* The temporary copy of meta: a client clears the lock bit in it, a worker
\* leaves it set.
TempMeta(t) == IF t \in Worker THEN meta[loc[t].lp]
                              ELSE [meta[loc[t].lp] EXCEPT !.lock = FALSE]

\* The version for the job is read under the lock.
CopyMeta(t) ==
  /\ pc[t] = "copy"
  /\ t \in Foreground
  /\ loc' = [loc EXCEPT ![t].meta = TempMeta(t),
                        ![t].version = version[loc[t].lp]]
  /\ Goto(t, IF isFull(loc[t].lp) THEN "build" ELSE "fill")
  /\ UNCHANGED <<search_layer, leaf_layer, job_queue>>

\* The store of meta makes the entry visible and unlocks the leaf at once;
\* entries moved within the leaf keep its set of keys.
FillSlot(t) ==
  LET m == [loc[t].meta EXCEPT !.bitmap = @ \cup {loc[t].key}] IN
  /\ pc[t] = "fill"
  /\ meta' = [meta EXCEPT ![loc[t].lp] = m]
  /\ loc' = [loc EXCEPT ![t].meta = m]
  /\ Goto(t, "flush")
  /\ UNCHANGED <<search_layer, tail, version, nleaf, job_queue>>

\* Mutants: a look at the leaf itself, which is unlocked by now; a look at the
\* bitmap as it was before the insert.
FilledLeafNow(t)    == isFull(loc[t].lp)
FilledLeafBefore(t) ==
  Cardinality(loc[t].meta.bitmap \ {loc[t].key}) = LEAF_KEY_NUM

\* Whether t filled the last slot, in the bitmap it stored.
FilledLeaf(t) == Cardinality(loc[t].meta.bitmap) = LEAF_KEY_NUM

\* Mutant: a split leaves the version as it was.
SameVersion(v) == v

NextVersion(v) == (v + 1) % VersionMod

\* MASK(lp, version), with the version read while t held the leaf.
Job(t) == <<loc[t].lp, loc[t].version>>

\* After the flush, the thread that filled the last slot queues a split.
PushJob(t) ==
  /\ pc[t] = "flush"
  /\ job_queue' = job_queue \cup (IF FilledLeaf(t) THEN {Job(t)} ELSE {})
  /\ Goto(t, "ret")
  /\ UNCHANGED <<search_layer, leaf_layer, loc>>

-----------------------------------------------------------------------------
(* The leaf split, by the client that finds the leaf full or by a worker.  *)

\* sk is the key at the split point of the sorted entries.
IsSplitKey(sk, S) == Cardinality({y \in S : y < sk}) = SPLIT

\* Mutant: newp is linked from the sibling pointer in use.
LinkNewInPlace(l, a, newp) ==
  [tail EXCEPT ![newp][0] = tail[l][a], ![l][a] = newp]

\* newp follows l in the chain once l's alt bit is switched.
LinkNew(l, a, newp) == [tail EXCEPT ![newp][0] = tail[l][a], ![l][1 - a] = newp]

\* The new leaf takes the upper half and the key being inserted when that is
\* above the split key; it is linked from the unused sibling pointer.
SplitBuild(t) ==
  LET l == loc[t].lp
      S == meta[l].bitmap
      a == meta[l].alt
      newp == nleaf
  IN
  /\ pc[t] = "build"
  /\ newp < MaxLeaf
  /\ \E sk \in S :
       LET upper == {y \in S : y >= sk}
           mine  == IF t \in Foreground /\ loc[t].key > sk
                      THEN {loc[t].key} ELSE {}
           m     == [loc[t].meta EXCEPT !.bitmap = @ \ upper, !.alt = 1 - a]
       IN
       /\ IsSplitKey(sk, S)
       /\ meta' = [meta EXCEPT ![newp] =
                     [bitmap |-> upper \cup mine, lock |-> FALSE, alt |-> 0]]
       /\ tail' = LinkNew(l, a, newp)
       /\ version' = [version EXCEPT ![l] = NextVersion(@)]
       /\ nleaf' = nleaf + 1
       /\ loc' = [loc EXCEPT ![t].meta = m, ![t].sep = sk, ![t].ptr = newp]
  /\ Goto(t, "publish")
  /\ UNCHANGED <<search_layer, job_queue>>

\* One store of meta switches alt and frees the moved slots.  A client's copy
\* has the lock bit clear, so this also unlocks its leaf; a worker's keeps it
\* set.
SplitPublish(t) ==
  /\ pc[t] = "publish"
  /\ meta' = [meta EXCEPT ![loc[t].lp] = loc[t].meta]
  /\ Goto(t, IF t \in Worker THEN "locate"
             ELSE IF loc[t].key <= loc[t].sep THEN "addleft" ELSE "level")
  /\ UNCHANGED <<search_layer, tail, version, nleaf, job_queue, loc>>

\* A key up to the split key goes to the old leaf, from the same copy.
InsertLeft(t) ==
  LET m == [loc[t].meta EXCEPT !.bitmap = @ \cup {loc[t].key}] IN
  /\ pc[t] = "addleft"
  /\ meta' = [meta EXCEPT ![loc[t].lp] = m]
  /\ loc' = [loc EXCEPT ![t].meta = m]
  /\ Goto(t, "level")
  /\ UNCHANGED <<search_layer, tail, version, nleaf, job_queue>>

-----------------------------------------------------------------------------
(* Part 3 of insert_lnode and insert_inode: the search layer.              *)

\* insert_inode's transaction: the path for the split key, locked.
FindInode(t) ==
  /\ pc[t] = "locate"
  /\ \E p \in Descents(loc[t].sep) :
       LET path == PathTaken(p, loc[t].sep) IN
       /\ LockInodes(path)
       /\ loc' = [loc EXCEPT ![t].path = path]
  /\ Goto(t, "level")
  /\ UNCHANGED <<tree_root, root_level, ent, ninode, leaf_layer, job_queue>>

\* Mutant: the loop over the levels stops one short.
LevelBelow == IF root_level > 0 THEN root_level - 1 ELSE 0

total_level == root_level

\* total_level is read after the transaction has committed.
ReadLevel(t) ==
  /\ pc[t] = "level"
  /\ loc' = [loc EXCEPT ![t].total = total_level, ![t].lev = 0]
  /\ Goto(t, "inode")
  /\ UNCHANGED <<search_layer, leaf_layer, job_queue>>

\* The inode of the current level, and its contents with (sep, ptr) added
\* right of the child the path went through.
Here(t) == <<loc[t].lev, loc[t].path.parray[loc[t].lev]>>
MergedK(t) ==
  InsertAt(ent[Here(t)].k, loc[t].path.ppos[loc[t].lev] + 1, loc[t].sep)

\* Mutants: the new child is dropped; it takes the place of the split one.
MergedChDropped(t)  == ent[Here(t)].ch
MergedChReplaced(t) ==
  [ent[Here(t)].ch EXCEPT ![loc[t].path.ppos[loc[t].lev] + 1] = loc[t].ptr]

MergedCh(t) ==
  InsertAt(ent[Here(t)].ch, loc[t].path.ppos[loc[t].lev] + 2, loc[t].ptr)

Done(t) == IF t \in Foreground THEN "ret" ELSE "unlock"

InsertInode(t) ==
  /\ pc[t] = "inode"
  /\ num(Here(t)) < NON_LEAF_KEY_NUM
  /\ ent' = [ent EXCEPT ![Here(t)] = [k |-> MergedK(t), ch |-> MergedCh(t)]]
  /\ ilock' = [ilock EXCEPT ![Here(t)] = FALSE]
  /\ Goto(t, Done(t))
  /\ UNCHANGED <<tree_root, root_level, ninode, leaf_layer, job_queue, loc>>

\* A full inode keeps the lower LEFT_KEY_NUM keys; the next key goes up with
\* the new inode, which takes the rest.  The root stays locked.
SplitInode(t) ==
  LET lev  == loc[t].lev
      newp == ninode[lev]
      mk   == MergedK(t)
      mch  == MergedCh(t)
  IN
  /\ pc[t] = "inode"
  /\ ~(num(Here(t)) < NON_LEAF_KEY_NUM)
  /\ newp < MaxInode
  /\ ninode' = [ninode EXCEPT ![lev] = newp + 1]
  /\ ent' = [ent EXCEPT
       ![Here(t)]      = [k  |-> SubSeq(mk, 1, LEFT_KEY_NUM),
                          ch |-> SubSeq(mch, 1, LEFT_KEY_NUM + 1)],
       ![<<lev, newp>>] = [k  |-> SubSeq(mk, LEFT_KEY_NUM + 2, Len(mk)),
                           ch |-> SubSeq(mch, LEFT_KEY_NUM + 2, Len(mch))]]
  /\ ilock' = [ilock EXCEPT ![Here(t)] = ~(lev < loc[t].total),
                            ![<<lev, newp>>] = FALSE]
  /\ loc' = [loc EXCEPT ![t].sep = mk[LEFT_KEY_NUM + 1], ![t].ptr = newp,
                        ![t].lev = lev + 1]
  /\ Goto(t, IF lev + 1 <= loc[t].total THEN "inode" ELSE "grow")
  /\ UNCHANGED <<tree_root, root_level, leaf_layer, job_queue>>

\* A split root gets a parent, built locked.  root_level and tree_root are
\* two plain stores with no fence between them: the compiler may emit them in
\* either order.
GrowRoot(t) ==
  LET lev  == loc[t].lev
      newp == ninode[lev]
  IN
  /\ pc[t] = "grow"
  /\ lev \in Level
  /\ newp < MaxInode
  /\ ninode' = [ninode EXCEPT ![lev] = newp + 1]
  /\ ent' = [ent EXCEPT ![<<lev, newp>>] =
               [k |-> <<loc[t].sep>>, ch |-> <<tree_root[2], loc[t].ptr>>]]
  /\ ilock' = [ilock EXCEPT ![<<lev, newp>>] = TRUE]
  /\ loc' = [loc EXCEPT ![t].old_root = tree_root[2], ![t].ptr = newp]
  /\ \/ /\ root_level' = lev
        /\ UNCHANGED tree_root
        /\ Goto(t, "growroot")
     \/ /\ tree_root' = <<lev, newp>>
        /\ UNCHANGED root_level
        /\ Goto(t, "growlevel")
  /\ UNCHANGED <<leaf_layer, job_queue>>

\* Mutant: the second store is missing.
GrowOneStore(t) ==
  /\ pc[t] \in {"growroot", "growlevel"}
  /\ Goto(t, "unlockold")
  /\ UNCHANGED <<search_layer, leaf_layer, job_queue, loc>>

GrowSecondStore(t) ==
  /\ \/ /\ pc[t] = "growroot"
        /\ tree_root' = <<loc[t].lev, loc[t].ptr>>
        /\ UNCHANGED root_level
     \/ /\ pc[t] = "growlevel"
        /\ root_level' = loc[t].lev
        /\ UNCHANGED tree_root
  /\ Goto(t, "unlockold")
  /\ UNCHANGED <<ent, ilock, ninode, leaf_layer, job_queue, loc>>

UnlockOldRoot(t) ==
  /\ pc[t] = "unlockold"
  /\ ilock' = [ilock EXCEPT ![<<loc[t].lev - 1, loc[t].old_root>>] = FALSE]
  /\ Goto(t, "unlocknew")
  /\ UNCHANGED <<tree_root, root_level, ent, ninode, leaf_layer, job_queue,
                 loc>>

UnlockNewRoot(t) ==
  /\ pc[t] = "unlocknew"
  /\ ilock' = [ilock EXCEPT ![<<loc[t].lev, loc[t].ptr>>] = FALSE]
  /\ Goto(t, Done(t))
  /\ UNCHANGED <<tree_root, root_level, ent, ninode, leaf_layer, job_queue,
                 loc>>

-----------------------------------------------------------------------------
(* split, run by a worker.                                                 *)

\* A worker takes a job.  Concurrent pushers fill their queue slots in any
\* order, so any queued job may come first.
PopJob(w) ==
  /\ pc[w] = "pop"
  /\ \E job \in job_queue :
       /\ job_queue' = job_queue \ {job}
       /\ loc' = [loc EXCEPT ![w].lp = job[1], ![w].version = job[2]]
  /\ Goto(w, "lock")
  /\ UNCHANGED <<search_layer, leaf_layer>>

\* split's transaction never waits: a leaf that is locked or has another
\* version makes the worker drop the job.
SplitLock(w) ==
  LET l == loc[w].lp IN
  /\ pc[w] = "lock"
  /\ IF meta[l].lock \/ version[l] # loc[w].version
       THEN /\ loc' = [loc EXCEPT ![w] = NoLocal]
            /\ Goto(w, "pop")
            /\ UNCHANGED meta
       ELSE /\ meta' = [meta EXCEPT ![l].lock = TRUE]
            /\ Goto(w, "copy")
            /\ UNCHANGED loc
  /\ UNCHANGED <<search_layer, tail, version, nleaf, job_queue>>

SplitCopy(w) ==
  /\ pc[w] = "copy"
  /\ w \in Worker
  /\ loc' = [loc EXCEPT ![w].meta = TempMeta(w)]
  /\ Goto(w, "build")
  /\ UNCHANGED <<search_layer, leaf_layer, job_queue>>

SplitUnlock(w) ==
  /\ pc[w] = "unlock"
  /\ meta' = [meta EXCEPT ![loc[w].lp].lock = FALSE]
  /\ loc' = [loc EXCEPT ![w] = NoLocal]
  /\ Goto(w, "pop")
  /\ UNCHANGED <<search_layer, tail, version, nleaf, job_queue>>

-----------------------------------------------------------------------------
ClientStep(t) ==
  \/ SearchLnode(t) \/ ReadCh(t) \/ FindLeaf(t) \/ Return(t)
  \/ CopyMeta(t) \/ FillSlot(t) \/ PushJob(t) \/ InsertLeft(t)

WorkerStep(w) ==
  \/ PopJob(w) \/ SplitLock(w) \/ SplitCopy(w) \/ FindInode(w)
  \/ SplitUnlock(w)

SplitStep(t) ==
  \/ SplitBuild(t) \/ SplitPublish(t) \/ ReadLevel(t) \/ InsertInode(t)
  \/ SplitInode(t) \/ GrowRoot(t) \/ GrowSecondStore(t)
  \/ UnlockOldRoot(t) \/ UnlockNewRoot(t)

Next ==
  \/ \E t \in Foreground : Call(t) \/ ClientStep(t)
  \/ \E w \in Worker : WorkerStep(w)
  \/ \E t \in Thread : SplitStep(t)

Spec == Init /\ [][Next]_vars

\* Every thread that can move is eventually scheduled; nothing obliges a
\* client to call again.
Fairness ==
  /\ \A t \in Foreground : WF_vars(ClientStep(t) \/ SplitStep(t))
  /\ \A w \in Worker : WF_vars(WorkerStep(w) \/ SplitStep(w))

FairSpec == Spec /\ Fairness

-----------------------------------------------------------------------------
(* Types.                                                                  *)

ChildId(i) == IF i = 0 THEN LnodeId ELSE InodeNum

ForegroundLabel ==
  {"idle", "find", "search", "reading", "found", "other", "missing", "copy",
   "fill", "flush", "build", "publish", "addleft", "level", "inode", "grow",
   "growroot", "growlevel", "unlockold", "unlocknew", "ret"}
WorkerLabel ==
  {"pop", "lock", "copy", "build", "publish", "locate", "level", "inode",
   "grow", "growroot", "growlevel", "unlockold", "unlocknew", "unlock"}

SearchTypeOK ==
  /\ tree_root \in Inode
  /\ root_level \in Level
  /\ DOMAIN ent = Inode
  /\ \A n \in Inode :
       /\ ent[n] \in [k : Seq(Key), ch : Seq(ChildId(n[1]))]
       /\ Len(ent[n].ch) = Len(ent[n].k) + 1
       /\ Len(ent[n].k) <= NON_LEAF_KEY_NUM
  /\ ilock \in [Inode -> BOOLEAN]
  /\ ninode \in [Level -> 0..MaxInode]

LeafTypeOK ==
  /\ meta \in [LnodeId -> LnodeMeta]
  /\ tail \in [LnodeId -> [{0, 1} -> LnodeId \cup {Null}]]
  /\ version \in [LnodeId -> Version]
  /\ nleaf \in 1..MaxLeaf
  /\ job_queue \subseteq LnodeId \X Version

\* The pointer a thread carries is one of the level it carries it to.
PtrTypeOK(t) ==
  /\ pc[t] \in {"publish", "locate", "addleft", "level"}
       => loc[t].ptr \in LnodeId
  /\ pc[t] = "inode" => /\ loc[t].lev \in Level
                        /\ loc[t].ptr \in ChildId(loc[t].lev)
  /\ pc[t] = "grow" => loc[t].lev > 0 /\ loc[t].ptr \in InodeNum
  /\ pc[t] \in {"growroot", "growlevel", "unlockold", "unlocknew"}
       => loc[t].lev \in Level \ {0} /\ loc[t].ptr \in InodeNum

ThreadTypeOK ==
  /\ pc \in [Thread -> ForegroundLabel \cup WorkerLabel]
  /\ \A t \in Foreground : pc[t] \in ForegroundLabel
  /\ \A w \in Worker : pc[w] \in WorkerLabel
  /\ loc \in [Thread -> Local]
  /\ \A t \in Thread : PtrTypeOK(t)

\* Type invariant: every pointer of the structure and of a thread's locals
\* refers to a node of the level it is used at.
TypeOK == SearchTypeOK /\ LeafTypeOK /\ ThreadTypeOK
=============================================================================
