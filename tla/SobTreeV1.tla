----------------------------- MODULE SobTreeV1 -----------------------------
(***************************************************************************)
(* sobtree_v1.h with BACKGROUND defined: the first version of the index.   *)
(* Its leaves have no split version and its clients never split: a         *)
(* transaction that reaches a full leaf aborts until a worker has split    *)
(* the leaf.  split has no transaction, its lock is a plain store: it      *)
(* relies on there being one job per full leaf and nobody else on it.  The *)
(* steps the files share are those of SobTree, bounds included.            *)
(***************************************************************************)
EXTENDS SobTreeProps

\* With one version there are no versions.
ASSUME NoVersions == VersionMod = 1

InitV1 == Init

-----------------------------------------------------------------------------
(* What the clients do.                                                    *)

CallV1(t)        == Call(t)
ReturnV1(t)      == Return(t)
SearchLnodeV1(t) == SearchLnode(t)
ReadChV1(t)      == ReadCh(t)

\* A full leaf aborts the transaction of an insert, even of a key it holds.
RoomInLeaf(t) ==
  \A p \in Descents(loc[t].key) : ~isFull(LeafFor(p, loc[t].key))

InsertPart1V1(t) == RoomInLeaf(t) /\ FindLeaf(t)

\* The leaf is not full: only its slot is filled.
InsertPart2V1(t) == CopyMeta(t) \/ FillSlot(t)

\* Mutant: a job for every insert.
AnyInsert(t) == TRUE

\* bitmap == 0x3fff, of the bitmap just stored.
FullNow(t) == Cardinality(loc[t].meta.bitmap) = LEAF_KEY_NUM

\* The job is the leaf alone.
PushJobV1(t) ==
  /\ pc[t] = "flush"
  /\ job_queue' = job_queue \cup (IF FullNow(t)
                                THEN {<<loc[t].lp, 0>>} ELSE {})
  /\ Goto(t, "ret")
  /\ UNCHANGED <<search_layer, leaf_layer, loc>>

-----------------------------------------------------------------------------
(* What the workers do.                                                    *)

PopJobV1(w) == PopJob(w)

\* The lock is a store, whatever the bit was.
SplitLockV1(w) ==
  /\ pc[w] = "lock"
  /\ meta' = [meta EXCEPT ![loc[w].lp].lock = TRUE]
  /\ Goto(w, "copy")
  /\ UNCHANGED <<search_layer, tail, version, nleaf, job_queue, loc>>

SplitLeafV1(w) ==
  w \in Worker /\ (SplitCopy(w) \/ SplitBuild(w) \/ SplitPublish(w))

InsertInodePart1V1(w) == FindInode(w)
InsertInodePart3V1(w) ==
  \/ ReadLevel(w) \/ InsertInode(w) \/ SplitInode(w) \/ GrowRoot(w)
  \/ GrowSecondStore(w) \/ UnlockOldRoot(w) \/ UnlockNewRoot(w)

SplitUnlockV1(w) == SplitUnlock(w)

-----------------------------------------------------------------------------
ClientV1(t) ==
  \/ SearchLnodeV1(t) \/ ReadChV1(t) \/ ReturnV1(t)
  \/ InsertPart1V1(t) \/ InsertPart2V1(t) \/ PushJobV1(t)

WorkerV1(w) ==
  \/ PopJobV1(w) \/ SplitLockV1(w) \/ SplitLeafV1(w) \/ InsertInodePart1V1(w)
  \/ InsertInodePart3V1(w) \/ SplitUnlockV1(w)

NextV1 ==
  \/ \E t \in Foreground : CallV1(t) \/ ClientV1(t)
  \/ \E w \in Worker : WorkerV1(w)

SpecV1 == InitV1 /\ [][NextV1]_vars

\* The threads are scheduled fairly; nothing obliges a client to call again.
FairSpecV1 ==
  /\ SpecV1
  /\ \A t \in Foreground : WF_vars(ClientV1(t))
  /\ \A w \in Worker : WF_vars(WorkerV1(w))

-----------------------------------------------------------------------------
(* Linearizable and CallsReturn of SobTreeProps are checked of this        *)
(* version as they are.                                                    *)

\* When a worker is about to store the lock bit, the leaf is its own already:
\* it is full and unlocked, no other worker has or will get a job for it.
\* This is what makes the plain store of split a lock.
PlainStoreSafe ==
  \A w \in Worker : pc[w] = "lock" =>
    /\ isFull(loc[w].lp) /\ ~meta[loc[w].lp].lock
    /\ <<loc[w].lp, 0>> \notin job_queue
    /\ \A t \in Thread \ {w} : loc[t].lp = loc[w].lp =>
         ~HoldsLeaf(t) /\ pc[t] # "lock" /\ ~(pc[t] = "flush" /\ FullNow(t))
=============================================================================
