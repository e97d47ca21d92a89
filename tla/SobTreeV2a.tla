---------------------------- MODULE SobTreeV2a ----------------------------
(***************************************************************************)
(* sobtree_v2a.h with BACKGROUND defined: the index of sobtree_v2.h, with  *)
(* another way to hand a full leaf to a worker.  A job carries, besides    *)
(* the version, the first word of the leaf's meta as the filler stored it, *)
(* and split takes the lock by compare-and-swap on that word instead of in *)
(* a transaction.  The steps the two files share are those of SobTree,     *)
(* bounds included; the jobs and the start of split are this module's, and *)
(* SobTree's job_queue stays empty.                                        *)
(*                                                                         *)
(* The first word holds bitmap, lock, alt and six of the fingerprints.     *)
(* Fingerprints are hashes: two full leaves with different keys may or may *)
(* not have the same first word.                                           *)
(***************************************************************************)
EXTENDS SobTreeProps

VARIABLES
  jobs,       \* jobinfo pushed and not popped: <<leaf, version, old_meta>>
  old_word    \* old_word[w]: the word worker w's split was called with

handoff == <<jobs, old_word>>
varsV2a == <<vars, jobs, old_word>>

InitV2a ==
  /\ Init
  /\ jobs = {}
  /\ old_word = [w \in Worker |-> NoMeta]

-----------------------------------------------------------------------------
(* What the clients do.                                                    *)

CallV2a(t)        == Call(t) /\ UNCHANGED handoff
ReturnV2a(t)      == Return(t) /\ UNCHANGED handoff
SearchLnodeV2a(t) == SearchLnode(t) /\ UNCHANGED handoff
ReadChV2a(t)      == ReadCh(t) /\ UNCHANGED handoff
InsertPart1(t)    == FindLeaf(t) /\ UNCHANGED handoff
InsertTempMeta(t) == CopyMeta(t) /\ UNCHANGED handoff
InsertFill(t)     == FillSlot(t) /\ UNCHANGED handoff

\* The job holds the word just stored: a full bitmap and the lock bit clear.
JobV2a(t) ==
  IF FilledLeaf(t) THEN {<<loc[t].lp, loc[t].version, loc[t].meta>>} ELSE {}

PushJobV2a(t) ==
  /\ pc[t] = "flush"
  /\ jobs' = jobs \cup JobV2a(t)
  /\ Goto(t, "ret")
  /\ UNCHANGED <<search_layer, leaf_layer, job_queue, loc, old_word>>

\* A client that finds the leaf full splits it.
InsertSplit(t) ==
  /\ t \in Foreground
  /\ SplitBuild(t) \/ SplitPublish(t) \/ InsertLeft(t)
  /\ UNCHANGED handoff

\* The walk up the search layer: the same loop in insert_lnode and in
\* insert_inode.
WalkUp(t) ==
  \/ ReadLevel(t) \/ InsertInode(t) \/ SplitInode(t) \/ GrowRoot(t)
  \/ GrowSecondStore(t) \/ UnlockOldRoot(t) \/ UnlockNewRoot(t)

InsertPart3(t) == t \in Foreground /\ WalkUp(t) /\ UNCHANGED handoff

-----------------------------------------------------------------------------
(* What the workers do.                                                    *)

PopJobV2a(w) ==
  /\ pc[w] = "pop"
  /\ \E job \in jobs :
       /\ jobs' = jobs \ {job}
       /\ loc' = [loc EXCEPT ![w].lp = job[1], ![w].version = job[2]]
       /\ old_word' = [old_word EXCEPT ![w] = job[3]]
  /\ Goto(w, "lock")
  /\ UNCHANGED <<search_layer, leaf_layer, job_queue>>

\* Mutant: the compare ignores the bitmap.
MayMatchAlt(w) ==
  LET m == meta[loc[w].lp] IN ~m.lock /\ m.alt = old_word[w].alt

\* The first word of the leaf may equal old_word: the bits do, whatever the
\* fingerprints.
MayMatch(w) ==
  LET m == meta[loc[w].lp] IN
  ~m.lock /\ isFull(loc[w].lp) /\ m.alt = old_word[w].alt

\* With the keys of the job still in the leaf the words are equal.
MustMatch(w) ==
  MayMatch(w) /\ meta[loc[w].lp].bitmap = old_word[w].bitmap

\* split begins with the compare-and-swap; when it fails the job is dropped.
CasLock(w) ==
  /\ pc[w] = "lock"
  /\ \/ /\ MayMatch(w)
        /\ meta' = [meta EXCEPT ![loc[w].lp].lock = TRUE]
        /\ Goto(w, "check")
        /\ UNCHANGED loc
     \/ /\ ~MustMatch(w)
        /\ loc' = [loc EXCEPT ![w] = NoLocal]
        /\ Goto(w, "pop")
        /\ UNCHANGED meta
  /\ UNCHANGED <<search_layer, tail, version, nleaf, job_queue, handoff>>

\* Mutant: the leaf of a stale job is left locked.
DropLocked(l) == UNCHANGED meta

DropLeaf(l) == meta' = [meta EXCEPT ![l].lock = FALSE]

\* The version is compared under the lock; a stale job gives the leaf back.
CheckVersion(w) ==
  LET l == loc[w].lp IN
  /\ pc[w] = "check"
  /\ IF version[l] # loc[w].version
       THEN /\ DropLeaf(l)
            /\ loc' = [loc EXCEPT ![w] = NoLocal]
            /\ Goto(w, "pop")
       ELSE /\ Goto(w, "copy")
            /\ UNCHANGED <<meta, loc>>
  /\ UNCHANGED <<search_layer, tail, version, nleaf, job_queue, handoff>>

SplitLeaf(w) ==
  /\ w \in Worker
  /\ SplitCopy(w) \/ SplitBuild(w) \/ SplitPublish(w)
  /\ UNCHANGED handoff

InsertInodePart1(w) == FindInode(w) /\ UNCHANGED handoff
InsertInodePart3(w) == w \in Worker /\ WalkUp(w) /\ UNCHANGED handoff
SplitUnlockV2a(w)   == SplitUnlock(w) /\ UNCHANGED handoff

-----------------------------------------------------------------------------
ClientV2a(t) ==
  \/ SearchLnodeV2a(t) \/ ReadChV2a(t) \/ ReturnV2a(t)
  \/ InsertPart1(t) \/ InsertTempMeta(t) \/ InsertFill(t)
  \/ PushJobV2a(t) \/ InsertSplit(t) \/ InsertPart3(t)

WorkerV2a(w) ==
  \/ PopJobV2a(w) \/ CasLock(w) \/ CheckVersion(w) \/ SplitLeaf(w)
  \/ InsertInodePart1(w) \/ InsertInodePart3(w) \/ SplitUnlockV2a(w)

NextV2a ==
  \/ \E t \in Foreground : CallV2a(t) \/ ClientV2a(t)
  \/ \E w \in Worker : WorkerV2a(w)

SpecV2a == InitV2a /\ [][NextV2a]_varsV2a

\* The threads are scheduled fairly; nothing obliges a client to call again.
FairnessV2a ==
  /\ \A t \in Foreground : WF_varsV2a(ClientV2a(t))
  /\ \A w \in Worker : WF_varsV2a(WorkerV2a(w))

FairSpecV2a == SpecV2a /\ FairnessV2a

-----------------------------------------------------------------------------
(* LeafLockOwner, SplitsFullLeaf, Linearizable and CallsReturn of          *)
(* SobTreeProps are checked of this version as they are.                   *)
=============================================================================
