-------------------------- MODULE SobTreeV2aProofs --------------------------
(***************************************************************************)
(* What sobtree_v2a.h promises, proved of SobTreeV2a.  The proofs about    *)
(* SobTree, whose invariant knows of a worker's free choice of a leaf      *)
(* (SobTreeHandoff), are used as they are, through a refinement mapping:   *)
(* to the index, a job is nothing, a worker that waits for its compare-    *)
(* and-swap has not begun, and one that has the lock and is about to look  *)
(* at the version has already decided.                                     *)
(***************************************************************************)
EXTENDS SobTreeV2a, TLAPS

-----------------------------------------------------------------------------
(* The mapping.                                                            *)

\* A worker whose compare-and-swap is to come is at rest, and a client that
\* has its job to push is done.
pcBar ==
  [t \in Thread |->
     IF pc[t] = "lock" THEN "pop"
     ELSE IF pc[t] = "flush" THEN "ret"
     ELSE IF pc[t] # "check" THEN pc[t]
     ELSE IF version[loc[t].lp] = loc[t].version THEN "copy" ELSE "unlock"]

locBar == [t \in Thread |-> IF pc[t] \in {"pop", "lock"} THEN NoLocal ELSE loc[t]]

A == INSTANCE SobTreeLinear WITH pc <- pcBar, loc <- locBar

-----------------------------------------------------------------------------
(* What the mapping leaves alone: the operators of the tree.               *)

LEMMA SameSize ==
  ASSUME NEW S
  PROVE  /\ A!Cardinality(S) = Cardinality(S)
         /\ A!IsFiniteSet(S) = IsFiniteSet(S)
BY DEF A!Cardinality, Cardinality, A!IsFiniteSet, IsFiniteSet

LEMMA SameNames ==
  /\ A!Thread = Thread /\ A!LnodeId = LnodeId /\ A!InodeNum = InodeNum
  /\ A!Level = Level /\ A!Inode = Inode /\ A!Version = Version
  /\ A!Local = Local /\ A!NoLocal = NoLocal /\ A!NoMeta = NoMeta
  /\ A!LnodeMeta = LnodeMeta /\ A!SPLIT = SPLIT /\ A!Null = Null
  /\ A!ForegroundLabel = ForegroundLabel /\ A!WorkerLabel = WorkerLabel
BY DEF A!Thread, Thread, A!LnodeId, LnodeId, A!InodeNum, InodeNum, A!Level,
       Level, A!Inode, Inode, A!Version, Version, A!Local, Local, A!NoLocal,
       NoLocal, A!NoMeta, NoMeta, A!LnodeMeta, LnodeMeta, A!SPLIT, SPLIT,
       A!Null, Null, A!NoPath, NoPath, A!SomeKey, SomeKey, A!Path, Path,
       A!ForegroundLabel, ForegroundLabel, A!WorkerLabel, WorkerLabel

LEMMA SameSearch ==
  ASSUME NEW key
  PROVE  /\ \A n : A!num(n) = num(n) /\ A!ChildPos(n, key) = ChildPos(n, key)
                   /\ A!Child(n, key) = Child(n, key)
         /\ A!Descents(key) = Descents(key)
         /\ \A p : /\ A!LeafFor(p, key) = LeafFor(p, key)
                   /\ A!PathTaken(p, key) = PathTaken(p, key)
         /\ \A path : A!LockInodes(path) <=> LockInodes(path)
BY DEF A!num, num, A!ChildPos, ChildPos, A!Child, Child, A!Descents, Descents,
       A!IsDescent, IsDescent, A!LeafFor, LeafFor, A!PathTaken, PathTaken,
       A!LockInodes, LockInodes, A!Locked, Locked, A!Inode, Inode, A!Level, Level,
       A!InodeNum, InodeNum, A!Cardinality, Cardinality

LEMMA SameLeaves ==
  /\ \A l : A!isFull(l) <=> isFull(l)
  /\ \A sk, S : A!IsSplitKey(sk, S) <=> IsSplitKey(sk, S)
  /\ \A v : A!NextVersion(v) = NextVersion(v)
  /\ \A l, a, n : A!LinkNew(l, a, n) = LinkNew(l, a, n)
BY DEF A!isFull, isFull, A!IsSplitKey, IsSplitKey, A!NextVersion, NextVersion,
       A!LinkNew, LinkNew, A!SPLIT, SPLIT, A!Cardinality, Cardinality

-----------------------------------------------------------------------------
(* What SobTreeV2a adds to the invariant of SobTree.                       *)

\* Control points and locals have their types, and a job names a leaf that
\* is allocated.
HandoffOK ==
  /\ pc \in [Thread -> ForegroundLabel \cup WorkerLabel \cup {"check"}]
  /\ \A t \in Foreground : pc[t] \in ForegroundLabel
  /\ \A w \in Worker : pc[w] \in WorkerLabel \cup {"check"}
  /\ loc \in [Thread -> Local]
  /\ \A t \in Thread : pc[t] \in {"flush", "lock"} => loc[t].lp < nleaf
  /\ \A job \in jobs : job[1] \in LnodeId /\ job[1] < nleaf /\ job[2] \in Version
  /\ job_queue = {}

V2aInv == HandoffOK /\ A!IndInv /\ A!Rooted /\ A!OrderInv /\ A!RoomInv

LEMMA Locals ==
  ASSUME HandoffOK, NEW t \in Thread
  PROVE  /\ loc[t] \in Local /\ loc[t].lp \in LnodeId /\ loc[t].lp \in Nat
         /\ loc[t].version \in Version
         /\ t \in Foreground => t \notin Worker
         /\ t \in Foreground => pc[t] \notin {"pop", "lock", "check"}
         /\ t \notin Foreground => t \in Worker
         /\ t \in Worker => pc[t] # "flush"
<1>1. Foreground \cap Worker = {} /\ MaxLeaf \in Nat
  BY ConstantsOK DEF ConstantsOK
<1>2. loc[t] \in Local
  BY DEF HandoffOK
<1>3. loc[t].lp \in LnodeId /\ loc[t].version \in Version
  BY <1>2 DEF Local
<1>4. loc[t].lp \in Nat
  BY <1>1, <1>3 DEF LnodeId
<1>5. t \in Foreground => pc[t] \notin {"pop", "lock", "check"}
  BY DEF HandoffOK, ForegroundLabel
<1>6. t \in Worker => pc[t] # "flush"
  BY DEF HandoffOK, WorkerLabel
<1> QED
  BY <1>1, <1>2, <1>3, <1>4, <1>5, <1>6 DEF Thread

\* Between its steps a thread of SobTree is as SobTreeV2a has it.
Between == {"pop", "lock", "flush", "check"}

LEMMA BarIs ==
  ASSUME NEW t \in Thread
  PROVE  /\ pc[t] \notin Between => pcBar[t] = pc[t] /\ locBar[t] = loc[t]
         /\ pc[t] \in {"flush", "check"} => locBar[t] = loc[t]
         /\ pc[t] \in {"pop", "lock"} => pcBar[t] = "pop" /\ locBar[t] = NoLocal
         /\ pc[t] = "flush" => pcBar[t] = "ret"
         /\ pc[t] = "check" => pcBar[t] \in {"copy", "unlock"}
         /\ pcBar[t] \notin {"lock", "flush", "check"}
BY DEF pcBar, locBar, Between

LEMMA BarIsNext ==
  ASSUME NEW t \in Thread
  PROVE  /\ pc'[t] \notin Between => pcBar'[t] = pc'[t] /\ locBar'[t] = loc'[t]
         /\ pc'[t] = "pop" => pcBar'[t] = "pop" /\ locBar'[t] = NoLocal
BY DEF pcBar, locBar, Between

\* A function changed at one place.
LEMMA OneChange ==
  ASSUME NEW S, NEW f, NEW g, f = [x \in S |-> f[x]], g = [x \in S |-> g[x]],
         NEW t \in S, NEW v, g[t] = v, \A u \in S \ {t} : g[u] = f[u]
  PROVE  g = [f EXCEPT ![t] = v]
OBVIOUS

\* t moves to a control point that is not between two steps of SobTree.
Moves(t) ==
  /\ pc[t] \notin Between
  /\ pc'[t] \notin {"lock", "flush", "check"}
  /\ pc'[t] = "pop" => loc'[t] = NoLocal
  /\ \A u \in Thread \ {t} : pc'[u] = pc[u] /\ loc'[u] = loc[u]

\* Nothing t does changes what a worker finds when it looks at the version.
VersionsHold(t) ==
  \A u \in Thread \ {t} :
    pc[u] = "check" => version'[loc[u].lp] = version[loc[u].lp]

\* The mapped t moves as t does.
BarMoves(t) ==
  /\ pcBar[t] = pc[t] /\ locBar[t] = loc[t]
  /\ pcBar'[t] = pc'[t] /\ locBar'[t] = loc'[t]
  /\ \A u \in Thread \ {t} : pcBar'[u] = pcBar[u] /\ locBar'[u] = locBar[u]

LEMMA BarsStay ==
  ASSUME NEW u \in Thread, pc'[u] = pc[u], loc'[u] = loc[u],
         pc[u] = "check" => version'[loc[u].lp] = version[loc[u].lp]
  PROVE  pcBar'[u] = pcBar[u] /\ locBar'[u] = locBar[u]
<1>1. CASE pc[u] = "check"
  BY <1>1 DEF pcBar, locBar
<1>2. CASE pc[u] # "check"
  BY <1>2 DEF pcBar, locBar
<1> QED
  BY <1>1, <1>2

LEMMA BarsMove ==
  ASSUME NEW t \in Thread, Moves(t), VersionsHold(t)
  PROVE  BarMoves(t)
<1>1. pcBar[t] = pc[t] /\ locBar[t] = loc[t]
  BY BarIs DEF Moves
<1>2. pcBar'[t] = pc'[t] /\ locBar'[t] = loc'[t]
  BY BarIsNext DEF Moves, Between
<1>3. \A u \in Thread \ {t} : pcBar'[u] = pcBar[u] /\ locBar'[u] = locBar[u]
  BY BarsStay DEF Moves, VersionsHold
<1> QED
  BY <1>1, <1>2, <1>3 DEF BarMoves

\* So it sets the control point and the locals that t sets.
LEMMA BarsSet ==
  ASSUME NEW t \in Thread, BarMoves(t)
  PROVE  /\ \A label : pc'[t] = label => A!Goto(t, label)
         /\ \A r : loc'[t] = r => locBar' = [locBar EXCEPT ![t] = r]
         /\ loc'[t] = loc[t] => locBar' = locBar
<1>1. /\ pcBar = [u \in Thread |-> pcBar[u]] /\ locBar = [u \in Thread |-> locBar[u]]
      /\ pcBar' = [u \in Thread |-> pcBar'[u]]
      /\ locBar' = [u \in Thread |-> locBar'[u]]
  BY DEF pcBar, locBar
<1>2. \A label : pc'[t] = label => pcBar' = [pcBar EXCEPT ![t] = label]
  BY <1>1, OneChange DEF BarMoves
<1>3. \A r : loc'[t] = r => locBar' = [locBar EXCEPT ![t] = r]
  BY <1>1, OneChange DEF BarMoves
<1>4. loc'[t] = loc[t] => locBar' = locBar
  BY <1>1 DEF BarMoves
<1> QED
  BY <1>2, <1>3, <1>4 DEF A!Goto

-----------------------------------------------------------------------------
(* The steps that are SobTree's.                                           *)

ClientShared(t) ==
  \/ Call(t) \/ SearchLnode(t) \/ ReadCh(t) \/ FindLeaf(t) \/ Return(t)
  \/ CopyMeta(t) \/ InsertLeft(t)

WorkerShared(t) == SplitCopy(t) \/ FindInode(t) \/ SplitUnlock(t)

Shared(t) ==
  \/ t \in Foreground /\ ClientShared(t)
  \/ t \in Worker /\ WorkerShared(t)
  \/ SplitStep(t)

LEMMA SharedMoves ==
  ASSUME HandoffOK, NEW t \in Thread, Shared(t)
  PROVE  /\ Moves(t) /\ UNCHANGED job_queue
         /\ UNCHANGED version \/ SplitBuild(t)
<1>1. /\ pc \in [Thread -> ForegroundLabel \cup WorkerLabel \cup {"check"}]
      /\ loc \in [Thread -> Local]
  BY DEF HandoffOK
<1>2. CASE t \in Foreground
           /\ (Call(t) \/ SearchLnode(t) \/ ReadCh(t) \/ Return(t))
  <2>1. pc'[t] \in {"find", "search", "reading", "found", "other", "missing",
                    "idle"}
    BY <1>1, <1>2 DEF Call, SearchLnode, SearchResult, ReadCh, Return, Goto
  <2>2. pc[t] \in {"idle", "search", "reading", "ret", "found", "other", "missing"}
        /\ UNCHANGED <<version, job_queue>>
    BY <1>2 DEF Call, SearchLnode, ReadCh, Return, leaf_layer
  <2>3. \A u \in Thread \ {t} : pc'[u] = pc[u] /\ loc'[u] = loc[u]
    <3>1. CASE SearchLnode(t)
      <4>1. PICK label : pc' = [pc EXCEPT ![t] = label]
        BY <3>1 DEF SearchLnode, Goto
      <4>2. \/ loc' = loc
            \/ \E l, m, n : loc' = [loc EXCEPT ![t].lp = l, ![t].meta = m,
                                               ![t].ptr = n]
        BY <3>1 DEF SearchLnode
      <4> QED
        BY <1>1, <4>1, <4>2
    <3>2. CASE Call(t) \/ ReadCh(t) \/ Return(t)
      BY <1>1, <3>2 DEF Call, ReadCh, Return, Goto
    <3> QED
      BY <1>2, <3>1, <3>2
  <2> QED
    BY <2>1, <2>2, <2>3 DEF Moves, Between
<1>3. CASE t \in Foreground /\ FindLeaf(t)
  <2>1. PICK label \in {"ret", "copy"} : pc' = [pc EXCEPT ![t] = label]
    BY <1>3 DEF FindLeaf, Goto
  <2>2. \/ loc' = loc
        \/ \E l, path : loc' = [loc EXCEPT ![t].lp = l, ![t].path = path]
    BY <1>3 DEF FindLeaf
  <2>3. \A u \in Thread \ {t} : pc'[u] = pc[u] /\ loc'[u] = loc[u]
    BY <1>1, <2>1, <2>2
  <2>4. pc'[t] \in {"ret", "copy"}
    BY <1>1, <2>1
  <2>5. pc[t] = "find" /\ UNCHANGED <<version, job_queue>>
    BY <1>3 DEF FindLeaf
  <2> QED
    BY <2>3, <2>4, <2>5 DEF Moves, Between
<1>4. CASE t \in Foreground /\ (CopyMeta(t) \/ InsertLeft(t))
  <2>1. pc'[t] \in {"build", "fill", "level"}
    BY <1>1, <1>4 DEF CopyMeta, InsertLeft, Goto
  <2>2. pc[t] \in {"copy", "addleft"} /\ UNCHANGED <<version, job_queue>>
    BY <1>4 DEF CopyMeta, InsertLeft, leaf_layer
  <2>3. \A u \in Thread \ {t} : pc'[u] = pc[u] /\ loc'[u] = loc[u]
    BY <1>1, <1>4 DEF CopyMeta, InsertLeft, Goto
  <2> QED
    BY <2>1, <2>2, <2>3 DEF Moves, Between
<1>5. CASE t \in Worker /\ WorkerShared(t)
  <2>1. /\ pc'[t] \in {"build", "level", "pop"}
        /\ pc'[t] = "pop" => loc'[t] = NoLocal
    BY <1>1, <1>5 DEF WorkerShared, SplitCopy, FindInode, SplitUnlock, Goto
  <2>2. pc[t] \in {"copy", "locate", "unlock"} /\ UNCHANGED <<version, job_queue>>
    BY <1>5 DEF WorkerShared, SplitCopy, FindInode, SplitUnlock, leaf_layer
  <2>3. \A u \in Thread \ {t} : pc'[u] = pc[u] /\ loc'[u] = loc[u]
    BY <1>1, <1>5 DEF WorkerShared, SplitCopy, FindInode, SplitUnlock, Goto
  <2> QED
    BY <2>1, <2>2, <2>3 DEF Moves, Between
<1>6. CASE SplitBuild(t) \/ SplitPublish(t) \/ ReadLevel(t) \/ InsertInode(t)
  <2>1. pc'[t] \in {"publish", "locate", "addleft", "level", "inode", "ret",
                    "unlock"}
    BY <1>1, <1>6
    DEF SplitBuild, SplitPublish, ReadLevel, InsertInode, Goto, Done
  <2>2. /\ pc[t] \in {"build", "publish", "level", "inode"}
        /\ UNCHANGED job_queue /\ (UNCHANGED version \/ SplitBuild(t))
    BY <1>6 DEF SplitBuild, SplitPublish, ReadLevel, InsertInode, leaf_layer
  <2>3. \A u \in Thread \ {t} : pc'[u] = pc[u] /\ loc'[u] = loc[u]
    BY <1>1, <1>6 DEF SplitBuild, SplitPublish, ReadLevel, InsertInode, Goto
  <2> QED
    BY <2>1, <2>2, <2>3 DEF Moves, Between
<1>7. CASE \/ SplitInode(t) \/ GrowRoot(t) \/ GrowSecondStore(t)
           \/ UnlockOldRoot(t) \/ UnlockNewRoot(t)
  <2>1. pc'[t] \in {"inode", "grow", "growroot", "growlevel", "unlockold",
                    "unlocknew", "ret", "unlock"}
    BY <1>1, <1>7
    DEF SplitInode, GrowRoot, GrowSecondStore, UnlockOldRoot, UnlockNewRoot,
        Goto, Done
  <2>2. /\ pc[t] \in {"inode", "grow", "growroot", "growlevel", "unlockold",
                      "unlocknew"}
        /\ UNCHANGED <<version, job_queue>>
    BY <1>7
    DEF SplitInode, GrowRoot, GrowSecondStore, UnlockOldRoot, UnlockNewRoot,
        leaf_layer
  <2>3. \A u \in Thread \ {t} : pc'[u] = pc[u] /\ loc'[u] = loc[u]
    BY <1>1, <1>7
    DEF SplitInode, GrowRoot, GrowSecondStore, UnlockOldRoot, UnlockNewRoot, Goto
  <2> QED
    BY <2>1, <2>2, <2>3 DEF Moves, Between
<1> QED
  BY <1>2, <1>3, <1>4, <1>5, <1>6, <1>7
  DEF Shared, ClientShared, SplitStep

LEMMA ClientBar ==
  ASSUME HandoffOK, NEW t \in Foreground, ClientShared(t), BarMoves(t)
  PROVE  \/ A!Call(t) \/ A!SearchLnode(t) \/ A!ReadCh(t) \/ A!FindLeaf(t)
         \/ A!Return(t) \/ A!CopyMeta(t) \/ A!InsertLeft(t)
<1>1. /\ pc \in [Thread -> ForegroundLabel \cup WorkerLabel \cup {"check"}]
      /\ loc \in [Thread -> Local] /\ t \in Thread
      /\ pcBar[t] = pc[t] /\ locBar[t] = loc[t] /\ t \notin Worker
  BY Locals DEF HandoffOK, BarMoves, Thread
<1>2. /\ \A label : Goto(t, label) => A!Goto(t, label)
      /\ \A r : loc'[t] = r => locBar' = [locBar EXCEPT ![t] = r]
      /\ loc'[t] = loc[t] => locBar' = locBar
  BY <1>1, BarsSet DEF Goto
<1>3. CASE Call(t)
  <2>1. PICK c \in Work[t], label \in {"find", "search"} :
          loc' = [loc EXCEPT ![t].key = c] /\ Goto(t, label)
    BY <1>3 DEF Call
  <2>2. loc'[t] = [loc[t] EXCEPT !.key = c]
    BY <1>1, <2>1
  <2>3. locBar' = [locBar EXCEPT ![t].key = c] /\ A!Goto(t, label)
    BY <1>1, <1>2, <2>1, <2>2
  <2>4. /\ pcBar[t] = "idle"
        /\ UNCHANGED <<A!search_layer, A!leaf_layer, job_queue>>
    BY <1>1, <1>3
    DEF Call, search_layer, leaf_layer, A!search_layer, A!leaf_layer
  <2> QED
    BY <2>3, <2>4 DEF A!Call
<1>4. CASE SearchLnode(t)
  <2>1. PICK k : k = loc[t].key
    OBVIOUS
  <2>2. PICK p \in Descents(k) :
          /\ ~meta[LeafFor(p, k)].lock
          /\ Goto(t, SearchResult(k, LeafFor(p, k)))
          /\ IF k \in meta[LeafFor(p, k)].bitmap
               THEN loc' = [loc EXCEPT ![t].lp = LeafFor(p, k),
                                       ![t].meta = meta[LeafFor(p, k)],
                                       ![t].ptr = nleaf]
               ELSE UNCHANGED loc
    BY <1>4, <2>1, Zenon DEF SearchLnode
  <2>3. PICK l : l = LeafFor(p, k)
    OBVIOUS
  <2>4. /\ p \in A!Descents(k) /\ l = A!LeafFor(p, k)
        /\ SearchResult(k, l) = A!SearchResult(k, l)
    BY <2>2, <2>3, SameSearch DEF SearchResult, A!SearchResult
  <2>5. A!Goto(t, A!SearchResult(k, l)) /\ ~meta[l].lock
    BY <1>2, <2>2, <2>3, <2>4
  <2>6. /\ pcBar[t] = "search" /\ locBar[t].key = k
        /\ UNCHANGED <<A!search_layer, A!leaf_layer, job_queue>>
    BY <1>1, <1>4, <2>1
    DEF SearchLnode, search_layer, leaf_layer, A!search_layer, A!leaf_layer
  <2>7. IF k \in meta[l].bitmap
          THEN locBar' = [locBar EXCEPT ![t].lp = l, ![t].meta = meta[l],
                                        ![t].ptr = nleaf]
          ELSE UNCHANGED locBar
    <3>1. CASE k \in meta[l].bitmap
      <4>1. loc' = [loc EXCEPT ![t].lp = l, ![t].meta = meta[l], ![t].ptr = nleaf]
        BY <2>2, <2>3, <3>1
      <4>2. PICK m : m = meta[l]
        OBVIOUS
      <4>3. loc'[t] = [loc[t] EXCEPT !.lp = l, !.meta = m, !.ptr = nleaf]
        BY <1>1, <4>1, <4>2
      <4>4. locBar' = [locBar EXCEPT ![t].lp = l, ![t].meta = m, ![t].ptr = nleaf]
        BY <1>1, <1>2, <4>3
      <4> QED
        BY <3>1, <4>2, <4>4
    <3>2. CASE k \notin meta[l].bitmap
      <4>1. loc' = loc
        BY <2>2, <2>3, <3>2
      <4> QED
        BY <1>2, <3>2, <4>1
    <3> QED
      BY <3>1, <3>2
  <2> QED
    BY <2>4, <2>5, <2>6, <2>7 DEF A!SearchLnode
<1>9. CASE ReadCh(t)
  <2>1. PICK r : r = [NoLocal EXCEPT !.key = loc[t].key]
    OBVIOUS
  <2>2. /\ r = [A!NoLocal EXCEPT !.key = locBar[t].key]
        /\ A!SlotMayBeReused(t) <=> SlotMayBeReused(t)
    BY <1>1, <2>1, SameNames DEF SlotMayBeReused, A!SlotMayBeReused
  <2>3. /\ pcBar[t] = "reading" /\ loc'[t] = r
        /\ Goto(t, "found") \/ (SlotMayBeReused(t) /\ Goto(t, "other"))
    BY <1>1, <1>9, <2>1 DEF ReadCh
  <2>4. /\ locBar' = [locBar EXCEPT ![t] = r]
        /\ \/ A!Goto(t, "found")
           \/ A!SlotMayBeReused(t) /\ A!Goto(t, "other")
    BY <1>2, <2>2, <2>3
  <2>5. UNCHANGED <<A!search_layer, A!leaf_layer, job_queue>>
    BY <1>9 DEF ReadCh, search_layer, leaf_layer, A!search_layer, A!leaf_layer
  <2> QED
    BY <2>2, <2>3, <2>4, <2>5 DEF A!ReadCh
<1>5. CASE FindLeaf(t)
  <2>1. PICK k : k = loc[t].key
    OBVIOUS
  <2>2. PICK p \in Descents(k) :
          /\ ~meta[LeafFor(p, k)].lock
          /\ IF k \in meta[LeafFor(p, k)].bitmap
               THEN Goto(t, "ret") /\ UNCHANGED <<meta, ilock, loc>>
               ELSE /\ meta' = [meta EXCEPT ![LeafFor(p, k)].lock = TRUE]
                    /\ IF isFull(LeafFor(p, k))
                         THEN LockInodes(PathTaken(p, k)) ELSE UNCHANGED ilock
                    /\ loc' = [loc EXCEPT ![t].lp = LeafFor(p, k),
                                          ![t].path = PathTaken(p, k)]
                    /\ Goto(t, "copy")
    BY <1>5, <2>1 DEF FindLeaf
  <2>3. PICK l, path : l = LeafFor(p, k) /\ path = PathTaken(p, k)
    OBVIOUS
  <2>4. /\ p \in A!Descents(k) /\ l = A!LeafFor(p, k)
        /\ path = A!PathTaken(p, k)
        /\ A!isFull(l) <=> isFull(l)
        /\ A!LockInodes(path) <=> LockInodes(path)
    BY <2>2, <2>3, SameSearch, SameLeaves
  <2>5. /\ pcBar[t] = "find" /\ locBar[t].key = k
        /\ UNCHANGED <<tree_root, root_level, ent, ninode, tail, version, nleaf,
                       job_queue>>
    BY <1>1, <1>5, <2>1 DEF FindLeaf
  <2>6. ~meta[l].lock
    BY <2>2, <2>3
  <2>7. CASE k \in meta[l].bitmap
    <3>1. A!Goto(t, "ret") /\ UNCHANGED <<meta, ilock, locBar>>
      BY <1>2, <2>2, <2>3, <2>7
    <3> QED
      BY <2>4, <2>5, <2>6, <2>7, <3>1 DEF A!FindLeaf
  <2>8. CASE k \notin meta[l].bitmap
    <3>1. /\ meta' = [meta EXCEPT ![l].lock = TRUE]
          /\ IF isFull(l) THEN LockInodes(path) ELSE UNCHANGED ilock
          /\ loc' = [loc EXCEPT ![t].lp = l, ![t].path = path]
          /\ Goto(t, "copy")
      BY <2>2, <2>3, <2>8
    <3>2. loc'[t] = [loc[t] EXCEPT !.lp = l, !.path = path]
      BY <1>1, <3>1
    <3>3. /\ locBar' = [locBar EXCEPT ![t].lp = l, ![t].path = path]
          /\ A!Goto(t, "copy")
      BY <1>1, <1>2, <3>1, <3>2
    <3>4. IF A!isFull(l) THEN A!LockInodes(path) ELSE UNCHANGED ilock
      BY <2>4, <3>1
    <3> QED
      BY <2>4, <2>5, <2>6, <2>8, <3>1, <3>3, <3>4 DEF A!FindLeaf
  <2> QED
    BY <2>7, <2>8
<1>6. CASE Return(t)
  <2>1. /\ pc[t] \in {"ret", "found", "other", "missing"} /\ loc'[t] = NoLocal
        /\ Goto(t, "idle")
    BY <1>1, <1>6 DEF Return
  <2>2. locBar' = [locBar EXCEPT ![t] = A!NoLocal] /\ A!Goto(t, "idle")
    BY <1>2, <2>1, SameNames
  <2>3. UNCHANGED <<A!search_layer, A!leaf_layer, job_queue>>
    BY <1>6 DEF Return, search_layer, leaf_layer, A!search_layer, A!leaf_layer
  <2> QED
    BY <1>1, <2>1, <2>2, <2>3 DEF A!Return
<1>7. CASE CopyMeta(t)
  <2>1. PICK m, v, label : /\ m = TempMeta(t) /\ v = version[loc[t].lp]
                           /\ label = IF isFull(loc[t].lp) THEN "build" ELSE "fill"
    OBVIOUS
  <2>2. /\ loc'[t] = [loc[t] EXCEPT !.meta = m, !.version = v]
        /\ Goto(t, label) /\ pc[t] = "copy"
    BY <1>1, <1>7, <2>1 DEF CopyMeta
  <2>3. /\ m = A!TempMeta(t) /\ v = version[locBar[t].lp]
        /\ label = IF A!isFull(locBar[t].lp) THEN "build" ELSE "fill"
    BY <1>1, <2>1, SameLeaves DEF TempMeta, A!TempMeta
  <2>4. loc'[t] = [loc[t] EXCEPT !.meta = m, !.version = v]
    BY <2>2
  <2>5. locBar' = [locBar EXCEPT ![t].meta = m, ![t].version = v]
    BY <1>1, <1>2, <2>4
  <2>6. A!Goto(t, label)
    BY <1>2, <2>2
  <2>7. UNCHANGED <<A!search_layer, A!leaf_layer, job_queue>>
    BY <1>7 DEF CopyMeta, search_layer, leaf_layer, A!search_layer, A!leaf_layer
  <2> QED
    BY <1>1, <2>2, <2>3, <2>5, <2>6, <2>7 DEF A!CopyMeta
<1>8. CASE InsertLeft(t)
  <2>1. PICK m : m = [loc[t].meta EXCEPT !.bitmap = @ \cup {loc[t].key}]
    OBVIOUS
  <2>2. /\ loc'[t] = [loc[t] EXCEPT !.meta = m] /\ Goto(t, "level")
        /\ pc[t] = "addleft" /\ meta' = [meta EXCEPT ![loc[t].lp] = m]
    BY <1>1, <1>8, <2>1 DEF InsertLeft
  <2>3. locBar' = [locBar EXCEPT ![t].meta = m] /\ A!Goto(t, "level")
    BY <1>1, <1>2, <2>2
  <2>4. UNCHANGED <<A!search_layer, tail, version, nleaf, job_queue>>
    BY <1>8 DEF InsertLeft, search_layer, A!search_layer
  <2> QED
    BY <1>1, <2>1, <2>2, <2>3, <2>4 DEF A!InsertLeft
<1> QED
  BY <1>3, <1>4, <1>5, <1>6, <1>7, <1>8, <1>9 DEF ClientShared

LEMMA WorkerBar ==
  ASSUME HandoffOK, NEW t \in Worker, WorkerShared(t), BarMoves(t)
  PROVE  A!SplitCopy(t) \/ A!FindInode(t) \/ A!SplitUnlock(t)
<1>1. /\ pc \in [Thread -> ForegroundLabel \cup WorkerLabel \cup {"check"}]
      /\ loc \in [Thread -> Local] /\ t \in Thread
      /\ pcBar[t] = pc[t] /\ locBar[t] = loc[t]
  BY DEF HandoffOK, BarMoves, Thread
<1>2. /\ \A label : Goto(t, label) => A!Goto(t, label)
      /\ \A r : loc'[t] = r => locBar' = [locBar EXCEPT ![t] = r]
  BY <1>1, BarsSet DEF Goto
<1>3. CASE SplitCopy(t)
  <2>1. PICK m : m = TempMeta(t)
    OBVIOUS
  <2>2. loc'[t] = [loc[t] EXCEPT !.meta = m] /\ Goto(t, "build") /\ pc[t] = "copy"
    BY <1>1, <1>3, <2>1 DEF SplitCopy
  <2>3. m = A!TempMeta(t)
    BY <1>1, <2>1 DEF TempMeta, A!TempMeta
  <2>4. locBar' = [locBar EXCEPT ![t].meta = m] /\ A!Goto(t, "build")
    BY <1>1, <1>2, <2>2
  <2>5. UNCHANGED <<A!search_layer, A!leaf_layer, job_queue>>
    BY <1>3 DEF SplitCopy, search_layer, leaf_layer, A!search_layer, A!leaf_layer
  <2> QED
    BY <1>1, <2>2, <2>3, <2>4, <2>5 DEF A!SplitCopy
<1>4. CASE FindInode(t)
  <2>1. PICK k : k = loc[t].sep
    OBVIOUS
  <2>2. PICK p \in Descents(k) :
          /\ LockInodes(PathTaken(p, k))
          /\ loc' = [loc EXCEPT ![t].path = PathTaken(p, k)]
    BY <1>4, <2>1 DEF FindInode
  <2>3. PICK path : path = PathTaken(p, k)
    OBVIOUS
  <2>4. /\ p \in A!Descents(k) /\ path = A!PathTaken(p, k)
        /\ A!LockInodes(path)
    BY <2>2, <2>3, SameSearch
  <2>5. loc'[t] = [loc[t] EXCEPT !.path = path]
    BY <1>1, <2>2, <2>3
  <2>6. pc[t] = "locate" /\ Goto(t, "level")
    BY <1>4 DEF FindInode
  <2>7. locBar' = [locBar EXCEPT ![t].path = path] /\ A!Goto(t, "level")
    BY <1>1, <1>2, <2>5, <2>6
  <2>8. UNCHANGED <<tree_root, root_level, ent, ninode, A!leaf_layer, job_queue>>
    BY <1>4 DEF FindInode, leaf_layer, A!leaf_layer
  <2> QED
    BY <1>1, <2>1, <2>4, <2>6, <2>7, <2>8 DEF A!FindInode
<1>5. CASE SplitUnlock(t)
  <2>1. /\ pc[t] = "unlock" /\ loc'[t] = NoLocal /\ Goto(t, "pop")
        /\ meta' = [meta EXCEPT ![loc[t].lp].lock = FALSE]
    BY <1>1, <1>5 DEF SplitUnlock
  <2>2. locBar' = [locBar EXCEPT ![t] = A!NoLocal] /\ A!Goto(t, "pop")
    BY <1>2, <2>1, SameNames
  <2>3. UNCHANGED <<A!search_layer, tail, version, nleaf, job_queue>>
    BY <1>5 DEF SplitUnlock, search_layer, A!search_layer
  <2> QED
    BY <1>1, <2>1, <2>2, <2>3 DEF A!SplitUnlock
<1> QED
  BY <1>3, <1>4, <1>5 DEF WorkerShared

LEMMA SameMerge ==
  ASSUME NEW t, locBar[t] = loc[t]
  PROVE  /\ A!Here(t) = Here(t) /\ A!MergedK(t) = MergedK(t)
         /\ A!MergedCh(t) = MergedCh(t) /\ A!Done(t) = Done(t)
         /\ A!num(A!Here(t)) = num(Here(t))
<1>1. A!Here(t) = Here(t) /\ A!Done(t) = Done(t)
  BY DEF A!Here, Here, A!Done, Done
<1>2. \A s, i, e : A!InsertAt(s, i, e) = InsertAt(s, i, e)
  BY DEF A!InsertAt, InsertAt
<1>3. A!MergedK(t) = MergedK(t) /\ A!MergedCh(t) = MergedCh(t)
  BY <1>1, <1>2 DEF A!MergedK, MergedK, A!MergedCh, MergedCh
<1> QED
  BY <1>1, <1>3 DEF A!num, num

LEMMA SplitBar ==
  ASSUME HandoffOK, NEW t \in Thread, BarMoves(t),
         SplitBuild(t) \/ SplitPublish(t) \/ ReadLevel(t) \/ InsertInode(t)
  PROVE  A!SplitStep(t)
<1>1. /\ pc \in [Thread -> ForegroundLabel \cup WorkerLabel \cup {"check"}]
      /\ loc \in [Thread -> Local]
      /\ pcBar[t] = pc[t] /\ locBar[t] = loc[t]
  BY DEF HandoffOK, BarMoves
<1>2. /\ \A label : Goto(t, label) => A!Goto(t, label)
      /\ \A r : loc'[t] = r => locBar' = [locBar EXCEPT ![t] = r]
      /\ loc'[t] = loc[t] => locBar' = locBar
  BY <1>1, BarsSet DEF Goto
<1>3. CASE SplitBuild(t)
  <2>1. PICK l, S, a, n :
          /\ l = loc[t].lp /\ S = meta[l].bitmap /\ a = meta[l].alt /\ n = nleaf
    OBVIOUS
  <2>2. PICK sk \in S :
          LET upper == {y \in S : y >= sk}
              mine  == IF t \in Foreground /\ loc[t].key > sk
                         THEN {loc[t].key} ELSE {}
              m     == [loc[t].meta EXCEPT !.bitmap = @ \ upper, !.alt = 1 - a]
          IN
          /\ IsSplitKey(sk, S)
          /\ meta' = [meta EXCEPT ![n] =
                        [bitmap |-> upper \cup mine, lock |-> FALSE, alt |-> 0]]
          /\ tail' = LinkNew(l, a, n)
          /\ version' = [version EXCEPT ![l] = NextVersion(@)]
          /\ nleaf' = n + 1
          /\ loc' = [loc EXCEPT ![t].meta = m, ![t].sep = sk, ![t].ptr = n]
    BY <1>3, <2>1 DEF SplitBuild
  <2>3. PICK upper, mine, m :
          /\ upper = {y \in S : y >= sk}
          /\ mine = IF t \in Foreground /\ loc[t].key > sk
                      THEN {loc[t].key} ELSE {}
          /\ m = [loc[t].meta EXCEPT !.bitmap = @ \ upper, !.alt = 1 - a]
    OBVIOUS
  <2>4. /\ A!IsSplitKey(sk, S)
        /\ meta' = [meta EXCEPT ![n] =
                      [bitmap |-> upper \cup mine, lock |-> FALSE, alt |-> 0]]
        /\ tail' = A!LinkNew(l, a, n)
        /\ nleaf' = n + 1
    BY <2>2, <2>3, SameLeaves
  <2>5. version' = [version EXCEPT ![l] = A!NextVersion(@)]
    BY <2>2, SameLeaves
  <2>6. loc' = [loc EXCEPT ![t].meta = m, ![t].sep = sk, ![t].ptr = n]
    BY <2>2, <2>3
  <2>7. loc'[t] = [loc[t] EXCEPT !.meta = m, !.sep = sk, !.ptr = n]
    BY <1>1, <2>6
  <2>8. locBar' = [locBar EXCEPT ![t].meta = m, ![t].sep = sk, ![t].ptr = n]
    BY <1>1, <1>2, <2>7
  <2>9. /\ pcBar[t] = "build" /\ n < MaxLeaf /\ A!Goto(t, "publish")
        /\ UNCHANGED <<A!search_layer, job_queue>>
    BY <1>1, <1>2, <1>3, <2>1 DEF SplitBuild, search_layer, A!search_layer
  <2>10. A!SplitBuild(t)
    BY <1>1, <2>1, <2>3, <2>4, <2>5, <2>8, <2>9 DEF A!SplitBuild
  <2> QED
    BY <2>10 DEF A!SplitStep
<1>4. CASE SplitPublish(t)
  <2>1. PICK label : label = IF t \in Worker THEN "locate"
               ELSE IF loc[t].key <= loc[t].sep THEN "addleft" ELSE "level"
    OBVIOUS
  <2>2. /\ pc[t] = "publish" /\ meta' = [meta EXCEPT ![loc[t].lp] = loc[t].meta]
        /\ Goto(t, label) /\ loc'[t] = loc[t]
        /\ UNCHANGED <<A!search_layer, tail, version, nleaf, job_queue>>
    BY <1>4, <2>1 DEF SplitPublish, search_layer, A!search_layer
  <2>3. A!Goto(t, label) /\ locBar' = locBar
    BY <1>2, <2>2
  <2> QED
    BY <1>1, <2>1, <2>2, <2>3 DEF A!SplitPublish, A!SplitStep
<1>5. CASE ReadLevel(t)
  <2>1. /\ pc[t] = "level" /\ Goto(t, "inode")
        /\ loc'[t] = [loc[t] EXCEPT !.total = root_level, !.lev = 0]
        /\ UNCHANGED <<A!search_layer, A!leaf_layer, job_queue>>
    BY <1>1, <1>5
    DEF ReadLevel, total_level, search_layer, leaf_layer, A!search_layer,
        A!leaf_layer
  <2>2. loc'[t] = [loc[t] EXCEPT !.total = root_level, !.lev = 0]
    BY <2>1
  <2>3. locBar' = [locBar EXCEPT ![t].total = root_level, ![t].lev = 0]
    BY <1>1, <1>2, <2>2
  <2>4. A!Goto(t, "inode")
    BY <1>2, <2>1
  <2> QED
    BY <1>1, <2>1, <2>3, <2>4 DEF A!ReadLevel, A!total_level, A!SplitStep
<1>6. CASE InsertInode(t)
  <2>1. /\ A!Here(t) = Here(t) /\ A!MergedK(t) = MergedK(t)
        /\ A!MergedCh(t) = MergedCh(t) /\ A!Done(t) = Done(t)
        /\ A!num(A!Here(t)) = num(Here(t))
    BY <1>1, SameMerge
  <2>2. /\ pc[t] = "inode" /\ num(Here(t)) < NON_LEAF_KEY_NUM
        /\ ent' = [ent EXCEPT ![Here(t)] = [k |-> MergedK(t), ch |-> MergedCh(t)]]
        /\ ilock' = [ilock EXCEPT ![Here(t)] = FALSE]
        /\ Goto(t, Done(t)) /\ loc'[t] = loc[t]
        /\ UNCHANGED <<tree_root, root_level, ninode, A!leaf_layer, job_queue>>
    BY <1>6 DEF InsertInode, leaf_layer, A!leaf_layer
  <2>3. A!Goto(t, A!Done(t)) /\ locBar' = locBar
    BY <1>2, <2>1, <2>2
  <2>4. A!InsertInode(t)
    BY <1>1, <2>1, <2>2, <2>3 DEF A!InsertInode
  <2> QED
    BY <2>4 DEF A!SplitStep
<1> QED
  BY <1>3, <1>4, <1>5, <1>6

LEMMA GrowBar ==
  ASSUME HandoffOK, NEW t \in Thread, BarMoves(t),
         \/ SplitInode(t) \/ GrowRoot(t) \/ GrowSecondStore(t)
         \/ UnlockOldRoot(t) \/ UnlockNewRoot(t)
  PROVE  A!SplitStep(t)
<1>1. /\ pc \in [Thread -> ForegroundLabel \cup WorkerLabel \cup {"check"}]
      /\ loc \in [Thread -> Local]
      /\ pcBar[t] = pc[t] /\ locBar[t] = loc[t]
  BY DEF HandoffOK, BarMoves
<1>2. /\ \A label : Goto(t, label) => A!Goto(t, label)
      /\ \A r : loc'[t] = r => locBar' = [locBar EXCEPT ![t] = r]
      /\ loc'[t] = loc[t] => locBar' = locBar
  BY <1>1, BarsSet DEF Goto
<1>3. UNCHANGED leaf_layer => UNCHANGED A!leaf_layer
  BY DEF leaf_layer, A!leaf_layer
<1>4. CASE SplitInode(t)
  <2>1. PICK lev, newp, mk, mch, here, label :
          /\ lev = loc[t].lev /\ newp = ninode[lev] /\ mk = MergedK(t)
          /\ mch = MergedCh(t) /\ here = Here(t)
          /\ label = IF lev + 1 <= loc[t].total THEN "inode" ELSE "grow"
    OBVIOUS
  <2>2. /\ here = A!Here(t) /\ mk = A!MergedK(t) /\ mch = A!MergedCh(t)
        /\ A!num(here) = num(here) /\ A!LEFT_KEY_NUM = LEFT_KEY_NUM
    BY <1>1, <2>1, SameMerge DEF A!LEFT_KEY_NUM, LEFT_KEY_NUM
  <2>3. /\ pc[t] = "inode" /\ ~(num(here) < NON_LEAF_KEY_NUM)
        /\ newp < MaxInode /\ ninode' = [ninode EXCEPT ![lev] = newp + 1]
        /\ UNCHANGED <<tree_root, root_level, leaf_layer, job_queue>>
        /\ Goto(t, label)
    BY <1>4, <2>1 DEF SplitInode
  <2>4. /\ ent' = [ent EXCEPT
             ![here]          = [k  |-> SubSeq(mk, 1, LEFT_KEY_NUM),
                                 ch |-> SubSeq(mch, 1, LEFT_KEY_NUM + 1)],
             ![<<lev, newp>>] = [k  |-> SubSeq(mk, LEFT_KEY_NUM + 2, Len(mk)),
                                 ch |-> SubSeq(mch, LEFT_KEY_NUM + 2, Len(mch))]]
        /\ ilock' = [ilock EXCEPT ![here] = ~(lev < loc[t].total),
                                  ![<<lev, newp>>] = FALSE]
    BY <1>4, <2>1 DEF SplitInode
  <2>5. PICK sep : sep = mk[LEFT_KEY_NUM + 1]
    OBVIOUS
  <2>6. loc' = [loc EXCEPT ![t].sep = sep, ![t].ptr = newp, ![t].lev = lev + 1]
    BY <1>4, <2>1, <2>5 DEF SplitInode
  <2>7. loc'[t] = [loc[t] EXCEPT !.sep = sep, !.ptr = newp, !.lev = lev + 1]
    BY <1>1, <2>6
  <2>8. locBar' = [locBar EXCEPT ![t].sep = sep, ![t].ptr = newp,
                                 ![t].lev = lev + 1]
    BY <1>1, <1>2, <2>7
  <2>9. A!Goto(t, label)
    BY <1>2, <2>3
  <2>10. A!SplitInode(t)
    BY <1>1, <1>3, <2>1, <2>2, <2>3, <2>4, <2>5, <2>8, <2>9 DEF A!SplitInode
  <2> QED
    BY <2>10 DEF A!SplitStep
<1>5. CASE GrowRoot(t)
  <2>1. PICK lev, newp, old :
          lev = loc[t].lev /\ newp = ninode[lev] /\ old = tree_root[2]
    OBVIOUS
  <2>2. /\ pc[t] = "grow" /\ lev \in A!Level /\ newp < MaxInode
        /\ ninode' = [ninode EXCEPT ![lev] = newp + 1]
        /\ ent' = [ent EXCEPT ![<<lev, newp>>] =
                     [k |-> <<loc[t].sep>>, ch |-> <<old, loc[t].ptr>>]]
        /\ ilock' = [ilock EXCEPT ![<<lev, newp>>] = TRUE]
        /\ UNCHANGED <<leaf_layer, job_queue>>
    BY <1>5, <2>1, SameNames DEF GrowRoot
  <2>3. loc' = [loc EXCEPT ![t].old_root = old, ![t].ptr = newp]
    BY <1>5, <2>1 DEF GrowRoot
  <2>4. loc'[t] = [loc[t] EXCEPT !.old_root = old, !.ptr = newp]
    BY <1>1, <2>3
  <2>5. locBar' = [locBar EXCEPT ![t].old_root = old, ![t].ptr = newp]
    BY <1>1, <1>2, <2>4
  <2>6. \/ root_level' = lev /\ UNCHANGED tree_root /\ Goto(t, "growroot")
        \/ tree_root' = <<lev, newp>> /\ UNCHANGED root_level
           /\ Goto(t, "growlevel")
    BY <1>5, <2>1 DEF GrowRoot
  <2>7. \/ root_level' = lev /\ UNCHANGED tree_root /\ A!Goto(t, "growroot")
        \/ tree_root' = <<lev, newp>> /\ UNCHANGED root_level
           /\ A!Goto(t, "growlevel")
    BY <1>2, <2>6
  <2>8. A!GrowRoot(t)
    BY <1>1, <1>3, <2>1, <2>2, <2>5, <2>7 DEF A!GrowRoot
  <2> QED
    BY <2>8 DEF A!SplitStep
<1>6. CASE GrowSecondStore(t)
  <2>1. /\ \/ /\ pc[t] = "growroot"
              /\ tree_root' = <<loc[t].lev, loc[t].ptr>>
              /\ UNCHANGED root_level
           \/ /\ pc[t] = "growlevel"
              /\ root_level' = loc[t].lev
              /\ UNCHANGED tree_root
        /\ Goto(t, "unlockold") /\ loc'[t] = loc[t]
        /\ UNCHANGED <<ent, ilock, ninode, leaf_layer, job_queue>>
    BY <1>6 DEF GrowSecondStore
  <2>2. A!Goto(t, "unlockold") /\ locBar' = locBar
    BY <1>2, <2>1
  <2>3. A!GrowSecondStore(t)
    BY <1>1, <1>3, <2>1, <2>2 DEF A!GrowSecondStore
  <2> QED
    BY <2>3 DEF A!SplitStep
<1>7. CASE UnlockOldRoot(t)
  <2>1. /\ pc[t] = "unlockold" /\ Goto(t, "unlocknew") /\ loc'[t] = loc[t]
        /\ ilock' = [ilock EXCEPT ![<<loc[t].lev - 1, loc[t].old_root>>] = FALSE]
        /\ UNCHANGED <<tree_root, root_level, ent, ninode, leaf_layer, job_queue>>
    BY <1>7 DEF UnlockOldRoot
  <2>2. A!Goto(t, "unlocknew") /\ locBar' = locBar
    BY <1>2, <2>1
  <2>3. A!UnlockOldRoot(t)
    BY <1>1, <1>3, <2>1, <2>2 DEF A!UnlockOldRoot
  <2> QED
    BY <2>3 DEF A!SplitStep
<1>8. CASE UnlockNewRoot(t)
  <2>1. /\ pc[t] = "unlocknew" /\ Goto(t, Done(t)) /\ loc'[t] = loc[t]
        /\ ilock' = [ilock EXCEPT ![<<loc[t].lev, loc[t].ptr>>] = FALSE]
        /\ UNCHANGED <<tree_root, root_level, ent, ninode, leaf_layer, job_queue>>
    BY <1>8 DEF UnlockNewRoot
  <2>2. A!Done(t) = Done(t)
    BY <1>1, SameMerge
  <2>3. A!Goto(t, A!Done(t)) /\ locBar' = locBar
    BY <1>2, <2>1, <2>2
  <2>4. A!UnlockNewRoot(t)
    BY <1>1, <1>3, <2>1, <2>2, <2>3 DEF A!UnlockNewRoot
  <2> QED
    BY <2>4 DEF A!SplitStep
<1> QED
  BY <1>4, <1>5, <1>6, <1>7, <1>8

-----------------------------------------------------------------------------
(* Who holds a leaf, here and there.                                       *)

LEMMA HoldsBar ==
  ASSUME HandoffOK, NEW t \in Thread
  PROVE  /\ A!HoldsLeaf(t) <=> HoldsLeaf(t)
         /\ HoldsLeaf(t) => locBar[t] = loc[t]
         /\ A!HoldsLeaf(t) /\ pcBar[t] # "addleft" <=>
              HoldsLeaf(t) /\ pc[t] # "addleft"
<1>1. t \in Foreground => pc[t] \notin {"pop", "lock", "check"}
  BY Locals
<1>2. t \notin Foreground => pc[t] # "flush"
  BY Locals
<1>3. CASE t \in Foreground
  BY <1>1, <1>3, BarIs DEF HoldsLeaf, A!HoldsLeaf, Between
<1>4. CASE t \notin Foreground
  BY <1>2, <1>4, BarIs DEF HoldsLeaf, A!HoldsLeaf, Between
<1> QED
  BY <1>3, <1>4

\* Nobody else holds the leaf that t holds.
LEMMA AloneBar ==
  ASSUME HandoffOK, A!LeafLockOwner, NEW t \in Thread, NEW u \in Thread, t # u,
         HoldsLeaf(t), HoldsLeaf(u)
  PROVE  loc[t].lp # loc[u].lp
BY HoldsBar, SameNames DEF A!LeafLockOwner

LEMMA SharedHold ==
  ASSUME HandoffOK, A!LeafLockOwner, NEW t \in Thread, Shared(t)
  PROVE  BarMoves(t) /\ UNCHANGED job_queue
<1>1. Moves(t) /\ UNCHANGED job_queue
  BY SharedMoves
<1>2. VersionsHold(t)
  <2>1. CASE UNCHANGED version
    BY <2>1 DEF VersionsHold
  <2>2. CASE SplitBuild(t)
    <3>1. PICK v : version' = [version EXCEPT ![loc[t].lp] = v]
      BY <2>2 DEF SplitBuild
    <3>2. HoldsLeaf(t)
      BY <2>2 DEF SplitBuild, HoldsLeaf
    <3>3. ASSUME NEW u \in Thread \ {t}, pc[u] = "check"
          PROVE  loc[u].lp # loc[t].lp
      <4>1. HoldsLeaf(u)
        BY <3>3, Locals DEF HoldsLeaf
      <4> QED
        BY <3>2, <4>1, AloneBar
    <3> QED
      BY <3>1, <3>3 DEF VersionsHold
  <2> QED
    BY <2>1, <2>2, SharedMoves
<1> QED
  BY <1>1, <1>2, BarsMove

\* What the files share is a step of SobTree.
LEMMA SharedBar ==
  ASSUME HandoffOK, A!LeafLockOwner, NEW t \in Thread, Shared(t)
  PROVE  A!Step(t) /\ A!NextAny
<1>1. BarMoves(t)
  BY SharedHold
<1>2. CASE t \in Foreground /\ ClientShared(t)
  BY <1>1, <1>2, ClientBar
  DEF A!Step, A!NextStep, A!ClientStep, A!NextAny, A!Next
<1>3. CASE t \in Worker /\ WorkerShared(t)
  BY <1>1, <1>3, WorkerBar
  DEF A!Step, A!NextStep, A!WorkerStep, A!NextAny, A!Next
<1>4. CASE SplitStep(t)
  <2>1. A!SplitStep(t)
    BY <1>1, <1>4, SplitBar, GrowBar DEF SplitStep
  <2> QED
    BY <2>1, SameNames DEF A!Step, A!NextStep, A!NextAny, A!Next
<1> QED
  BY <1>2, <1>3, <1>4 DEF Shared

-----------------------------------------------------------------------------
(* The steps that are sobtree_v2a.h's own.                                 *)

\* A step of t that leaves the versions alone sets the mapped t only.
LEMMA BarsOf ==
  ASSUME NEW t \in Thread, UNCHANGED version,
         \A u \in Thread \ {t} : pc'[u] = pc[u] /\ loc'[u] = loc[u]
  PROVE  /\ \A label : pcBar'[t] = label => A!Goto(t, label)
         /\ \A r : locBar'[t] = r => locBar' = [locBar EXCEPT ![t] = r]
         /\ pcBar'[t] = pcBar[t] => pcBar' = pcBar
         /\ locBar'[t] = locBar[t] => locBar' = locBar
<1>1. /\ pcBar = [u \in Thread |-> pcBar[u]] /\ locBar = [u \in Thread |-> locBar[u]]
      /\ pcBar' = [u \in Thread |-> pcBar'[u]]
      /\ locBar' = [u \in Thread |-> locBar'[u]]
  BY DEF pcBar, locBar
<1>2. \A u \in Thread \ {t} : pcBar'[u] = pcBar[u] /\ locBar'[u] = locBar[u]
  BY BarsStay
<1>3. \A label : pcBar'[t] = label => pcBar' = [pcBar EXCEPT ![t] = label]
  BY <1>1, <1>2, OneChange
<1>4. \A r : locBar'[t] = r => locBar' = [locBar EXCEPT ![t] = r]
  BY <1>1, <1>2, OneChange
<1>5. pcBar'[t] = pcBar[t] => pcBar' = pcBar
  BY <1>1, <1>2
<1>6. locBar'[t] = locBar[t] => locBar' = locBar
  BY <1>1, <1>2
<1> QED
  BY <1>3, <1>4, <1>5, <1>6 DEF A!Goto

\* The index does not see a job pushed, popped or dropped, nor a version that
\* is found to be the job's.
LEMMA HiddenBar ==
  ASSUME HandoffOK, NEW t \in Thread,
         \/ PushJobV2a(t) \/ PopJobV2a(t)
         \/ CasLock(t) /\ pc'[t] = "pop"
         \/ CheckVersion(t) /\ version[loc[t].lp] = loc[t].version
  PROVE  UNCHANGED A!vars
<1>1. /\ pc \in [Thread -> ForegroundLabel \cup WorkerLabel \cup {"check"}]
      /\ loc \in [Thread -> Local]
  BY DEF HandoffOK
<1>2. CASE PushJobV2a(t)
  <2>1. /\ UNCHANGED <<search_layer, leaf_layer, job_queue, loc>>
        /\ pc' = [pc EXCEPT ![t] = "ret"] /\ pc[t] = "flush"
    BY <1>2 DEF PushJobV2a, Goto
  <2>2. UNCHANGED version /\ pcBar'[t] = pcBar[t] /\ locBar'[t] = locBar[t]
    BY <1>1, <2>1 DEF pcBar, locBar, leaf_layer
  <2>3. \A u \in Thread \ {t} : pc'[u] = pc[u] /\ loc'[u] = loc[u]
    BY <1>1, <2>1
  <2>4. pcBar' = pcBar /\ locBar' = locBar
    BY <2>2, <2>3, BarsOf
  <2> QED
    BY <2>1, <2>4 DEF A!vars, search_layer, leaf_layer
<1>3. CASE PopJobV2a(t)
  <2>1. PICK job : loc' = [loc EXCEPT ![t].lp = job[1], ![t].version = job[2]]
    BY <1>3 DEF PopJobV2a
  <2>2. /\ UNCHANGED <<search_layer, leaf_layer, job_queue>>
        /\ pc' = [pc EXCEPT ![t] = "lock"] /\ pc[t] = "pop"
    BY <1>3 DEF PopJobV2a, Goto
  <2>3. UNCHANGED version /\ pcBar'[t] = pcBar[t] /\ locBar'[t] = locBar[t]
    BY <1>1, <2>2 DEF pcBar, locBar, leaf_layer
  <2>4. \A u \in Thread \ {t} : pc'[u] = pc[u] /\ loc'[u] = loc[u]
    BY <1>1, <2>1, <2>2
  <2>5. pcBar' = pcBar /\ locBar' = locBar
    BY <2>3, <2>4, BarsOf
  <2> QED
    BY <2>2, <2>5 DEF A!vars, search_layer, leaf_layer
<1>4. CASE CasLock(t) /\ pc'[t] = "pop"
  <2>1. /\ pc[t] = "lock" /\ pc' = [pc EXCEPT ![t] = "pop"]
        /\ loc' = [loc EXCEPT ![t] = NoLocal]
        /\ UNCHANGED <<search_layer, meta, tail, version, nleaf, job_queue>>
    BY <1>1, <1>4 DEF CasLock, Goto
  <2>2. pcBar'[t] = pcBar[t] /\ locBar'[t] = locBar[t]
    BY <1>1, <2>1 DEF pcBar, locBar
  <2>3. \A u \in Thread \ {t} : pc'[u] = pc[u] /\ loc'[u] = loc[u]
    BY <1>1, <2>1
  <2>4. pcBar' = pcBar /\ locBar' = locBar
    BY <2>1, <2>2, <2>3, BarsOf
  <2> QED
    BY <2>1, <2>4 DEF A!vars, search_layer
<1>5. CASE CheckVersion(t) /\ version[loc[t].lp] = loc[t].version
  <2>1. /\ pc[t] = "check" /\ pc' = [pc EXCEPT ![t] = "copy"]
        /\ UNCHANGED <<search_layer, meta, loc, tail, version, nleaf, job_queue>>
    BY <1>5 DEF CheckVersion, Goto
  <2>2. pcBar'[t] = pcBar[t] /\ locBar'[t] = locBar[t]
    BY <1>1, <1>5, <2>1 DEF pcBar, locBar
  <2>3. \A u \in Thread \ {t} : pc'[u] = pc[u] /\ loc'[u] = loc[u]
    BY <1>1, <2>1
  <2>4. pcBar' = pcBar /\ locBar' = locBar
    BY <2>1, <2>2, <2>3, BarsOf
  <2> QED
    BY <2>1, <2>4 DEF A!vars, search_layer
<1> QED
  BY <1>2, <1>3, <1>4, <1>5

\* A full, unlocked leaf is in no split: the new leaf of a split has room, and
\* so has the leaf it came from once that is unlocked.
LEMMA FullIsFree ==
  ASSUME V2aInv, NEW l, ~meta[l].lock, isFull(l)
  PROVE  A!NotCarried(l)
<1>1. /\ A!RoomInv /\ A!LeafLockOwner /\ HandoffOK
  BY DEF V2aInv, A!IndInv, A!LeafInv
<1>2. A!isFull(l)
  BY SameLeaves
<1>3. ASSUME NEW u \in Thread, A!Carries(u)
      PROVE  locBar[u].lp # l /\ locBar[u].ptr # l
  <2>1. ~A!isFull(locBar[u].ptr)
    BY <1>1, <1>3, SameNames DEF A!RoomInv
  <2>2. CASE pcBar[u] = "publish"
    <3>1. A!HoldsLeaf(u)
      BY <2>2 DEF A!HoldsLeaf
    <3>2. meta[locBar[u].lp].lock
      BY <1>1, <2>2, <3>1, SameNames DEF A!LeafLockOwner
    <3> QED
      BY <1>2, <2>1, <3>2
  <2>3. CASE pcBar[u] # "publish"
    <3>1. ~A!isFull(locBar[u].lp)
      BY <1>1, <1>3, <2>3, SameNames DEF A!RoomInv
    <3> QED
      BY <1>2, <2>1, <3>1
  <2> QED
    BY <2>2, <2>3
<1> QED
  BY <1>3, SameNames DEF A!NotCarried

\* The compare-and-swap takes a leaf: whether the job was in date is settled.
LEMMA CasBar ==
  ASSUME V2aInv, NEW t \in Worker, CasLock(t), pc'[t] # "pop"
  PROVE  A!TakeLeaf(t)
<1>1. /\ HandoffOK /\ t \in Thread
      /\ pc \in [Thread -> ForegroundLabel \cup WorkerLabel \cup {"check"}]
      /\ loc \in [Thread -> Local]
  BY DEF V2aInv, HandoffOK, Thread
<1>2. PICK r : r = loc[t]
  OBVIOUS
<1>3. /\ pc[t] = "lock" /\ MayMatch(t) /\ pc' = [pc EXCEPT ![t] = "check"]
      /\ meta' = [meta EXCEPT ![r.lp].lock = TRUE] /\ loc' = loc
      /\ UNCHANGED <<search_layer, tail, version, nleaf, job_queue>>
  BY <1>1, <1>2 DEF CasLock, Goto
<1>4. PICK label \in {"copy", "unlock"} :
        label = IF version[r.lp] = r.version THEN "copy" ELSE "unlock"
  OBVIOUS
<1>5. r \in A!Local /\ r.lp < nleaf
  BY <1>1, <1>2, <1>3, SameNames DEF HandoffOK
<1>6. ~meta[r.lp].lock /\ isFull(r.lp)
  BY <1>2, <1>3 DEF MayMatch
<1>7. A!NotCarried(r.lp) /\ A!isFull(r.lp)
  BY <1>6, FullIsFree, SameLeaves
<1>8. /\ pcBar[t] = "pop" /\ pcBar'[t] = label /\ locBar'[t] = r
  BY <1>1, <1>2, <1>3, <1>4 DEF pcBar, locBar
<1>9. \A u \in Thread \ {t} : pc'[u] = pc[u] /\ loc'[u] = loc[u]
  BY <1>1, <1>3
<1>10. A!Goto(t, label) /\ locBar' = [locBar EXCEPT ![t] = r]
  BY <1>1, <1>3, <1>8, <1>9, BarsOf
<1>11. UNCHANGED <<A!search_layer, tail, version, nleaf, job_queue>>
  BY <1>3 DEF search_layer, A!search_layer
<1> QED
  BY <1>3, <1>5, <1>6, <1>7, <1>8, <1>10, <1>11 DEF A!TakeLeaf

\* A stale job gives its leaf back, as after a split.
LEMMA DropBar ==
  ASSUME HandoffOK, NEW t \in Worker, CheckVersion(t),
         version[loc[t].lp] # loc[t].version
  PROVE  A!SplitUnlock(t)
<1>1. /\ t \in Thread
      /\ pc \in [Thread -> ForegroundLabel \cup WorkerLabel \cup {"check"}]
      /\ loc \in [Thread -> Local]
  BY DEF HandoffOK, Thread
<1>2. /\ pc[t] = "check" /\ pc' = [pc EXCEPT ![t] = "pop"]
      /\ meta' = [meta EXCEPT ![loc[t].lp].lock = FALSE]
      /\ loc' = [loc EXCEPT ![t] = NoLocal]
      /\ UNCHANGED <<search_layer, tail, version, nleaf, job_queue>>
  BY DEF CheckVersion, DropLeaf, Goto
<1>3. pcBar[t] = "unlock" /\ locBar[t] = loc[t]
  BY <1>1, <1>2 DEF pcBar, locBar
<1>4. pcBar'[t] = "pop" /\ locBar'[t] = A!NoLocal
  BY <1>1, <1>2, SameNames DEF pcBar, locBar
<1>5. \A u \in Thread \ {t} : pc'[u] = pc[u] /\ loc'[u] = loc[u]
  BY <1>1, <1>2
<1>6. A!Goto(t, "pop") /\ locBar' = [locBar EXCEPT ![t] = A!NoLocal]
  BY <1>1, <1>2, <1>4, <1>5, BarsOf
<1> QED
  BY <1>2, <1>3, <1>6 DEF A!SplitUnlock, search_layer, A!search_layer

LEMMA FillBar ==
  ASSUME HandoffOK, NEW t \in Foreground, FillSlot(t)
  PROVE  A!FillOnly(t) /\ locBar'[t] = loc'[t]
<1>1. /\ t \in Thread
      /\ pc \in [Thread -> ForegroundLabel \cup WorkerLabel \cup {"check"}]
      /\ loc \in [Thread -> Local]
  BY DEF HandoffOK, Thread
<1>2. PICK m : m = [loc[t].meta EXCEPT !.bitmap = @ \cup {loc[t].key}]
  OBVIOUS
<1>3. /\ pc[t] = "fill" /\ pc' = [pc EXCEPT ![t] = "flush"]
      /\ meta' = [meta EXCEPT ![loc[t].lp] = m]
      /\ loc' = [loc EXCEPT ![t].meta = m]
      /\ UNCHANGED <<search_layer, tail, version, nleaf, job_queue>>
  BY <1>2 DEF FillSlot, Goto
<1>4. loc'[t] = [loc[t] EXCEPT !.meta = m]
  BY <1>1, <1>3
<1>5. pcBar[t] = "fill" /\ locBar[t] = loc[t]
  BY <1>1, <1>3 DEF pcBar, locBar
<1>6. pcBar'[t] = "ret" /\ locBar'[t] = loc'[t]
  BY <1>1, <1>3 DEF pcBar, locBar
<1>7. \A u \in Thread \ {t} : pc'[u] = pc[u] /\ loc'[u] = loc[u]
  BY <1>1, <1>3
<1>8. \A r : locBar'[t] = r => locBar' = [locBar EXCEPT ![t] = r]
  BY <1>1, <1>3, <1>7, BarsOf
<1>9. locBar' = [locBar EXCEPT ![t].meta = m]
  BY <1>1, <1>4, <1>5, <1>6, <1>8
<1>10. A!Goto(t, "ret")
  BY <1>1, <1>3, <1>6, <1>7, BarsOf
<1> QED
  BY <1>2, <1>3, <1>5, <1>6, <1>9, <1>10 DEF A!FillOnly, search_layer, A!search_layer

-----------------------------------------------------------------------------
(* Every step.                                                             *)

OwnStep(t) ==
  \/ t \in Foreground /\ FillSlot(t) /\ UNCHANGED handoff
  \/ t \in Foreground /\ PushJobV2a(t)
  \/ t \in Worker /\ (PopJobV2a(t) \/ CasLock(t) \/ CheckVersion(t))

LEMMA V2aCases ==
  ASSUME NextV2a
  PROVE  \E t \in Thread : OwnStep(t) \/ (Shared(t) /\ UNCHANGED handoff)
<1>1. ASSUME NEW t \in Foreground, CallV2a(t) \/ ClientV2a(t)
      PROVE  OwnStep(t) \/ (Shared(t) /\ UNCHANGED handoff)
  BY <1>1
  DEF OwnStep, Shared, ClientShared, SplitStep, CallV2a, ClientV2a,
      SearchLnodeV2a, ReadChV2a, ReturnV2a, InsertPart1, InsertTempMeta, InsertFill,
      InsertSplit, InsertPart3, WalkUp
<1>2. ASSUME NEW t \in Worker, WorkerV2a(t)
      PROVE  OwnStep(t) \/ (Shared(t) /\ UNCHANGED handoff)
  BY <1>2
  DEF OwnStep, Shared, WorkerShared, SplitStep, WorkerV2a, SplitLeaf,
      InsertInodePart1, InsertInodePart3, SplitUnlockV2a, WalkUp
<1> QED
  BY <1>1, <1>2 DEF NextV2a, Thread

LEMMA OwnBar ==
  ASSUME V2aInv, NEW t \in Thread, OwnStep(t)
  PROVE  (A!Step(t) /\ A!NextAny) \/ UNCHANGED A!vars
<1>1. HandoffOK /\ pc \in [Thread -> ForegroundLabel \cup WorkerLabel \cup {"check"}]
  BY DEF V2aInv, HandoffOK
<1>2. CASE t \in Foreground /\ FillSlot(t)
  BY <1>1, <1>2, FillBar DEF A!Step, A!NextAny
<1>3. CASE t \in Foreground /\ PushJobV2a(t)
  BY <1>1, <1>3, HiddenBar
<1>4. CASE t \in Worker /\ PopJobV2a(t)
  BY <1>1, <1>4, HiddenBar
<1>5. CASE t \in Worker /\ CasLock(t)
  <2>1. CASE pc'[t] = "pop"
    BY <1>1, <1>5, <2>1, HiddenBar
  <2>2. CASE pc'[t] # "pop"
    BY <1>5, <2>2, CasBar DEF A!Step, A!NextAny
  <2> QED
    BY <2>1, <2>2
<1>6. CASE t \in Worker /\ CheckVersion(t)
  <2>1. CASE version[loc[t].lp] = loc[t].version
    BY <1>1, <1>6, <2>1, HiddenBar
  <2>2. CASE version[loc[t].lp] # loc[t].version
    <3>1. A!SplitUnlock(t)
      BY <1>1, <1>6, <2>2, DropBar
    <3> QED
      BY <1>6, <3>1
      DEF A!Step, A!NextStep, A!WorkerStep, A!NextAny, A!Next
  <2> QED
    BY <2>1, <2>2
<1> QED
  BY <1>2, <1>3, <1>4, <1>5, <1>6 DEF OwnStep

\* Every step is one of SobTree's, a free choice of a leaf included, or hidden.
LEMMA V2aBar ==
  ASSUME V2aInv, [NextV2a]_varsV2a
  PROVE  \/ \E t \in Thread : A!Step(t) /\ A!NextAny
         \/ UNCHANGED A!vars
<1>1. HandoffOK /\ A!LeafLockOwner
  BY DEF V2aInv, A!IndInv, A!LeafInv
<1>2. CASE NextV2a
  <2>1. PICK t \in Thread : OwnStep(t) \/ (Shared(t) /\ UNCHANGED handoff)
    BY <1>2, V2aCases
  <2> QED
    BY <1>1, <2>1, OwnBar, SharedBar
<1>3. CASE UNCHANGED varsV2a
  <2>1. UNCHANGED vars
    BY <1>3 DEF varsV2a
  <2>2. pcBar' = pcBar /\ locBar' = locBar
    BY <2>1 DEF vars, pcBar, locBar
  <2> QED
    BY <2>1, <2>2 DEF vars, A!vars
<1> QED
  BY <1>2, <1>3

\* The invariant of SobTree is kept; there are no jobs for it to be wrong about.
LEMMA BarInvNext ==
  ASSUME LEAF_KEY_NUM >= 4, V2aInv, [NextV2a]_varsV2a
  PROVE  A!IndInv' /\ A!Rooted' /\ A!OrderInv' /\ A!RoomInv'
<1>1. /\ HandoffOK /\ A!IndInv /\ A!Rooted /\ A!OrderInv /\ A!RoomInv
      /\ job_queue = {}
  BY DEF V2aInv, HandoffOK
<1>2. [A!NextAny]_(A!vars)
  BY V2aBar
<1>3. A!NoStaleJob
  <2>1. \A u \in A!Thread : pcBar[u] \notin {"lock", "flush"}
    BY BarIs, SameNames
  <2> QED
    BY <1>1, <2>1 DEF A!NoStaleJob, A!Pending
<1>4. A!IndInv'
  BY <1>1, <1>2, <1>3, A!InvNextAny, ConstantsOK, SameSize
<1>5. A!Rooted'
  BY <1>1, <1>2, A!RootedNext, ConstantsOK, SameSize
<1>6. A!OrderInv'
  BY <1>1, <1>2, <1>3, A!OrderNext, ConstantsOK, SameSize
<1>7. A!RoomInv'
  <2>1. CASE UNCHANGED A!vars
    BY <1>1, <2>1 DEF A!vars, A!RoomInv, A!Carries, A!isFull
  <2>2. CASE \E t \in Thread : A!Step(t)
    <3>1. PICK t \in A!Thread : A!Step(t)
      BY <2>2, SameNames
    <3>2. A!ShapeInv
      BY <1>1 DEF A!OrderInv
    <3> QED
      BY <1>1, <3>1, <3>2, A!RoomNext, ConstantsOK, SameSize
  <2> QED
    BY <2>1, <2>2, V2aBar
<1> QED
  BY <1>4, <1>5, <1>6, <1>7

LEMMA LeavesStay ==
  ASSUME A!TypeOK, NEW t \in Thread, OwnStep(t) \/ Shared(t)
  PROVE  nleaf' \in Nat /\ nleaf \in Nat /\ nleaf' >= nleaf
<1>1. nleaf \in Nat
  BY ConstantsOK DEF A!TypeOK, A!LeafTypeOK
<1>2. UNCHANGED nleaf \/ nleaf' = nleaf + 1
  <2>1. CASE Shared(t)
    BY <2>1
    DEF Shared, ClientShared, WorkerShared, SplitStep, Call, SearchLnode,
        ReadCh, FindLeaf, Return, CopyMeta, InsertLeft, SplitCopy, FindInode,
        SplitUnlock, SplitBuild, SplitPublish, ReadLevel, InsertInode,
        SplitInode, GrowRoot, GrowSecondStore, UnlockOldRoot, UnlockNewRoot,
        leaf_layer
  <2>2. CASE OwnStep(t)
    BY <2>2
    DEF OwnStep, FillSlot, PushJobV2a, PopJobV2a, CasLock, CheckVersion,
        leaf_layer
  <2> QED
    BY <2>1, <2>2
<1> QED
  BY <1>1, <1>2

\* pc and loc stay functions.
LEMMA StayFunctions ==
  ASSUME HandoffOK, NEW t \in Thread, OwnStep(t) \/ Shared(t)
  PROVE  pc' = [u \in Thread |-> pc'[u]] /\ loc' = [u \in Thread |-> loc'[u]]
<1>1. /\ pc \in [Thread -> ForegroundLabel \cup WorkerLabel \cup {"check"}]
      /\ loc \in [Thread -> Local]
  BY DEF HandoffOK
<1>2. \E label : pc' = [pc EXCEPT ![t] = label]
  <2>1. CASE Shared(t)
    BY <2>1
    DEF Shared, ClientShared, WorkerShared, SplitStep, Call, SearchLnode,
        ReadCh, FindLeaf, Return, CopyMeta, InsertLeft, SplitCopy, FindInode,
        SplitUnlock, SplitBuild, SplitPublish, ReadLevel, InsertInode,
        SplitInode, GrowRoot, GrowSecondStore, UnlockOldRoot, UnlockNewRoot,
        Goto
  <2>2. CASE OwnStep(t)
    BY <2>2
    DEF OwnStep, FillSlot, PushJobV2a, PopJobV2a, CasLock, CheckVersion, Goto
  <2> QED
    BY <2>1, <2>2
<1>3. \E r : loc' = [loc EXCEPT ![t] = r] \/ loc' = loc
  <2>1. CASE Shared(t)
    <3>1. CASE t \in Foreground /\ ClientShared(t)
      BY <3>1
      DEF ClientShared, Call, SearchLnode, ReadCh, FindLeaf, Return, CopyMeta,
          InsertLeft
    <3>2. CASE t \in Worker /\ WorkerShared(t)
      BY <3>2 DEF WorkerShared, SplitCopy, FindInode, SplitUnlock
    <3>3. CASE SplitStep(t)
      BY <3>3
      DEF SplitStep, SplitBuild, SplitPublish, ReadLevel, InsertInode,
          SplitInode, GrowRoot, GrowSecondStore, UnlockOldRoot, UnlockNewRoot
    <3> QED
      BY <2>1, <3>1, <3>2, <3>3 DEF Shared
  <2>2. CASE OwnStep(t)
    BY <2>2
    DEF OwnStep, FillSlot, PushJobV2a, PopJobV2a, CasLock, CheckVersion
  <2> QED
    BY <2>1, <2>2
<1> QED
  BY <1>1, <1>2, <1>3

LEMMA HandoffNext ==
  ASSUME V2aInv, A!IndInv', NEW t \in Thread,
         OwnStep(t) \/ (Shared(t) /\ UNCHANGED handoff)
  PROVE  HandoffOK'
<1>1. /\ HandoffOK /\ A!IndInv /\ A!LeafLockOwner /\ A!TypeOK /\ A!TypeOK'
      /\ A!LeafAllocated
      /\ pc \in [Thread -> ForegroundLabel \cup WorkerLabel \cup {"check"}]
      /\ loc \in [Thread -> Local]
  BY DEF V2aInv, HandoffOK, A!IndInv, A!LeafInv
<1>2. /\ loc' = [u \in Thread |-> loc'[u]] /\ pc' = [u \in Thread |-> pc'[u]]
      /\ nleaf' \in Nat /\ nleaf \in Nat /\ nleaf' >= nleaf
  BY <1>1, LeavesStay, StayFunctions
<1>3. /\ pcBar'[t] \in ForegroundLabel \cup WorkerLabel
      /\ t \in Foreground => pcBar'[t] \in ForegroundLabel
      /\ t \in Worker => pcBar'[t] \in WorkerLabel
      /\ locBar'[t] \in Local
  BY <1>1, SameNames DEF A!TypeOK, A!ThreadTypeOK
<1>4. /\ loc[t] \in Local /\ loc[t].lp \in LnodeId /\ loc[t].lp \in Nat
      /\ loc[t].version \in Version
      /\ t \in Foreground => t \notin Worker
  BY <1>1, Locals
<1>5. SUFFICES
        /\ t \in Foreground => pc'[t] \in ForegroundLabel
        /\ t \in Worker => pc'[t] \in WorkerLabel \cup {"check"}
        /\ loc'[t] \in Local
        /\ pc'[t] \in {"flush", "lock"} =>
             loc'[t].lp \in Nat /\ loc'[t].lp < nleaf
        /\ \A job \in jobs' : \/ job \in jobs
                              \/ /\ job[1] \in LnodeId /\ job[1] < nleaf
                                 /\ job[2] \in Version
        /\ job_queue' = job_queue
        /\ \A u \in Thread \ {t} : pc'[u] = pc[u] /\ loc'[u] = loc[u]
  <2>1. \A u \in Foreground : pc'[u] \in ForegroundLabel
    BY <1>1, <1>5 DEF Thread, HandoffOK
  <2>2. \A u \in Worker : pc'[u] \in WorkerLabel \cup {"check"}
    BY <1>1, <1>5 DEF Thread, HandoffOK
  <2>3. \A u \in Thread : loc'[u] \in Local
    BY <1>1, <1>5
  <2>4. \A u \in Thread : pc'[u] \in {"flush", "lock"} => loc'[u].lp < nleaf'
    <3> TAKE u \in Thread
    <3>1. CASE u = t
      BY <1>2, <1>5, <3>1
    <3>2. CASE u # t
      <4>1. loc[u].lp \in Nat /\ (pc[u] \in {"flush", "lock"} => loc[u].lp < nleaf)
        BY <1>1, Locals DEF HandoffOK
      <4> QED
        BY <1>2, <1>5, <3>2, <4>1
    <3> QED
      BY <3>1, <3>2
  <2>5. \A job \in jobs' : /\ job[1] \in LnodeId /\ job[1] < nleaf'
                           /\ job[2] \in Version
    <3>1. \A l \in LnodeId : l \in Nat
      BY ConstantsOK DEF ConstantsOK, LnodeId
    <3> QED
      BY <1>1, <1>2, <1>5, <3>1 DEF HandoffOK
  <2>6. job_queue' = {}
    BY <1>1, <1>5 DEF HandoffOK
  <2>7. pc' \in [Thread -> ForegroundLabel \cup WorkerLabel \cup {"check"}]
    BY <1>2, <2>1, <2>2 DEF Thread
  <2>8. loc' \in [Thread -> Local]
    BY <1>2, <2>3
  <2> QED
    BY <2>1, <2>2, <2>4, <2>5, <2>6, <2>7, <2>8
    DEF HandoffOK, Thread, LnodeId, Version, Local, Level, InodeNum, Path
<1>6. CASE Shared(t) /\ UNCHANGED handoff
  <2>1. BarMoves(t) /\ UNCHANGED job_queue /\ Moves(t)
    BY <1>1, <1>6, SharedHold, SharedMoves
  <2> QED
    BY <1>3, <1>6, <2>1 DEF BarMoves, Moves, handoff
<1>7. CASE t \in Foreground /\ FillSlot(t) /\ UNCHANGED handoff
  <2>1. loc'[t] \in Local
    BY <1>1, <1>3, <1>7, FillBar
  <2>2. /\ pc[t] = "fill" /\ pc' = [pc EXCEPT ![t] = "flush"]
        /\ \E m : loc' = [loc EXCEPT ![t].meta = m]
        /\ UNCHANGED <<job_queue, jobs>>
    BY <1>7 DEF FillSlot, Goto, handoff
  <2>3. loc'[t].lp = loc[t].lp
    BY <1>1, <2>2 DEF Local
  <2>4. loc[t].lp < nleaf
    <3>1. A!HoldsLeaf(t) /\ locBar[t] = loc[t]
      BY <1>1, <1>7, <2>2, HoldsBar DEF HoldsLeaf
    <3> QED
      BY <1>1, <3>1, SameNames DEF A!LeafAllocated
  <2>5. \A u \in Thread \ {t} : pc'[u] = pc[u] /\ loc'[u] = loc[u]
    BY <1>1, <2>2
  <2>6. pc'[t] \in ForegroundLabel
    BY <1>1, <2>2 DEF ForegroundLabel
  <2>7. jobs' = jobs /\ job_queue' = job_queue
    BY <2>2
  <2> QED
    BY <1>4, <1>7, <2>1, <2>3, <2>4, <2>5, <2>6, <2>7
<1>8. CASE t \in Foreground /\ PushJobV2a(t)
  <2>1. /\ pc[t] = "flush" /\ pc' = [pc EXCEPT ![t] = "ret"]
        /\ UNCHANGED <<job_queue, loc>>
        /\ jobs' = jobs \cup JobV2a(t)
    BY <1>8 DEF PushJobV2a, Goto
  <2>2. loc[t].lp < nleaf
    BY <1>1, <2>1 DEF HandoffOK
  <2>3. pc'[t] = "ret" /\ \A u \in Thread \ {t} : pc'[u] = pc[u]
    BY <1>1, <2>1
  <2>4. ASSUME NEW job \in JobV2a(t)
        PROVE  job[1] \in LnodeId /\ job[1] < nleaf /\ job[2] \in Version
    <3>1. PICK l, v, m : l = loc[t].lp /\ v = loc[t].version /\ m = loc[t].meta
      OBVIOUS
    <3>2. job = <<l, v, m>>
      BY <2>4, <3>1 DEF JobV2a
    <3>3. job[1] = l /\ job[2] = v
      BY <3>2
    <3> QED
      BY <1>4, <2>2, <3>1, <3>3
  <2>5. pc'[t] \in ForegroundLabel /\ pc'[t] \notin {"flush", "lock"}
    BY <2>3 DEF ForegroundLabel
  <2>6. loc' = loc /\ job_queue' = job_queue
    BY <2>1
  <2>7. \A job \in jobs' : job \in jobs \/ job \in JobV2a(t)
    BY <2>1
  <2> QED
    BY <1>4, <1>8, <2>3, <2>4, <2>5, <2>6, <2>7
<1>9. CASE t \in Worker /\ PopJobV2a(t)
  <2>1. PICK job \in jobs :
          /\ jobs' = jobs \ {job}
          /\ loc' = [loc EXCEPT ![t].lp = job[1], ![t].version = job[2]]
    BY <1>9 DEF PopJobV2a
  <2>2. job[1] \in LnodeId /\ job[1] < nleaf /\ job[2] \in Version
    BY <1>1, <2>1 DEF HandoffOK
  <2>3. PICK l, v : l = job[1] /\ v = job[2]
    OBVIOUS
  <2>4. loc'[t] = [loc[t] EXCEPT !.lp = l, !.version = v]
    BY <1>1, <2>1, <2>3
  <2>5. loc'[t] \in Local /\ loc'[t].lp = l
    BY <1>4, <2>2, <2>3, <2>4 DEF Local
  <2>6. l \in Nat
    BY <2>2, <2>3, ConstantsOK DEF ConstantsOK, LnodeId
  <2>7. pc' = [pc EXCEPT ![t] = "lock"] /\ UNCHANGED job_queue
    BY <1>9 DEF PopJobV2a, Goto
  <2>8. /\ pc'[t] = "lock"
        /\ \A u \in Thread \ {t} : pc'[u] = pc[u] /\ loc'[u] = loc[u]
    BY <1>1, <2>1, <2>7
  <2>9. pc'[t] \in WorkerLabel
    BY <2>8 DEF WorkerLabel
  <2>10. job_queue' = job_queue /\ \A j \in jobs' : j \in jobs
    BY <2>1, <2>7
  <2> QED
    BY <1>4, <1>9, <2>2, <2>3, <2>5, <2>6, <2>8, <2>9, <2>10
<1>10. CASE t \in Worker /\ (CasLock(t) \/ CheckVersion(t))
  <2>1. PICK label \in {"check", "pop", "copy"} : pc' = [pc EXCEPT ![t] = label]
    BY <1>10 DEF CasLock, CheckVersion, Goto
  <2>2. pc'[t] = label
    BY <1>1, <2>1
  <2>3. /\ loc' = loc \/ (loc' = [loc EXCEPT ![t] = NoLocal] /\ label = "pop")
        /\ UNCHANGED <<job_queue, jobs>>
    BY <1>1, <1>10, <2>1, <2>2 DEF CasLock, CheckVersion, Goto, handoff
  <2>4. loc'[t] \in Local
    <3>1. CASE loc' = loc
      BY <1>4, <3>1
    <3>2. CASE loc' = [loc EXCEPT ![t] = NoLocal] /\ label = "pop"
      <4>1. locBar'[t] = NoLocal /\ loc'[t] = NoLocal
        BY <1>1, <2>2, <3>2, BarIsNext
      <4> QED
        BY <1>3, <4>1
    <3> QED
      BY <2>3, <3>1, <3>2
  <2>5. \A u \in Thread \ {t} : pc'[u] = pc[u] /\ loc'[u] = loc[u]
    BY <1>1, <2>1, <2>3
  <2>6. /\ pc'[t] \in WorkerLabel \cup {"check"}
        /\ pc'[t] \notin {"flush", "lock"}
    BY <2>2 DEF WorkerLabel
  <2>7. jobs' = jobs /\ job_queue' = job_queue
    BY <2>3
  <2> QED
    BY <1>4, <1>10, <2>4, <2>5, <2>6, <2>7
<1> QED
  BY <1>6, <1>7, <1>8, <1>9, <1>10 DEF OwnStep

LEMMA V2aInvNext ==
  ASSUME LEAF_KEY_NUM >= 4, V2aInv, [NextV2a]_varsV2a
  PROVE  V2aInv'
<1>1. A!IndInv' /\ A!Rooted' /\ A!OrderInv' /\ A!RoomInv'
  BY BarInvNext
<1>2. HandoffOK'
  <2>1. CASE UNCHANGED varsV2a
    BY <2>1
    DEF varsV2a, vars, V2aInv, HandoffOK
  <2>2. CASE NextV2a
    <3>1. PICK t \in Thread : OwnStep(t) \/ (Shared(t) /\ UNCHANGED handoff)
      BY <2>2, V2aCases
    <3> QED
      BY <1>1, <3>1, HandoffNext
  <2> QED
    BY <2>1, <2>2
<1> QED
  BY <1>1, <1>2 DEF V2aInv

LEMMA V2aInit ==
  ASSUME InitV2a
  PROVE  A!Init /\ V2aInv
<1>1. Init /\ jobs = {}
  BY DEF InitV2a
<1>2. /\ pc = [t \in Thread |-> IF t \in Foreground THEN "idle" ELSE "pop"]
      /\ loc = [t \in Thread |-> NoLocal] /\ job_queue = {}
  BY <1>1 DEF Init
<1>3. pcBar = pc /\ locBar = loc
  BY <1>2 DEF pcBar, locBar
<1>4. A!Init
  BY <1>1, <1>3, SameNames DEF Init, A!Init, A!first_lnode, first_lnode
<1>5. A!IndInv /\ A!Rooted /\ A!OrderInv /\ A!RoomInv
  BY <1>4, A!InvInit, A!RootedInit, A!OrderInit, A!RoomInit, ConstantsOK, SameSize
<1>6. HandoffOK
  <2>1. loc \in [Thread -> Local]
    BY <1>3, <1>5, SameNames DEF A!IndInv, A!TypeOK, A!ThreadTypeOK
  <2>2. /\ pc \in [Thread -> ForegroundLabel \cup WorkerLabel]
        /\ \A t \in Foreground : pc[t] \in ForegroundLabel
        /\ \A w \in Worker : pc[w] \in WorkerLabel
    BY <1>3, <1>5, SameNames DEF A!IndInv, A!TypeOK, A!ThreadTypeOK
  <2>3. \A t \in Thread : pc[t] \notin {"flush", "lock"}
    BY <1>2
  <2> QED
    BY <1>1, <1>2, <2>1, <2>2, <2>3 DEF HandoffOK
<1> QED
  BY <1>4, <1>5, <1>6 DEF V2aInv

-----------------------------------------------------------------------------
(* What follows.                                                           *)

\* The mapped state always satisfies the invariant of SobTree, and what
\* SobTreeV2a adds to the state is right: a job names an allocated leaf.
THEOREM V2aInvHolds ==
  ASSUME LEAF_KEY_NUM >= 4
  PROVE  SpecV2a => []V2aInv
<1>1. InitV2a => V2aInv
  BY V2aInit
<1>2. V2aInv /\ [NextV2a]_varsV2a => V2aInv'
  BY V2aInvNext
<1> QED
  BY <1>1, <1>2, PTL DEF SpecV2a

\* The free choice of a leaf is all that the index sees of a job: with at least
\* four slots to a leaf (the code has fourteen), every behaviour of
\* sobtree_v2a.h, its compare-and-swap (sobtree_v2a.h:1221) followed by the
\* check of the version included, is one of SpecAny.
THEOREM V2aRefines ==
  ASSUME LEAF_KEY_NUM >= 4
  PROVE  SpecV2a => A!SpecAny
<1>1. InitV2a => A!Init
  BY V2aInit
<1>2. V2aInv /\ [NextV2a]_varsV2a => [A!NextAny]_(A!vars)
  BY V2aBar
<1> QED
  BY <1>1, <1>2, V2aInvHolds, PTL DEF SpecV2a, A!SpecAny

\* A leaf's lock bit is set exactly while one thread works on it, also while a
\* worker that won the compare-and-swap has still to look at the version.
THEOREM V2aLeafLocks ==
  ASSUME LEAF_KEY_NUM >= 4
  PROVE  SpecV2a => []LeafLockOwner
<1>1. ASSUME V2aInv PROVE LeafLockOwner
  <2>1. HandoffOK /\ A!LeafLockOwner
    BY <1>1 DEF V2aInv, A!IndInv, A!LeafInv
  <2>2. \A t \in Thread : HoldsLeaf(t) /\ pc[t] # "addleft" => meta[loc[t].lp].lock
    BY <2>1, HoldsBar, SameNames DEF A!LeafLockOwner
  <2>3. \A t, u \in Thread :
          t # u /\ HoldsLeaf(t) /\ HoldsLeaf(u) => loc[t].lp # loc[u].lp
    BY <2>1, AloneBar
  <2>4. \A l \in LnodeId :
          meta[l].lock => \E t \in Thread : HoldsLeaf(t) /\ loc[t].lp = l
    BY <2>1, HoldsBar, SameNames DEF A!LeafLockOwner
  <2> QED
    BY <2>2, <2>3, <2>4 DEF LeafLockOwner
<1> QED
  BY <1>1, V2aInvHolds, PTL

\* A leaf is split only when it is full, whatever has happened to it since its
\* job was pushed, and however often its version has come round.
THEOREM V2aFullLeaf ==
  ASSUME LEAF_KEY_NUM >= 4
  PROVE  SpecV2a => []SplitsFullLeaf
<1>1. ASSUME V2aInv, NEW t \in Thread, pc[t] = "build" PROVE isFull(loc[t].lp)
  <2>1. pcBar[t] = "build" /\ locBar[t] = loc[t]
    BY <1>1, BarIs DEF Between
  <2>2. A!isFull(locBar[t].lp)
    BY <1>1, <2>1, SameNames DEF V2aInv, A!IndInv, A!LeafInv, A!LeafKnown
  <2> QED
    BY <2>1, <2>2, SameLeaves
<1>2. V2aInv => SplitsFullLeaf
  BY <1>1 DEF SplitsFullLeaf
<1> QED
  BY <1>2, V2aInvHolds, PTL

\* What the clients see, here and there.
SameClients ==
  /\ A!Store = Store
  /\ \A t \in Foreground : A!OpOf(t) = OpOf(t)

LEMMA ClientsSame ==
  ASSUME HandoffOK
  PROVE  SameClients
<1>1. \A t \in Thread : /\ pcBar[t] = "publish" <=> pc[t] = "publish"
                        /\ pc[t] = "publish" => locBar[t] = loc[t]
  BY DEF pcBar, locBar
<1>2. A!Private = Private
  BY <1>1, SameNames DEF A!Private, Private
<1>3. A!Store = Store
  BY <1>2 DEF A!Store, Store, A!Published, Published
<1>4. ASSUME NEW t \in Foreground PROVE A!OpOf(t) = OpOf(t)
  <2>1. t \in Thread /\ pc[t] \notin {"pop", "lock", "check"}
    BY Locals DEF Thread
  <2>2. CASE pc[t] = "flush"
    BY <2>1, <2>2, BarIs DEF A!OpOf, OpOf, A!OpKind, OpKind
  <2>3. CASE pc[t] # "flush"
    BY <2>1, <2>3, BarIs DEF A!OpOf, OpOf, A!OpKind, OpKind, Between
  <2> QED
    BY <2>2, <2>3
<1> QED
  BY <1>3, <1>4 DEF SameClients

\* Every insert of the clients appears to happen, and every search to look for
\* its key, at one instant between its call and its return, whatever workers
\* take their leaves by compare-and-swap (sobtree_v2a.h:1221), and with no
\* assumption on how soon the versions come round.  The value read at line 689
\* is no part of the promise.
THEOREM V2aLinearizable ==
  ASSUME LEAF_KEY_NUM >= 4
  PROVE  SpecV2a => Linearizable
<1>1. ASSUME InitV2a PROVE KV!KVInit
  <2>1. A!KV!KVInit /\ SameClients
    BY <1>1, V2aInit, A!KVStart, ClientsSame, ConstantsOK, SameSize DEF V2aInv
  <2> QED
    BY <2>1 DEF SameClients, KV!KVInit, A!KV!KVInit, KV!NoOp, A!KV!NoOp
<1>2. V2aInv => SameClients
  BY ClientsSame DEF V2aInv
<1>3. ASSUME V2aInv, V2aInv', SameClients, SameClients', [A!NextAny]_(A!vars)
      PROVE  [KV!KVNext]_(KV!kvars)
  <2>1. [A!KV!KVNext]_(A!KV!kvars)
    BY <1>3, A!KVNextAny, ConstantsOK, SameSize DEF V2aInv
  <2>2. PICK s, f, r, g :
          /\ s = Store /\ s = A!Store /\ r = Store' /\ r = A!Store'
          /\ f = [t \in Foreground |-> OpOf(t)]
          /\ f = [t \in Foreground |-> A!OpOf(t)]
          /\ g = [t \in Foreground |-> OpOf(t)]'
          /\ g = [t \in Foreground |-> A!OpOf(t)]'
    BY <1>3 DEF SameClients
  <2>3. CASE UNCHANGED A!KV!kvars
    BY <2>2, <2>3 DEF A!KV!kvars, KV!kvars
  <2>4. ASSUME NEW c \in Foreground, A!KV!KVCall(c) PROVE KV!KVCall(c)
    <3>1. /\ f[c] = [kind |-> "idle"] /\ r = s
          /\ \E k \in Work[c], kind \in {"insert", "search"} :
               g = [f EXCEPT ![c] = [kind |-> kind, key |-> k]]
      BY <2>2, <2>4 DEF A!KV!KVCall, A!KV!NoOp
    <3> QED
      BY <2>2, <3>1 DEF KV!KVCall, KV!NoOp
  <2>5. ASSUME NEW c \in Foreground, A!KV!KVInsert(c) PROVE KV!KVInsert(c)
    <3>1. /\ f[c].kind = "insert" /\ r = s \cup {f[c].key}
          /\ g = [f EXCEPT ![c] = [kind |-> "inserted", key |-> f[c].key]]
      BY <2>2, <2>5 DEF A!KV!KVInsert, A!KV!Become
    <3> QED
      BY <2>2, <3>1 DEF KV!KVInsert, KV!Become
  <2>6. ASSUME NEW c \in Foreground, A!KV!KVSearch(c) PROVE KV!KVSearch(c)
    <3>1. /\ f[c].kind = "search" /\ r = s
          /\ g = [f EXCEPT ![c] =
                   [kind |-> IF f[c].key \in s THEN "reading" ELSE "missing",
                    key |-> f[c].key]]
      BY <2>2, <2>6 DEF A!KV!KVSearch, A!KV!Become
    <3> QED
      BY <2>2, <3>1 DEF KV!KVSearch, KV!Become
  <2>8. ASSUME NEW c \in Foreground, A!KV!KVRead(c) PROVE KV!KVRead(c)
    <3>1. /\ f[c].kind = "reading" /\ r = s
          /\ \E kind \in {"found", "other"} :
               g = [f EXCEPT ![c] = [kind |-> kind, key |-> f[c].key]]
      BY <2>2, <2>8 DEF A!KV!KVRead, A!KV!Become
    <3> QED
      BY <2>2, <3>1 DEF KV!KVRead, KV!Become
  <2>7. ASSUME NEW c \in Foreground, A!KV!KVReturn(c) PROVE KV!KVReturn(c)
    <3>1. /\ f[c].kind \in {"inserted", "found", "other", "missing"} /\ r = s
          /\ g = [f EXCEPT ![c] = [kind |-> "idle"]]
      BY <2>2, <2>7 DEF A!KV!KVReturn, A!KV!NoOp
    <3> QED
      BY <2>2, <3>1 DEF KV!KVReturn, KV!NoOp
  <2> QED
    BY <2>1, <2>3, <2>4, <2>5, <2>6, <2>7, <2>8 DEF KV!KVNext, A!KV!KVNext
<1> QED
  BY <1>1, <1>2, <1>3, V2aInvHolds, V2aRefines, PTL
  DEF SpecV2a, A!SpecAny, Linearizable, KV!KVSpec

-----------------------------------------------------------------------------
(* The search layer and the chain.                                         *)

LEMMA HeldSame ==
  ASSUME HandoffOK, NEW t \in Thread
  PROVE  A!HeldInodes(t) = HeldInodes(t)
<1>1. t \in Foreground => pc[t] \notin {"pop", "lock", "check"}
  BY Locals
<1>2. \A path : A!Locked(path) = Locked(path)
  BY DEF A!Locked, Locked
<1>3. CASE pc[t] \notin Between
  BY <1>2, <1>3, BarIs, SameLeaves DEF A!HeldInodes, HeldInodes
<1>4. CASE pc[t] \in Between
  <2>1. HeldInodes(t) = {}
    BY <1>4 DEF HeldInodes, Between
  <2>2. /\ pcBar[t] \in {"pop", "ret", "copy", "unlock"}
        /\ pcBar[t] = "copy" => t \notin Foreground
    BY <1>1, <1>4, BarIs DEF Between
  <2>3. A!HeldInodes(t) = {}
    BY <2>2 DEF A!HeldInodes
  <2> QED
    BY <2>1, <2>3
<1> QED
  BY <1>3, <1>4

\* Whoever is on its way up with a new node is so here and there.
LEMMA SameSplits ==
  ASSUME NEW t \in Thread
  PROVE  /\ pc[t] \notin Between =>
              A!Here(t) = Here(t) /\ A!MergedK(t) = MergedK(t)
         /\ pc[t] = "inode" => locBar[t] = loc[t] /\ A!SplitNode(t) = SplitNode(t)
         /\ pcBar[t] = "inode" <=> pc[t] = "inode"
         /\ pcBar[t] = "publish" <=> pc[t] = "publish"
         /\ pcBar[t] \in {"addleft", "locate", "level"} <=>
              pc[t] \in {"addleft", "locate", "level"}
         /\ pc[t] \in {"inode", "publish", "addleft", "locate", "level"} =>
              locBar[t] = loc[t]
<1>1. pc[t] \notin Between => pcBar[t] = pc[t] /\ locBar[t] = loc[t]
  BY BarIs
<1>2. pc[t] \in Between => pcBar[t] \in {"pop", "ret", "copy", "unlock"}
  BY BarIs DEF Between
<1>3. pc[t] \notin Between => A!Here(t) = Here(t) /\ A!MergedK(t) = MergedK(t)
  BY <1>1, SameMerge
<1>4. pc[t] = "inode" => A!SplitNode(t) = SplitNode(t)
  BY <1>1 DEF A!SplitNode, SplitNode, Between
<1> QED
  BY <1>1, <1>2, <1>3, <1>4 DEF Between

LEMMA StructureSame ==
  ASSUME HandoffOK, A!InodeLockOwner, A!RootAgrees, A!PathStillRight,
         A!ChainSorted, A!OneParent
  PROVE  InodeLockOwner /\ RootAgrees /\ PathStillRight /\ ChainSorted /\ OneParent
<1>1. InodeLockOwner
  BY HeldSame, SameNames DEF A!InodeLockOwner, InodeLockOwner
<1>2. RootAgrees
  BY DEF A!RootAgrees, RootAgrees
<1>3. PathStillRight
  <2> SUFFICES ASSUME NEW t \in Thread, pc[t] = "inode"
               PROVE  /\ ent[Here(t)].ch[loc[t].path.ppos[loc[t].lev] + 1] =
                           SplitNode(t)
                      /\ Increasing(MergedK(t))
    BY DEF PathStillRight
  <2>1. /\ pcBar[t] = "inode" /\ locBar[t] = loc[t] /\ A!Here(t) = Here(t)
        /\ A!MergedK(t) = MergedK(t) /\ A!SplitNode(t) = SplitNode(t)
    BY SameSplits DEF Between
  <2>2. A!Increasing(MergedK(t)) <=> Increasing(MergedK(t))
    BY DEF A!Increasing, Increasing
  <2> QED
    BY <2>1, <2>2, SameNames, SMTT(30) DEF A!PathStillRight
<1>4. /\ A!Private = Private /\ A!Published = Published
  BY SameSplits, SameNames DEF A!Private, Private, A!Published, Published
<1>5. \A l : A!nextSibling(l) = nextSibling(l)
  BY DEF A!nextSibling, nextSibling
<1>6. ChainSorted
  BY <1>4, <1>5, SameNames, SameSize
  DEF A!ChainSorted, ChainSorted, A!first_lnode, first_lnode
<1>7. A!Awaiting = Awaiting
  <2>1. \A t \in Thread :
          /\ \/ pcBar[t] \in {"addleft", "locate", "level"}
             \/ pcBar[t] = "inode" /\ locBar[t].lev = 0
          <=> \/ pc[t] \in {"addleft", "locate", "level"}
              \/ pc[t] = "inode" /\ loc[t].lev = 0
    BY SameSplits
  <2>2. \A t \in Thread :
          \/ pc[t] \in {"addleft", "locate", "level"}
          \/ pc[t] = "inode" /\ loc[t].lev = 0
          => locBar[t] = loc[t]
    BY SameSplits
  <2> QED
    BY <2>1, <2>2, SameNames DEF A!Awaiting, Awaiting
<1>8. OneParent
  BY <1>4, <1>7, SameNames, SameSize DEF A!OneParent, OneParent
<1> QED
  BY <1>1, <1>2, <1>3, <1>6, <1>8

\* The tree that the splits of sobtree_v2a.h build is as sound as that of
\* sobtree_v2.h: no inode lock is left or stolen, the root has its level, a
\* recorded position is still right when it is used, the chain is sorted, and
\* every linked leaf hangs from one place.
THEOREM V2aTreeSound ==
  ASSUME LEAF_KEY_NUM >= 4
  PROVE  SpecV2a => [](/\ InodeLockOwner /\ RootAgrees /\ PathStillRight
                       /\ ChainSorted /\ OneParent)
<1>1. ASSUME V2aInv
      PROVE  InodeLockOwner /\ RootAgrees /\ PathStillRight /\ ChainSorted /\ OneParent
  <2>1. HandoffOK /\ A!IndInv /\ A!Rooted /\ A!OrderInv
    BY <1>1 DEF V2aInv
  <2>2. A!InodeLockOwner /\ A!RootAgrees
    BY <2>1, A!InodeLocksProperty, A!RootProperty, ConstantsOK, SameSize
  <2>3. A!ChainSorted
    BY <2>1, A!ChainProperty, ConstantsOK, SameSize
  <2>4. A!OneParent
    BY <2>1, A!ParentProperty, ConstantsOK, SameSize
  <2>5. \A t \in A!Thread : pcBar[t] = "inode" =>
          /\ ent[A!Here(t)].ch[locBar[t].path.ppos[locBar[t].lev] + 1] =
               A!SplitNode(t)
          /\ A!Increasing(A!MergedK(t))
    BY <2>1, A!PathProperty, ConstantsOK, SameSize, SMTT(30)
  <2> QED
    BY <2>1, <2>2, <2>3, <2>4, <2>5, StructureSame DEF A!PathStillRight
<1> QED
  BY <1>1, V2aInvHolds, PTL
=============================================================================
