--------------------------- MODULE SobTreeProofs ---------------------------
(* Lemmas about the operators the actions of SobTree are built from; every *)
(* action keeps TypeOK; and each keeps each part of IndInv, for every      *)
(* value of the constants, as long as no job is stale (NoStaleJob).        *)
EXTENDS SobTreeHandoff, FiniteSetTheorems, SequenceTheorems,
        WellFoundedInduction, TLAPS

-----------------------------------------------------------------------------
(* The operators the actions are built from.                               *)

\* The constants in the form the provers need.
LEMMA Constants ==
  /\ LEAF_KEY_NUM \in Nat /\ NON_LEAF_KEY_NUM \in Nat /\ NON_LEAF_KEY_NUM >= 2
  /\ LEFT_KEY_NUM \in Nat /\ LEFT_KEY_NUM >= 1 /\ LEFT_KEY_NUM < NON_LEAF_KEY_NUM
  /\ VersionMod \in Nat /\ VersionMod >= 1
  /\ MaxLeaf \in Nat /\ MaxLeaf >= 1
  /\ MaxInode \in Nat /\ MaxInode >= 1
  /\ MaxLevel \in Nat
  /\ Key \subseteq Int /\ Key # {} /\ SomeKey \in Key
  /\ Foreground \cap Worker = {}
BY ConstantsOK DEF ConstantsOK, LEFT_KEY_NUM, SomeKey

\* r is s, a sequence over S, with e inserted at i.
Inserted(r, S, s, i, e) ==
  /\ r \in Seq(S)
  /\ Len(r) = Len(s) + 1
  /\ \A j \in 1..(Len(s) + 1) :
       /\ j < i => r[j] = s[j]
       /\ j = i => r[j] = e
       /\ j > i => r[j] = s[j - 1]

\* InsertAt makes a sequence one element longer, and moves what is right of
\* the new element.
LEMMA InsertAtType ==
  ASSUME NEW S, NEW s \in Seq(S), NEW i \in 1..(Len(s) + 1), NEW e \in S
  PROVE  Inserted(InsertAt(s, i, e), S, s, i, e)
<1>1. Len(s) \in Nat /\ \A j \in 1..Len(s) : s[j] \in S
  BY LenProperties
<1> DEFINE a == SubSeq(s, 1, i - 1)
           b == SubSeq(s, i, Len(s))
<1>2. /\ a \in Seq(S) /\ Len(a) = i - 1
      /\ \A j \in 1..(i - 1) : a[j] = s[j]
  BY <1>1, SubSeqProperties
<1>3. /\ b \in Seq(S) /\ Len(b) = Len(s) + 1 - i
      /\ \A j \in 1..(Len(s) + 1 - i) : b[j] = s[i + j - 1]
  BY <1>1, SubSeqProperties
<1>4. <<e>> \in Seq(S) /\ Len(<<e>>) = 1 /\ <<e>>[1] = e
  OBVIOUS
<1> DEFINE ae == a \o <<e>>
<1> HIDE DEF a, b
<1>5. /\ ae \in Seq(S) /\ Len(ae) = i
      /\ \A j \in 1..i : ae[j] = IF j < i THEN s[j] ELSE e
  <2>1. /\ ae \in Seq(S) /\ Len(ae) = Len(a) + 1
        /\ \A j \in 1..(Len(a) + 1) :
             ae[j] = IF j <= Len(a) THEN a[j] ELSE <<e>>[j - Len(a)]
    BY <1>2, <1>4, ConcatProperties
  <2> HIDE DEF ae
  <2> QED
    BY <2>1, <1>2, <1>4
<1> HIDE DEF ae
<1>6. /\ ae \o b \in Seq(S) /\ Len(ae \o b) = Len(ae) + Len(b)
      /\ \A j \in 1..(Len(ae) + Len(b)) :
           (ae \o b)[j] = IF j <= Len(ae) THEN ae[j] ELSE b[j - Len(ae)]
  BY <1>3, <1>5, ConcatProperties
<1>7. InsertAt(s, i, e) = ae \o b
  BY DEF InsertAt, ae, a, b
<1> QED
  BY <1>1, <1>3, <1>5, <1>6, <1>7 DEF Inserted

\* A child position is one of the inode's.
LEMMA ChildPosType ==
  ASSUME TypeOK, NEW n \in Inode, NEW key \in Key
  PROVE  /\ num(n) \in Nat /\ num(n) <= NON_LEAF_KEY_NUM
         /\ ChildPos(n, key) \in 0..num(n)
         /\ Child(n, key) \in ChildId(n[1])
<1> DEFINE B == {b \in 1..num(n) : ent[n].k[b] <= key}
<1>1. ent[n] \in [k : Seq(Key), ch : Seq(ChildId(n[1]))]
      /\ Len(ent[n].ch) = num(n) + 1
      /\ num(n) \in Nat /\ num(n) <= NON_LEAF_KEY_NUM
  BY LenProperties DEF TypeOK, SearchTypeOK, num
<1>2. IsFiniteSet(1..num(n)) /\ Cardinality(1..num(n)) = num(n)
  BY <1>1, FS_Interval
<1>3. IsFiniteSet(B) /\ Cardinality(B) <= num(n)
  BY <1>2, FS_Subset
<1>4. Cardinality(B) \in Nat
  BY <1>3, FS_CardinalityType
<1>5. ChildPos(n, key) \in 0..num(n)
  BY <1>1, <1>3, <1>4 DEF ChildPos
<1>6. ent[n].ch[ChildPos(n, key) + 1] \in ChildId(n[1])
  BY <1>1, <1>5, ElementOfSeq
<1> QED
  BY <1>1, <1>5, <1>6 DEF Child

-----------------------------------------------------------------------------
(* Type correctness.                                                       *)

\* A step that moves one thread, with locals of their type, keeps the types
\* of all threads.
LEMMA ThreadStep ==
  ASSUME ThreadTypeOK, NEW t \in Thread, NEW label, NEW r \in Local,
         pc' = [pc EXCEPT ![t] = label],
         loc' = [loc EXCEPT ![t] = r],
         t \in Foreground => label \in ForegroundLabel,
         t \in Worker => label \in WorkerLabel,
         PtrTypeOK(t)'
  PROVE  ThreadTypeOK'
<1>1. pc' \in [Thread -> ForegroundLabel \cup WorkerLabel]
  BY DEF ThreadTypeOK, Thread
<1>2. \A u \in Foreground : pc'[u] \in ForegroundLabel
  BY DEF ThreadTypeOK, Thread
<1>3. \A w \in Worker : pc'[w] \in WorkerLabel
  BY DEF ThreadTypeOK, Thread
<1>4. loc' \in [Thread -> Local]
  BY DEF ThreadTypeOK
<1>5. ASSUME NEW u \in Thread PROVE PtrTypeOK(u)'
  <2>1. CASE u = t
    BY <2>1
  <2>2. CASE u # t
    <3>1. pc'[u] = pc[u] /\ loc'[u] = loc[u]
      BY <2>2 DEF ThreadTypeOK
    <3>2. PtrTypeOK(u)
      BY DEF ThreadTypeOK
    <3> QED
      BY <3>1, <3>2 DEF PtrTypeOK
  <2> QED
    BY <2>1, <2>2
<1> QED
  BY <1>1, <1>2, <1>3, <1>4, <1>5 DEF ThreadTypeOK

\* The locals of a thread, one field at a time.
LEMMA LocalFields ==
  ASSUME TypeOK, NEW t \in Thread
  PROVE  /\ loc[t] \in Local
         /\ loc[t].key \in Key /\ loc[t].sep \in Key
         /\ loc[t].lp \in LnodeId /\ loc[t].meta \in LnodeMeta
         /\ loc[t].version \in Version /\ loc[t].ptr \in Nat
         /\ loc[t].path \in Path /\ loc[t].lev \in 0..(MaxLevel + 1)
         /\ loc[t].total \in Level /\ loc[t].old_root \in InodeNum
         /\ PtrTypeOK(t)
BY DEF TypeOK, ThreadTypeOK, Local

\* The locals a thread has outside a call.
LEMMA NoLocalType == NoLocal \in Local
<1>1. NoPath \in Path
  BY Constants DEF NoPath, Path, Level, InodeNum
<1>2. NoMeta \in LnodeMeta
  BY DEF NoMeta, LnodeMeta
<1> QED
  BY <1>1, <1>2, Constants
  DEF NoLocal, Local, LnodeId, Version, Level, InodeNum

LEMMA TypeInit == Init => TypeOK
<1> SUFFICES ASSUME Init PROVE TypeOK
  OBVIOUS
<1>1. SearchTypeOK
  <2>1. <<0, 0>> \in Inode /\ 0 \in Level
    BY Constants DEF Inode, Level, InodeNum
  <2>2. ASSUME NEW n \in Inode
        PROVE  /\ ent[n] \in [k : Seq(Key), ch : Seq(ChildId(n[1]))]
               /\ Len(ent[n].ch) = Len(ent[n].k) + 1
               /\ Len(ent[n].k) <= NON_LEAF_KEY_NUM
    <3>1. ent[n] = [k |-> <<>>, ch |-> <<0>>]
      BY DEF Init, first_lnode
    <3>2. 0 \in ChildId(n[1])
      BY Constants DEF ChildId, LnodeId, InodeNum
    <3> QED
      BY <3>1, <3>2, Constants
  <2> QED
    BY <2>1, <2>2, Constants DEF Init, SearchTypeOK
<1>2. LeafTypeOK
  BY Constants DEF Init, LeafTypeOK, NoMeta, LnodeMeta, Version, Null
<1>3. ThreadTypeOK
  BY NoLocalType, Constants
  DEF Init, ThreadTypeOK, PtrTypeOK, Thread, ForegroundLabel, WorkerLabel
<1> QED
  BY <1>1, <1>2, <1>3 DEF TypeOK

\* Where a committed transaction went: a path of inodes to a leaf.
LEMMA DescentType ==
  ASSUME TypeOK, NEW key \in Key, NEW p \in Descents(key)
  PROVE  /\ \A i \in 0..root_level : <<i, p[i]>> \in Inode
         /\ LeafFor(p, key) \in LnodeId
         /\ PathTaken(p, key) \in Path
<1> USE Constants
<1>1. root_level \in Level /\ root_level \in Nat
      /\ p \in [0..root_level -> InodeNum]
  BY DEF TypeOK, SearchTypeOK, Level, Descents
<1>2. \A i \in 0..root_level : i \in Level /\ <<i, p[i]>> \in Inode
  BY <1>1 DEF Level, Inode
<1>3. LeafFor(p, key) \in LnodeId
  BY <1>1, <1>2, ChildPosType DEF LeafFor, ChildId
<1>4. ASSUME NEW i \in 0..root_level
      PROVE  ChildPos(<<i, p[i]>>, key) \in 0..NON_LEAF_KEY_NUM
  BY <1>2, ChildPosType
<1>5. PathTaken(p, key) \in Path
  BY <1>1, <1>2, <1>4 DEF PathTaken, Path, Level, InodeNum
<1> QED
  BY <1>2, <1>3, <1>5

\* A descent only meets allocated nodes.  (Induction down the levels, by a
\* least counterexample.)
LEMMA DescentAllocated ==
  ASSUME TypeOK, Linked, NEW key \in Key, NEW p \in Descents(key)
  PROVE  /\ \A i \in 0..root_level : p[i] < ninode[i]
         /\ LeafFor(p, key) < nleaf
<1>1. /\ root_level \in Nat /\ 0..root_level \subseteq Level
      /\ p \in [0..root_level -> InodeNum] /\ IsDescent(p, key)
  BY Constants, SMTT(30) DEF TypeOK, SearchTypeOK, Level, Descents
<1>2. ASSUME NEW i \in 0..root_level, p[i] < ninode[i]
      PROVE  Child(<<i, p[i]>>, key) <
               IF i = 0 THEN nleaf ELSE ninode[i - 1]
  <2>1. <<i, p[i]>> \in Inode /\ i \in Level /\ p[i] \in InodeNum
    BY <1>1 DEF Inode
  <2>2. ent[<<i, p[i]>>].ch \in Seq(ChildId(i))
        /\ Len(ent[<<i, p[i]>>].ch) = num(<<i, p[i]>>) + 1
    BY <2>1 DEF TypeOK, SearchTypeOK, num
  <2>3. ChildPos(<<i, p[i]>>, key) + 1 \in DOMAIN ent[<<i, p[i]>>].ch
    BY <2>1, <2>2, ChildPosType, LenProperties
  <2> QED
    BY <1>2, <2>1, <2>3 DEF Linked, Child
<1> DEFINE T == {d \in Nat : d <= root_level
                              /\ ~(p[root_level - d] < ninode[root_level - d])}
<1>3. T = {}
  <2> SUFFICES ASSUME T # {} PROVE FALSE
    OBVIOUS
  <2>1. PICK d \in T : \A e \in T : ~(<<e, d>> \in OpToRel(<, Nat))
    BY NatLessThanWellFounded, WFMin
  <2>2. \A e \in T : ~(e < d)
    BY <2>1 DEF OpToRel
  <2>3. d # 0
    <3>1. p[root_level] < ninode[root_level]
      BY <1>1 DEF IsDescent, Linked
    <3> QED
      BY <1>1, <3>1
  <2>4. d - 1 \in Nat /\ d - 1 \notin T /\ d - 1 < d
    BY <2>2, <2>3
  <2> DEFINE i == root_level - (d - 1)
  <2>5. i \in 1..root_level /\ p[i] < ninode[i] /\ i - 1 = root_level - d
    BY <1>1, <2>3, <2>4
  <2>6. p[i - 1] < ninode[i - 1]
    <3> HIDE DEF i
    <3>1. p[i - 1] = Child(<<i, p[i]>>, key) /\ i \in 0..root_level /\ i # 0
      BY <1>1, <2>5 DEF IsDescent
    <3>2. Child(<<i, p[i]>>, key) < IF i = 0 THEN nleaf ELSE ninode[i - 1]
      BY <1>2, <2>5, <3>1
    <3> QED
      BY <3>1, <3>2
  <2> QED
    BY <2>5, <2>6
<1>4. ASSUME NEW i \in 0..root_level PROVE p[i] < ninode[i]
  <2>1. root_level - i \in Nat /\ root_level - i <= root_level
        /\ root_level - (root_level - i) = i
    BY <1>1
  <2> QED
    BY <1>3, <2>1
<1>5. LeafFor(p, key) < nleaf
  BY <1>1, <1>2, <1>4 DEF LeafFor
<1> QED
  BY <1>4, <1>5

\* Setting lock bits keeps them lock bits.
LEMMA LockType ==
  ASSUME SearchTypeOK, NEW path, LockInodes(path)
  PROVE  ilock' \in [Inode -> BOOLEAN]
BY DEF LockInodes, SearchTypeOK

LEMMA TypeCall ==
  ASSUME TypeOK, NEW t \in Foreground, Call(t) PROVE TypeOK'
<1>1. PICK k \in Work[t], label \in {"find", "search"} :
        loc' = [loc EXCEPT ![t].key = k] /\ pc' = [pc EXCEPT ![t] = label]
  BY DEF Call, Goto
<1>2. k \in Key
  BY ConstantsOK DEF ConstantsOK
<1>3. t \in Thread /\ t \notin Worker
  BY Constants DEF Thread
<1> DEFINE r == [loc[t] EXCEPT !.key = k]
<1>4. r \in Local /\ loc' = [loc EXCEPT ![t] = r]
  BY <1>1, <1>2, <1>3, LocalFields DEF Local
<1>5. PtrTypeOK(t)'
  BY <1>1, <1>3 DEF PtrTypeOK, TypeOK, ThreadTypeOK
<1>6. ThreadTypeOK'
  BY <1>1, <1>3, <1>4, <1>5, ThreadStep DEF TypeOK, ForegroundLabel
<1> QED
  BY <1>6 DEF TypeOK, Call, SearchTypeOK, LeafTypeOK, search_layer, leaf_layer

\* A search keeps its key, whatever its other locals become.
LEMMA SearchLocal ==
  ASSUME TypeOK, NEW t \in Foreground, SearchLnode(t) \/ ReadCh(t)
  PROVE  \E r \in Local : /\ loc' = [loc EXCEPT ![t] = r]
                          /\ r.key = loc[t].key
<1>1. t \in Thread
  BY DEF Thread
<1>2. CASE SearchLnode(t)
  <2>1. PICK p \in Descents(loc[t].key) :
          LET l == LeafFor(p, loc[t].key) IN
          /\ ~meta[l].lock
          /\ Goto(t, SearchResult(loc[t].key, l))
          /\ IF loc[t].key \in meta[l].bitmap
               THEN loc' = [loc EXCEPT ![t].lp = l, ![t].meta = meta[l],
                                       ![t].ptr = nleaf]
               ELSE UNCHANGED loc
    BY <1>2, Zenon DEF SearchLnode
  <2> DEFINE l == LeafFor(p, loc[t].key)
             r == [loc[t] EXCEPT !.lp = l, !.meta = meta[l], !.ptr = nleaf]
  <2>2. l \in LnodeId
    BY <1>1, LocalFields, DescentType
  <2>3. meta[l] \in LnodeMeta /\ nleaf \in Nat
    BY <2>2, Constants DEF TypeOK, LeafTypeOK
  <2>4. r \in Local /\ r.key = loc[t].key
    BY <1>1, <2>2, <2>3, LocalFields DEF Local
  <2>5. \/ loc' = [loc EXCEPT ![t] = r]
        \/ loc' = [loc EXCEPT ![t] = loc[t]]
    BY <1>1, <2>1 DEF TypeOK, ThreadTypeOK
  <2> QED
    BY <1>1, <2>4, <2>5, LocalFields
<1>3. CASE ReadCh(t)
  <2> DEFINE r == [NoLocal EXCEPT !.key = loc[t].key]
  <2>1. r \in Local /\ r.key = loc[t].key
    BY <1>1, LocalFields, NoLocalType DEF Local
  <2>2. loc' = [loc EXCEPT ![t] = r]
    BY <1>3 DEF ReadCh
  <2> QED
    BY <2>1, <2>2
<1> QED
  BY <1>2, <1>3

LEMMA TypeSearch ==
  ASSUME TypeOK, NEW t \in Foreground, SearchLnode(t) \/ ReadCh(t)
  PROVE  TypeOK'
<1>1. t \in Thread /\ t \notin Worker
  BY Constants DEF Thread
<1>2. PICK label \in {"reading", "found", "other", "missing"} :
        pc' = [pc EXCEPT ![t] = label]
  BY DEF SearchLnode, SearchResult, ReadCh, Goto
<1>3. PtrTypeOK(t)'
  BY <1>1, <1>2 DEF PtrTypeOK, TypeOK, ThreadTypeOK
<1>4. PICK r \in Local : loc' = [loc EXCEPT ![t] = r]
  BY SearchLocal
<1>5. ThreadTypeOK'
  BY <1>1, <1>2, <1>3, <1>4, ThreadStep DEF TypeOK, ForegroundLabel
<1> QED
  BY <1>5 DEF TypeOK, SearchLnode, ReadCh, SearchTypeOK, LeafTypeOK,
              search_layer, leaf_layer

LEMMA TypeFindLeaf ==
  ASSUME TypeOK, NEW t \in Foreground, FindLeaf(t) PROVE TypeOK'
<1>1. t \in Thread /\ t \notin Worker
  BY Constants DEF Thread
<1>2. PICK p \in Descents(loc[t].key) :
        LET l    == LeafFor(p, loc[t].key)
            path == PathTaken(p, loc[t].key)
        IN
        IF loc[t].key \in meta[l].bitmap
          THEN Goto(t, "ret") /\ UNCHANGED <<meta, ilock, loc>>
          ELSE /\ meta' = [meta EXCEPT ![l].lock = TRUE]
               /\ IF isFull(l) THEN LockInodes(path) ELSE UNCHANGED ilock
               /\ loc' = [loc EXCEPT ![t].lp = l, ![t].path = path]
               /\ Goto(t, "copy")
  BY DEF FindLeaf
<1> DEFINE l    == LeafFor(p, loc[t].key)
           path == PathTaken(p, loc[t].key)
<1>3. l \in LnodeId /\ path \in Path
  BY <1>1, LocalFields, DescentType
<1>4. UNCHANGED <<tree_root, root_level, ent, ninode, tail, version, nleaf,
                  job_queue>>
  BY DEF FindLeaf
<1>5. CASE loc[t].key \in meta[l].bitmap
  <2>1. pc' = [pc EXCEPT ![t] = "ret"] /\ UNCHANGED <<meta, ilock, loc>>
    BY <1>2, <1>5 DEF Goto
  <2>2. PtrTypeOK(t)'
    BY <1>1, <2>1 DEF PtrTypeOK, TypeOK, ThreadTypeOK
  <2>3. loc[t] \in Local /\ loc' = [loc EXCEPT ![t] = loc[t]]
    BY <1>1, <2>1 DEF TypeOK, ThreadTypeOK
  <2>4. ThreadTypeOK'
    BY <1>1, <2>1, <2>2, <2>3, ThreadStep DEF TypeOK, ForegroundLabel
  <2> QED
    BY <1>4, <2>1, <2>4 DEF TypeOK, SearchTypeOK, LeafTypeOK
<1>6. CASE loc[t].key \notin meta[l].bitmap
  <2>1. /\ pc' = [pc EXCEPT ![t] = "copy"]
        /\ meta' = [meta EXCEPT ![l].lock = TRUE]
        /\ loc' = [loc EXCEPT ![t].lp = l, ![t].path = path]
    BY <1>2, <1>6 DEF Goto
  <2>2. ilock' \in [Inode -> BOOLEAN]
    BY <1>2, <1>6, LockType DEF TypeOK, SearchTypeOK
  <2> DEFINE r == [loc[t] EXCEPT !.lp = l, !.path = path]
  <2>3. r \in Local /\ loc' = [loc EXCEPT ![t] = r]
    BY <1>1, <1>3, <2>1, LocalFields DEF Local
  <2>4. PtrTypeOK(t)'
    BY <1>1, <2>1 DEF PtrTypeOK, TypeOK, ThreadTypeOK
  <2>5. ThreadTypeOK'
    BY <1>1, <2>1, <2>3, <2>4, ThreadStep DEF TypeOK, ForegroundLabel
  <2>6. meta' \in [LnodeId -> LnodeMeta]
    BY <1>3, <2>1 DEF TypeOK, LeafTypeOK, LnodeMeta
  <2> QED
    BY <1>4, <2>2, <2>5, <2>6 DEF TypeOK, SearchTypeOK, LeafTypeOK
<1> QED
  BY <1>5, <1>6

LEMMA TypeReturn ==
  ASSUME TypeOK, NEW t \in Foreground, Return(t) PROVE TypeOK'
<1>1. t \in Thread /\ t \notin Worker
  BY Constants DEF Thread
<1>2. pc' = [pc EXCEPT ![t] = "idle"] /\ loc' = [loc EXCEPT ![t] = NoLocal]
  BY DEF Return, Goto
<1>3. PtrTypeOK(t)'
  BY <1>1, <1>2 DEF PtrTypeOK, TypeOK, ThreadTypeOK
<1>4. ThreadTypeOK'
  BY <1>1, <1>2, <1>3, NoLocalType, ThreadStep DEF TypeOK, ForegroundLabel
<1> QED
  BY <1>4 DEF TypeOK, Return, SearchTypeOK, LeafTypeOK, search_layer,
              leaf_layer

LEMMA TempMetaType ==
  ASSUME TypeOK, NEW t \in Thread
  PROVE  TempMeta(t) \in LnodeMeta
<1>1. meta[loc[t].lp] \in LnodeMeta
  BY LocalFields DEF TypeOK, LeafTypeOK
<1> QED
  BY <1>1 DEF TempMeta, LnodeMeta

\* Versions stay below VersionMod.
LEMMA NextVersionType ==
  ASSUME NEW v \in Version PROVE NextVersion(v) \in Version
<1>1. VersionMod \in Nat /\ VersionMod > 0 /\ v + 1 \in Nat
  BY Constants DEF Version
<1>2. \A x, y \in Nat : y > 0 => x % y \in 0..(y - 1)
  OBVIOUS
<1> QED
  BY <1>1, <1>2 DEF Version, NextVersion

LEMMA TypeCopyMeta ==
  ASSUME TypeOK, NEW t \in Foreground, CopyMeta(t) PROVE TypeOK'
<1>1. t \in Thread /\ t \notin Worker
  BY Constants DEF Thread
<1> DEFINE r == [loc[t] EXCEPT !.meta = TempMeta(t),
                               !.version = version[loc[t].lp]]
<1>2. PICK label \in {"build", "fill"} : pc' = [pc EXCEPT ![t] = label]
  BY DEF CopyMeta, Goto
<1>3. TempMeta(t) \in LnodeMeta /\ version[loc[t].lp] \in Version
  BY <1>1, LocalFields, TempMetaType DEF TypeOK, LeafTypeOK
<1>4. r \in Local /\ loc' = [loc EXCEPT ![t] = r]
  BY <1>1, <1>3, LocalFields DEF Local, CopyMeta
<1>5. PtrTypeOK(t)'
  BY <1>1, <1>2 DEF PtrTypeOK, TypeOK, ThreadTypeOK
<1>6. ThreadTypeOK'
  BY <1>1, <1>2, <1>4, <1>5, ThreadStep DEF TypeOK, ForegroundLabel
<1> QED
  BY <1>6 DEF TypeOK, CopyMeta, SearchTypeOK, LeafTypeOK, search_layer,
              leaf_layer

\* The two stores of a client's key: in a leaf with room, and in the left
\* half of the leaf it has split.
LEMMA TypeAddKey ==
  ASSUME TypeOK, NEW t \in Foreground,
         FillSlot(t) \/ FillOnly(t) \/ InsertLeft(t)
  PROVE  TypeOK'
<1>1. t \in Thread /\ t \notin Worker
  BY Constants DEF Thread
<1> DEFINE m == [loc[t].meta EXCEPT !.bitmap = @ \cup {loc[t].key}]
           r == [loc[t] EXCEPT !.meta = m]
<1>2. /\ meta' = [meta EXCEPT ![loc[t].lp] = m]
      /\ loc' = [loc EXCEPT ![t].meta = m]
      /\ UNCHANGED <<search_layer, tail, version, nleaf, job_queue>>
  BY DEF FillSlot, FillOnly, InsertLeft
<1>3. m \in LnodeMeta
  BY <1>1, LocalFields DEF LnodeMeta
<1>4. r \in Local /\ loc' = [loc EXCEPT ![t] = r]
  BY <1>1, <1>2, <1>3, LocalFields DEF Local
<1>5. PICK label \in {"flush", "ret", "level"} :
        /\ pc' = [pc EXCEPT ![t] = label]
        /\ label = "level" => pc[t] = "addleft"
  BY DEF FillSlot, FillOnly, InsertLeft, Goto
<1>6. PtrTypeOK(t)'
  BY <1>1, <1>2, <1>5, LocalFields DEF PtrTypeOK, TypeOK, ThreadTypeOK
<1>7. ThreadTypeOK'
  BY <1>1, <1>4, <1>5, <1>6, ThreadStep DEF TypeOK, ForegroundLabel
<1>8. meta' \in [LnodeId -> LnodeMeta]
  BY <1>1, <1>2, <1>3, LocalFields DEF TypeOK, LeafTypeOK
<1> QED
  BY <1>2, <1>7, <1>8 DEF TypeOK, SearchTypeOK, LeafTypeOK, search_layer

LEMMA TypePushJob ==
  ASSUME TypeOK, NEW t \in Foreground, PushJob(t) PROVE TypeOK'
<1>1. t \in Thread /\ t \notin Worker
  BY Constants DEF Thread
<1>2. pc' = [pc EXCEPT ![t] = "ret"]
      /\ UNCHANGED <<search_layer, leaf_layer, loc>>
  BY DEF PushJob, Goto
<1>3. PtrTypeOK(t)'
  BY <1>1, <1>2 DEF PtrTypeOK, TypeOK, ThreadTypeOK
<1>4. loc[t] \in Local /\ loc' = [loc EXCEPT ![t] = loc[t]]
  BY <1>1, <1>2 DEF TypeOK, ThreadTypeOK
<1>5. ThreadTypeOK'
  BY <1>1, <1>2, <1>3, <1>4, ThreadStep DEF TypeOK, ForegroundLabel
<1>6. job_queue' \subseteq LnodeId \X Version
  BY <1>1, LocalFields DEF PushJob, Job, TypeOK, LeafTypeOK
<1> QED
  BY <1>2, <1>5, <1>6 DEF TypeOK, SearchTypeOK, LeafTypeOK, search_layer,
                          leaf_layer

LEMMA TypeSplitBuild ==
  ASSUME TypeOK, NEW t \in Thread, SplitBuild(t) PROVE TypeOK'
<1> USE Constants
<1> DEFINE l     == loc[t].lp
           S     == meta[l].bitmap
           a     == meta[l].alt
           newp  == nleaf
           upper(sk) == {y \in S : y >= sk}
           mine(sk)  == IF t \in Foreground /\ loc[t].key > sk
                          THEN {loc[t].key} ELSE {}
           m(sk) == [loc[t].meta EXCEPT !.bitmap = @ \ upper(sk), !.alt = 1 - a]
<1>1. PICK sk \in S :
        /\ meta' = [meta EXCEPT ![newp] =
                      [bitmap |-> upper(sk) \cup mine(sk), lock |-> FALSE,
                       alt |-> 0]]
        /\ tail' = LinkNew(l, a, newp)
        /\ version' = [version EXCEPT ![l] = NextVersion(@)]
        /\ nleaf' = nleaf + 1
        /\ loc' = [loc EXCEPT
                     ![t].meta = m(sk), ![t].sep = sk, ![t].ptr = newp]
  BY DEF SplitBuild
<1>2. /\ newp < MaxLeaf
      /\ pc[t] = "build" /\ pc' = [pc EXCEPT ![t] = "publish"]
      /\ UNCHANGED <<search_layer, job_queue>>
  BY DEF SplitBuild, Goto
<1>3. /\ l \in LnodeId /\ S \subseteq Key /\ a \in {0, 1} /\ sk \in Key
      /\ loc[t].key \in Key /\ loc[t].meta \in LnodeMeta
  BY LocalFields DEF TypeOK, LeafTypeOK, LnodeMeta
<1>4. newp \in LnodeId /\ newp \in Nat /\ nleaf' \in 1..MaxLeaf
  <2>1. nleaf \in 1..MaxLeaf /\ nleaf < MaxLeaf
    BY <1>2 DEF TypeOK, LeafTypeOK
  <2>2. nleaf' = nleaf + 1
    BY <1>1
  <2> QED
    BY <2>1, <2>2 DEF LnodeId
<1>5. meta' \in [LnodeId -> LnodeMeta]
  <2>1. [bitmap |-> upper(sk) \cup mine(sk), lock |-> FALSE, alt |-> 0]
          \in LnodeMeta
    BY <1>3 DEF LnodeMeta
  <2> QED
    BY <1>1, <1>4, <2>1 DEF TypeOK, LeafTypeOK
<1>6. tail' \in [LnodeId -> [{0, 1} -> LnodeId \cup {Null}]]
  <2>1. tail[l][a] \in LnodeId \cup {Null}
    BY <1>3 DEF TypeOK, LeafTypeOK
  <2>2. 1 - a \in {0, 1}
    BY <1>3
  <2> QED
    BY <1>1, <1>3, <1>4, <2>1, <2>2 DEF TypeOK, LeafTypeOK, LinkNew
<1>7. version' \in [LnodeId -> Version]
  <2>1. version[l] \in Version
    BY <1>3 DEF TypeOK, LeafTypeOK
  <2>2. version' = [version EXCEPT ![l] = NextVersion(version[l])]
    BY <1>1
  <2> QED
    BY <2>1, <2>2, <1>3, NextVersionType DEF TypeOK, LeafTypeOK
<1> DEFINE r == [loc[t] EXCEPT !.meta = m(sk), !.sep = sk, !.ptr = newp]
<1>8. m(sk) \in LnodeMeta
  <2>1. 1 - a \in {0, 1} /\ loc[t].meta.bitmap \subseteq Key
    BY <1>3 DEF LnodeMeta
  <2>2. loc[t].meta.bitmap \ upper(sk) \subseteq Key
    BY <2>1
  <2> HIDE DEF upper
  <2> QED
    BY <1>3, <2>1, <2>2 DEF LnodeMeta
<1>9. r \in Local /\ loc' = [loc EXCEPT ![t] = r]
  <2>1. r \in Local
    <3> HIDE DEF m, newp
    <3> QED
      BY <1>3, <1>4, <1>8, LocalFields DEF Local
  <2>2. loc' = [loc EXCEPT ![t] = r]
    BY <1>1, <1>3 DEF TypeOK, ThreadTypeOK, Local, LnodeMeta
  <2> QED
    BY <2>1, <2>2
<1>10. PtrTypeOK(t)'
  <2>1. pc'[t] = "publish" /\ loc'[t].ptr = newp
    BY <1>2, <1>9, LocalFields DEF TypeOK, ThreadTypeOK, Local
  <2> QED
    BY <1>4, <2>1 DEF PtrTypeOK
<1>11. ThreadTypeOK'
  BY <1>2, <1>9, <1>10, ThreadStep DEF TypeOK, ForegroundLabel, WorkerLabel
<1> QED
  BY <1>2, <1>4, <1>5, <1>6, <1>7, <1>11
  DEF TypeOK, SearchTypeOK, LeafTypeOK, search_layer
LEMMA TypeSplitPublish ==
  ASSUME TypeOK, NEW t \in Thread, SplitPublish(t) PROVE TypeOK'
<1>1. PICK label \in {"locate", "addleft", "level"} :
        /\ pc' = [pc EXCEPT ![t] = label]
        /\ t \in Worker => label = "locate"
        /\ t \in Foreground => label \in {"addleft", "level"}
  BY Constants DEF SplitPublish, Goto
<1>2. loc[t] \in Local /\ loc' = [loc EXCEPT ![t] = loc[t]]
  BY DEF SplitPublish, TypeOK, ThreadTypeOK
<1>3. PtrTypeOK(t)'
  BY <1>1, <1>2, LocalFields DEF SplitPublish, PtrTypeOK, TypeOK, ThreadTypeOK
<1>4. ThreadTypeOK'
  BY <1>1, <1>2, <1>3, ThreadStep DEF TypeOK, ForegroundLabel, WorkerLabel
<1>5. meta' \in [LnodeId -> LnodeMeta]
  BY LocalFields DEF SplitPublish, TypeOK, LeafTypeOK
<1> QED
  BY <1>4, <1>5 DEF SplitPublish, TypeOK, SearchTypeOK, LeafTypeOK, search_layer

LEMMA TypePopJob ==
  ASSUME TypeOK, NEW w \in Worker, PopJob(w) PROVE TypeOK'
<1>1. w \in Thread /\ w \notin Foreground
  BY Constants DEF Thread
<1>2. PICK job \in job_queue :
        /\ job_queue' = job_queue \ {job}
        /\ loc' = [loc EXCEPT ![w].lp = job[1], ![w].version = job[2]]
  BY DEF PopJob
<1>3. job[1] \in LnodeId /\ job[2] \in Version
  BY DEF TypeOK, LeafTypeOK
<1> DEFINE r == [loc[w] EXCEPT !.lp = job[1], !.version = job[2]]
<1>4. r \in Local /\ loc' = [loc EXCEPT ![w] = r]
  BY <1>1, <1>2, <1>3, LocalFields DEF Local
<1>5. pc' = [pc EXCEPT ![w] = "lock"]
  BY DEF PopJob, Goto
<1>6. PtrTypeOK(w)'
  BY <1>1, <1>5 DEF PtrTypeOK, TypeOK, ThreadTypeOK
<1>7. ThreadTypeOK'
  BY <1>1, <1>4, <1>5, <1>6, ThreadStep DEF TypeOK, WorkerLabel
<1>8. job_queue' \subseteq LnodeId \X Version
  BY <1>2 DEF TypeOK, LeafTypeOK
<1> QED
  BY <1>7, <1>8 DEF PopJob, TypeOK, SearchTypeOK, LeafTypeOK, search_layer,
                    leaf_layer

\* The three steps of split that lock the leaf, copy its meta and unlock it.
LEMMA TypeSplitLeaf ==
  ASSUME TypeOK, NEW w \in Worker,
         SplitLock(w) \/ SplitCopy(w) \/ SplitUnlock(w)
  PROVE  TypeOK'
<1>1. w \in Thread /\ w \notin Foreground
  BY Constants DEF Thread
<1>2. meta' \in [LnodeId -> LnodeMeta]
  <2>1. \/ UNCHANGED meta
        \/ \E b \in BOOLEAN : meta' = [meta EXCEPT ![loc[w].lp].lock = b]
    BY DEF SplitLock, SplitCopy, SplitUnlock, leaf_layer
  <2>2. meta \in [LnodeId -> LnodeMeta] /\ loc[w].lp \in LnodeId
    BY <1>1, LocalFields DEF TypeOK, LeafTypeOK
  <2> QED
    BY <2>1, <2>2, ZenonT(40) DEF LnodeMeta
<1>3. PICK label \in {"pop", "copy", "build"} : pc' = [pc EXCEPT ![w] = label]
  BY DEF SplitLock, SplitCopy, SplitUnlock, Goto
<1>4. PICK r \in Local : loc' = [loc EXCEPT ![w] = r]
  <2>1. CASE SplitLock(w) \/ SplitUnlock(w)
    <3>1. loc' = [loc EXCEPT ![w] = NoLocal]
          \/ loc' = [loc EXCEPT ![w] = loc[w]]
      BY <2>1 DEF SplitLock, SplitUnlock, TypeOK, ThreadTypeOK
    <3> QED
      BY <1>1, <3>1, LocalFields, NoLocalType
  <2>2. CASE SplitCopy(w)
    <3> DEFINE r == [loc[w] EXCEPT !.meta = TempMeta(w)]
    <3>1. r \in Local /\ loc' = [loc EXCEPT ![w] = r]
      BY <1>1, <2>2, LocalFields, TempMetaType DEF SplitCopy, Local
    <3> QED
      BY <3>1
  <2> QED
    BY <2>1, <2>2
<1>5. PtrTypeOK(w)'
  BY <1>1, <1>3 DEF PtrTypeOK, TypeOK, ThreadTypeOK
<1>6. ThreadTypeOK'
  BY <1>1, <1>3, <1>4, <1>5, ThreadStep DEF TypeOK, WorkerLabel
<1> QED
  BY <1>2, <1>6 DEF SplitLock, SplitCopy, SplitUnlock, TypeOK, SearchTypeOK,
                    LeafTypeOK, search_layer, leaf_layer

\* A worker takes a leaf.
LEMMA TypeTakeLeaf ==
  ASSUME TypeOK, NEW w \in Worker, TakeLeaf(w) PROVE TypeOK'
<1>1. w \in Thread /\ w \notin Foreground
  BY Constants DEF Thread
<1>2. PICK r \in Local, label \in {"copy", "unlock"} :
        /\ meta' = [meta EXCEPT ![r.lp].lock = TRUE]
        /\ loc' = [loc EXCEPT ![w] = r]
        /\ pc' = [pc EXCEPT ![w] = label]
        /\ UNCHANGED <<search_layer, tail, version, nleaf, job_queue>>
  BY DEF TakeLeaf, Goto
<1>3. meta' \in [LnodeId -> LnodeMeta]
  BY <1>2 DEF TypeOK, LeafTypeOK, LnodeMeta, Local
<1>4. PtrTypeOK(w)'
  BY <1>1, <1>2 DEF PtrTypeOK, TypeOK, ThreadTypeOK
<1>5. ThreadTypeOK'
  BY <1>1, <1>2, <1>4, ThreadStep DEF TypeOK, WorkerLabel
<1> QED
  BY <1>2, <1>3, <1>5 DEF TypeOK, SearchTypeOK, LeafTypeOK, search_layer

LEMMA TypeFindInode ==
  ASSUME TypeOK, NEW w \in Worker, FindInode(w) PROVE TypeOK'
<1>1. w \in Thread /\ w \notin Foreground
  BY Constants DEF Thread
<1>2. PICK p \in Descents(loc[w].sep) :
        /\ LockInodes(PathTaken(p, loc[w].sep))
        /\ loc' = [loc EXCEPT ![w].path = PathTaken(p, loc[w].sep)]
  BY DEF FindInode
<1> DEFINE path == PathTaken(p, loc[w].sep)
           r    == [loc[w] EXCEPT !.path = path]
<1>3. path \in Path
  BY <1>1, LocalFields, DescentType
<1>4. r \in Local /\ loc' = [loc EXCEPT ![w] = r]
  BY <1>1, <1>2, <1>3, LocalFields DEF Local
<1>5. ilock' \in [Inode -> BOOLEAN]
  BY <1>2, LockType DEF TypeOK
<1>6. pc[w] = "locate" /\ pc' = [pc EXCEPT ![w] = "level"]
  BY DEF FindInode, Goto
<1>7. PtrTypeOK(w)'
  BY <1>1, <1>4, <1>6, LocalFields DEF PtrTypeOK, TypeOK, ThreadTypeOK, Local
<1>8. ThreadTypeOK'
  BY <1>1, <1>4, <1>6, <1>7, ThreadStep DEF TypeOK, WorkerLabel
<1> QED
  BY <1>5, <1>8 DEF FindInode, TypeOK, SearchTypeOK, LeafTypeOK, leaf_layer

LEMMA TypeReadLevel ==
  ASSUME TypeOK, NEW t \in Thread, ReadLevel(t) PROVE TypeOK'
<1> DEFINE r == [loc[t] EXCEPT !.total = total_level, !.lev = 0]
<1>1. /\ pc[t] = "level" /\ pc' = [pc EXCEPT ![t] = "inode"]
      /\ 0 \in Level /\ 0 \in 0..(MaxLevel + 1) /\ total_level \in Level
  BY Constants DEF ReadLevel, Goto, Level, TypeOK, SearchTypeOK, total_level
<1>2. r \in Local /\ loc' = [loc EXCEPT ![t] = r]
  BY <1>1, LocalFields DEF Local, ReadLevel
<1>3. PtrTypeOK(t)'
  BY <1>1, <1>2, LocalFields
  DEF PtrTypeOK, TypeOK, ThreadTypeOK, Local, ChildId
<1>4. ThreadTypeOK'
  BY <1>1, <1>2, <1>3, ThreadStep DEF TypeOK, ForegroundLabel, WorkerLabel
<1> QED
  BY <1>4 DEF ReadLevel, TypeOK, SearchTypeOK, LeafTypeOK, search_layer,
              leaf_layer

\* The inode a split is at, and what it becomes with the new node added: the
\* children left of the new one stay, those right of it move by one.
LEMMA Merge ==
  ASSUME TypeOK, NEW t \in Thread, PathTrue(t), Climb(t), pc[t] = "inode"
  PROVE  LET n    == Here(t)
             lev  == loc[t].lev
             path == loc[t].path
             at   == path.ppos[lev] + 2
         IN
         /\ n \in Inode /\ lev \in Level /\ n = <<lev, path.parray[lev]>>
         /\ path.parray[lev] \in InodeNum /\ path.parray[lev] < ninode[lev]
         /\ num(n) \in Nat /\ num(n) <= NON_LEAF_KEY_NUM
         /\ path.isfull[lev] <=> num(n) = NON_LEAF_KEY_NUM
         /\ ent[n].ch \in Seq(ChildId(lev)) /\ Len(ent[n].ch) = num(n) + 1
         /\ loc[t].ptr \in ChildId(lev)
         /\ MergedK(t) \in Seq(Key) /\ Len(MergedK(t)) = num(n) + 1
         /\ at \in 2..(num(n) + 2)
         /\ MergedCh(t) \in Seq(ChildId(lev)) /\ Len(MergedCh(t)) = num(n) + 2
         /\ \A j \in 1..(num(n) + 2) :
              /\ j < at => MergedCh(t)[j] = ent[n].ch[j]
              /\ j = at => MergedCh(t)[j] = loc[t].ptr
              /\ j > at => MergedCh(t)[j] = ent[n].ch[j - 1]
<1> DEFINE n    == Here(t)
           lev  == loc[t].lev
           path == loc[t].path
           pp   == path.ppos[lev]
<1>1. /\ lev \in Level /\ path \in Path /\ loc[t].ptr \in ChildId(lev)
      /\ loc[t].sep \in Key
  BY LocalFields DEF PtrTypeOK
<1>2. path.parray[lev] \in InodeNum /\ pp \in Nat /\ path.rl \in Level
  BY <1>1, Constants DEF Path
<1>3. n \in Inode /\ n = <<lev, path.parray[lev]>>
  BY <1>1, <1>2 DEF Here, Inode
<1>4. /\ ent[n].k \in Seq(Key) /\ ent[n].ch \in Seq(ChildId(lev))
      /\ Len(ent[n].ch) = num(n) + 1
      /\ num(n) \in Nat /\ num(n) <= NON_LEAF_KEY_NUM
  BY <1>3, LenProperties, SMTT(30) DEF TypeOK, SearchTypeOK, num
<1>5. HoldsPath(t) /\ Low(t) = lev /\ InReach(path, lev)
  BY DEF HoldsPath, Low, Climb
<1>6. lev \in lev..path.rl
  BY <1>1, <1>2, <1>5, Constants DEF InReach, Level
<1>7. /\ path.parray[lev] < ninode[lev] /\ pp <= num(n)
      /\ path.isfull[lev] <=> num(n) = NON_LEAF_KEY_NUM
  BY <1>3, <1>5, <1>6 DEF PathTrue
<1> DEFINE ks == ent[n].k
           cs == ent[n].ch
           mm == num(n)
<1> HIDE DEF n, lev, pp, ks, cs, mm
<1>8. pp + 1 \in 1..(mm + 1) /\ pp + 2 \in 1..(mm + 2)
      /\ pp + 2 \in 2..(mm + 2)
  <2>1. pp <= mm /\ pp \in Nat /\ mm \in Nat
    BY <1>2, <1>4, <1>7 DEF mm
  <2> QED
    BY <2>1
<1>9. MergedK(t) \in Seq(Key) /\ Len(MergedK(t)) = mm + 1
  <2>1. ks \in Seq(Key) /\ Len(ks) = mm
    BY <1>4 DEF ks, mm, num
  <2>2. MergedK(t) = InsertAt(ks, pp + 1, loc[t].sep)
    BY DEF MergedK, n, pp, lev, ks
  <2>3. Inserted(MergedK(t), Key, ks, pp + 1, loc[t].sep)
    BY <1>1, <1>8, <2>1, <2>2, InsertAtType
  <2> QED
    BY <2>1, <2>3 DEF Inserted
<1>10. /\ MergedCh(t) \in Seq(ChildId(lev)) /\ Len(MergedCh(t)) = mm + 2
       /\ \A j \in 1..(mm + 2) :
            /\ j < pp + 2 => MergedCh(t)[j] = cs[j]
            /\ j = pp + 2 => MergedCh(t)[j] = loc[t].ptr
            /\ j > pp + 2 => MergedCh(t)[j] = cs[j - 1]
  <2>1. MergedCh(t) = InsertAt(cs, pp + 2, loc[t].ptr)
    BY DEF MergedCh, n, pp, lev, cs
  <2>2. cs \in Seq(ChildId(lev)) /\ Len(cs) + 1 = mm + 2
    BY <1>4 DEF cs, mm
  <2> DEFINE at  == pp + 2
             ptr == loc[t].ptr
             r   == MergedCh(t)
             S   == ChildId(lev)
  <2>3. cs \in Seq(S) /\ at \in 1..(Len(cs) + 1) /\ ptr \in S
    BY <1>1, <1>8, <2>2
  <2> HIDE DEF at, ptr, r, S
  <2>4. Inserted(InsertAt(cs, at, ptr), S, cs, at, ptr)
    BY <2>3, InsertAtType
  <2>5. Inserted(r, S, cs, at, ptr)
    BY <2>1, <2>4 DEF r, at, ptr
  <2> QED
    BY <2>2, <2>5 DEF Inserted, at, ptr, r, S
<1> QED
  BY <1>1, <1>2, <1>3, <1>4, <1>7, <1>8, <1>9, <1>10 DEF n, lev, pp, ks, cs, mm

\* Part of a sequence.
LEMMA PartType ==
  ASSUME NEW S, NEW s \in Seq(S), NEW a \in 1..Len(s), NEW b \in 0..Len(s),
         a <= b + 1
  PROVE  /\ SubSeq(s, a, b) \in Seq(S) /\ Len(SubSeq(s, a, b)) = b - a + 1
         /\ \A i \in 1..(b - a + 1) : SubSeq(s, a, b)[i] = s[a + i - 1]
<1>1. Len(s) \in Nat /\ \A i \in 1..Len(s) : s[i] \in S
  BY LenProperties
<1>2. \A i \in a..b : s[i] \in S
  BY <1>1
<1> QED
  BY <1>1, <1>2, SubSeqProperties

LEMMA TypeInsertInode ==
  ASSUME TypeOK, NEW t \in Thread, PathTrue(t), Climb(t), InsertInode(t)
  PROVE  TypeOK'
<1> DEFINE n == Here(t)
<1>1. /\ pc[t] = "inode" /\ num(n) < NON_LEAF_KEY_NUM
      /\ ent' = [ent EXCEPT ![n] = [k |-> MergedK(t), ch |-> MergedCh(t)]]
      /\ ilock' = [ilock EXCEPT ![n] = FALSE]
      /\ pc' = [pc EXCEPT ![t] = Done(t)]
      /\ UNCHANGED <<tree_root, root_level, ninode, leaf_layer, job_queue, loc>>
  BY DEF InsertInode, Goto
<1>2. /\ n \in Inode /\ n[1] = loc[t].lev /\ num(n) \in Nat
      /\ MergedK(t) \in Seq(Key) /\ Len(MergedK(t)) = num(n) + 1
      /\ MergedCh(t) \in Seq(ChildId(n[1])) /\ Len(MergedCh(t)) = num(n) + 2
  BY <1>1, Merge
<1> HIDE DEF n
<1>3. SearchTypeOK'
  <2>1. DOMAIN ent' = Inode
    BY <1>1 DEF TypeOK, SearchTypeOK
  <2>2. ASSUME NEW x \in Inode
        PROVE  /\ ent'[x] \in [k : Seq(Key), ch : Seq(ChildId(x[1]))]
               /\ Len(ent'[x].ch) = Len(ent'[x].k) + 1
               /\ Len(ent'[x].k) <= NON_LEAF_KEY_NUM
    <3>1. CASE x = n
      <4>1. ent'[x] = [k |-> MergedK(t), ch |-> MergedCh(t)]
        BY <1>1, <1>2, <3>1 DEF TypeOK, SearchTypeOK
      <4>2. NON_LEAF_KEY_NUM \in Nat
        BY Constants
      <4> QED
        BY <1>1, <1>2, <3>1, <4>1, <4>2
    <3>2. CASE x # n
      BY <1>1, <3>2 DEF TypeOK, SearchTypeOK
    <3> QED
      BY <3>1, <3>2
  <2>3. ilock' \in [Inode -> BOOLEAN]
    BY <1>1 DEF TypeOK, SearchTypeOK
  <2> QED
    BY <1>1, <2>1, <2>2, <2>3 DEF TypeOK, SearchTypeOK
<1>4. ThreadTypeOK'
  <2>1. loc[t] \in Local /\ loc' = [loc EXCEPT ![t] = loc[t]]
    BY <1>1 DEF TypeOK, ThreadTypeOK
  <2>2. PtrTypeOK(t)'
    BY <1>1 DEF PtrTypeOK, TypeOK, ThreadTypeOK, Done
  <2> QED
    BY <1>1, <2>1, <2>2, Constants, ThreadStep
    DEF TypeOK, ForegroundLabel, WorkerLabel, Done
<1> QED
  BY <1>1, <1>3, <1>4 DEF TypeOK, LeafTypeOK, leaf_layer

\* An entry of a level-i inode.
EntryOK(e, i) ==
  /\ e \in [k : Seq(Key), ch : Seq(ChildId(i))]
  /\ Len(e.ch) = Len(e.k) + 1
  /\ Len(e.k) <= NON_LEAF_KEY_NUM

\* The two halves of a full inode that is given one more child.
LEMMA Halves ==
  ASSUME TypeOK, NEW t \in Thread, PathTrue(t), Climb(t), SplitInode(t)
  PROVE  LET L   == LEFT_KEY_NUM
             N   == NON_LEAF_KEY_NUM
             lev == loc[t].lev
             mk  == MergedK(t)
             mch == MergedCh(t)
             lo  == SubSeq(mch, 1, L + 1)
             hi  == SubSeq(mch, L + 2, Len(mch))
         IN
         /\ num(Here(t)) = N
         /\ mk[L + 1] \in Key
         /\ EntryOK([k |-> SubSeq(mk, 1, L), ch |-> lo], lev)
         /\ EntryOK([k |-> SubSeq(mk, L + 2, Len(mk)), ch |-> hi], lev)
         /\ Len(lo) = L + 1 /\ \A j \in 1..(L + 1) : lo[j] = mch[j]
         /\ Len(hi) = N - L + 1
         /\ \A j \in 1..(N - L + 1) : hi[j] = mch[j + L + 1]
<1> DEFINE L   == LEFT_KEY_NUM
           N   == NON_LEAF_KEY_NUM
           C   == ChildId(loc[t].lev)
           mk  == MergedK(t)
           mch == MergedCh(t)
<1>1. L \in Nat /\ L >= 1 /\ N \in Nat /\ L < N
  BY Constants
<1>2. num(Here(t)) = N
  <2>1. num(Here(t)) \in Nat /\ num(Here(t)) <= N
    BY Merge DEF SplitInode
  <2> QED
    BY <1>1, <2>1 DEF SplitInode
<1>3. mk \in Seq(Key) /\ Len(mk) = N + 1 /\ mch \in Seq(C) /\ Len(mch) = N + 2
  BY <1>2, Merge DEF SplitInode
<1> HIDE DEF L, N, C, mk, mch
<1>4. /\ SubSeq(mk, 1, L) \in Seq(Key) /\ Len(SubSeq(mk, 1, L)) = L
  <2>1. 1 \in 1..Len(mk) /\ L \in 0..Len(mk) /\ 1 <= L + 1 /\ L - 1 + 1 = L
    BY <1>1, <1>3
  <2> QED
    BY <1>3, <2>1, PartType
<1>5. /\ SubSeq(mk, L + 2, Len(mk)) \in Seq(Key)
      /\ Len(SubSeq(mk, L + 2, Len(mk))) = N - L
  <2>1. /\ L + 2 \in 1..Len(mk) /\ Len(mk) \in 0..Len(mk)
        /\ L + 2 <= Len(mk) + 1 /\ Len(mk) - (L + 2) + 1 = N - L
    BY <1>1, <1>3
  <2> QED
    BY <1>3, <2>1, PartType
<1>6. /\ SubSeq(mch, 1, L + 1) \in Seq(C) /\ Len(SubSeq(mch, 1, L + 1)) = L + 1
      /\ \A j \in 1..(L + 1) : SubSeq(mch, 1, L + 1)[j] = mch[j]
  <2>1. /\ 1 \in 1..Len(mch) /\ L + 1 \in 0..Len(mch) /\ 1 <= L + 1 + 1
        /\ (L + 1) - 1 + 1 = L + 1
    BY <1>1, <1>3
  <2>2. /\ SubSeq(mch, 1, L + 1) \in Seq(C)
        /\ Len(SubSeq(mch, 1, L + 1)) = (L + 1) - 1 + 1
        /\ \A j \in 1..((L + 1) - 1 + 1) :
             SubSeq(mch, 1, L + 1)[j] = mch[1 + j - 1]
    BY <1>3, <2>1, PartType
  <2> QED
    BY <2>1, <2>2
<1>7. /\ SubSeq(mch, L + 2, Len(mch)) \in Seq(C)
      /\ Len(SubSeq(mch, L + 2, Len(mch))) = N - L + 1
      /\ \A j \in 1..(N - L + 1) :
           SubSeq(mch, L + 2, Len(mch))[j] = mch[j + L + 1]
  <2>1. /\ L + 2 \in 1..Len(mch) /\ Len(mch) \in 0..Len(mch)
        /\ L + 2 <= Len(mch) + 1 /\ Len(mch) - (L + 2) + 1 = N - L + 1
    BY <1>1, <1>3
  <2>2. /\ SubSeq(mch, L + 2, Len(mch)) \in Seq(C)
        /\ Len(SubSeq(mch, L + 2, Len(mch))) = Len(mch) - (L + 2) + 1
        /\ \A j \in 1..(Len(mch) - (L + 2) + 1) :
             SubSeq(mch, L + 2, Len(mch))[j] = mch[L + 2 + j - 1]
    BY <1>3, <2>1, PartType
  <2>3. \A j \in 1..(N - L + 1) : L + 2 + j - 1 = j + L + 1
    BY <1>1
  <2> QED
    BY <2>1, <2>2, <2>3
<1>8. mk[L + 1] \in Key
  <2>1. L + 1 \in 1..Len(mk)
    BY <1>1, <1>3
  <2> QED
    BY <1>3, <2>1, ElementOfSeq
<1>9. EntryOK([k |-> SubSeq(mk, 1, L), ch |-> SubSeq(mch, 1, L + 1)],
              loc[t].lev)
  BY <1>1, <1>4, <1>6 DEF EntryOK, C, N
<1>10. EntryOK([k  |-> SubSeq(mk, L + 2, Len(mk)),
                ch |-> SubSeq(mch, L + 2, Len(mch))], loc[t].lev)
  BY <1>1, <1>5, <1>7 DEF EntryOK, C, N
<1> QED
  BY <1>2, <1>6, <1>7, <1>8, <1>9, <1>10 DEF L, N, mk, mch

\* Storing entries of the right level keeps the search layer typed.
LEMMA StoreEntry ==
  ASSUME SearchTypeOK, NEW n \in Inode, NEW e, EntryOK(e, n[1]),
         NEW m \in Inode, NEW f, EntryOK(f, m[1]),
         NEW ents, ents = [ent EXCEPT ![n] = e, ![m] = f]
  PROVE  /\ DOMAIN ents = Inode
         /\ \A x \in Inode : EntryOK(ents[x], x[1])
<1>1. DOMAIN ent = Inode /\ \A x \in Inode : EntryOK(ent[x], x[1])
  BY DEF SearchTypeOK, EntryOK
<1> QED
  BY <1>1

LEMMA TypeSplitInode ==
  ASSUME TypeOK, NEW t \in Thread, PathTrue(t), Climb(t), SplitInode(t)
  PROVE  TypeOK'
<1> DEFINE lev  == loc[t].lev
           newp == ninode[lev]
           L    == LEFT_KEY_NUM
           mk   == MergedK(t)
           mch  == MergedCh(t)
           e    == [k |-> SubSeq(mk, 1, L), ch |-> SubSeq(mch, 1, L + 1)]
           f    == [k  |-> SubSeq(mk, L + 2, Len(mk)),
                    ch |-> SubSeq(mch, L + 2, Len(mch))]
           r    == [loc[t] EXCEPT !.sep = mk[L + 1], !.ptr = newp,
                                  !.lev = lev + 1]
           label == IF lev + 1 <= loc[t].total THEN "inode" ELSE "grow"
<1>1. /\ pc[t] = "inode" /\ newp < MaxInode
      /\ ninode' = [ninode EXCEPT ![lev] = newp + 1]
      /\ ent' = [ent EXCEPT ![Here(t)] = e, ![<<lev, newp>>] = f]
      /\ ilock' = [ilock EXCEPT ![Here(t)] = ~(lev < loc[t].total),
                                ![<<lev, newp>>] = FALSE]
      /\ loc' = [loc EXCEPT ![t].sep = mk[L + 1], ![t].ptr = newp,
                            ![t].lev = lev + 1]
      /\ pc' = [pc EXCEPT ![t] = label]
      /\ UNCHANGED <<tree_root, root_level, leaf_layer, job_queue>>
  BY DEF SplitInode, Goto
<1>2. /\ Here(t) \in Inode /\ lev \in Level /\ Here(t)[1] = lev
      /\ mk[L + 1] \in Key /\ EntryOK(e, lev) /\ EntryOK(f, lev)
  <2>1. mk[L + 1] \in Key /\ EntryOK(e, lev) /\ EntryOK(f, lev)
    BY Halves
  <2>2. Here(t) \in Inode /\ lev \in Level /\ Here(t)[1] = lev
    BY <1>1, Merge, SMTT(30)
  <2> QED
    BY <2>1, <2>2
<1> HIDE DEF e, f, mk, L
<1>3. newp \in InodeNum /\ newp \in Nat /\ newp + 1 \in 0..MaxInode
  <2>1. newp \in 0..MaxInode
    BY <1>2 DEF TypeOK, SearchTypeOK
  <2> QED
    BY <1>1, <2>1, Constants DEF InodeNum
<1>4. /\ lev + 1 \in 0..(MaxLevel + 1) /\ lev + 1 > 0 /\ lev + 1 # 0
      /\ label = "inode" => lev + 1 \in Level
  BY <1>2, Constants, LocalFields DEF Level
<1>5. <<lev, newp>> \in Inode /\ <<lev, newp>>[1] = lev
  BY <1>2, <1>3 DEF Inode
<1>6. SearchTypeOK'
  <2>1. DOMAIN ent' = Inode /\ \A x \in Inode : EntryOK(ent'[x], x[1])
    BY <1>1, <1>2, <1>5, StoreEntry DEF TypeOK
  <2>2. ilock' \in [Inode -> BOOLEAN]
    BY <1>1 DEF TypeOK, SearchTypeOK
  <2>3. ninode' \in [Level -> 0..MaxInode]
    BY <1>1, <1>3 DEF TypeOK, SearchTypeOK
  <2> QED
    BY <1>1, <2>1, <2>2, <2>3 DEF TypeOK, SearchTypeOK, EntryOK
<1>7. r \in Local /\ loc' = [loc EXCEPT ![t] = r]
  <2>1. r \in Local
    <3> HIDE DEF newp, lev
    <3> QED
      BY <1>2, <1>3, <1>4, LocalFields DEF Local
  <2>2. loc' = [loc EXCEPT ![t] = r]
    BY <1>1 DEF TypeOK, ThreadTypeOK, Local
  <2> QED
    BY <2>1, <2>2
<1>8. PtrTypeOK(t)'
  <2>1. pc'[t] = label /\ loc'[t].lev = lev + 1 /\ loc'[t].ptr = newp
    BY <1>1, <1>7, LocalFields DEF TypeOK, ThreadTypeOK, Local
  <2>2. label \in {"inode", "grow"}
    OBVIOUS
  <2> HIDE DEF label, newp, lev
  <2> QED
    BY <1>3, <1>4, <2>1, <2>2 DEF PtrTypeOK, ChildId
<1>9. ThreadTypeOK'
  <2>1. label \in {"inode", "grow"}
    OBVIOUS
  <2> HIDE DEF label, r
  <2> QED
    BY <1>1, <1>7, <1>8, <2>1, ThreadStep
    DEF TypeOK, ForegroundLabel, WorkerLabel
<1> QED
  BY <1>1, <1>6, <1>9 DEF TypeOK, LeafTypeOK, leaf_layer

LEMMA TypeGrowRoot ==
  ASSUME TypeOK, NEW t \in Thread, GrowRoot(t) PROVE TypeOK'
<1> DEFINE lev  == loc[t].lev
           newp == ninode[lev]
           old  == tree_root[2]
           e    == [k |-> <<loc[t].sep>>, ch |-> <<old, loc[t].ptr>>]
           r    == [loc[t] EXCEPT !.old_root = old, !.ptr = newp]
<1>1. /\ pc[t] = "grow" /\ lev \in Level /\ newp < MaxInode
      /\ ninode' = [ninode EXCEPT ![lev] = newp + 1]
      /\ ent' = [ent EXCEPT ![<<lev, newp>>] = e]
      /\ ilock' = [ilock EXCEPT ![<<lev, newp>>] = TRUE]
      /\ loc' = [loc EXCEPT ![t].old_root = old, ![t].ptr = newp]
      /\ UNCHANGED <<leaf_layer, job_queue>>
  BY DEF GrowRoot
<1>2. PICK label \in {"growroot", "growlevel"} :
        /\ pc' = [pc EXCEPT ![t] = label]
        /\ root_level' \in {root_level, lev}
        /\ tree_root' \in {tree_root, <<lev, newp>>}
  BY DEF GrowRoot, Goto
<1>3. lev > 0 /\ loc[t].ptr \in InodeNum /\ loc[t].sep \in Key
      /\ loc[t] \in Local
  BY <1>1, LocalFields DEF PtrTypeOK
<1>4. newp \in InodeNum /\ newp \in Nat /\ newp + 1 \in 0..MaxInode
      /\ old \in InodeNum
  <2>1. newp \in 0..MaxInode /\ old \in InodeNum
    BY <1>1 DEF TypeOK, SearchTypeOK, Inode
  <2> QED
    BY <1>1, <2>1, Constants DEF InodeNum
<1>5. <<lev, newp>> \in Inode /\ <<lev, newp>>[1] = lev
  BY <1>1, <1>4 DEF Inode
<1>6. EntryOK(e, lev)
  <2>1. ChildId(lev) = InodeNum
    BY <1>3 DEF ChildId
  <2>2. /\ <<loc[t].sep>> \in Seq(Key) /\ Len(<<loc[t].sep>>) = 1
        /\ <<old, loc[t].ptr>> \in Seq(InodeNum)
        /\ Len(<<old, loc[t].ptr>>) = 2
    BY <1>3, <1>4
  <2> QED
    BY <2>1, <2>2, Constants DEF EntryOK
<1>7. SearchTypeOK'
  <2>1. ent' = [ent EXCEPT ![<<lev, newp>>] = e, ![<<lev, newp>>] = e]
    BY <1>1
  <2>2. DOMAIN ent' = Inode /\ \A x \in Inode : EntryOK(ent'[x], x[1])
    <3> HIDE DEF e
    <3> QED
      BY <1>5, <1>6, <2>1, StoreEntry DEF TypeOK
  <2>3. ilock' \in [Inode -> BOOLEAN] /\ ninode' \in [Level -> 0..MaxInode]
    BY <1>1, <1>4 DEF TypeOK, SearchTypeOK
  <2>4. tree_root' \in Inode /\ root_level' \in Level
    BY <1>1, <1>2, <1>5 DEF TypeOK, SearchTypeOK
  <2> QED
    BY <2>2, <2>3, <2>4 DEF SearchTypeOK, EntryOK
<1>8. r \in Local /\ loc' = [loc EXCEPT ![t] = r]
  <2>1. r \in Local
    BY <1>3, <1>4 DEF Local
  <2>2. loc' = [loc EXCEPT ![t] = r]
    BY <1>1 DEF TypeOK, ThreadTypeOK, Local
  <2> QED
    BY <2>1, <2>2
<1>9. PtrTypeOK(t)'
  <2>1. pc'[t] = label /\ loc'[t].lev = lev /\ loc'[t].ptr = newp
    BY <1>2, <1>3, <1>8 DEF TypeOK, ThreadTypeOK, Local
  <2> HIDE DEF newp, lev
  <2> QED
    BY <1>1, <1>3, <1>4, <2>1 DEF PtrTypeOK
<1>10. ThreadTypeOK'
  <2> HIDE DEF r
  <2> QED
    BY <1>2, <1>8, <1>9, ThreadStep DEF TypeOK, ForegroundLabel, WorkerLabel
<1> QED
  BY <1>1, <1>7, <1>10 DEF TypeOK, LeafTypeOK, leaf_layer

\* The second store of a new root, and the two stores that unlock the roots.
LEMMA TypeGrown ==
  ASSUME TypeOK, NEW t \in Thread,
         GrowSecondStore(t) \/ UnlockOldRoot(t) \/ UnlockNewRoot(t)
  PROVE  TypeOK'
<1>1. /\ pc[t] \in {"growroot", "growlevel", "unlockold", "unlocknew"}
      /\ UNCHANGED <<ent, ninode, leaf_layer, job_queue, loc>>
  BY DEF GrowSecondStore, UnlockOldRoot, UnlockNewRoot
<1>2. loc[t].lev \in Level \ {0} /\ loc[t].ptr \in InodeNum
  BY <1>1, LocalFields DEF PtrTypeOK
<1>3. PICK label \in {"unlockold", "unlocknew", "ret", "unlock"} :
        /\ pc' = [pc EXCEPT ![t] = label]
        /\ label = "ret" => t \in Foreground
        /\ label = "unlock" => t \in Worker
  <2>1. Done(t) \in {"ret", "unlock"} /\ (Done(t) = "ret" => t \in Foreground)
        /\ (Done(t) = "unlock" => t \in Worker)
    BY DEF Done, Thread
  <2> QED
    BY <2>1 DEF GrowSecondStore, UnlockOldRoot, UnlockNewRoot, Goto
<1>4. SearchTypeOK'
  <2>1. <<loc[t].lev, loc[t].ptr>> \in Inode
    BY <1>2 DEF Inode
  <2>2. tree_root' \in Inode /\ root_level' \in Level
    BY <1>2, <2>1 DEF GrowSecondStore, UnlockOldRoot, UnlockNewRoot, TypeOK,
                      SearchTypeOK
  <2>3. ilock' \in [Inode -> BOOLEAN]
    BY DEF GrowSecondStore, UnlockOldRoot, UnlockNewRoot, TypeOK, SearchTypeOK
  <2> QED
    BY <1>1, <2>2, <2>3 DEF TypeOK, SearchTypeOK
<1>5. ThreadTypeOK'
  <2>1. loc[t] \in Local /\ loc' = [loc EXCEPT ![t] = loc[t]]
    BY <1>1 DEF TypeOK, ThreadTypeOK
  <2>2. PtrTypeOK(t)'
    BY <1>1, <1>2, <1>3 DEF PtrTypeOK, TypeOK, ThreadTypeOK
  <2> QED
    BY <1>3, <2>1, <2>2, Constants, ThreadStep
    DEF TypeOK, ForegroundLabel, WorkerLabel
<1> QED
  BY <1>1, <1>4, <1>5 DEF TypeOK, LeafTypeOK, leaf_layer


-----------------------------------------------------------------------------
(* What a step of one thread leaves alone: the inodes.                     *)

OthersStay(t) ==
  \A u \in Thread : u # t => pc'[u] = pc[u] /\ loc'[u] = loc[u]

Climbing == {"inode", "grow", "growroot", "growlevel", "unlockold",
             "unlocknew"}

\* The step does not change which inodes u holds.
SameClimb(u) ==
  /\ pc[u] \in Climbing \/ pc'[u] \in Climbing =>
       pc'[u] = pc[u] /\ loc'[u] = loc[u]
  /\ HoldsPath(u)' <=> HoldsPath(u)
  /\ HoldsPath(u) => loc'[u].path = loc[u].path /\ loc'[u].lp = loc[u].lp

LEMMA HoldsSame ==
  ASSUME NEW u \in Thread, SameClimb(u), NEW i, NEW x
  PROVE  Holds(u, i, x)' <=> Holds(u, i, x)
<1>1. CASE pc[u] \in Climbing \/ pc'[u] \in Climbing
  <2>1. pc'[u] = pc[u] /\ loc'[u] = loc[u] /\ (HoldsPath(u)' <=> HoldsPath(u))
    BY <1>1 DEF SameClimb
  <2> QED
    BY <2>1 DEF Holds, Low
<1>2. CASE ~(pc[u] \in Climbing \/ pc'[u] \in Climbing)
  <2>1. /\ HoldsPath(u)' <=> HoldsPath(u)
        /\ HoldsPath(u) => loc'[u].path = loc[u].path
    BY DEF SameClimb
  <2> QED
    BY <1>2, <2>1 DEF Holds, Low, Climbing, Growing
<1> QED
  BY <1>1, <1>2

\* t is changing the root, or will if all inodes it locked split.
AtTop(t) ==
  \/ HoldsPath(t) /\ ToRoot(loc[t].path)
  \/ pc[t] \in {"grow", "growroot", "growlevel"}

\* Whatever t holds is an allocated inode.
LEMMA HeldAllocated ==
  ASSUME TypeOK, Linked, NEW t \in Thread, ClimbOK(t), NEW i, NEW x,
         Holds(t, i, x)
  PROVE  i \in Level /\ x \in InodeNum /\ x < ninode[i]
<1> USE Constants
<1>1. CASE HoldsPath(t) /\ i >= Low(t) /\ InReach(loc[t].path, i)
           /\ x = loc[t].path.parray[i]
  <2>1. loc[t].path \in Path /\ loc[t].path.rl \in Level
    BY LocalFields DEF Path
  <2>2. i \in Level /\ i \in 0..loc[t].path.rl /\ Low(t) \in Nat
    BY <1>1, <2>1, LocalFields DEF InReach, Level, Low
  <2>3. i \in Low(t)..loc[t].path.rl
    BY <1>1, <2>1, <2>2 DEF Level
  <2> QED
    BY <1>1, <2>1, <2>2, <2>3 DEF ClimbOK, PathTrue, Path
<1>2. CASE pc[t] = "grow" /\ i = loc[t].lev - 1 /\ x = loc[t].path.parray[i]
  <2>1. tree_root = <<i, x>>
    BY <1>2 DEF ClimbOK, RootState
  <2> QED
    BY <2>1 DEF TypeOK, SearchTypeOK, Inode, Linked
<1>3. CASE pc[t] \in Growing /\ i = loc[t].lev - 1 /\ x = loc[t].old_root
  <2>1. loc[t].lev \in Level \ {0} /\ loc[t].old_root \in InodeNum
    BY <1>3, LocalFields DEF PtrTypeOK, Growing
  <2> QED
    BY <1>3, <2>1 DEF ClimbOK, CarriedInode, Level
<1>4. CASE pc[t] \in Growing \cup {"unlocknew"} /\ i = loc[t].lev
           /\ x = loc[t].ptr
  <2>1. loc[t].lev \in Level \ {0} /\ loc[t].ptr \in InodeNum
    BY <1>4, LocalFields DEF PtrTypeOK, Growing
  <2> QED
    BY <1>4, <2>1 DEF ClimbOK, CarriedInode
<1> QED
  BY <1>1, <1>2, <1>3, <1>4 DEF Holds

\* Whoever is at the top holds the root, so one thread at most is.
LEMMA OneAtTop ==
  ASSUME TypeOK, InodeLocks, NEW t \in Thread, NEW u \in Thread, t # u,
         ClimbOK(t), ClimbOK(u), AtTop(t)
  PROVE  ~AtTop(u)
<1>1. ASSUME NEW v \in Thread, ClimbOK(v), AtTop(v)
      PROVE  Holds(v, tree_root[1], tree_root[2])
  <2>1. CASE HoldsPath(v) /\ ToRoot(loc[v].path)
    <3> DEFINE path == loc[v].path
    <3>1. tree_root = <<path.rl, path.parray[path.rl]>>
      BY <1>1, <2>1 DEF ClimbOK, Climb
    <3>2. InReach(path, path.rl) /\ path.rl \in Level
      BY <2>1, LocalFields DEF ToRoot, Path
    <3>3. path.rl >= Low(v)
      <4>1. CASE pc[v] = "inode"
        <5>1. InReach(path, loc[v].lev)
          BY <1>1, <4>1 DEF ClimbOK, Climb
        <5> QED
          BY <3>2, <4>1, <5>1, Constants DEF InReach, Low, Level
      <4>2. CASE pc[v] # "inode"
        BY <3>2, <4>2, Constants DEF Low, Level
      <4> QED
        BY <4>1, <4>2
    <3> QED
      BY <2>1, <3>1, <3>2, <3>3 DEF Holds
  <2>2. CASE pc[v] = "grow"
    BY <1>1, <2>2 DEF ClimbOK, RootState, Holds
  <2>3. CASE pc[v] \in {"growroot", "growlevel"}
    BY <1>1, <2>3 DEF ClimbOK, RootState, Holds, Growing
  <2> QED
    BY <1>1, <2>1, <2>2, <2>3 DEF AtTop
<1>2. tree_root[1] \in Level /\ tree_root[2] \in InodeNum
  BY DEF TypeOK, SearchTypeOK, Inode
<1> QED
  BY <1>1, <1>2 DEF InodeLocks

\* A step that leaves u's inodes and the root u may hold alone.
LEMMA ClimbKept ==
  ASSUME TypeOK, TypeOK', NEW u \in Thread, ClimbOK(u), SameClimb(u),
         \A i \in Level : ninode[i] <= ninode'[i],
         \A i \in Level, x \in InodeNum :
           Holds(u, i, x) => ent'[<<i, x>>] = ent[<<i, x>>],
         \/ UNCHANGED <<tree_root, root_level>>
         \/ ~AtTop(u) /\ root_level <= root_level'
  PROVE  ClimbOK(u)'
<1> USE Constants
<1>1. /\ loc[u].path \in Path /\ loc[u].lev \in Nat
      /\ loc[u].path.rl \in Nat /\ loc[u].path.rl \in Level
      /\ root_level \in Nat /\ root_level' \in Nat
      /\ \A i \in Level : ninode[i] \in Nat /\ ninode'[i] \in Nat
  <2>1. /\ loc[u].path \in Path /\ loc[u].lev \in Nat
        /\ loc[u].path.rl \in Nat /\ loc[u].path.rl \in Level
    BY LocalFields, SMTT(20) DEF Path, Level
  <2>2. /\ root_level \in Level /\ root_level' \in Level
        /\ \A i \in Level : ninode[i] \in 0..MaxInode /\ ninode'[i] \in 0..MaxInode
    BY DEF TypeOK, SearchTypeOK
  <2> QED
    BY <2>1, <2>2 DEF Level
<1>2. /\ pc[u] = "inode" <=> pc'[u] = "inode"
      /\ Low(u)' = Low(u) /\ Low(u) \in Nat
  BY <1>1 DEF SameClimb, Climbing, Low
<1>3. PathTrue(u)'
  <2> SUFFICES ASSUME HoldsPath(u)',
                      NEW i \in Low(u)'..loc'[u].path.rl,
                      InReach(loc'[u].path, i)
               PROVE  /\ loc'[u].path.parray[i] < ninode'[i]
                      /\ loc'[u].path.ppos[i]
                           <= Len(ent'[<<i, loc'[u].path.parray[i]>>].k)
                      /\ loc'[u].path.isfull[i] <=>
                           Len(ent'[<<i, loc'[u].path.parray[i]>>].k)
                             = NON_LEAF_KEY_NUM
    BY DEF PathTrue, num
  <2>1. HoldsPath(u) /\ loc'[u].path = loc[u].path
    BY DEF SameClimb
  <2>2. /\ i \in Low(u)..loc[u].path.rl /\ InReach(loc[u].path, i)
    BY <1>2, <2>1
  <2>3. i \in Level /\ i >= Low(u)
    BY <1>1, <1>2, <2>2 DEF Level
  <2>4. PICK x \in InodeNum : x = loc[u].path.parray[i]
    BY <1>1, <2>3 DEF Path
  <2>5. Holds(u, i, x)
    BY <2>1, <2>2, <2>3, <2>4 DEF Holds
  <2>6. ent'[<<i, x>>] = ent[<<i, x>>]
    BY <2>3, <2>5
  <2>7. /\ x < ninode[i] /\ loc[u].path.ppos[i] <= Len(ent[<<i, x>>].k)
        /\ loc[u].path.isfull[i] <=> Len(ent[<<i, x>>].k) = NON_LEAF_KEY_NUM
    BY <2>1, <2>2, <2>4 DEF ClimbOK, PathTrue, num
  <2>8. x < ninode'[i]
    <3>1. ninode[i] <= ninode'[i] /\ x \in Nat
      BY <2>3 DEF InodeNum
    <3> QED
      BY <1>1, <2>3, <2>7, <3>1
  <2> QED
    BY <2>1, <2>4, <2>6, <2>7, <2>8
<1>4. LeafOfPath(u)'
  <2> SUFFICES ASSUME u \in Foreground, HoldsPath(u)', pc'[u] # "inode"
               PROVE  ent'[<<0, loc'[u].path.parray[0]>>]
                        .ch[loc'[u].path.ppos[0] + 1] = loc'[u].lp
    BY DEF LeafOfPath
  <2>1. /\ HoldsPath(u) /\ pc[u] # "inode"
        /\ loc'[u].path = loc[u].path /\ loc'[u].lp = loc[u].lp
    BY <1>2 DEF SameClimb
  <2>2. 0 \in Level /\ loc[u].path.parray[0] \in InodeNum
    BY <1>1 DEF Level, Path
  <2>3. Holds(u, 0, loc[u].path.parray[0])
    BY <1>1, <2>1 DEF Holds, Low, InReach
  <2> QED
    BY <2>1, <2>2, <2>3, SMTT(30) DEF ClimbOK, LeafOfPath
<1>5. Climb(u)'
  <2>1. pc'[u] = "inode" => loc'[u] = loc[u] /\ pc[u] = "inode"
    BY DEF SameClimb, Climbing
  <2>2. HoldsPath(u)' => HoldsPath(u) /\ loc'[u].path = loc[u].path
    BY DEF SameClimb
  <2>3. Climb(u)
    BY DEF ClimbOK
  <2>4. HoldsPath(u) => loc[u].path.rl <= root_level'
    <3>1. root_level <= root_level'
      BY <1>1
    <3> QED
      BY <1>1, <2>3, <3>1 DEF Climb
  <2>5. HoldsPath(u) /\ ToRoot(loc[u].path) =>
          /\ root_level' = loc[u].path.rl
          /\ tree_root' = <<loc[u].path.rl, loc[u].path.parray[loc[u].path.rl]>>
    BY <2>3 DEF Climb, AtTop
  <2> QED
    BY <2>1, <2>2, <2>3, <2>4, <2>5 DEF Climb
<1>6. RootState(u)'
  <2>1. pc'[u] \in {"grow", "growroot", "growlevel"} =>
          pc'[u] = pc[u] /\ loc'[u] = loc[u]
          /\ UNCHANGED <<tree_root, root_level>>
    BY DEF SameClimb, Climbing, AtTop
  <2> QED
    BY <2>1 DEF ClimbOK, RootState
<1>7. CarriedInode(u)'
  <2>1. pc'[u] \in Climbing => pc'[u] = pc[u] /\ loc'[u] = loc[u]
    BY DEF SameClimb
  <2>2. PtrTypeOK(u) /\ loc[u].old_root \in Nat /\ loc[u].ptr \in Nat
    BY LocalFields DEF InodeNum
  <2>3. /\ pc[u] = "inode" /\ loc[u].lev > 0 => loc[u].lev - 1 \in Level
        /\ pc[u] = "grow" => loc[u].lev - 1 \in Level
        /\ pc[u] \in Growing \cup {"unlocknew"} =>
             loc[u].lev \in Level /\ loc[u].lev - 1 \in Level
    BY <2>2, LocalFields DEF PtrTypeOK, Growing, Level
  <2>4. \A i \in Level, y \in Nat : y < ninode[i] => y < ninode'[i]
    BY <1>1
  <2> QED
    BY <2>1, <2>2, <2>3, <2>4 DEF ClimbOK, CarriedInode, Climbing, Growing
<1> QED
  BY <1>3, <1>4, <1>5, <1>6, <1>7 DEF ClimbOK

\* t takes unlocked inodes only, and gives up its own only.
LEMMA LocksStep ==
  ASSUME InodeLocks, NEW t \in Thread,
         \A u \in Thread : u # t => SameClimb(u),
         \A i \in Level, x \in InodeNum :
           /\ Holds(t, i, x)' => Holds(t, i, x) \/ ~ilock[<<i, x>>]
           /\ ilock'[<<i, x>>] <=> \/ Holds(t, i, x)'
                                   \/ ilock[<<i, x>>] /\ ~Holds(t, i, x)
  PROVE  InodeLocks'
<1>1. ASSUME NEW u \in Thread, u # t, NEW i, NEW x
      PROVE  Holds(u, i, x)' <=> Holds(u, i, x)
  BY <1>1, HoldsSame
<1>2. ASSUME NEW i \in Level, NEW x \in InodeNum
      PROVE  ilock'[<<i, x>>] <=> \E u \in Thread : Holds(u, i, x)'
  BY <1>1 DEF InodeLocks
<1>3. ASSUME NEW u \in Thread, NEW v \in Thread, u # v,
             NEW i \in Level, NEW x \in InodeNum
      PROVE  ~(Holds(u, i, x)' /\ Holds(v, i, x)')
  <2>1. Holds(t, i, x)' => Holds(t, i, x) \/ ~ilock[<<i, x>>]
    OBVIOUS
  <2>2. ASSUME NEW w \in Thread, w # t
        PROVE  ~(Holds(t, i, x)' /\ Holds(w, i, x)')
    BY <1>1, <2>1, <2>2 DEF InodeLocks
  <2>3. CASE u # t /\ v # t
    BY <1>1, <1>3, <2>3 DEF InodeLocks
  <2> QED
    BY <1>3, <2>2, <2>3
<1> QED
  BY <1>2, <1>3 DEF InodeLocks
-----------------------------------------------------------------------------
(* What a step of one thread leaves alone: the leaves.                     *)

\* No leaf of another thread is changed.
OthersLeaf(t) ==
  \A u \in Thread : u # t /\ HoldsLeaf(u) =>
    /\ meta'[loc[u].lp] = meta[loc[u].lp]
    /\ version'[loc[u].lp] = version[loc[u].lp]

LEMMA OthersClimb ==
  ASSUME NEW t \in Thread, OthersStay(t), OthersLeaf(t),
         NEW u \in Thread, u # t
  PROVE  SameClimb(u)
<1>1. pc'[u] = pc[u] /\ loc'[u] = loc[u]
  BY DEF OthersStay
<1>2. pc[u] = "copy" /\ u \in Foreground =>
        meta'[loc[u].lp] = meta[loc[u].lp]
  BY DEF OthersLeaf, HoldsLeaf
<1>3. HoldsPath(u)' <=> HoldsPath(u)
  BY <1>1, <1>2 DEF HoldsPath, isFull
<1> QED
  BY <1>1, <1>3 DEF SameClimb

LEMMA OthersKnow ==
  ASSUME NEW t \in Thread, OthersStay(t), OthersLeaf(t),
         NEW u \in Thread, u # t, LeafKnown(u)
  PROVE  LeafKnown(u)'
<1>1. pc'[u] = pc[u] /\ loc'[u] = loc[u]
  BY DEF OthersStay
<1>2. pc[u] \in {"copy", "fill", "build", "publish", "addleft"} =>
        /\ meta'[loc[u].lp] = meta[loc[u].lp]
        /\ version'[loc[u].lp] = version[loc[u].lp]
  BY DEF OthersLeaf, HoldsLeaf
<1> QED
  BY <1>1, <1>2 DEF LeafKnown, isFull

\* Only the lock of leaf l changes; t had it, or nobody, and the bit says
\* whether t has it now.
LEMMA LeafLocksStep ==
  ASSUME TypeOK, LeafLockOwner, NEW t \in Thread, OthersStay(t),
         NEW l \in LnodeId,
         \A x \in LnodeId : x # l => (meta'[x].lock <=> meta[x].lock),
         HoldsLeaf(t) => loc[t].lp = l,
         HoldsLeaf(t)' => loc'[t].lp = l,
         HoldsLeaf(t) \/ \A u \in Thread : HoldsLeaf(u) => loc[u].lp # l,
         HoldsLeaf(t)' /\ pc'[t] # "addleft" => meta'[l].lock,
         meta'[l].lock => HoldsLeaf(t)'
  PROVE  LeafLockOwner'
<1>1. ASSUME NEW u \in Thread, u # t
      PROVE  /\ pc'[u] = pc[u] /\ loc'[u] = loc[u]
             /\ HoldsLeaf(u)' <=> HoldsLeaf(u)
             /\ loc[u].lp \in LnodeId
             /\ HoldsLeaf(u) => loc[u].lp # l
  <2>1. pc'[u] = pc[u] /\ loc'[u] = loc[u]
    BY <1>1 DEF OthersStay
  <2>2. HoldsLeaf(u) => loc[u].lp # l
    BY <1>1 DEF LeafLockOwner
  <2> QED
    BY <2>1, <2>2, LocalFields DEF HoldsLeaf
<1>2. ASSUME NEW u \in Thread, HoldsLeaf(u)', pc'[u] # "addleft"
      PROVE  meta'[loc'[u].lp].lock
  BY <1>1, <1>2 DEF LeafLockOwner
<1>3. ASSUME NEW u \in Thread, NEW v \in Thread, u # v, HoldsLeaf(u)',
             HoldsLeaf(v)'
      PROVE  loc'[u].lp # loc'[v].lp
  BY <1>1, <1>3 DEF LeafLockOwner
<1>4. ASSUME NEW x \in LnodeId, meta'[x].lock
      PROVE  \E u \in Thread : HoldsLeaf(u)' /\ loc'[u].lp = x
  <2>1. CASE x = l
    BY <1>4, <2>1
  <2>2. CASE x # l
    <3>1. PICK u \in Thread : HoldsLeaf(u) /\ loc[u].lp = x
      BY <1>4, <2>2 DEF LeafLockOwner
    <3>2. u # t
      BY <2>2, <3>1
    <3> QED
      BY <1>1, <3>1, <3>2
  <2> QED
    BY <2>1, <2>2
<1> QED
  BY <1>2, <1>3, <1>4 DEF LeafLockOwner

LEMMA LockOwnerKept ==
  ASSUME LeafLockOwner, NEW t \in Thread, OthersStay(t), UNCHANGED meta,
         HoldsLeaf(t)' <=> HoldsLeaf(t),
         HoldsLeaf(t) => loc'[t].lp = loc[t].lp,
         pc'[t] = "addleft" <=> pc[t] = "addleft"
  PROVE  LeafLockOwner'
<1>1. ASSUME NEW u \in Thread
      PROVE  /\ HoldsLeaf(u)' <=> HoldsLeaf(u)
             /\ HoldsLeaf(u) => loc'[u].lp = loc[u].lp
             /\ pc'[u] = "addleft" <=> pc[u] = "addleft"
  BY DEF OthersStay, HoldsLeaf
<1> QED
  BY <1>1 DEF LeafLockOwner

LEMMA LeafAllocatedStep ==
  ASSUME TypeOK, TypeOK', LeafAllocated, NEW t \in Thread, OthersStay(t),
         nleaf <= nleaf',
         HoldsLeaf(t)' \/ pc'[t] \in {"flush", "lock"} => loc'[t].lp < nleaf,
         \A job \in job_queue' : job[1] < nleaf
  PROVE  LeafAllocated'
<1>1. nleaf \in Nat /\ nleaf' \in Nat
  BY Constants DEF TypeOK, LeafTypeOK
<1>2. \A y \in LnodeId : y \in Nat
  BY DEF LnodeId
<1>3. ASSUME NEW u \in Thread, HoldsLeaf(u)' \/ pc'[u] \in {"flush", "lock"}
      PROVE  loc'[u].lp < nleaf'
  <2>1. loc'[u].lp < nleaf
    BY <1>3 DEF OthersStay, LeafAllocated, HoldsLeaf
  <2>2. loc'[u].lp \in LnodeId
    BY DEF TypeOK, ThreadTypeOK, Local
  <2> QED
    BY <1>1, <1>2, <2>1, <2>2
<1>4. ASSUME NEW job \in job_queue' PROVE job[1] < nleaf'
  <2>1. job[1] < nleaf /\ job[1] \in LnodeId
    BY <1>4 DEF TypeOK, LeafTypeOK
  <2> QED
    BY <1>1, <1>2, <2>1
<1> QED
  BY <1>3, <1>4 DEF LeafAllocated

\* No new job, and the leaf of a job that still counts is left alone.
LEMMA JobsStep ==
  ASSUME TypeOK, TypeOK', JobsOK, NEW t \in Thread, OthersStay(t),
         \A job \in job_queue' : Pending(job[1], job[2]),
         pc'[t] = "lock" \/ (pc'[t] = "flush" /\ FilledLeaf(t)') =>
           Pending(loc'[t].lp, loc'[t].version),
         \A l \in LnodeId : \/ version'[l] = version[l]
                            \/ ~Pending(l, version'[l]),
         \A l \in LnodeId :
           Pending(l, version[l]) /\ version'[l] = version[l] =>
             /\ meta'[l].bitmap = meta[l].bitmap
             /\ pc'[t] \in {"publish", "addleft"} => loc'[t].lp # l
  PROVE  JobsOK'
<1> SUFFICES ASSUME NEW l \in LnodeId, Pending(l, version[l])'
             PROVE  /\ isFull(l)'
                    /\ \A u \in Thread :
                         pc'[u] \in {"publish", "addleft"} => loc'[u].lp # l
  BY DEF JobsOK
<1>0. PICK v : v = version'[l] /\ Pending(l, v)'
  BY DEF Pending
<1>1. Pending(l, v)
  <2>1. CASE <<l, v>> \in job_queue'
    BY <2>1
  <2>2. CASE <<l, v>> \notin job_queue'
    <3>1. PICK u \in Thread :
            /\ loc'[u].lp = l /\ loc'[u].version = v
            /\ pc'[u] = "lock" \/ (pc'[u] = "flush" /\ FilledLeaf(u)')
      BY <1>0, <2>2 DEF Pending
    <3>2. CASE u = t
      <4>1. /\ loc'[t].lp = l /\ loc'[t].version = v
            /\ pc'[t] = "lock" \/ (pc'[t] = "flush" /\ FilledLeaf(t)')
        BY <3>1, <3>2
      <4>2. Pending(loc'[t].lp, loc'[t].version)
        BY <4>1
      <4> QED
        BY <4>1, <4>2
    <3>3. CASE u # t
      <4>1. pc'[u] = pc[u] /\ loc'[u] = loc[u]
        BY <3>3 DEF OthersStay
      <4>2. FilledLeaf(u)' <=> FilledLeaf(u)
        BY <4>1 DEF FilledLeaf
      <4> QED
        BY <3>1, <4>1, <4>2 DEF Pending
    <3> QED
      BY <3>2, <3>3
  <2> QED
    BY <2>1, <2>2
<1>2. version'[l] = version[l] /\ v = version[l]
  BY <1>0, <1>1
<1>3. /\ meta'[l].bitmap = meta[l].bitmap
      /\ pc'[t] \in {"publish", "addleft"} => loc'[t].lp # l
  BY <1>1, <1>2
<1>4. /\ isFull(l)
      /\ \A u \in Thread : pc[u] \in {"publish", "addleft"} => loc[u].lp # l
  BY <1>1, <1>2 DEF JobsOK
<1> QED
  BY <1>3, <1>4 DEF isFull, OthersStay

-----------------------------------------------------------------------------
(* Steps that leave a layer alone.                                         *)

LEMMA SearchLayerKept ==
  ASSUME TypeOK, TypeOK', ClimbInv, NEW t \in Thread, OthersStay(t),
         OthersLeaf(t), SameClimb(t), UNCHANGED search_layer
  PROVE  ClimbInv'
<1>1. \A u \in Thread : SameClimb(u)
  BY OthersClimb
<1>2. UNCHANGED <<tree_root, root_level, ent, ilock, ninode>>
  BY DEF search_layer
<1>3. ASSUME NEW u \in Thread PROVE ClimbOK(u)'
  <2>1. \A i \in Level : ninode[i] <= ninode'[i]
    <3>1. \A i \in Level : ninode[i] \in 0..MaxInode
      BY DEF TypeOK, SearchTypeOK
    <3> QED
      BY <1>2, <3>1, Constants
  <2> QED
    BY <1>1, <1>2, <2>1, ClimbKept DEF ClimbInv
<1>4. InodeLocks'
  <2>1. \A i \in Level, x \in InodeNum : Holds(t, i, x)' <=> Holds(t, i, x)
    BY <1>1, HoldsSame
  <2>2. \A i \in Level, x \in InodeNum : Holds(t, i, x) => ilock[<<i, x>>]
    BY DEF ClimbInv, InodeLocks
  <2> QED
    BY <1>1, <1>2, <2>1, <2>2, LocksStep DEF ClimbInv
<1>5. RootLevel'
  BY <1>1, <1>2 DEF ClimbInv, RootLevel, SameClimb, Climbing
<1> QED
  BY <1>3, <1>4, <1>5 DEF ClimbInv

\* What a child of level i must be below.
Bound(i) == IF i = 0 THEN nleaf ELSE ninode[i - 1]

\* Children that are new are allocated already, the others stay.
LEMMA LinkedStep ==
  ASSUME TypeOK, TypeOK', Linked, nleaf <= nleaf',
         \A i \in Level : ninode[i] <= ninode'[i],
         \/ UNCHANGED tree_root
         \/ tree_root'[2] < ninode'[tree_root'[1]],
         \A i \in Level, x \in InodeNum : x < ninode'[i] =>
           \/ x < ninode[i] /\ ent'[<<i, x>>].ch = ent[<<i, x>>].ch
           \/ \A j \in DOMAIN ent'[<<i, x>>].ch :
                ent'[<<i, x>>].ch[j] < Bound(i)
  PROVE  Linked'
<1>1. /\ nleaf \in Nat /\ nleaf' \in Nat
      /\ \A i \in Level : ninode[i] \in Nat /\ ninode'[i] \in Nat
      /\ \A i \in Level : i # 0 => i - 1 \in Level
  <2>1. \A i \in Level : ninode[i] \in 0..MaxInode /\ ninode'[i] \in 0..MaxInode
    BY DEF TypeOK, SearchTypeOK
  <2> QED
    BY <2>1, Constants DEF TypeOK, LeafTypeOK, Level
<1>2. tree_root'[2] < ninode'[tree_root'[1]]
  <2>1. CASE UNCHANGED tree_root
    <3>1. /\ tree_root[1] \in Level /\ tree_root[2] \in Nat
          /\ tree_root[2] < ninode[tree_root[1]]
      BY DEF TypeOK, SearchTypeOK, Inode, InodeNum, Linked
    <3>2. ninode[tree_root[1]] <= ninode'[tree_root[1]]
      BY <3>1
    <3> QED
      BY <1>1, <2>1, <3>1, <3>2
  <2> QED
    BY <2>1
<1>3. ASSUME NEW i \in Level, NEW x \in InodeNum, x < ninode'[i],
             NEW j \in DOMAIN ent'[<<i, x>>].ch
      PROVE  ent'[<<i, x>>].ch[j] < IF i = 0 THEN nleaf' ELSE ninode'[i - 1]
  <2>1. ent'[<<i, x>>].ch[j] < Bound(i)
    <3>1. CASE x < ninode[i] /\ ent'[<<i, x>>].ch = ent[<<i, x>>].ch
      BY <3>1 DEF Linked, Bound
    <3> QED
      BY <1>3, <3>1
  <2>2. ent'[<<i, x>>].ch[j] \in Nat
    <3>1. ent'[<<i, x>>].ch \in Seq(ChildId(i))
      BY DEF TypeOK, SearchTypeOK, Inode
    <3>2. ent'[<<i, x>>].ch[j] \in ChildId(i)
      BY <3>1, <1>3, LenProperties
    <3>3. ChildId(i) \subseteq Nat
      BY Constants DEF ChildId, LnodeId, InodeNum
    <3> QED
      BY <3>2, <3>3
  <2>3. CASE i = 0
    BY <1>1, <2>1, <2>2, <2>3 DEF Bound
  <2>4. CASE i # 0
    <3>1. i - 1 \in Level /\ ninode[i - 1] <= ninode'[i - 1]
      BY <1>1, <2>4
    <3> QED
      BY <1>1, <2>1, <2>2, <2>4, <3>1 DEF Bound
  <2> QED
    BY <2>3, <2>4
<1> QED
  BY <1>2, <1>3 DEF Linked

LEMMA LinkedKept ==
  ASSUME TypeOK, TypeOK', Linked, UNCHANGED <<ent, ninode>>,
         \/ UNCHANGED tree_root
         \/ tree_root'[2] < ninode'[tree_root'[1]],
         nleaf <= nleaf'
  PROVE  Linked'
<1>1. \A i \in Level : ninode[i] <= ninode'[i]
  <2>1. \A i \in Level : ninode[i] \in 0..MaxInode
    BY DEF TypeOK, SearchTypeOK
  <2> QED
    BY <2>1, Constants
<1> QED
  BY <1>1, LinkedStep

\* No bottom inode changes its children.
LEMMA UseKept ==
  ASSUME TypeOK, TypeOK', OneUse, CarriedLeaf, NEW t \in Thread,
         OthersStay(t), nleaf <= nleaf',
         \A l, j : \A x \in InodeNum : Hangs(l, x, j)' <=> Hangs(l, x, j),
         Carries(t)' => Carries(t) /\ loc'[t].ptr = loc[t].ptr
  PROVE  OneUse' /\ CarriedLeaf'
<1>1. nleaf \in Nat /\ nleaf' \in Nat
  BY Constants DEF TypeOK, LeafTypeOK
<1>2. OneUse'
  BY DEF OneUse
<1>3. ASSUME NEW u \in Thread, Carries(u)'
      PROVE  Carries(u) /\ loc'[u].ptr = loc[u].ptr
  BY <1>3 DEF OthersStay, Carries
<1>4. ASSUME NEW u \in Thread, Carries(u)'
      PROVE  /\ loc'[u].ptr < nleaf'
             /\ \A x \in InodeNum, j \in ChildPlace : ~Hangs(loc[u].ptr, x, j)
  <2>1. loc[u].ptr < nleaf /\ loc[u].ptr \in Nat
    BY <1>3, <1>4, LocalFields DEF CarriedLeaf
  <2>2. loc'[u].ptr < nleaf'
    BY <1>1, <1>3, <1>4, <2>1
  <2> QED
    BY <1>3, <1>4, <2>2 DEF CarriedLeaf
<1>5. ASSUME NEW u \in Thread, Carries(u)',
             NEW x \in InodeNum, NEW j \in ChildPlace
      PROVE  ~Hangs(loc[u].ptr, x, j)'
  <2>1. loc'[u].ptr = loc[u].ptr /\ ~Hangs(loc[u].ptr, x, j)
    BY <1>3, <1>4, <1>5
  <2> DEFINE l == loc[u].ptr
  <2> HIDE DEF l
  <2>2. \A y : y = l => (Hangs(y, x, j)' <=> Hangs(y, x, j))
    OBVIOUS
  <2> QED
    BY <2>1, <2>2 DEF Hangs, l
<1>6. ASSUME NEW u \in Thread, NEW v \in Thread, u # v, Carries(u)', Carries(v)'
      PROVE  loc'[u].ptr # loc'[v].ptr
  BY <1>3, <1>6 DEF CarriedLeaf
<1>7. CarriedLeaf'
  BY <1>4, <1>5, <1>6 DEF CarriedLeaf
<1> QED
  BY <1>2, <1>7

LEMMA TreeKept ==
  ASSUME TypeOK, TypeOK', TreeInv, NEW t \in Thread, OthersStay(t),
         UNCHANGED <<ent, ninode>>, nleaf <= nleaf',
         \/ UNCHANGED tree_root
         \/ tree_root'[2] < ninode'[tree_root'[1]],
         Carries(t)' => Carries(t) /\ loc'[t].ptr = loc[t].ptr
  PROVE  TreeInv'
<1>1. Linked'
  BY LinkedKept DEF TreeInv
<1>2. \A l, x, j : Hangs(l, x, j)' <=> Hangs(l, x, j)
  BY DEF Hangs
<1>3. OneUse' /\ CarriedLeaf'
  BY <1>2, UseKept DEF TreeInv
<1> QED
  BY <1>1, <1>3 DEF TreeInv

\* A step on the search layer, or on none.
LEMMA LeafLayerKept ==
  ASSUME TypeOK, TypeOK', LeafInv, NEW t \in Thread, OthersStay(t),
         UNCHANGED <<leaf_layer, job_queue>>,
         HoldsLeaf(t)' <=> HoldsLeaf(t),
         HoldsLeaf(t) => loc'[t].lp = loc[t].lp,
         pc[t] # "addleft",
         pc'[t] \notin {"copy", "fill", "flush", "build", "publish",
                        "addleft", "lock"}
  PROVE  LeafInv'
<1>1. UNCHANGED <<meta, tail, version, nleaf, job_queue>>
  BY DEF leaf_layer
<1>2. \A u \in Thread : u # t => LeafKnown(u)'
  BY <1>1, OthersKnow DEF LeafInv, OthersLeaf
<1>3. LeafKnown(t)'
  BY DEF LeafKnown
<1>4. LeafLockOwner'
  <2>1. pc'[t] = "addleft" <=> pc[t] = "addleft"
    OBVIOUS
  <2> QED
    BY <1>1, <2>1, LockOwnerKept DEF LeafInv
<1>5. LeafAllocated'
  <2>1. nleaf \in Nat /\ nleaf <= nleaf'
    BY <1>1, Constants DEF TypeOK, LeafTypeOK
  <2> QED
    BY <1>1, <2>1, LeafAllocatedStep DEF LeafInv, LeafAllocated
<1>6. JobsOK'
  <2>1. \A l \in LnodeId : version'[l] = version[l]
    BY <1>1
  <2>2. \A job \in job_queue' : Pending(job[1], job[2])
    <3>1. \A job \in job_queue : job = <<job[1], job[2]>>
      BY DEF TypeOK, LeafTypeOK
    <3> QED
      BY <1>1, <3>1 DEF Pending
  <2> QED
    BY <1>1, <2>1, <2>2, JobsStep DEF LeafInv
<1> QED
  BY <1>2, <1>3, <1>4, <1>5, <1>6 DEF LeafInv

\* A step on leaves only.
LEMMA LeafStep ==
  ASSUME IndInv, TypeOK', NEW t \in Thread, OthersStay(t), OthersLeaf(t),
         SameClimb(t), UNCHANGED search_layer, nleaf <= nleaf',
         Carries(t)' => Carries(t) /\ loc'[t].ptr = loc[t].ptr,
         LeafLockOwner', LeafAllocated', JobsOK', LeafKnown(t)'
  PROVE  IndInv'
<1>1. ClimbInv'
  BY SearchLayerKept DEF IndInv
<1>2. TreeInv'
  BY TreeKept DEF IndInv, search_layer
<1>3. ASSUME NEW u \in Thread PROVE LeafKnown(u)'
  <2>1. CASE u = t
    BY <2>1
  <2> QED
    BY <2>1, OthersKnow DEF IndInv, LeafInv
<1> QED
  BY <1>1, <1>2, <1>3 DEF IndInv, LeafInv

\* Versions and the number of leaves are numbers.
LEMMA LeafNumbers ==
  ASSUME TypeOK
  PROVE  /\ nleaf \in Nat
         /\ \A l \in LnodeId : l \in Nat /\ version[l] \in Nat
         /\ \A job \in job_queue : job = <<job[1], job[2]>>
BY Constants DEF TypeOK, LeafTypeOK, Version, LnodeId

-----------------------------------------------------------------------------
(* The steps, one lemma for each action.                                   *)

\* A step that only moves t.
LEMMA Stay ==
  ASSUME TypeOK, NEW t \in Thread, NEW label, NEW r,
         pc' = [pc EXCEPT ![t] = label], loc' = [loc EXCEPT ![t] = r]
  PROVE  OthersStay(t) /\ pc'[t] = label /\ loc'[t] = r
BY DEF OthersStay, TypeOK, ThreadTypeOK

\* A client outside the part of a call that holds anything.
Outside ==
  {"idle", "find", "search", "reading", "found", "other", "missing", "ret"}

LEMMA QuietStep ==
  ASSUME IndInv, TypeOK', NEW t \in Foreground, OthersStay(t),
         pc[t] \in Outside, pc'[t] \in Outside,
         UNCHANGED <<search_layer, leaf_layer, job_queue>>
  PROVE  IndInv'
<1>1. t \in Thread /\ t \notin Worker
  BY Constants DEF Thread
<1>2. /\ UNCHANGED <<tree_root, root_level, ent, ilock, ninode>>
      /\ UNCHANGED <<meta, tail, version, nleaf, job_queue>>
  BY DEF search_layer, leaf_layer
<1>3. OthersLeaf(t) /\ SameClimb(t)
  BY <1>1, <1>2
  DEF OthersLeaf, SameClimb, Climbing, HoldsPath, Outside
<1>4. ClimbInv'
  BY <1>1, <1>3, SearchLayerKept DEF IndInv
<1>5. TreeInv'
  <2>1. nleaf \in Nat
    BY Constants DEF IndInv, TypeOK, LeafTypeOK
  <2>2. ~Carries(t)'
    BY DEF Carries, Outside
  <2> QED
    BY <1>1, <1>2, <2>1, <2>2, TreeKept DEF IndInv
<1>6. LeafInv'
  <2>1. ~HoldsLeaf(t) /\ ~HoldsLeaf(t)'
    BY DEF HoldsLeaf, Outside
  <2>2. pc[t] # "addleft"
        /\ pc'[t] \notin {"copy", "fill", "flush", "build", "publish",
                          "addleft", "lock"}
    BY DEF Outside
  <2> QED
    BY <1>1, <2>1, <2>2, LeafLayerKept DEF IndInv
<1> QED
  BY <1>4, <1>5, <1>6 DEF IndInv

LEMMA InvCall ==
  ASSUME IndInv, NEW t \in Foreground,
         Call(t) \/ SearchLnode(t) \/ ReadCh(t) \/ Return(t)
  PROVE  IndInv'
<1>1. t \in Thread
  BY DEF Thread
<1>2. TypeOK'
  BY TypeCall, TypeSearch, TypeReturn DEF IndInv
<1>3. PICK label \in Outside : pc' = [pc EXCEPT ![t] = label]
  BY DEF Call, SearchLnode, ReadCh, Return, SearchResult, Goto, Outside
<1>4. PICK r : loc' = [loc EXCEPT ![t] = r]
  <2>1. CASE Call(t)
    <3>1. PICK k \in Work[t] : loc' = [loc EXCEPT ![t].key = k]
      BY <2>1 DEF Call
    <3> QED
      BY <3>1
  <2>2. CASE SearchLnode(t) \/ ReadCh(t)
    BY <2>2, SearchLocal DEF IndInv
  <2>3. CASE Return(t)
    BY <2>3 DEF Return
  <2> QED
    BY <2>1, <2>2, <2>3
<1>5. OthersStay(t) /\ pc'[t] \in Outside
  BY <1>1, <1>3, <1>4, Stay DEF IndInv
<1> QED
  BY <1>2, <1>5, QuietStep
  DEF Call, SearchLnode, ReadCh, Return, Outside

\* What a transaction's path says holds when it commits.
LEMMA PathFacts ==
  ASSUME TypeOK, Linked, NEW key \in Key, NEW p \in Descents(key)
  PROVE  LET path == PathTaken(p, key) IN
         /\ path \in Path /\ path.rl = root_level
         /\ tree_root = <<root_level, path.parray[root_level]>>
         /\ \A i \in 0..root_level :
              LET n == <<i, path.parray[i]>> IN
              /\ i \in Level /\ n \in Inode /\ n[2] < ninode[i] /\ ~ilock[n]
              /\ path.ppos[i] <= num(n)
              /\ path.isfull[i] <=> num(n) = NON_LEAF_KEY_NUM
         /\ LeafFor(p, key)
              = ent[<<0, path.parray[0]>>].ch[path.ppos[0] + 1]
<1> DEFINE path == PathTaken(p, key)
<1>1. /\ root_level \in Nat /\ 0..root_level \subseteq Level
      /\ p \in [0..root_level -> InodeNum] /\ IsDescent(p, key)
  BY Constants DEF TypeOK, SearchTypeOK, Level, Descents
<1>2. ASSUME NEW i \in 0..root_level
      PROVE  /\ i \in Level /\ path.parray[i] = p[i]
             /\ path.ppos[i] = ChildPos(<<i, p[i]>>, key)
             /\ path.isfull[i] <=> num(<<i, p[i]>>) = NON_LEAF_KEY_NUM
  <2>1. i <= root_level /\ i \in Level
    BY <1>1
  <2> QED
    BY <2>1 DEF PathTaken
<1>3. path \in Path /\ path.rl = root_level
  BY DescentType DEF PathTaken
<1>4. tree_root = <<root_level, path.parray[root_level]>>
  BY <1>1, <1>2 DEF IsDescent
<1>5. ASSUME NEW i \in 0..root_level
      PROVE  LET n == <<i, path.parray[i]>> IN
             /\ i \in Level /\ n \in Inode /\ n[2] < ninode[i] /\ ~ilock[n]
             /\ path.ppos[i] <= num(n)
             /\ path.isfull[i] <=> num(n) = NON_LEAF_KEY_NUM
  <2>1. <<i, p[i]>> \in Inode /\ p[i] < ninode[i] /\ ~ilock[<<i, p[i]>>]
    BY <1>1, <1>2, DescentAllocated DEF IsDescent, Inode
  <2>2. ChildPos(<<i, p[i]>>, key) <= num(<<i, p[i]>>)
    BY <2>1, ChildPosType
  <2> HIDE DEF path
  <2> QED
    BY <1>2, <2>1, <2>2
<1>6. LeafFor(p, key) = ent[<<0, path.parray[0]>>].ch[path.ppos[0] + 1]
  BY <1>1, <1>2 DEF LeafFor, Child
<1> QED
  BY <1>3, <1>4, <1>5, <1>6

\* The levels and inodes Locked names.
LEMMA LockedReach ==
  ASSUME NEW path \in Path, NEW i \in Level, NEW x \in InodeNum
  PROVE  <<i, x>> \in Locked(path) <=>
           InReach(path, i) /\ x = path.parray[i]
BY DEF Locked, InReach

\* A transaction takes the path it followed, or none of it.
LEMMA TakePath ==
  ASSUME IndInv, TypeOK', NEW t \in Thread, NEW key \in Key,
         NEW p \in Descents(key), NEW path, path = PathTaken(p, key),
         OthersStay(t), OthersLeaf(t),
         ~HoldsPath(t), pc[t] \notin Climbing, pc'[t] \in {"copy", "level"},
         loc'[t].path = path,
         t \in Foreground => loc'[t].lp = LeafFor(p, key),
         UNCHANGED <<tree_root, root_level, ent, ninode>>,
         IF HoldsPath(t)' THEN LockInodes(path) ELSE UNCHANGED ilock
  PROVE  ClimbInv'
<1> USE Constants
<1>1. /\ path \in Path /\ path.rl = root_level
      /\ tree_root = <<root_level, path.parray[root_level]>>
      /\ \A i \in 0..root_level :
           LET n == <<i, path.parray[i]>> IN
           /\ i \in Level /\ n \in Inode /\ n[2] < ninode[i] /\ ~ilock[n]
           /\ path.ppos[i] <= num(n)
           /\ path.isfull[i] <=> num(n) = NON_LEAF_KEY_NUM
      /\ LeafFor(p, key) = ent[<<0, path.parray[0]>>].ch[path.ppos[0] + 1]
  BY PathFacts DEF IndInv, TreeInv
<1>2. \A u \in Thread : u # t => SameClimb(u)
  BY OthersClimb
<1>3. Low(t)' = 0 /\ pc'[t] \notin Climbing
  BY DEF Low, Climbing
<1>4. ASSUME NEW i \in Level, NEW x \in InodeNum
      PROVE  /\ ~Holds(t, i, x)
             /\ Holds(t, i, x)' <=> /\ HoldsPath(t)' /\ InReach(path, i)
                                    /\ x = path.parray[i]
  BY <1>3 DEF Holds, Growing, Climbing, Level
<1>5. InodeLocks'
  <2>1. ASSUME NEW i \in Level, NEW x \in InodeNum
        PROVE  /\ Holds(t, i, x)' => ~ilock[<<i, x>>]
               /\ ilock'[<<i, x>>] <=> Holds(t, i, x)' \/ ilock[<<i, x>>]
    <3>1. Holds(t, i, x)' => ~ilock[<<i, x>>]
      <4> SUFFICES ASSUME Holds(t, i, x)' PROVE ~ilock[<<i, x>>]
        OBVIOUS
      <4>1. InReach(path, i) /\ x = path.parray[i]
        BY <1>4
      <4> QED
        BY <1>1, <4>1 DEF InReach
    <3>2. CASE HoldsPath(t)'
      <4>1. ilock'[<<i, x>>] = (ilock[<<i, x>>] \/ <<i, x>> \in Locked(path))
        BY <3>2 DEF LockInodes, Inode
      <4> QED
        <5>1. Holds(t, i, x)' <=> InReach(path, i) /\ x = path.parray[i]
          BY <1>4, <3>2
        <5>2. <<i, x>> \in Locked(path)
                <=> InReach(path, i) /\ x = path.parray[i]
          BY <1>1, LockedReach
        <5>3. <<i, x>> \in Locked(path) <=> Holds(t, i, x)'
          BY <5>1, <5>2
        <5>4. ilock'[<<i, x>>] <=> ilock[<<i, x>>] \/ <<i, x>> \in Locked(path)
          BY <4>1
        <5> QED
          BY <3>1, <5>3, <5>4
    <3>3. CASE ~HoldsPath(t)'
      BY <1>4, <3>1, <3>3
    <3>4. ilock'[<<i, x>>] <=> Holds(t, i, x)' \/ ilock[<<i, x>>]
      BY <3>2, <3>3
    <3> QED
      BY <3>1, <3>4
  <2> QED
    BY <1>2, <1>4, <2>1, LocksStep DEF IndInv, ClimbInv
<1>6. ASSUME NEW u \in Thread, u # t PROVE ClimbOK(u)'
  <2>1. \A i \in Level : ninode[i] <= ninode'[i]
    <3>1. \A i \in Level : ninode[i] \in 0..MaxInode
      BY DEF IndInv, TypeOK, SearchTypeOK
    <3> QED
      BY <3>1
  <2> QED
    BY <1>2, <1>6, <2>1, ClimbKept DEF IndInv, ClimbInv
<1>7. ClimbOK(t)'
  <2>1. PathTrue(t)'
    <3> SUFFICES ASSUME NEW i \in 0..root_level
                 PROVE  /\ path.parray[i] < ninode[i]
                        /\ path.ppos[i] <= Len(ent[<<i, path.parray[i]>>].k)
                        /\ path.isfull[i] <=>
                             Len(ent[<<i, path.parray[i]>>].k)
                               = NON_LEAF_KEY_NUM
      BY <1>1, <1>3 DEF PathTrue, num
    <3> QED
      BY <1>1 DEF num
  <2>2. LeafOfPath(t)'
    BY <1>1 DEF LeafOfPath
  <2>3. Climb(t)'
    <3>1. root_level \in Nat
      BY DEF IndInv, TypeOK, SearchTypeOK, Level
    <3> QED
      BY <1>1, <3>1 DEF Climb
  <2>4. RootState(t)' /\ CarriedInode(t)'
    BY <1>3 DEF RootState, CarriedInode, Climbing, Growing
  <2> QED
    BY <2>1, <2>2, <2>3, <2>4 DEF ClimbOK
<1>8. RootLevel'
  <2>1. \A u \in Thread : pc[u] \in Climbing => pc'[u] = pc[u]
    BY DEF OthersStay
  <2> QED
    BY <2>1 DEF IndInv, ClimbInv, RootLevel, Climbing
<1> QED
  BY <1>5, <1>6, <1>7, <1>8 DEF ClimbInv

\* An unlocked leaf that a transaction reaches is nobody's: a client that has
\* unlocked its leaf early still holds its parent.
LEMMA FreeLeaf ==
  ASSUME IndInv, NEW key \in Key, NEW p \in Descents(key),
         ~meta[LeafFor(p, key)].lock, NEW u \in Thread, HoldsLeaf(u)
  PROVE  loc[u].lp # LeafFor(p, key)
<1> USE Constants
<1> DEFINE l == LeafFor(p, key)
<1>1. CASE pc[u] # "addleft"
  BY <1>1 DEF IndInv, LeafInv, LeafLockOwner
<1>2. CASE pc[u] = "addleft"
  <2> SUFFICES ASSUME loc[u].lp = l PROVE FALSE
    OBVIOUS
  <2>1. u \in Foreground
    BY <1>2 DEF Thread, IndInv, TypeOK, ThreadTypeOK, WorkerLabel
  <2>2. HoldsPath(u) /\ Low(u) = 0 /\ ClimbOK(u)
    BY <1>2 DEF HoldsPath, Low, IndInv, ClimbInv
  <2>3. loc[u].path \in Path /\ loc[u].path.rl \in Nat
    BY LocalFields, SMTT(20) DEF IndInv, Path, Level
  <2> DEFINE x == loc[u].path.parray[0]
             j == loc[u].path.ppos[0] + 1
             y == PathTaken(p, key).parray[0]
             k == PathTaken(p, key).ppos[0] + 1
  <2>4. /\ x \in InodeNum /\ x < ninode[0] /\ loc[u].path.ppos[0] \in Nat
        /\ loc[u].path.ppos[0] <= num(<<0, x>>) /\ InReach(loc[u].path, 0)
    <3>1. 0 \in Level /\ 0 \in 0..loc[u].path.rl
      BY <2>3 DEF Level
    <3>2. InReach(loc[u].path, 0)
      BY <3>1 DEF InReach
    <3>3. x \in InodeNum /\ loc[u].path.ppos[0] \in Nat
      BY <2>3, <3>1 DEF Path
    <3> QED
      BY <2>2, <3>1, <3>2, <3>3 DEF ClimbOK, PathTrue
  <2>5. ent[<<0, x>>].ch[j] = l
    BY <1>2, <2>1, <2>2 DEF ClimbOK, LeafOfPath
  <2>6. /\ y \in InodeNum /\ y < ninode[0] /\ ~ilock[<<0, y>>]
        /\ PathTaken(p, key).ppos[0] \in Nat
        /\ PathTaken(p, key).ppos[0] <= num(<<0, y>>)
        /\ ent[<<0, y>>].ch[k] = l
    <3>1. 0 \in 0..root_level /\ 0 \in Level
      BY DEF IndInv, TypeOK, SearchTypeOK, Level
    <3>2. PathTaken(p, key) \in Path
      BY PathFacts DEF IndInv, TreeInv
    <3>3. y \in InodeNum /\ PathTaken(p, key).ppos[0] \in Nat
      BY <3>1, <3>2 DEF Path
    <3> QED
      BY <3>1, <3>3, PathFacts DEF IndInv, TreeInv
  <2>7. ASSUME NEW z \in InodeNum, NEW m \in Nat, m <= num(<<0, z>>)
        PROVE  m + 1 \in ChildPlace /\ m + 1 \in DOMAIN ent[<<0, z>>].ch
    <3>1. <<0, z>> \in Inode
      BY DEF Inode, Level
    <3>2. /\ ent[<<0, z>>].ch \in Seq(ChildId(0))
          /\ ent[<<0, z>>].k \in Seq(Key)
          /\ Len(ent[<<0, z>>].ch) = num(<<0, z>>) + 1
          /\ num(<<0, z>>) <= NON_LEAF_KEY_NUM
      BY <3>1 DEF IndInv, TypeOK, SearchTypeOK, num
    <3>3. num(<<0, z>>) \in Nat
      BY <3>2, LenProperties DEF num
    <3>4. m + 1 \in 1..Len(ent[<<0, z>>].ch) /\ m + 1 \in ChildPlace
      BY <2>7, <3>2, <3>3 DEF ChildPlace
    <3> QED
      BY <3>2, <3>4, LenProperties
  <2>8. Hangs(l, x, j) /\ j \in ChildPlace
    BY <2>4, <2>5, <2>7 DEF Hangs
  <2>9. Hangs(l, y, k) /\ k \in ChildPlace
    BY <2>6, <2>7 DEF Hangs
  <2>10. l \in LnodeId
    BY LocalFields DEF IndInv
  <2> HIDE DEF l, j, k, x, y
  <2>11. x = y
    BY <2>4, <2>6, <2>8, <2>9, <2>10 DEF IndInv, TreeInv, OneUse
  <2>12. Holds(u, 0, x)
    BY <2>2, <2>4 DEF Holds, x
  <2> QED
    BY <2>4, <2>6, <2>11, <2>12 DEF IndInv, ClimbInv, InodeLocks, Level
<1> QED
  BY <1>1, <1>2
LEMMA InvFindLeaf ==
  ASSUME IndInv, NEW t \in Foreground, FindLeaf(t)
  PROVE  IndInv'
<1>1. t \in Thread /\ t \notin Worker
  BY Constants DEF Thread
<1>2. TypeOK /\ TypeOK'
  BY TypeFindLeaf DEF IndInv
<1>3. loc[t].key \in Key
  BY <1>1, <1>2, LocalFields
<1>4. PICK p \in Descents(loc[t].key) :
        /\ ~meta[LeafFor(p, loc[t].key)].lock
        /\ IF loc[t].key \in meta[LeafFor(p, loc[t].key)].bitmap
             THEN /\ Goto(t, "ret")
                  /\ UNCHANGED <<meta, ilock, loc>>
             ELSE /\ meta' = [meta EXCEPT
                                ![LeafFor(p, loc[t].key)].lock = TRUE]
                  /\ IF isFull(LeafFor(p, loc[t].key))
                       THEN LockInodes(PathTaken(p, loc[t].key))
                       ELSE UNCHANGED ilock
                  /\ loc' = [loc EXCEPT
                               ![t].lp = LeafFor(p, loc[t].key),
                               ![t].path = PathTaken(p, loc[t].key)]
                  /\ Goto(t, "copy")
  BY DEF FindLeaf
<1>5. /\ pc[t] = "find"
      /\ UNCHANGED <<tree_root, root_level, ent, ninode, tail, version,
                     nleaf, job_queue>>
  BY DEF FindLeaf
<1> DEFINE key  == loc[t].key
           l    == LeafFor(p, key)
           path == PathTaken(p, key)
<1>6. CASE key \in meta[l].bitmap
  <2>1. pc' = [pc EXCEPT ![t] = "ret"] /\ UNCHANGED <<meta, ilock, loc>>
    BY <1>4, <1>6 DEF Goto
  <2>2. OthersStay(t) /\ pc'[t] = "ret"
    BY <1>1, <1>2, <2>1 DEF OthersStay, TypeOK, ThreadTypeOK
  <2> QED
    BY <1>2, <1>5, <2>1, <2>2, QuietStep
    DEF Outside, search_layer, leaf_layer
<1>7. CASE key \notin meta[l].bitmap
  <2>1. /\ meta' = [meta EXCEPT ![l].lock = TRUE]
        /\ IF isFull(l) THEN LockInodes(path) ELSE UNCHANGED ilock
        /\ loc' = [loc EXCEPT ![t].lp = l, ![t].path = path]
        /\ pc' = [pc EXCEPT ![t] = "copy"]
        /\ ~meta[l].lock
    BY <1>4, <1>7 DEF Goto
  <2>2. l \in LnodeId /\ l < nleaf
    BY <1>2, <1>3, DescentType, DescentAllocated DEF IndInv, TreeInv
  <2>3. \A u \in Thread : HoldsLeaf(u) => loc[u].lp # l
    BY <1>3, <2>1, FreeLeaf
  <2> HIDE DEF l, path
  <2>4. OthersStay(t) /\ pc'[t] = "copy" /\ loc'[t].lp = l /\ loc'[t].path = path
    BY <1>1, <1>2, <2>1 DEF OthersStay, TypeOK, ThreadTypeOK, Local
  <2>5. /\ \A x \in LnodeId : x # l => meta'[x] = meta[x]
        /\ meta'[l].lock
        /\ \A x \in LnodeId : meta'[x].bitmap = meta[x].bitmap
    BY <1>2, <2>1, <2>2 DEF TypeOK, LeafTypeOK, LnodeMeta
  <2>6. OthersLeaf(t)
    BY <1>2, <1>5, <2>3, <2>5, LocalFields DEF OthersLeaf
  <2>7. ClimbInv'
    <3>1. meta'[loc'[t].lp].bitmap = meta[l].bitmap
      BY <2>2, <2>4, <2>5
    <3>2. HoldsPath(t)' <=> isFull(l)
      BY <2>4, <3>1 DEF HoldsPath, isFull
    <3>3. ~HoldsPath(t) /\ pc[t] \notin Climbing
      BY <1>5 DEF HoldsPath, Climbing
    <3>4. IF HoldsPath(t)' THEN LockInodes(path) ELSE UNCHANGED ilock
      BY <2>1, <3>2
    <3> QED
      BY <1>1, <1>2, <1>3, <1>5, <2>4, <2>6, <3>3, <3>4, TakePath DEF path, l
  <2>8. nleaf \in Nat
    BY <1>2, Constants DEF TypeOK, LeafTypeOK
  <2>9. TreeInv'
    <3>1. ~Carries(t)'
      BY <2>4 DEF Carries
    <3> QED
      BY <1>1, <1>2, <1>5, <2>4, <2>8, <3>1, TreeKept DEF IndInv
  <2>10. LeafInv'
    <3>1. HoldsLeaf(t)' /\ ~HoldsLeaf(t)
      BY <1>1, <1>5, <2>4 DEF HoldsLeaf
    <3>2. LeafLockOwner'
      BY <1>1, <1>2, <2>2, <2>3, <2>4, <2>5, <3>1, LeafLocksStep
      DEF IndInv, LeafInv
    <3>3. LeafAllocated'
      BY <1>1, <1>2, <1>5, <2>2, <2>4, <2>8, LeafAllocatedStep
      DEF IndInv, LeafInv, LeafAllocated
    <3>4. JobsOK'
      <4>1. \A job \in job_queue' : Pending(job[1], job[2])
        BY <1>2, <1>5 DEF Pending, TypeOK, LeafTypeOK
      <4>2. \A x \in LnodeId : version'[x] = version[x]
        BY <1>2, <1>5 DEF TypeOK, LeafTypeOK, Version
      <4> QED
        BY <1>1, <1>2, <2>4, <2>5, <4>1, <4>2, JobsStep DEF IndInv, LeafInv
    <3>5. ASSUME NEW u \in Thread PROVE LeafKnown(u)'
      <4>1. CASE u = t
        BY <1>1, <2>4, <4>1 DEF LeafKnown
      <4> QED
        BY <1>1, <2>4, <2>6, <4>1, OthersKnow DEF IndInv, LeafInv
    <3> QED
      BY <3>2, <3>3, <3>4, <3>5 DEF LeafInv
  <2> QED
    BY <1>2, <2>7, <2>9, <2>10 DEF IndInv
<1> QED
  BY <1>6, <1>7

LEMMA InvFindInode ==
  ASSUME IndInv, NEW w \in Worker, FindInode(w)
  PROVE  IndInv'
<1>1. w \in Thread /\ w \notin Foreground
  BY Constants DEF Thread
<1>2. TypeOK /\ TypeOK'
  BY TypeFindInode DEF IndInv
<1>3. loc[w].sep \in Key
  BY <1>1, <1>2, LocalFields
<1>4. PICK p \in Descents(loc[w].sep) :
        /\ LockInodes(PathTaken(p, loc[w].sep))
        /\ loc' = [loc EXCEPT ![w].path = PathTaken(p, loc[w].sep)]
  BY DEF FindInode
<1>5. /\ pc[w] = "locate" /\ pc' = [pc EXCEPT ![w] = "level"]
      /\ UNCHANGED <<tree_root, root_level, ent, ninode, leaf_layer, job_queue>>
      /\ UNCHANGED <<meta, tail, version, nleaf>>
  BY DEF FindInode, Goto, leaf_layer
<1> DEFINE path == PathTaken(p, loc[w].sep)
<1> HIDE DEF path
<1>6. /\ OthersStay(w) /\ pc'[w] = "level" /\ loc'[w].path = path
      /\ loc'[w].lp = loc[w].lp /\ loc'[w].ptr = loc[w].ptr
  BY <1>1, <1>2, <1>4, <1>5 DEF OthersStay, TypeOK, ThreadTypeOK, Local, path
<1>7. ClimbInv'
  <2>1. OthersLeaf(w)
    BY <1>5 DEF OthersLeaf
  <2>2. HoldsPath(w)' /\ ~HoldsPath(w) /\ pc[w] \notin Climbing
    BY <1>5, <1>6 DEF HoldsPath, Climbing
  <2> QED
    BY <1>1, <1>2, <1>3, <1>4, <1>5, <1>6, <2>1, <2>2, TakePath DEF path
<1>8. TreeInv'
  <2>1. nleaf \in Nat
    BY <1>2, Constants DEF TypeOK, LeafTypeOK
  <2>2. Carries(w)
    BY <1>5 DEF Carries
  <2> QED
    BY <1>1, <1>2, <1>5, <1>6, <2>1, <2>2, TreeKept DEF IndInv
<1>9. LeafInv'
  <2>1. HoldsLeaf(w)' /\ HoldsLeaf(w)
    BY <1>1, <1>5, <1>6 DEF HoldsLeaf
  <2> QED
    BY <1>1, <1>2, <1>5, <1>6, <2>1, LeafLayerKept DEF IndInv
<1> QED
  BY <1>2, <1>7, <1>8, <1>9 DEF IndInv
LEMMA InvCopyMeta ==
  ASSUME IndInv, NEW t \in Foreground, CopyMeta(t)
  PROVE  IndInv'
<1>1. t \in Thread /\ t \notin Worker
  BY Constants DEF Thread
<1>2. TypeOK /\ TypeOK'
  BY TypeCopyMeta DEF IndInv
<1> DEFINE l     == loc[t].lp
           label == IF isFull(l) THEN "build" ELSE "fill"
<1>3. /\ pc[t] = "copy" /\ pc' = [pc EXCEPT ![t] = label]
      /\ loc' = [loc EXCEPT ![t].meta = TempMeta(t),
                            ![t].version = version[l]]
      /\ UNCHANGED <<search_layer, leaf_layer, job_queue>>
      /\ UNCHANGED <<meta, tail, version, nleaf>>
  BY DEF CopyMeta, Goto, leaf_layer
<1>4. /\ OthersStay(t) /\ pc'[t] = label /\ loc'[t].lp = l
      /\ loc'[t].path = loc[t].path /\ loc'[t].meta = TempMeta(t)
      /\ loc'[t].version = version[l]
  BY <1>1, <1>2, <1>3 DEF OthersStay, TypeOK, ThreadTypeOK, Local
<1>5. /\ l \in LnodeId /\ meta[l] \in LnodeMeta
      /\ TempMeta(t) = [meta[l] EXCEPT !.lock = FALSE]
  BY <1>1, <1>2, LocalFields DEF TempMeta, TypeOK, LeafTypeOK
<1>6. HoldsLeaf(t) /\ HoldsLeaf(t)' /\ l < nleaf
  BY <1>1, <1>3, <1>4 DEF HoldsLeaf, IndInv, LeafInv, LeafAllocated
<1>7. OthersLeaf(t)
  BY <1>3 DEF OthersLeaf
<1>8. SameClimb(t)
  BY <1>1, <1>3, <1>4 DEF SameClimb, Climbing, HoldsPath
<1>9. LeafKnown(t)'
  <2>1. /\ TempMeta(t).bitmap = meta[l].bitmap
        /\ TempMeta(t).alt = meta[l].alt /\ TempMeta(t).lock = FALSE
    BY <1>5 DEF LnodeMeta
  <2> QED
    BY <1>1, <1>3, <1>4, <2>1 DEF LeafKnown, isFull
<1>10. LeafLockOwner'
  <2>1. pc'[t] # "addleft" /\ pc[t] # "addleft"
    BY <1>3, <1>4
  <2> QED
    BY <1>1, <1>3, <1>4, <1>6, <2>1, LockOwnerKept DEF IndInv, LeafInv
<1>11. LeafAllocated'
  <2>1. \A job \in job_queue' : job[1] < nleaf
    BY <1>3 DEF IndInv, LeafInv, LeafAllocated
  <2>2. loc'[t].lp < nleaf
    BY <1>4, <1>6
  <2>3. nleaf <= nleaf'
    BY <1>2, <1>3, LeafNumbers
  <2> QED
    BY <1>1, <1>2, <1>4, <2>1, <2>2, <2>3, LeafAllocatedStep
    DEF IndInv, LeafInv
<1>12. JobsOK'
  <2>1. \A job \in job_queue' : Pending(job[1], job[2])
    BY <1>2, <1>3, LeafNumbers DEF Pending
  <2>2. \A x \in LnodeId : version'[x] = version[x]
    BY <1>2, <1>3, LeafNumbers
  <2> QED
    BY <1>1, <1>2, <1>3, <1>4, <2>1, <2>2, JobsStep DEF IndInv, LeafInv
<1> QED
  <2>1. ~Carries(t)'
    BY <1>4 DEF Carries
  <2>2. nleaf <= nleaf'
    BY <1>2, <1>3, LeafNumbers
  <2> QED
    BY <1>1, <1>2, <1>3, <1>4, <1>7, <1>8, <1>9, <1>10, <1>11, <1>12, <2>1,
       <2>2, LeafStep

LEMMA InvPushJob ==
  ASSUME IndInv, NEW t \in Foreground, PushJob(t)
  PROVE  IndInv'
<1>1. t \in Thread /\ t \notin Worker
  BY Constants DEF Thread
<1>2. TypeOK /\ TypeOK'
  BY TypePushJob DEF IndInv
<1>3. /\ pc[t] = "flush" /\ pc' = [pc EXCEPT ![t] = "ret"]
      /\ job_queue' = job_queue \cup (IF FilledLeaf(t) THEN {Job(t)} ELSE {})
      /\ UNCHANGED <<search_layer, leaf_layer, loc>>
      /\ UNCHANGED <<meta, tail, version, nleaf>>
  BY DEF PushJob, Goto, leaf_layer
<1>4. OthersStay(t) /\ pc'[t] = "ret" /\ loc'[t] = loc[t]
  BY <1>1, <1>2, <1>3 DEF OthersStay, TypeOK, ThreadTypeOK
<1>5. ~HoldsLeaf(t) /\ ~HoldsLeaf(t)' /\ loc[t].lp < nleaf
  BY <1>1, <1>3, <1>4 DEF HoldsLeaf, IndInv, LeafInv, LeafAllocated
<1>6. OthersLeaf(t) /\ SameClimb(t)
  BY <1>1, <1>3, <1>4 DEF OthersLeaf, SameClimb, Climbing, HoldsPath
<1>7. LeafKnown(t)'
  BY <1>4 DEF LeafKnown
<1>8. LeafLockOwner'
  BY <1>1, <1>3, <1>4, <1>5, LockOwnerKept DEF IndInv, LeafInv
<1>9. LeafAllocated'
  <2>1. \A job \in job_queue' : job[1] < nleaf
    BY <1>3, <1>5 DEF Job, IndInv, LeafInv, LeafAllocated
  <2> QED
    BY <1>1, <1>2, <1>3, <1>4, <1>5, <2>1, LeafNumbers, LeafAllocatedStep
    DEF IndInv, LeafInv
<1>10. JobsOK'
  <2>1. \A job \in job_queue : Pending(job[1], job[2])
    BY <1>2, LeafNumbers DEF Pending
  <2>2. FilledLeaf(t) => Pending(loc[t].lp, loc[t].version)
    BY <1>1, <1>3 DEF Pending
  <2>3. \A job \in job_queue' : Pending(job[1], job[2])
    BY <1>3, <2>1, <2>2 DEF Job
  <2>4. \A x \in LnodeId : version'[x] = version[x]
    BY <1>2, <1>3, LeafNumbers
  <2> QED
    BY <1>1, <1>2, <1>3, <1>4, <2>3, <2>4, JobsStep DEF IndInv, LeafInv
<1> QED
  <2>1. ~Carries(t)'
    BY <1>4 DEF Carries
  <2>2. nleaf <= nleaf'
    BY <1>2, <1>3, LeafNumbers
  <2> QED
    BY <1>1, <1>2, <1>3, <1>4, <1>6, <1>7, <1>8, <1>9, <1>10, <2>1, <2>2,
       LeafStep

LEMMA InvPopJob ==
  ASSUME IndInv, NEW w \in Worker, PopJob(w)
  PROVE  IndInv'
<1>1. w \in Thread /\ w \notin Foreground
  BY Constants DEF Thread
<1>2. TypeOK /\ TypeOK'
  BY TypePopJob DEF IndInv
<1>3. PICK job \in job_queue :
        /\ job_queue' = job_queue \ {job}
        /\ loc' = [loc EXCEPT ![w].lp = job[1], ![w].version = job[2]]
  BY DEF PopJob
<1>4. /\ pc[w] = "pop" /\ pc' = [pc EXCEPT ![w] = "lock"]
      /\ UNCHANGED <<search_layer, leaf_layer>>
      /\ UNCHANGED <<meta, tail, version, nleaf>>
  BY DEF PopJob, Goto, leaf_layer
<1>5. /\ OthersStay(w) /\ pc'[w] = "lock" /\ loc'[w].lp = job[1]
      /\ loc'[w].version = job[2]
  BY <1>1, <1>2, <1>3, <1>4 DEF OthersStay, TypeOK, ThreadTypeOK, Local
<1>6. ~HoldsLeaf(w) /\ ~HoldsLeaf(w)' /\ job[1] < nleaf
  BY <1>1, <1>4, <1>5 DEF HoldsLeaf, IndInv, LeafInv, LeafAllocated
<1>7. OthersLeaf(w) /\ SameClimb(w)
  BY <1>1, <1>4, <1>5 DEF OthersLeaf, SameClimb, Climbing, HoldsPath
<1>8. LeafKnown(w)'
  BY <1>5 DEF LeafKnown
<1>9. LeafLockOwner'
  BY <1>1, <1>4, <1>5, <1>6, LockOwnerKept DEF IndInv, LeafInv
<1>10. LeafAllocated'
  <2>1. \A j \in job_queue' : j[1] < nleaf
    BY <1>3 DEF IndInv, LeafInv, LeafAllocated
  <2> QED
    BY <1>1, <1>2, <1>4, <1>5, <1>6, <2>1, LeafNumbers, LeafAllocatedStep
    DEF IndInv, LeafInv
<1>11. JobsOK'
  <2>1. \A j \in job_queue : Pending(j[1], j[2])
    BY <1>2, LeafNumbers DEF Pending
  <2>2. Pending(loc'[w].lp, loc'[w].version)
    BY <1>5, <2>1
  <2>3. \A j \in job_queue' : Pending(j[1], j[2])
    BY <1>3, <2>1
  <2>4. \A x \in LnodeId : version'[x] = version[x]
    BY <1>2, <1>4, LeafNumbers
  <2> QED
    BY <1>1, <1>2, <1>4, <1>5, <2>2, <2>3, <2>4, JobsStep DEF IndInv, LeafInv
<1> QED
  <2>1. ~Carries(w)'
    BY <1>5 DEF Carries
  <2>2. nleaf <= nleaf'
    BY <1>2, <1>4, LeafNumbers
  <2> QED
    BY <1>1, <1>2, <1>4, <1>5, <1>7, <1>8, <1>9, <1>10, <1>11, <2>1, <2>2,
       LeafStep
LEMMA InvFillSlot ==
  ASSUME IndInv, NEW t \in Foreground, FillSlot(t)
  PROVE  IndInv'
<1>1. t \in Thread /\ t \notin Worker
  BY Constants DEF Thread
<1>2. TypeOK /\ TypeOK'
  BY <1>1, TypeAddKey DEF IndInv
<1> DEFINE l == loc[t].lp
           m == [loc[t].meta EXCEPT !.bitmap = @ \cup {loc[t].key}]
<1>3. /\ pc[t] = "fill" /\ pc' = [pc EXCEPT ![t] = "flush"]
      /\ meta' = [meta EXCEPT ![l] = m]
      /\ loc' = [loc EXCEPT ![t].meta = m]
      /\ UNCHANGED <<search_layer, tail, version, nleaf, job_queue>>
  BY DEF FillSlot, Goto
<1>4. /\ l \in LnodeId /\ loc[t].meta \in LnodeMeta
      /\ ~isFull(l) /\ loc[t].version = version[l] /\ ~loc[t].meta.lock
  BY <1>1, <1>2, <1>3, LocalFields DEF IndInv, LeafInv, LeafKnown
<1>5. m.lock = FALSE
  BY <1>4 DEF LnodeMeta
<1> HIDE DEF l, m
<1>6. /\ OthersStay(t) /\ pc'[t] = "flush" /\ loc'[t].lp = l
      /\ loc'[t].meta = m /\ loc'[t].version = version[l]
      /\ meta'[l] = m /\ \A x \in LnodeId : x # l => meta'[x] = meta[x]
  BY <1>1, <1>2, <1>3, <1>4
  DEF OthersStay, TypeOK, ThreadTypeOK, LeafTypeOK, Local, l
<1>7. HoldsLeaf(t) /\ ~HoldsLeaf(t)' /\ l < nleaf
  BY <1>1, <1>3, <1>6 DEF HoldsLeaf, IndInv, LeafInv, LeafAllocated, l
<1>8. \A u \in Thread : u # t /\ HoldsLeaf(u) => loc[u].lp # l
  BY <1>1, <1>7 DEF IndInv, LeafInv, LeafLockOwner, l
<1>9. OthersLeaf(t)
  BY <1>2, <1>3, <1>6, <1>8, LocalFields DEF OthersLeaf
<1>10. SameClimb(t)
  BY <1>3, <1>6 DEF SameClimb, Climbing, HoldsPath
<1>11. LeafKnown(t)'
  BY <1>6 DEF LeafKnown
<1>12. LeafLockOwner'
  <2>1. \A x \in LnodeId : x # l => (meta'[x].lock <=> meta[x].lock)
    BY <1>6
  <2>2. meta'[l].lock => HoldsLeaf(t)'
    BY <1>5, <1>6 DEF m
  <2>3. l = loc[t].lp
    BY DEF l
  <2> QED
    BY <1>1, <1>2, <1>4, <1>6, <1>7, <2>1, <2>2, <2>3, LeafLocksStep
    DEF IndInv, LeafInv
<1>13. LeafAllocated'
  <2>1. \A job \in job_queue' : job[1] < nleaf
    BY <1>3 DEF IndInv, LeafInv, LeafAllocated
  <2>2. nleaf <= nleaf'
    BY <1>2, <1>3, LeafNumbers
  <2> QED
    BY <1>1, <1>2, <1>6, <1>7, <2>1, <2>2, LeafAllocatedStep
    DEF IndInv, LeafInv
<1>14. JobsOK'
  <2> SUFFICES ASSUME NEW y \in LnodeId, Pending(y, version[y])'
               PROVE  /\ Cardinality(meta'[y].bitmap) = LEAF_KEY_NUM
                      /\ \A u \in Thread :
                           pc'[u] \in {"publish", "addleft"} => loc'[u].lp # y
    BY DEF JobsOK, isFull
  <2>0. PICK v : v = version[y] /\ Pending(y, v)'
    BY <1>3 DEF Pending
  <2>1. \/ Pending(y, v)
        \/ y = l /\ v = version[l] /\ Cardinality(m.bitmap) = LEAF_KEY_NUM
    <3>1. CASE <<y, v>> \in job_queue'
      BY <1>3, <3>1 DEF Pending
    <3>2. CASE <<y, v>> \notin job_queue'
      <4>1. PICK u \in Thread :
              /\ loc'[u].lp = y /\ loc'[u].version = v
              /\ pc'[u] = "lock" \/ (pc'[u] = "flush" /\ FilledLeaf(u)')
        BY <2>0, <3>2 DEF Pending
      <4>2. CASE u = t
        BY <1>6, <4>1, <4>2 DEF FilledLeaf
      <4>3. CASE u # t
        BY <1>6, <4>1, <4>3 DEF OthersStay, FilledLeaf, Pending
      <4> QED
        BY <4>2, <4>3
    <3> QED
      BY <3>1, <3>2
  <2>2. CASE y = l
    <3>1. \A u \in Thread : pc'[u] \in {"publish", "addleft"} =>
            loc'[u].lp # l
      <4> SUFFICES ASSUME NEW u \in Thread, pc'[u] \in {"publish", "addleft"}
                   PROVE  loc'[u].lp # l
        OBVIOUS
      <4>1. u # t
        BY <1>6
      <4>2. pc[u] \in {"publish", "addleft"} /\ loc'[u] = loc[u]
        BY <1>6, <4>1 DEF OthersStay
      <4>3. pc[u] = "addleft" => u \in Foreground
        BY <1>2 DEF TypeOK, ThreadTypeOK, Thread, WorkerLabel
      <4>4. HoldsLeaf(u)
        BY <4>2, <4>3 DEF HoldsLeaf
      <4> QED
        BY <1>8, <4>1, <4>2, <4>4
    <3>2. ~Pending(y, v)
      BY <1>4, <2>0, <2>2 DEF IndInv, LeafInv, JobsOK
    <3> QED
      BY <1>2, <1>4, <1>6, <2>1, <2>2, <3>1, <3>2, LeafNumbers
  <2>3. CASE y # l
    <3>1. /\ isFull(y)
          /\ \A u \in Thread : pc[u] \in {"publish", "addleft"} => loc[u].lp # y
      BY <2>0, <2>1, <2>3 DEF IndInv, LeafInv, JobsOK
    <3>2. \A u \in Thread : pc'[u] \in {"publish", "addleft"} =>
            pc[u] \in {"publish", "addleft"} /\ loc'[u] = loc[u]
      BY <1>6 DEF OthersStay
    <3> QED
      BY <1>6, <2>3, <3>1, <3>2 DEF isFull
  <2> QED
    BY <2>2, <2>3
<1> QED
  <2>1. ~Carries(t)'
    BY <1>6 DEF Carries
  <2>2. nleaf <= nleaf'
    BY <1>2, <1>3, LeafNumbers
  <2> QED
    BY <1>1, <1>2, <1>3, <1>6, <1>9, <1>10, <1>11, <1>12, <1>13, <1>14, <2>1,
       <2>2, LeafStep

LEMMA InvSplitLock ==
  ASSUME IndInv, NEW w \in Worker, SplitLock(w)
  PROVE  IndInv'
<1>1. w \in Thread /\ w \notin Foreground
  BY Constants DEF Thread
<1>2. TypeOK /\ TypeOK'
  BY TypeSplitLeaf DEF IndInv
<1> DEFINE l == loc[w].lp
<1>3. /\ pc[w] = "lock" /\ l \in LnodeId
      /\ UNCHANGED <<search_layer, tail, version, nleaf, job_queue>>
  BY <1>1, <1>2, LocalFields DEF SplitLock
<1>4. ~HoldsLeaf(w) /\ l < nleaf
  BY <1>1, <1>3 DEF HoldsLeaf, IndInv, LeafInv, LeafAllocated
<1>5. nleaf <= nleaf' /\ \A x \in LnodeId : version'[x] = version[x]
  BY <1>2, <1>3, LeafNumbers
<1>6. /\ \A job \in job_queue' : job[1] < nleaf
      /\ \A job \in job_queue' : Pending(job[1], job[2])
  BY <1>2, <1>3, LeafNumbers DEF IndInv, LeafInv, LeafAllocated, Pending
<1>7. CASE meta[l].lock \/ version[l] # loc[w].version
  <2>1. /\ loc' = [loc EXCEPT ![w] = NoLocal] /\ UNCHANGED meta
        /\ pc' = [pc EXCEPT ![w] = "pop"]
    BY <1>7 DEF SplitLock, Goto
  <2>2. OthersStay(w) /\ pc'[w] = "pop"
    BY <1>1, <1>2, <2>1 DEF OthersStay, TypeOK, ThreadTypeOK
  <2>3. ~HoldsLeaf(w)' /\ ~Carries(w)' /\ LeafKnown(w)'
    BY <1>1, <2>2 DEF HoldsLeaf, Carries, LeafKnown
  <2>4. OthersLeaf(w) /\ SameClimb(w)
    BY <1>1, <1>3, <2>1, <2>2 DEF OthersLeaf, SameClimb, Climbing, HoldsPath
  <2>5. LeafLockOwner'
    BY <1>1, <1>3, <1>4, <2>1, <2>2, <2>3, LockOwnerKept DEF IndInv, LeafInv
  <2>6. LeafAllocated'
    BY <1>1, <1>2, <1>5, <1>6, <2>2, <2>3, LeafAllocatedStep
    DEF IndInv, LeafInv
  <2>7. JobsOK'
    BY <1>1, <1>2, <1>5, <1>6, <2>1, <2>2, JobsStep DEF IndInv, LeafInv
  <2> QED
    BY <1>1, <1>2, <1>3, <1>5, <2>2, <2>3, <2>4, <2>5, <2>6, <2>7, LeafStep
<1>8. CASE ~(meta[l].lock \/ version[l] # loc[w].version)
  <2>1. /\ meta' = [meta EXCEPT ![l].lock = TRUE] /\ UNCHANGED loc
        /\ pc' = [pc EXCEPT ![w] = "copy"]
    BY <1>8 DEF SplitLock, Goto
  <2>2. OthersStay(w) /\ pc'[w] = "copy" /\ loc'[w].lp = l
    BY <1>1, <1>2, <2>1 DEF OthersStay, TypeOK, ThreadTypeOK
  <2>3. /\ \A x \in LnodeId : x # l => meta'[x] = meta[x]
        /\ meta'[l].lock
        /\ \A x \in LnodeId : meta'[x].bitmap = meta[x].bitmap
    BY <1>2, <1>3, <2>1 DEF TypeOK, LeafTypeOK, LnodeMeta
  <2>4. HoldsLeaf(w)' /\ ~Carries(w)'
    BY <1>1, <2>2 DEF HoldsLeaf, Carries
  <2>5. /\ isFull(l)
        /\ \A u \in Thread : pc[u] \in {"publish", "addleft"} => loc[u].lp # l
    <3>1. Pending(l, version[l])
      BY <1>1, <1>3, <1>8 DEF Pending
    <3>2. version[l] \in Version
      BY <1>2, <1>3 DEF TypeOK, LeafTypeOK
    <3> QED
      BY <1>3, <3>1, <3>2 DEF IndInv, LeafInv, JobsOK
  <2>6. \A u \in Thread : HoldsLeaf(u) => loc[u].lp # l
    BY <1>8, <2>5 DEF IndInv, LeafInv, LeafLockOwner
  <2>7. OthersLeaf(w) /\ SameClimb(w)
    <3>1. OthersLeaf(w)
      BY <1>2, <1>3, <2>3, <2>6, LocalFields DEF OthersLeaf
    <3>2. SameClimb(w)
      BY <1>1, <1>3, <2>2 DEF SameClimb, Climbing, HoldsPath
    <3> QED
      BY <3>1, <3>2
  <2>8. LeafKnown(w)'
    BY <1>3, <2>2, <2>3, <2>5 DEF LeafKnown, isFull
  <2>9. LeafLockOwner'
    BY <1>1, <1>2, <1>3, <2>2, <2>3, <2>4, <2>6, LeafLocksStep
    DEF IndInv, LeafInv
  <2>10. LeafAllocated'
    BY <1>1, <1>2, <1>4, <1>5, <1>6, <2>2, LeafAllocatedStep
    DEF IndInv, LeafInv
  <2>11. JobsOK'
    BY <1>1, <1>2, <1>5, <1>6, <2>2, <2>3, JobsStep DEF IndInv, LeafInv
  <2> QED
    BY <1>1, <1>2, <1>3, <1>5, <2>2, <2>4, <2>7, <2>8, <2>9, <2>10, <2>11,
       LeafStep
<1> QED
  BY <1>7, <1>8
\* A store to the leaf t works on.
LEMMA OwnLeaf ==
  ASSUME IndInv, TypeOK', NEW t \in Thread, OthersStay(t),
         NEW l, l = loc[t].lp, NEW m,
         HoldsLeaf(t), meta' = [meta EXCEPT ![l] = m],
         UNCHANGED <<version, nleaf, job_queue>>,
         pc'[t] \notin {"lock", "flush", "publish"},
         HoldsLeaf(t)' => loc'[t].lp = l,
         HoldsLeaf(t)' /\ pc'[t] # "addleft" => m.lock,
         m.lock => HoldsLeaf(t)',
         Pending(l, version[l]) =>
           m.bitmap = meta[l].bitmap /\ pc'[t] # "addleft"
  PROVE  OthersLeaf(t) /\ LeafLockOwner' /\ LeafAllocated' /\ JobsOK'
<1>1. TypeOK /\ l \in LnodeId /\ l < nleaf
  BY LocalFields DEF IndInv, LeafInv, LeafAllocated
<1>2. meta'[l] = m /\ \A x \in LnodeId : x # l => meta'[x] = meta[x]
  BY <1>1 DEF TypeOK, LeafTypeOK
<1>3. \A u \in Thread : u # t /\ HoldsLeaf(u) => loc[u].lp # l
  BY DEF IndInv, LeafInv, LeafLockOwner
<1>4. OthersLeaf(t)
  BY <1>1, <1>2, <1>3, LocalFields DEF OthersLeaf
<1>5. LeafLockOwner'
  <2>1. HoldsLeaf(t)' /\ pc'[t] # "addleft" => meta'[l].lock
    BY <1>2
  <2>2. meta'[l].lock => HoldsLeaf(t)'
    BY <1>2
  <2>3. \A x \in LnodeId : x # l => (meta'[x].lock <=> meta[x].lock)
    BY <1>2
  <2> QED
    BY <1>1, <2>1, <2>2, <2>3, LeafLocksStep DEF IndInv, LeafInv
<1>6. LeafAllocated'
  <2>1. \A job \in job_queue' : job[1] < nleaf
    BY DEF IndInv, LeafInv, LeafAllocated
  <2>2. nleaf <= nleaf'
    BY <1>1, LeafNumbers
  <2> QED
    BY <1>1, <2>1, <2>2, LeafAllocatedStep DEF IndInv, LeafInv
<1>7. JobsOK'
  <2>1. \A job \in job_queue' : Pending(job[1], job[2])
    BY <1>1, LeafNumbers DEF Pending
  <2>2. \A x \in LnodeId : version'[x] = version[x]
    BY <1>1, LeafNumbers
  <2>3. ASSUME NEW x \in LnodeId, Pending(x, version[x])
        PROVE  /\ meta'[x].bitmap = meta[x].bitmap
               /\ pc'[t] \in {"publish", "addleft"} => loc'[t].lp # x
    <3>1. CASE x = l
      BY <1>2, <2>3, <3>1
    <3>2. CASE x # l
      <4>1. pc'[t] = "addleft" => t \in Foreground
        BY DEF TypeOK, ThreadTypeOK, Thread, WorkerLabel
      <4>2. pc'[t] = "addleft" => loc'[t].lp = l
        BY <4>1 DEF HoldsLeaf
      <4> QED
        BY <1>2, <3>2, <4>2
    <3> QED
      BY <3>1, <3>2
  <2> QED
    BY <1>1, <2>1, <2>2, <2>3, JobsStep DEF IndInv, LeafInv
<1> QED
  BY <1>4, <1>5, <1>6, <1>7

LEMMA InvSplitPublish ==
  ASSUME IndInv, NEW t \in Thread, SplitPublish(t)
  PROVE  IndInv'
<1>1. TypeOK /\ TypeOK'
  BY TypeSplitPublish DEF IndInv
<1> DEFINE l == loc[t].lp
           label == IF t \in Worker THEN "locate"
                    ELSE IF loc[t].key <= loc[t].sep THEN "addleft" ELSE "level"
<1>2. /\ pc[t] = "publish" /\ pc' = [pc EXCEPT ![t] = label]
      /\ meta' = [meta EXCEPT ![l] = loc[t].meta]
      /\ UNCHANGED <<search_layer, tail, version, nleaf, job_queue, loc>>
  BY DEF SplitPublish, Goto
<1>3. OthersStay(t) /\ pc'[t] = label /\ loc'[t] = loc[t]
  BY <1>1, <1>2 DEF OthersStay, TypeOK, ThreadTypeOK
<1>4. /\ t \in Foreground => t \notin Worker
      /\ t \notin Foreground => t \in Worker
  BY Constants DEF Thread
<1>5. loc[t].meta.lock <=> t \in Worker
  BY <1>2 DEF IndInv, LeafInv, LeafKnown
<1>6. /\ HoldsLeaf(t)
      /\ HoldsLeaf(t)' <=> t \in Worker \/ pc'[t] = "addleft"
      /\ pc'[t] = "addleft" => t \notin Worker
  BY <1>2, <1>3, <1>4 DEF HoldsLeaf
<1>7. ~Pending(l, version[l])
  <2>1. l \in LnodeId /\ version[l] \in Version
    BY <1>1, LocalFields DEF TypeOK, LeafTypeOK
  <2> QED
    BY <1>2, <2>1 DEF IndInv, LeafInv, JobsOK
<1>8. OthersLeaf(t) /\ LeafLockOwner' /\ LeafAllocated' /\ JobsOK'
  <2>1. pc'[t] \notin {"lock", "flush", "publish"}
    BY <1>3
  <2> QED
    BY <1>1, <1>2, <1>3, <1>5, <1>6, <1>7, <2>1, OwnLeaf
<1>9. SameClimb(t)
  BY <1>2, <1>3, <1>4 DEF SameClimb, Climbing, HoldsPath
<1>10. LeafKnown(t)'
  BY <1>3, <1>5 DEF LeafKnown
<1> QED
  <2>1. Carries(t)
    BY <1>2 DEF Carries
  <2>2. nleaf <= nleaf'
    BY <1>1, <1>2, LeafNumbers
  <2> QED
    BY <1>1, <1>2, <1>3, <1>8, <1>9, <1>10, <2>1, <2>2, LeafStep

LEMMA InvInsertLeft ==
  ASSUME IndInv, NEW t \in Foreground, InsertLeft(t)
  PROVE  IndInv'
<1>1. t \in Thread /\ t \notin Worker
  BY Constants DEF Thread
<1>2. TypeOK /\ TypeOK'
  BY <1>1, TypeAddKey DEF IndInv
<1> DEFINE l == loc[t].lp
           m == [loc[t].meta EXCEPT !.bitmap = @ \cup {loc[t].key}]
<1>3. /\ pc[t] = "addleft" /\ pc' = [pc EXCEPT ![t] = "level"]
      /\ meta' = [meta EXCEPT ![l] = m]
      /\ loc' = [loc EXCEPT ![t].meta = m]
      /\ UNCHANGED <<search_layer, tail, version, nleaf, job_queue>>
  BY DEF InsertLeft, Goto
<1>4. m.lock = FALSE
  <2>1. loc[t].meta \in LnodeMeta /\ ~loc[t].meta.lock
    BY <1>1, <1>2, <1>3, LocalFields DEF IndInv, LeafInv, LeafKnown
  <2> QED
    BY <2>1 DEF LnodeMeta
<1> HIDE DEF m
<1>5. /\ OthersStay(t) /\ pc'[t] = "level" /\ loc'[t].lp = l
      /\ loc'[t].path = loc[t].path /\ loc'[t].ptr = loc[t].ptr
  BY <1>1, <1>2, <1>3 DEF OthersStay, TypeOK, ThreadTypeOK, Local
<1>6. HoldsLeaf(t) /\ ~HoldsLeaf(t)'
  BY <1>1, <1>3, <1>5 DEF HoldsLeaf
<1>7. ~Pending(l, version[l])
  <2>1. l \in LnodeId /\ version[l] \in Version
    BY <1>1, <1>2, LocalFields DEF TypeOK, LeafTypeOK
  <2> QED
    BY <1>1, <1>3, <2>1 DEF IndInv, LeafInv, JobsOK
<1>8. OthersLeaf(t) /\ LeafLockOwner' /\ LeafAllocated' /\ JobsOK'
  BY <1>1, <1>2, <1>3, <1>4, <1>5, <1>6, <1>7, OwnLeaf
<1>9. SameClimb(t)
  BY <1>3, <1>5 DEF SameClimb, Climbing, HoldsPath
<1>10. LeafKnown(t)'
  BY <1>5 DEF LeafKnown
<1> QED
  <2>1. Carries(t)
    BY <1>3 DEF Carries
  <2>2. nleaf <= nleaf'
    BY <1>2, <1>3, LeafNumbers
  <2> QED
    BY <1>1, <1>2, <1>3, <1>5, <1>8, <1>9, <1>10, <2>1, <2>2, LeafStep

\* A fill with no job to push.
LEMMA InvFillOnly ==
  ASSUME IndInv, NEW t \in Foreground, FillOnly(t)
  PROVE  IndInv'
<1>1. t \in Thread /\ t \notin Worker
  BY Constants DEF Thread
<1>2. TypeOK /\ TypeOK'
  BY <1>1, TypeAddKey DEF IndInv
<1> DEFINE l == loc[t].lp
           m == [loc[t].meta EXCEPT !.bitmap = @ \cup {loc[t].key}]
<1>3. /\ pc[t] = "fill" /\ pc' = [pc EXCEPT ![t] = "ret"]
      /\ meta' = [meta EXCEPT ![l] = m]
      /\ loc' = [loc EXCEPT ![t].meta = m]
      /\ UNCHANGED <<search_layer, tail, version, nleaf, job_queue>>
  BY DEF FillOnly, Goto
<1>4. m.lock = FALSE
  <2>1. loc[t].meta \in LnodeMeta /\ ~loc[t].meta.lock
    BY <1>1, <1>2, <1>3, LocalFields DEF IndInv, LeafInv, LeafKnown
  <2> QED
    BY <2>1 DEF LnodeMeta
<1> HIDE DEF m
<1>5. /\ OthersStay(t) /\ pc'[t] = "ret" /\ loc'[t].lp = l
      /\ loc'[t].path = loc[t].path
  BY <1>1, <1>2, <1>3 DEF OthersStay, TypeOK, ThreadTypeOK, Local
<1>6. HoldsLeaf(t) /\ ~HoldsLeaf(t)'
  BY <1>1, <1>3, <1>5 DEF HoldsLeaf
<1>7. ~Pending(l, version[l])
  <2>1. l \in LnodeId /\ version[l] \in Version
    BY <1>1, <1>2, LocalFields DEF TypeOK, LeafTypeOK
  <2> QED
    BY <1>1, <1>3, <2>1 DEF IndInv, LeafInv, LeafKnown, JobsOK
<1>8. OthersLeaf(t) /\ LeafLockOwner' /\ LeafAllocated' /\ JobsOK'
  BY <1>1, <1>2, <1>3, <1>4, <1>5, <1>6, <1>7, OwnLeaf
<1>9. SameClimb(t)
  BY <1>3, <1>5 DEF SameClimb, Climbing, HoldsPath
<1>10. LeafKnown(t)'
  BY <1>5 DEF LeafKnown
<1> QED
  <2>1. ~Carries(t)'
    BY <1>5 DEF Carries
  <2>2. nleaf <= nleaf'
    BY <1>2, <1>3, LeafNumbers
  <2> QED
    BY <1>1, <1>2, <1>3, <1>5, <1>8, <1>9, <1>10, <2>1, <2>2, LeafStep

\* A worker takes a full leaf that nobody has use for.
LEMMA InvTakeLeaf ==
  ASSUME IndInv, NEW w \in Worker, TakeLeaf(w)
  PROVE  IndInv'
<1>1. w \in Thread /\ w \notin Foreground
  BY Constants DEF Thread
<1>2. TypeOK /\ TypeOK'
  BY TypeTakeLeaf DEF IndInv
<1>3. PICK r \in Local, label \in {"copy", "unlock"} :
        /\ pc[w] = "pop" /\ pc' = [pc EXCEPT ![w] = label]
        /\ r.lp < nleaf /\ ~meta[r.lp].lock /\ isFull(r.lp) /\ NotCarried(r.lp)
        /\ meta' = [meta EXCEPT ![r.lp].lock = TRUE]
        /\ loc' = [loc EXCEPT ![w] = r]
        /\ UNCHANGED <<search_layer, tail, version, nleaf, job_queue>>
  BY DEF TakeLeaf, Goto
<1> DEFINE l == r.lp
<1>4. ~HoldsLeaf(w) /\ l \in LnodeId
  BY <1>1, <1>3 DEF HoldsLeaf, Local
<1> HIDE DEF l
<1>5. nleaf <= nleaf' /\ \A x \in LnodeId : version'[x] = version[x]
  BY <1>2, <1>3, LeafNumbers
<1>6. /\ \A job \in job_queue' : job[1] < nleaf
      /\ \A job \in job_queue' : Pending(job[1], job[2])
  BY <1>2, <1>3, LeafNumbers DEF IndInv, LeafInv, LeafAllocated, Pending
<1>7. /\ OthersStay(w) /\ pc'[w] = label /\ loc'[w].lp = l
  BY <1>1, <1>2, <1>3 DEF OthersStay, TypeOK, ThreadTypeOK, l
<1>8. /\ \A x \in LnodeId : x # l => meta'[x] = meta[x]
      /\ meta'[l].lock
      /\ \A x \in LnodeId : meta'[x].bitmap = meta[x].bitmap
  BY <1>2, <1>3, <1>4 DEF TypeOK, LeafTypeOK, LnodeMeta, l
<1>9. HoldsLeaf(w)' /\ ~Carries(w)'
  BY <1>1, <1>3, <1>7 DEF HoldsLeaf, Carries
<1>10. \A u \in Thread : HoldsLeaf(u) => loc[u].lp # l
  <2>1. \A u \in Thread : pc[u] = "addleft" => loc[u].lp # l
    BY <1>3 DEF NotCarried, Carries, l
  <2> QED
    BY <1>3, <2>1 DEF IndInv, LeafInv, LeafLockOwner, l
<1>11. OthersLeaf(w) /\ SameClimb(w)
  <2>1. OthersLeaf(w)
    BY <1>2, <1>3, <1>8, <1>10, LocalFields DEF OthersLeaf
  <2>2. SameClimb(w)
    BY <1>1, <1>3, <1>7 DEF SameClimb, Climbing, HoldsPath
  <2> QED
    BY <2>1, <2>2
<1>12. LeafKnown(w)'
  BY <1>3, <1>4, <1>7, <1>8 DEF LeafKnown, isFull, l
<1>13. LeafLockOwner'
  BY <1>1, <1>2, <1>4, <1>7, <1>8, <1>9, <1>10, LeafLocksStep
  DEF IndInv, LeafInv
<1>14. LeafAllocated'
  BY <1>1, <1>2, <1>3, <1>5, <1>6, <1>7, LeafAllocatedStep
  DEF IndInv, LeafInv, l
<1>15. JobsOK'
  BY <1>1, <1>2, <1>3, <1>5, <1>6, <1>7, <1>8, JobsStep DEF IndInv, LeafInv
<1> QED
  BY <1>1, <1>2, <1>3, <1>5, <1>7, <1>9, <1>11, <1>12, <1>13, <1>14, <1>15,
     LeafStep

LEMMA InvSplitUnlock ==
  ASSUME IndInv, NEW w \in Worker, SplitUnlock(w)
  PROVE  IndInv'
<1>1. w \in Thread /\ w \notin Foreground
  BY Constants DEF Thread
<1>2. TypeOK /\ TypeOK'
  BY TypeSplitLeaf DEF IndInv
<1> DEFINE l == loc[w].lp
           m == [meta[l] EXCEPT !.lock = FALSE]
<1>3. /\ pc[w] = "unlock" /\ pc' = [pc EXCEPT ![w] = "pop"]
      /\ meta' = [meta EXCEPT ![l] = m]
      /\ loc' = [loc EXCEPT ![w] = NoLocal]
      /\ UNCHANGED <<search_layer, tail, version, nleaf, job_queue>>
  BY DEF SplitUnlock, Goto
<1>4. m.lock = FALSE /\ m.bitmap = meta[l].bitmap
  <2>1. meta[l] \in LnodeMeta
    BY <1>1, <1>2, LocalFields DEF TypeOK, LeafTypeOK
  <2> QED
    BY <2>1 DEF LnodeMeta
<1> HIDE DEF m
<1>5. OthersStay(w) /\ pc'[w] = "pop"
  BY <1>1, <1>2, <1>3 DEF OthersStay, TypeOK, ThreadTypeOK
<1>6. HoldsLeaf(w) /\ ~HoldsLeaf(w)'
  BY <1>1, <1>3, <1>5 DEF HoldsLeaf
<1>7. OthersLeaf(w) /\ LeafLockOwner' /\ LeafAllocated' /\ JobsOK'
  BY <1>1, <1>2, <1>3, <1>4, <1>5, <1>6, OwnLeaf
<1>8. SameClimb(w)
  BY <1>1, <1>3, <1>5 DEF SameClimb, Climbing, HoldsPath
<1>9. LeafKnown(w)' /\ ~Carries(w)'
  BY <1>5 DEF LeafKnown, Carries
<1> QED
  <2>1. nleaf <= nleaf'
    BY <1>2, <1>3, LeafNumbers
  <2> QED
    BY <1>1, <1>2, <1>3, <1>5, <1>7, <1>8, <1>9, <2>1, LeafStep

LEMMA InvSplitCopy ==
  ASSUME IndInv, NEW w \in Worker, SplitCopy(w)
  PROVE  IndInv'
<1>1. w \in Thread /\ w \notin Foreground
  BY Constants DEF Thread
<1>2. TypeOK /\ TypeOK'
  BY TypeSplitLeaf DEF IndInv
<1> DEFINE l == loc[w].lp
<1>3. /\ pc[w] = "copy" /\ pc' = [pc EXCEPT ![w] = "build"]
      /\ loc' = [loc EXCEPT ![w].meta = meta[l]]
      /\ UNCHANGED <<search_layer, leaf_layer, job_queue>>
      /\ UNCHANGED <<meta, tail, version, nleaf>>
  BY DEF SplitCopy, Goto, leaf_layer, TempMeta
<1>4. /\ OthersStay(w) /\ pc'[w] = "build" /\ loc'[w].lp = l
      /\ loc'[w].meta = meta[l]
  BY <1>1, <1>2, <1>3 DEF OthersStay, TypeOK, ThreadTypeOK, Local
<1>5. HoldsLeaf(w) /\ HoldsLeaf(w)' /\ l < nleaf
  BY <1>1, <1>3, <1>4 DEF HoldsLeaf, IndInv, LeafInv, LeafAllocated
<1>6. OthersLeaf(w) /\ SameClimb(w)
  BY <1>1, <1>3, <1>4 DEF OthersLeaf, SameClimb, Climbing, HoldsPath
<1>7. LeafKnown(w)'
  <2>1. isFull(l) /\ meta[l].lock
    BY <1>1, <1>3, <1>5 DEF IndInv, LeafInv, LeafKnown, LeafLockOwner
  <2> QED
    BY <1>3, <1>4, <2>1 DEF LeafKnown, isFull
<1>8. LeafLockOwner'
  BY <1>1, <1>3, <1>4, <1>5, LockOwnerKept DEF IndInv, LeafInv
<1>9. nleaf <= nleaf' /\ \A x \in LnodeId : version'[x] = version[x]
  BY <1>2, <1>3, LeafNumbers
<1>10. LeafAllocated'
  <2>1. \A job \in job_queue' : job[1] < nleaf
    BY <1>3 DEF IndInv, LeafInv, LeafAllocated
  <2> QED
    BY <1>1, <1>2, <1>4, <1>5, <1>9, <2>1, LeafAllocatedStep
    DEF IndInv, LeafInv
<1>11. JobsOK'
  <2>1. \A job \in job_queue' : Pending(job[1], job[2])
    BY <1>2, <1>3, LeafNumbers DEF Pending
  <2> QED
    BY <1>1, <1>2, <1>3, <1>4, <1>9, <2>1, JobsStep DEF IndInv, LeafInv
<1> QED
  <2>1. ~Carries(w)'
    BY <1>4 DEF Carries
  <2> QED
    BY <1>1, <1>2, <1>3, <1>4, <1>6, <1>7, <1>8, <1>9, <1>10, <1>11, <2>1,
       LeafStep
\* The version of a split leaf is one no job has.
LEMMA InvSplitBuild ==
  ASSUME IndInv, NoStaleJob, NEW t \in Thread, SplitBuild(t)
  PROVE  IndInv'
<1>1. TypeOK /\ TypeOK'
  BY TypeSplitBuild DEF IndInv
<1> DEFINE l    == loc[t].lp
           newp == nleaf
<1>2. PICK sk \in meta[l].bitmap :
        LET upper == {y \in meta[l].bitmap : y >= sk}
            mine  == IF t \in Foreground /\ loc[t].key > sk
                       THEN {loc[t].key} ELSE {}
            m     == [loc[t].meta EXCEPT !.bitmap = @ \ upper,
                                         !.alt = 1 - meta[l].alt]
        IN
        /\ meta' = [meta EXCEPT ![newp] =
                      [bitmap |-> upper \cup mine, lock |-> FALSE, alt |-> 0]]
        /\ loc' = [loc EXCEPT ![t].meta = m, ![t].sep = sk, ![t].ptr = newp]
  BY DEF SplitBuild
<1> DEFINE upper == {y \in meta[l].bitmap : y >= sk}
           mine  == IF t \in Foreground /\ loc[t].key > sk
                      THEN {loc[t].key} ELSE {}
           m     == [loc[t].meta EXCEPT !.bitmap = @ \ upper,
                                        !.alt = 1 - meta[l].alt]
           f     == [bitmap |-> upper \cup mine, lock |-> FALSE, alt |-> 0]
<1>3. /\ pc[t] = "build" /\ pc' = [pc EXCEPT ![t] = "publish"]
      /\ version' = [version EXCEPT ![l] = NextVersion(@)]
      /\ newp < MaxLeaf /\ nleaf' = nleaf + 1
      /\ UNCHANGED <<search_layer, job_queue>>
      /\ UNCHANGED <<tree_root, root_level, ent, ilock, ninode>>
  BY DEF SplitBuild, Goto, search_layer
<1>4. /\ l \in LnodeId /\ newp \in LnodeId /\ nleaf \in Nat
      /\ loc[t].meta \in LnodeMeta
  BY <1>1, <1>3, LocalFields, Constants DEF TypeOK, LeafTypeOK, LnodeId
<1>5. m.lock = loc[t].meta.lock /\ f.lock = FALSE
  BY <1>4 DEF LnodeMeta
<1>6. /\ meta' = [meta EXCEPT ![newp] = f]
       /\ loc' = [loc EXCEPT ![t].meta = m, ![t].sep = sk, ![t].ptr = newp]
  BY <1>2
<1> HIDE DEF newp, m, f
<1>7. /\ OthersStay(t) /\ pc'[t] = "publish" /\ loc'[t].lp = l
      /\ loc'[t].path = loc[t].path /\ loc'[t].meta = m
      /\ loc'[t].ptr = newp
  BY <1>1, <1>3, <1>6 DEF OthersStay, TypeOK, ThreadTypeOK, Local
<1>8. /\ \A x \in LnodeId : x # newp => meta'[x] = meta[x]
      /\ meta'[newp].lock = FALSE
      /\ \A x \in LnodeId : x # l => version'[x] = version[x]
      /\ ~Pending(l, version'[l])
  <2>1. ~Pending(l, NextVersion(version[l]))
    BY <1>3 DEF NoStaleJob
  <2> QED
    BY <1>1, <1>3, <1>4, <1>5, <1>6, <2>1 DEF TypeOK, LeafTypeOK
<1>9. HoldsLeaf(t) /\ HoldsLeaf(t)' /\ l < newp
  BY <1>3, <1>7 DEF HoldsLeaf, IndInv, LeafInv, LeafAllocated, newp
<1>10. nleaf <= nleaf' /\ newp = nleaf /\ newp < nleaf'
  BY <1>3, <1>4 DEF newp
\* Nobody knows of the new leaf.
<1>11. \A u \in Thread : HoldsLeaf(u) => loc[u].lp # newp
  <2>1. \A u \in Thread : HoldsLeaf(u) => loc[u].lp < nleaf
    BY DEF IndInv, LeafInv, LeafAllocated
  <2> QED
    BY <1>4, <1>10, <2>1
<1>12. OthersLeaf(t)
  <2>1. \A u \in Thread : u # t /\ HoldsLeaf(u) => loc[u].lp # l
    BY <1>9 DEF IndInv, LeafInv, LeafLockOwner
  <2> QED
    BY <1>1, <1>8, <1>11, <2>1, LocalFields DEF OthersLeaf
<1>13. SameClimb(t)
  BY <1>3, <1>7 DEF SameClimb, Climbing, HoldsPath
<1>14. ClimbInv'
  BY <1>1, <1>3, <1>7, <1>12, <1>13, SearchLayerKept DEF IndInv
<1>15. TreeInv'
  <2>1. Linked'
    BY <1>1, <1>3, <1>10, LinkedKept DEF IndInv, TreeInv
  <2>2. \A y, x, j : Hangs(y, x, j)' <=> Hangs(y, x, j)
    BY <1>3 DEF Hangs
  <2>3. OneUse'
    BY <2>2 DEF IndInv, TreeInv, OneUse
  <2>4. ASSUME NEW x \in InodeNum, NEW j \in ChildPlace
        PROVE  ~Hangs(newp, x, j)
    <3> SUFFICES ASSUME Hangs(newp, x, j) PROVE FALSE
      OBVIOUS
    <3>1. newp < nleaf
      <4>1. 0 \in Level
        BY Constants DEF Level
      <4> QED
        BY <4>1 DEF Hangs, IndInv, TreeInv, Linked
    <3> QED
      BY <1>4, <1>10, <3>1
  <2>5. ASSUME NEW u \in Thread, u # t, Carries(u)'
        PROVE  /\ Carries(u) /\ loc'[u].ptr = loc[u].ptr
               /\ loc[u].ptr < nleaf /\ loc[u].ptr \in Nat
    <3>1. Carries(u) /\ loc'[u].ptr = loc[u].ptr
      BY <1>7, <2>5 DEF OthersStay, Carries
    <3> QED
      BY <1>1, <3>1, LocalFields DEF IndInv, TreeInv, CarriedLeaf
  <2>6. ASSUME NEW u \in Thread, Carries(u)'
        PROVE  /\ loc'[u].ptr < nleaf'
               /\ \A x \in InodeNum, j \in ChildPlace :
                    ~Hangs(loc'[u].ptr, x, j)
    <3>1. CASE u = t
      BY <1>7, <1>10, <2>4, <3>1
    <3>2. CASE u # t
      <4>1. loc'[u].ptr < nleaf'
        BY <1>3, <1>4, <2>5, <2>6, <3>2
      <4> QED
        BY <2>5, <2>6, <3>2, <4>1 DEF IndInv, TreeInv, CarriedLeaf
    <3> QED
      BY <3>1, <3>2
  <2>7. ASSUME NEW u \in Thread, NEW v \in Thread, u # v, Carries(u)',
               Carries(v)'
        PROVE  loc'[u].ptr # loc'[v].ptr
    <3>1. CASE u = t
      BY <1>4, <1>7, <1>10, <2>5, <2>7, <3>1
    <3>2. CASE v = t
      BY <1>4, <1>7, <1>10, <2>5, <2>7, <3>2
    <3>3. CASE u # t /\ v # t
      BY <2>5, <2>7, <3>3 DEF IndInv, TreeInv, CarriedLeaf
    <3> QED
      BY <3>1, <3>2, <3>3
  <2>8. ASSUME NEW u \in Thread, Carries(u)',
               NEW x \in InodeNum, NEW j \in ChildPlace
        PROVE  ~Hangs(loc[u].ptr, x, j)'
    <3>1. ~Hangs(loc'[u].ptr, x, j)
      BY <2>6, <2>8
    <3> QED
      BY <1>3, <3>1 DEF Hangs
  <2>9. CarriedLeaf'
    BY <2>6, <2>7, <2>8 DEF CarriedLeaf
  <2> QED
    BY <2>1, <2>3, <2>9 DEF TreeInv
<1>16. LeafInv'
  <2>1. LeafLockOwner'
    <3>1. ~meta[newp].lock
      BY <1>4, <1>11 DEF IndInv, LeafInv, LeafLockOwner
    <3>2. \A x \in LnodeId : meta'[x].lock <=> meta[x].lock
      BY <1>8, <3>1
    <3>3. meta[l].lock
      BY <1>3, <1>9 DEF IndInv, LeafInv, LeafLockOwner
    <3> QED
      BY <1>1, <1>4, <1>7, <1>9, <3>2, <3>3, LeafLocksStep DEF IndInv, LeafInv
  <2>2. LeafAllocated'
    <3>1. \A job \in job_queue' : job[1] < nleaf
      BY <1>3 DEF IndInv, LeafInv, LeafAllocated
    <3> QED
      BY <1>1, <1>7, <1>9, <1>10, <3>1, LeafAllocatedStep DEF IndInv, LeafInv
  <2>3. JobsOK'
    <3>1. \A job \in job_queue' : Pending(job[1], job[2])
      BY <1>1, <1>3, LeafNumbers DEF Pending
    <3>2. \A x \in LnodeId : \/ version'[x] = version[x]
                             \/ ~Pending(x, version'[x])
      BY <1>4, <1>8
    <3>3. ASSUME NEW x \in LnodeId, Pending(x, version[x]),
                 version'[x] = version[x]
          PROVE  /\ meta'[x].bitmap = meta[x].bitmap
                 /\ pc'[t] \in {"publish", "addleft"} => loc'[t].lp # x
      <4>1. x # l
        BY <1>8, <3>3
      <4>2. x < nleaf
        BY <3>3 DEF Pending, IndInv, LeafInv, LeafAllocated
      <4>3. x # newp
        BY <1>4, <1>10, <4>2
      <4> QED
        BY <1>7, <1>8, <4>1, <4>3
    <3> QED
      BY <1>1, <1>7, <3>1, <3>2, <3>3, JobsStep DEF IndInv, LeafInv
  <2>4. LeafKnown(t)'
    <3>1. m.lock <=> t \in Worker
      BY <1>3, <1>5 DEF IndInv, LeafInv, LeafKnown
    <3> QED
      BY <1>7, <3>1 DEF LeafKnown
  <2>5. ASSUME NEW u \in Thread PROVE LeafKnown(u)'
    <3>1. CASE u = t
      BY <2>4, <3>1
    <3> QED
      BY <1>7, <1>12, <3>1, OthersKnow DEF IndInv, LeafInv
  <2> QED
    BY <2>1, <2>2, <2>3, <2>5 DEF LeafInv
<1> QED
  BY <1>1, <1>14, <1>15, <1>16 DEF IndInv

LEMMA InvReadLevel ==
  ASSUME IndInv, NEW t \in Thread, ReadLevel(t)
  PROVE  IndInv'
<1>1. TypeOK /\ TypeOK'
  BY TypeReadLevel DEF IndInv
<1>2. /\ pc[t] = "level" /\ pc' = [pc EXCEPT ![t] = "inode"]
      /\ loc' = [loc EXCEPT ![t].total = root_level, ![t].lev = 0]
      /\ UNCHANGED <<search_layer, leaf_layer, job_queue>>
      /\ UNCHANGED <<tree_root, root_level, ent, ilock, ninode>>
      /\ UNCHANGED <<meta, tail, version, nleaf>>
  BY DEF ReadLevel, Goto, total_level, search_layer, leaf_layer
<1>3. /\ OthersStay(t) /\ pc'[t] = "inode" /\ loc'[t].lp = loc[t].lp
      /\ loc'[t].path = loc[t].path /\ loc'[t].ptr = loc[t].ptr
      /\ loc'[t].total = root_level /\ loc'[t].lev = 0
  BY <1>1, <1>2 DEF OthersStay, TypeOK, ThreadTypeOK, Local
<1>4. OthersLeaf(t)
  BY <1>2 DEF OthersLeaf
<1>5. \A u \in Thread : u # t => SameClimb(u)
  BY <1>3, <1>4, OthersClimb
<1>6. /\ HoldsPath(t) /\ HoldsPath(t)' /\ Low(t) = 0 /\ Low(t)' = 0
  BY <1>2, <1>3 DEF HoldsPath, Low
<1>7. ClimbInv'
  <2>1. InodeLocks'
    <3>1. ASSUME NEW i \in Level, NEW x \in InodeNum
          PROVE  Holds(t, i, x)' <=> Holds(t, i, x)
      BY <1>2, <1>3, <1>6 DEF Holds, Growing
    <3>2. \A i \in Level, x \in InodeNum : Holds(t, i, x) => ilock[<<i, x>>]
      BY DEF IndInv, ClimbInv, InodeLocks
    <3> QED
      BY <1>2, <1>5, <3>1, <3>2, LocksStep DEF IndInv, ClimbInv
  <2>2. \A i \in Level : ninode[i] <= ninode'[i]
    <3>1. \A i \in Level : ninode[i] \in 0..MaxInode
      BY <1>1 DEF TypeOK, SearchTypeOK
    <3> QED
      BY <1>2, <3>1, Constants
  <2>3. ASSUME NEW u \in Thread, u # t PROVE ClimbOK(u)'
    BY <1>1, <1>2, <1>5, <2>2, <2>3, ClimbKept DEF IndInv, ClimbInv
  <2>4. ClimbOK(t)'
    <3>1. ClimbOK(t)
      BY DEF IndInv, ClimbInv
    <3>2. loc[t].path.rl \in Nat
      BY <1>1, LocalFields DEF Path, Level
    <3>3. PathTrue(t)'
      BY <1>2, <1>3, <1>6, <3>1 DEF ClimbOK, PathTrue, num
    <3>4. InReach(loc[t].path, 0)
      BY <3>2 DEF InReach
    <3>5. Climb(t)'
      BY <1>2, <1>3, <1>6, <3>1, <3>4 DEF ClimbOK, Climb
    <3> QED
      BY <1>3, <3>3, <3>5
      DEF ClimbOK, LeafOfPath, RootState, CarriedInode, Growing
  <2>5. RootLevel'
    <3>1. \A u \in Thread : pc[u] \in {"growroot", "growlevel"} =>
            pc'[u] = pc[u]
      BY <1>2, <1>3 DEF OthersStay
    <3> QED
      BY <1>2, <3>1 DEF IndInv, ClimbInv, RootLevel
  <2> QED
    BY <2>1, <2>3, <2>4, <2>5 DEF ClimbInv
<1>8. TreeInv'
  <2>1. Carries(t) /\ nleaf <= nleaf'
    BY <1>1, <1>2, LeafNumbers DEF Carries
  <2> QED
    BY <1>1, <1>2, <1>3, <2>1, TreeKept DEF IndInv
<1>9. LeafInv'
  <2>1. HoldsLeaf(t)' <=> HoldsLeaf(t)
    BY <1>2, <1>3 DEF HoldsLeaf
  <2> QED
    BY <1>1, <1>2, <1>3, <2>1, LeafLayerKept DEF IndInv
<1> QED
  BY <1>1, <1>7, <1>8, <1>9 DEF IndInv
-----------------------------------------------------------------------------
(* The steps that write the search layer.                                  *)

\* A split at level lev: what the thread does with its leaf does not change.
LEMMA SplitLeafInv ==
  ASSUME IndInv, TypeOK', NEW t \in Thread, OthersStay(t),
         UNCHANGED <<leaf_layer, job_queue>>, loc'[t].lp = loc[t].lp,
         pc[t] \in Climbing, pc'[t] \in Climbing \cup {Done(t)}
  PROVE  LeafInv'
<1>1. t \in Foreground => t \notin Worker
  BY Constants
<1>2. HoldsLeaf(t)' <=> HoldsLeaf(t)
  BY <1>1 DEF HoldsLeaf, Climbing, Done
<1>3. /\ pc[t] # "addleft"
      /\ pc'[t] \notin {"copy", "fill", "flush", "build", "publish", "addleft",
                        "lock"}
  BY DEF Climbing, Done
<1> QED
  BY <1>2, <1>3, LeafLayerKept DEF IndInv

\* The next inode to be allocated is locked by nobody.
LEMMA NewInode ==
  ASSUME IndInv, NEW i \in Level
  PROVE  /\ \A u \in Thread : ~Holds(u, i, ninode[i])
         /\ ninode[i] < MaxInode => /\ ninode[i] \in InodeNum
                                    /\ ~ilock[<<i, ninode[i]>>]
<1>1. ninode[i] \in Nat
  BY Constants DEF IndInv, TypeOK, SearchTypeOK
<1>2. ASSUME NEW u \in Thread, Holds(u, i, ninode[i]) PROVE FALSE
  <2>1. ninode[i] < ninode[i]
    BY <1>2, HeldAllocated DEF IndInv, TreeInv, ClimbInv
  <2> QED
    BY <1>1, <2>1
<1>3. ninode[i] < MaxInode => ninode[i] \in InodeNum
  BY <1>1, Constants DEF InodeNum
<1> QED
  BY <1>2, <1>3 DEF IndInv, ClimbInv, InodeLocks

\* The other threads, when t writes inodes of its own or new ones, and the
\* root only if it is at the top.
LEMMA OthersClimbOK ==
  ASSUME IndInv, TypeOK', NEW t \in Thread, OthersStay(t), UNCHANGED leaf_layer,
         \A i \in Level : ninode[i] <= ninode'[i],
         \A i \in Level, x \in InodeNum :
           \/ ent'[<<i, x>>] = ent[<<i, x>>]
           \/ Holds(t, i, x)
           \/ x = ninode[i],
         \/ UNCHANGED <<tree_root, root_level>>
         \/ AtTop(t) /\ root_level <= root_level'
  PROVE  /\ \A u \in Thread : u # t => SameClimb(u) /\ ClimbOK(u)'
<1>1. ASSUME NEW u \in Thread, u # t PROVE SameClimb(u)
  <2>1. OthersLeaf(t)
    BY DEF OthersLeaf, leaf_layer
  <2> QED
    BY <1>1, <2>1, OthersClimb
<1>2. ASSUME NEW u \in Thread, u # t PROVE ClimbOK(u)'
  <2>1. ASSUME NEW i \in Level, NEW x \in InodeNum, Holds(u, i, x)
        PROVE  ent'[<<i, x>>] = ent[<<i, x>>]
    <3>1. ~Holds(t, i, x)
      BY <1>2, <2>1 DEF IndInv, ClimbInv, InodeLocks
    <3>2. x # ninode[i]
      BY <2>1, NewInode
    <3> QED
      BY <3>1, <3>2
  <2>2. \/ UNCHANGED <<tree_root, root_level>>
        \/ ~AtTop(u) /\ root_level <= root_level'
    BY <1>2, OneAtTop DEF IndInv, ClimbInv
  <2> QED
    BY <1>1, <1>2, <2>1, <2>2, ClimbKept DEF IndInv, ClimbInv
<1> QED
  BY <1>1, <1>2

LEMMA InvGrown ==
  ASSUME IndInv, NEW t \in Thread,
         GrowSecondStore(t) \/ UnlockOldRoot(t) \/ UnlockNewRoot(t)
  PROVE  IndInv'
<1>1. TypeOK /\ TypeOK'
  BY TypeGrown DEF IndInv
<1> DEFINE lev == loc[t].lev
           ptr == loc[t].ptr
           old == loc[t].old_root
<1>2. /\ UNCHANGED <<ent, ninode, leaf_layer, job_queue, loc>>
      /\ UNCHANGED <<meta, tail, version, nleaf>>
  BY DEF GrowSecondStore, UnlockOldRoot, UnlockNewRoot, leaf_layer
<1>3. PICK label \in {"unlockold", "unlocknew", Done(t)} :
        pc' = [pc EXCEPT ![t] = label]
  BY DEF GrowSecondStore, UnlockOldRoot, UnlockNewRoot, Goto
<1>4. OthersStay(t) /\ pc'[t] = label /\ loc'[t] = loc[t]
  BY <1>1, <1>2, <1>3 DEF OthersStay, TypeOK, ThreadTypeOK
<1>5. pc[t] \in {"growroot", "growlevel", "unlockold", "unlocknew"}
  BY DEF GrowSecondStore, UnlockOldRoot, UnlockNewRoot
<1>6. /\ lev \in Level \ {0} /\ lev - 1 \in Level /\ lev \in Nat
      /\ ptr \in InodeNum /\ old \in InodeNum
  BY <1>1, <1>5, LocalFields, Constants DEF PtrTypeOK, Level
<1>7. ptr < ninode[lev] /\ ClimbOK(t)
  BY <1>5 DEF IndInv, ClimbInv, ClimbOK, CarriedInode, Growing
<1>8. LeafInv'
  BY <1>1, <1>2, <1>3, <1>4, <1>5, SplitLeafInv DEF Climbing
<1>9. ~HoldsPath(t)' /\ ~HoldsPath(t) /\ ~Carries(t)'
  BY <1>3, <1>4, <1>5 DEF HoldsPath, Carries, Done
<1>10. \A i \in Level : ninode[i] <= ninode'[i]
  <2>1. \A i \in Level : ninode[i] \in 0..MaxInode
    BY <1>1 DEF TypeOK, SearchTypeOK
  <2> QED
    BY <1>2, <2>1, Constants
<1>11. nleaf <= nleaf'
  BY <1>1, <1>2, LeafNumbers
<1>12. CASE GrowSecondStore(t)
  <2>1. /\ pc[t] \in {"growroot", "growlevel"} /\ pc'[t] = "unlockold"
        /\ UNCHANGED ilock
        /\ \/ /\ pc[t] = "growroot" /\ tree_root' = <<lev, ptr>>
              /\ UNCHANGED root_level
           \/ /\ pc[t] = "growlevel" /\ root_level' = lev /\ UNCHANGED tree_root
    BY <1>1, <1>12 DEF GrowSecondStore, Goto, TypeOK, ThreadTypeOK
  <2>2. tree_root' = <<lev, ptr>> /\ root_level' = lev /\ root_level <= lev
    BY <1>6, <1>7, <2>1 DEF ClimbOK, RootState
  <2>3. AtTop(t)
    BY <2>1 DEF AtTop
  <2>4. \A u \in Thread : u # t => SameClimb(u) /\ ClimbOK(u)'
    BY <1>1, <1>2, <1>4, <1>10, <2>2, <2>3, OthersClimbOK
  <2>5. \A i, x : Holds(t, i, x)' <=> Holds(t, i, x)
    BY <1>4, <1>9, <2>1 DEF Holds, Growing
  <2>6. InodeLocks'
    <3>1. \A i \in Level, x \in InodeNum : Holds(t, i, x) => ilock[<<i, x>>]
      BY DEF IndInv, ClimbInv, InodeLocks
    <3> QED
      BY <2>1, <2>4, <2>5, <3>1, LocksStep DEF IndInv, ClimbInv
  <2>7. ClimbOK(t)'
    <3>1. CarriedInode(t)'
      BY <1>2, <1>4, <1>7, <2>1 DEF ClimbOK, CarriedInode, Growing
    <3> QED
      BY <1>4, <1>9, <2>1, <3>1
      DEF ClimbOK, PathTrue, LeafOfPath, Climb, RootState
  <2>8. ClimbInv'
    BY <2>2, <2>4, <2>6, <2>7 DEF ClimbInv, RootLevel
  <2>9. TreeInv'
    BY <1>1, <1>2, <1>4, <1>7, <1>9, <1>11, <2>2, TreeKept DEF IndInv
  <2> QED
    BY <1>1, <1>8, <2>8, <2>9 DEF IndInv
<1>13. CASE UnlockOldRoot(t) \/ UnlockNewRoot(t)
  <2>1. /\ pc[t] \in {"unlockold", "unlocknew"} /\ pc'[t] \notin Growing
        /\ pc'[t] \notin {"inode", "grow"}
        /\ pc[t] = "unlockold" => pc'[t] = "unlocknew"
        /\ pc[t] = "unlocknew" => pc'[t] # "unlocknew"
        /\ UNCHANGED <<tree_root, root_level>>
    BY <1>1, <1>13
    DEF UnlockOldRoot, UnlockNewRoot, Goto, TypeOK, ThreadTypeOK, Growing, Done
  <2>2. \A u \in Thread : u # t => SameClimb(u) /\ ClimbOK(u)'
    BY <1>1, <1>2, <1>4, <1>10, <2>1, OthersClimbOK
  <2>3. ASSUME NEW i \in Level, NEW x \in InodeNum
        PROVE  /\ Holds(t, i, x)' => Holds(t, i, x)
               /\ ilock'[<<i, x>>] <=> \/ Holds(t, i, x)'
                                       \/ ilock[<<i, x>>] /\ ~Holds(t, i, x)
    <3>1. Holds(t, i, x) => ilock[<<i, x>>]
      BY DEF IndInv, ClimbInv, InodeLocks
    <3>2. CASE pc[t] = "unlockold"
      <4>1. ilock' = [ilock EXCEPT ![<<lev - 1, old>>] = FALSE]
        BY <1>13, <3>2 DEF UnlockOldRoot, UnlockNewRoot
      <4>2. ilock'[<<i, x>>] <=> ilock[<<i, x>>] /\ ~(i = lev - 1 /\ x = old)
        BY <1>1, <1>6, <4>1 DEF TypeOK, SearchTypeOK, Inode
      <4>3. Holds(t, i, x)' <=> i = lev /\ x = ptr
        BY <1>4, <1>9, <2>1, <3>2 DEF Holds, Growing
      <4>4. Holds(t, i, x) <=> (i = lev - 1 /\ x = old) \/ (i = lev /\ x = ptr)
        BY <1>9, <3>2 DEF Holds, Growing
      <4>5. ~(i = lev - 1 /\ i = lev)
        BY <1>6
      <4> QED
        BY <3>1, <4>2, <4>3, <4>4, <4>5
    <3>3. CASE pc[t] = "unlocknew"
      <4>1. ilock' = [ilock EXCEPT ![<<lev, ptr>>] = FALSE]
        BY <1>13, <3>3 DEF UnlockOldRoot, UnlockNewRoot
      <4>2. ilock'[<<i, x>>] <=> ilock[<<i, x>>] /\ ~(i = lev /\ x = ptr)
        BY <1>1, <1>6, <4>1 DEF TypeOK, SearchTypeOK, Inode
      <4>3. ~Holds(t, i, x)'
        BY <1>4, <1>9, <2>1, <3>3 DEF Holds
      <4>4. Holds(t, i, x) <=> i = lev /\ x = ptr
        BY <1>9, <3>3 DEF Holds, Growing
      <4> QED
        BY <3>1, <4>2, <4>3, <4>4
    <3> QED
      BY <2>1, <3>2, <3>3
  <2>4. InodeLocks'
    BY <2>2, <2>3, LocksStep DEF IndInv, ClimbInv
  <2>5. ClimbOK(t)'
    <3>1. CarriedInode(t)'
      BY <1>2, <1>4, <1>7, <2>1 DEF CarriedInode
    <3> QED
      BY <1>4, <1>9, <2>1, <3>1
      DEF ClimbOK, PathTrue, LeafOfPath, Climb, RootState, Growing
  <2>6. RootLevel'
    <3>1. \A u \in Thread : pc[u] \in {"growroot", "growlevel"} =>
            pc'[u] = pc[u]
      BY <1>4, <2>1 DEF OthersStay
    <3> QED
      BY <2>1, <3>1 DEF IndInv, ClimbInv, RootLevel
  <2>7. TreeInv'
    BY <1>1, <1>2, <1>4, <1>9, <1>11, <2>1, TreeKept DEF IndInv
  <2> QED
    BY <1>1, <1>8, <2>2, <2>4, <2>5, <2>6, <2>7 DEF IndInv, ClimbInv
<1> QED
  BY <1>12, <1>13
\* The children of a bottom inode with the carried leaf among them: no leaf
\* twice, none that another inode or another thread has.
LEMMA MergedUse ==
  ASSUME IndInv, NEW t \in Thread, pc[t] = "inode", loc[t].lev = 0
  PROVE  LET M == MergedCh(t)
             n == num(Here(t)) + 2
         IN
         /\ n \in Nat /\ n <= NON_LEAF_KEY_NUM + 2
         /\ \A q, s \in 1..n : M[q] = M[s] => q = s
         /\ \A q \in 1..n, y \in InodeNum, k \in ChildPlace :
              Hangs(M[q], y, k) => y = loc[t].path.parray[0]
         /\ \A q \in 1..n, u \in Thread :
              u # t /\ Carries(u) => loc[u].ptr # M[q]
<1> USE Constants
<1> DEFINE x   == loc[t].path.parray[0]
           at  == loc[t].path.ppos[0] + 2
           ptr == loc[t].ptr
           M   == MergedCh(t)
           n   == num(Here(t)) + 2
           ch  == ent[<<0, x>>].ch
<1>1. TypeOK /\ ClimbOK(t) /\ Carries(t)
  BY DEF IndInv, ClimbInv, Carries
<1>2. /\ Here(t) = <<0, x>> /\ x \in InodeNum /\ x < ninode[0]
      /\ num(Here(t)) \in Nat /\ num(Here(t)) <= NON_LEAF_KEY_NUM
      /\ ch \in Seq(ChildId(0)) /\ Len(ch) = num(Here(t)) + 1
      /\ at \in 2..n /\ ptr \in ChildId(0)
      /\ \A j \in 1..n : /\ j < at => M[j] = ch[j]
                         /\ j = at => M[j] = ptr
                         /\ j > at => M[j] = ch[j - 1]
  <2>1. PathTrue(t) /\ Climb(t)
    BY <1>1 DEF ClimbOK
  <2>2. Here(t) = <<0, x>> /\ ent[Here(t)].ch = ch
    BY DEF Here
  <2>3. /\ x \in InodeNum /\ x < ninode[0]
        /\ num(Here(t)) \in Nat /\ num(Here(t)) <= NON_LEAF_KEY_NUM
        /\ ptr \in ChildId(0) /\ at \in 2..n
    BY <1>1, <2>1, Merge
  <2>4. /\ ent[Here(t)].ch \in Seq(ChildId(0))
        /\ Len(ent[Here(t)].ch) = num(Here(t)) + 1
    BY <1>1, <2>1, Merge
  <2>5. \A j \in 1..n : /\ j < at => M[j] = ent[Here(t)].ch[j]
                        /\ j = at => M[j] = ptr
                        /\ j > at => M[j] = ent[Here(t)].ch[j - 1]
    BY <1>1, <2>1, Merge, SMTT(20)
  <2> HIDE DEF M, n, at, ptr, ch, x
  <2> QED
    BY <2>2, <2>3, <2>4, <2>5
<1>3. /\ \A j \in 1..(n - 1) : ch[j] \in LnodeId
      /\ DOMAIN ch = 1..(n - 1) /\ n \in Nat /\ n <= NON_LEAF_KEY_NUM + 2
  <2>1. Len(ch) = n - 1 /\ n \in Nat /\ n <= NON_LEAF_KEY_NUM + 2
    <3>1. /\ num(Here(t)) \in Nat /\ num(Here(t)) <= NON_LEAF_KEY_NUM
          /\ Len(ch) = num(Here(t)) + 1
      BY <1>2, SMTT(30)
    <3>2. n = num(Here(t)) + 2
      OBVIOUS
    <3> HIDE DEF n, ch
    <3> QED
      BY <3>1, <3>2, Constants
  <2> HIDE DEF n, ch
  <2> QED
    BY <1>2, <2>1, LenProperties DEF ChildId
<1> HIDE DEF x, at, ptr, M, n, ch
<1>4. ASSUME NEW j \in 1..(n - 1)
      PROVE  Hangs(ch[j], x, j) /\ j \in ChildPlace
  <2>1. j \in ChildPlace
    BY <1>3 DEF ChildPlace
  <2>2. j \in DOMAIN ent[<<0, x>>].ch /\ ent[<<0, x>>].ch[j] = ch[j]
    BY <1>3 DEF ch
  <2> QED
    BY <1>2, <2>1, <2>2 DEF Hangs
<1>5. \A y \in InodeNum, k \in ChildPlace : ~Hangs(ptr, y, k)
  BY <1>1 DEF IndInv, TreeInv, CarriedLeaf, ptr
<1>6. \A u \in Thread : u # t /\ Carries(u) =>
        /\ loc[u].ptr # ptr
        /\ \A y \in InodeNum, k \in ChildPlace : ~Hangs(loc[u].ptr, y, k)
  BY <1>1 DEF IndInv, TreeInv, CarriedLeaf, ptr
\* Where the child at q was.
<1>7. ASSUME NEW q \in 1..n
      PROVE  \/ q = at /\ M[q] = ptr
             \/ q < at /\ q \in 1..(n - 1) /\ M[q] = ch[q]
             \/ q > at /\ q - 1 \in 1..(n - 1) /\ M[q] = ch[q - 1]
  <2>1. at \in Int /\ at >= 2 /\ at <= n /\ n \in Nat /\ q \in Int
    BY <1>2, <1>3
  <2>2. CASE q = at
    BY <1>2, <2>2
  <2>3. CASE q < at
    BY <1>2, <2>1, <2>3
  <2>4. CASE q > at
    <3>1. q - 1 \in 1..(n - 1)
      BY <2>1, <2>4
    <3> QED
      BY <1>2, <2>4, <3>1
  <2> QED
    BY <2>1, <2>2, <2>3, <2>4
<1>8. \A i, j \in 1..(n - 1) : ch[i] = ch[j] => i = j
  <2> SUFFICES ASSUME NEW i \in 1..(n - 1), NEW j \in 1..(n - 1), ch[i] = ch[j]
               PROVE  i = j
    OBVIOUS
  <2>1. Hangs(ch[i], x, i) /\ Hangs(ch[i], x, j) /\ ch[i] \in LnodeId
        /\ i \in ChildPlace /\ j \in ChildPlace
    BY <1>3, <1>4
  <2> QED
    BY <1>2, <2>1 DEF IndInv, TreeInv, OneUse
<1>9. \A i \in 1..(n - 1) : ch[i] # ptr
  <2> SUFFICES ASSUME NEW i \in 1..(n - 1), ch[i] = ptr PROVE FALSE
    OBVIOUS
  <2>1. Hangs(ptr, x, i) /\ i \in ChildPlace
    BY <1>4
  <2> QED
    BY <1>2, <1>5, <2>1
<1>10. ASSUME NEW q \in 1..n, NEW s \in 1..n, M[q] = M[s]
       PROVE  q = s
  <2>1. n \in Nat /\ at \in Int
    BY <1>2, <1>3
  <2>2. CASE q = at
    BY <1>7, <1>9, <1>10, <2>1, <2>2
  <2>3. CASE s = at
    BY <1>7, <1>9, <1>10, <2>1, <2>3
  <2>4. CASE q # at /\ s # at
    <3>1. \/ q < at /\ q \in 1..(n - 1) /\ M[q] = ch[q]
          \/ q > at /\ q - 1 \in 1..(n - 1) /\ M[q] = ch[q - 1]
      BY <1>7, <2>4
    <3>2. \/ s < at /\ s \in 1..(n - 1) /\ M[s] = ch[s]
          \/ s > at /\ s - 1 \in 1..(n - 1) /\ M[s] = ch[s - 1]
      BY <1>7, <2>4
    <3>3. CASE q < at /\ s < at
      BY <1>8, <1>10, <2>1, <3>1, <3>2, <3>3
    <3>4. CASE q > at /\ s > at
      <4>1. q - 1 = s - 1
        BY <1>8, <1>10, <2>1, <3>1, <3>2, <3>4
      <4> QED
        BY <4>1
    <3>5. CASE q < at /\ s > at
      <4>1. q = s - 1
        BY <1>8, <1>10, <2>1, <3>1, <3>2, <3>5
      <4> QED
        BY <2>1, <3>5, <4>1
    <3>6. CASE q > at /\ s < at
      <4>1. s = q - 1
        BY <1>8, <1>10, <2>1, <3>1, <3>2, <3>6
      <4> QED
        BY <2>1, <3>6, <4>1
    <3> QED
      BY <2>1, <2>4, <3>3, <3>4, <3>5, <3>6
  <2> QED
    BY <2>2, <2>3, <2>4
<1>11. ASSUME NEW q \in 1..n, NEW y \in InodeNum, NEW k \in ChildPlace,
              Hangs(M[q], y, k)
       PROVE  y = x
  <2>1. M[q] # ptr
    BY <1>5, <1>11
  <2>2. PICK i \in 1..(n - 1) : M[q] = ch[i]
    BY <1>7, <2>1
  <2>3. Hangs(M[q], x, i) /\ i \in ChildPlace /\ M[q] \in LnodeId
    BY <1>3, <1>4, <2>2
  <2> QED
    BY <1>2, <1>11, <2>3 DEF IndInv, TreeInv, OneUse
<1>12. ASSUME NEW q \in 1..n, NEW u \in Thread, u # t, Carries(u)
       PROVE  loc[u].ptr # M[q]
  <2>1. CASE M[q] = ptr
    BY <1>6, <1>12, <2>1
  <2>2. CASE M[q] # ptr
    <3>1. PICK i \in 1..(n - 1) : M[q] = ch[i]
      BY <1>7, <2>2
    <3>2. Hangs(M[q], x, i) /\ i \in ChildPlace
      BY <1>4, <3>1
    <3> QED
      BY <1>2, <1>6, <1>12, <3>2
  <2> QED
    BY <2>1, <2>2
<1> QED
  BY <1>3, <1>10, <1>11, <1>12 DEF x, M, n
\* The n merged children of bottom inode x go to x, the first cut of them,
\* and to newp, the rest.
SplitPlaces(t, x, newp, n, cut) ==
  \A l : \A y \in InodeNum, j \in ChildPlace : Hangs(l, y, j)' =>
    \/ y # x /\ y # newp /\ Hangs(l, y, j)
    \/ y = x /\ j \in 1..n /\ j <= cut /\ l = MergedCh(t)[j]
    \/ y = newp /\ j + cut \in 1..n /\ l = MergedCh(t)[j + cut]

LEMMA BottomSplit ==
  ASSUME IndInv, NEW t \in Thread, pc[t] = "inode", loc[t].lev = 0,
         OthersStay(t), ~Carries(t)', UNCHANGED nleaf,
         NEW x, x = loc[t].path.parray[0], NEW newp, newp # x,
         NEW n, n = num(Here(t)) + 2, NEW cut \in Nat,
         SplitPlaces(t, x, newp, n, cut)
  PROVE  OneUse' /\ CarriedLeaf'
<1> DEFINE M == MergedCh(t)
<1>1. /\ n \in Nat
      /\ \A q, s \in 1..n : M[q] = M[s] => q = s
      /\ \A q \in 1..n, y \in InodeNum, k \in ChildPlace :
           Hangs(M[q], y, k) => y = x
      /\ \A q \in 1..n, u \in Thread : u # t /\ Carries(u) => loc[u].ptr # M[q]
  BY MergedUse
<1> HIDE DEF M
<1>2. ASSUME NEW l, NEW y \in InodeNum, NEW j \in ChildPlace, Hangs(l, y, j)'
      PROVE  \/ y # x /\ Hangs(l, y, j)
             \/ \E q \in 1..n : /\ l = M[q]
                                /\ \/ y = x /\ j = q /\ q <= cut
                                   \/ y = newp /\ j + cut = q
  <2>1. \/ y # x /\ y # newp /\ Hangs(l, y, j)
        \/ y = x /\ j \in 1..n /\ j <= cut /\ l = M[j]
        \/ y = newp /\ j + cut \in 1..n /\ l = M[j + cut]
    BY <1>2 DEF M, SplitPlaces
  <2> QED
    BY <2>1
<1>3. ASSUME NEW l \in LnodeId, NEW y \in InodeNum, NEW z \in InodeNum,
             NEW i \in ChildPlace, NEW j \in ChildPlace,
             Hangs(l, y, i)', Hangs(l, z, j)'
      PROVE  y = z /\ i = j
  <2>1. CASE y # x /\ Hangs(l, y, i)
    <3>1. CASE z # x /\ Hangs(l, z, j)
      BY <2>1, <3>1 DEF IndInv, TreeInv, OneUse
    <3>2. CASE ~(z # x /\ Hangs(l, z, j))
      BY <1>1, <1>2, <1>3, <2>1, <3>2
    <3> QED
      BY <3>1, <3>2
  <2>2. CASE ~(y # x /\ Hangs(l, y, i))
    <3>1. PICK q \in 1..n : /\ l = M[q]
                            /\ \/ y = x /\ i = q /\ q <= cut
                               \/ y = newp /\ i + cut = q
      BY <1>2, <1>3, <2>2
    <3>2. ~(z # x /\ Hangs(l, z, j))
      BY <1>1, <3>1
    <3>3. PICK s \in 1..n : /\ l = M[s]
                            /\ \/ z = x /\ j = s /\ s <= cut
                               \/ z = newp /\ j + cut = s
      BY <1>2, <1>3, <3>2
    <3>4. q = s
      BY <1>1, <3>1, <3>3
    <3>5. i \in Nat /\ j \in Nat /\ i >= 1 /\ j >= 1 /\ q \in Nat
      BY <1>1, Constants DEF ChildPlace
    <3>6. CASE y = x /\ i = q /\ q <= cut
      BY <3>3, <3>4, <3>5, <3>6
    <3>7. CASE y = newp /\ i + cut = q
      BY <3>3, <3>4, <3>5, <3>7
    <3> QED
      BY <3>1, <3>6, <3>7
  <2> QED
    BY <2>1, <2>2
<1>4. OneUse'
  BY <1>3 DEF OneUse
<1>5. ASSUME NEW u \in Thread, Carries(u)'
      PROVE  u # t /\ Carries(u) /\ loc'[u].ptr = loc[u].ptr
  BY <1>5 DEF OthersStay, Carries
<1>6. ASSUME NEW u \in Thread, Carries(u)', NEW l, l = loc[u].ptr,
             NEW y \in InodeNum, NEW j \in ChildPlace
      PROVE  ~Hangs(l, y, j)'
  <2> SUFFICES ASSUME Hangs(l, y, j)' PROVE FALSE
    OBVIOUS
  <2>1. u # t /\ Carries(u)
    BY <1>5, <1>6
  <2>2. ~Hangs(l, y, j)
    BY <1>6, <2>1 DEF IndInv, TreeInv, CarriedLeaf
  <2>3. \E q \in 1..n : l = M[q]
    BY <1>2, <2>2
  <2> QED
    BY <1>1, <1>6, <2>1, <2>3
<1>7. ASSUME NEW u \in Thread, Carries(u)',
             NEW y \in InodeNum, NEW j \in ChildPlace
      PROVE  ~Hangs(loc[u].ptr, y, j)'
  <2>1. PICK l : l = loc[u].ptr
    OBVIOUS
  <2>2. ~Hangs(l, y, j)' /\ loc'[u].ptr = l
    BY <1>5, <1>6, <1>7, <2>1
  <2> QED
    BY <2>2 DEF Hangs
<1>8. CarriedLeaf'
  <2>1. \A u \in Thread : Carries(u)' => loc'[u].ptr < nleaf'
    BY <1>5 DEF IndInv, TreeInv, CarriedLeaf
  <2>2. \A u, v \in Thread : u # v /\ Carries(u)' /\ Carries(v)' =>
          loc'[u].ptr # loc'[v].ptr
    BY <1>5 DEF IndInv, TreeInv, CarriedLeaf
  <2> QED
    BY <1>7, <2>1, <2>2 DEF CarriedLeaf
<1> QED
  BY <1>4, <1>8

\* A child that t adds to its inode is allocated.
LEMMA MergedBound ==
  ASSUME IndInv, NEW t \in Thread, pc[t] = "inode",
         NEW q \in 1..(num(Here(t)) + 2)
  PROVE  MergedCh(t)[q] < Bound(loc[t].lev)
<1> DEFINE lev == loc[t].lev
           x   == loc[t].path.parray[lev]
           ch  == ent[<<lev, x>>].ch
<1>1. TypeOK /\ PathTrue(t) /\ Climb(t) /\ CarriedInode(t)
  BY DEF IndInv, ClimbInv, ClimbOK
<1>2. /\ lev \in Level /\ x \in InodeNum /\ x < ninode[lev] /\ Here(t) = <<lev, x>>
      /\ num(Here(t)) \in Nat
      /\ ch \in Seq(ChildId(lev)) /\ Len(ch) = num(Here(t)) + 1
  BY <1>1, Merge
<1>3. \E j \in DOMAIN ch : MergedCh(t)[q] = ch[j] \/ MergedCh(t)[q] = loc[t].ptr
  <2> DEFINE at == loc[t].path.ppos[lev] + 2
             n  == num(Here(t)) + 2
             M  == MergedCh(t)
  <2>1. /\ at \in 2..n
        /\ \A j \in 1..n : /\ j < at => M[j] = ent[Here(t)].ch[j]
                           /\ j = at => M[j] = loc[t].ptr
                           /\ j > at => M[j] = ent[Here(t)].ch[j - 1]
    BY <1>1, Merge
  <2>2. DOMAIN ch = 1..(n - 1) /\ n \in Nat /\ n >= 2 /\ q \in 1..n
    BY <1>2, LenProperties
  <2>3. ent[Here(t)].ch = ch
    BY <1>2
  <2> HIDE DEF at, n, M, ch
  <2>4. CASE q < at
    <3>1. q \in 1..(n - 1)
      BY <2>1, <2>2, <2>4
    <3> QED
      BY <2>1, <2>2, <2>3, <2>4, <3>1 DEF M
  <2>5. CASE q = at
    <3>1. 1 \in DOMAIN ch
      BY <2>2
    <3> QED
      BY <2>1, <2>2, <2>5, <3>1 DEF M
  <2>6. CASE q > at
    <3>1. q - 1 \in 1..(n - 1)
      BY <2>1, <2>2, <2>6
    <3> QED
      BY <2>1, <2>2, <2>3, <2>6, <3>1 DEF M
  <2> QED
    BY <2>1, <2>2, <2>4, <2>5, <2>6
<1>4. \A j \in DOMAIN ch : ch[j] < Bound(lev)
  BY <1>2 DEF IndInv, TreeInv, Linked, Bound
<1>5. loc[t].ptr < Bound(lev)
  <2>1. lev = 0 => loc[t].ptr < nleaf
    BY DEF IndInv, TreeInv, CarriedLeaf, Carries
  <2>2. lev # 0 => loc[t].ptr < ninode[lev - 1]
    BY <1>1, <1>2, Constants DEF CarriedInode, Level
  <2> QED
    BY <2>1, <2>2 DEF Bound
<1> QED
  BY <1>3, <1>4, <1>5
LEMMA InvInsertInode ==
  ASSUME IndInv, NEW t \in Thread, InsertInode(t)
  PROVE  IndInv'
<1> DEFINE lev == loc[t].lev
           x   == loc[t].path.parray[lev]
           n   == num(Here(t)) + 2
           M   == MergedCh(t)
           e   == [k |-> MergedK(t), ch |-> M]
<1>1. PathTrue(t) /\ Climb(t) /\ ClimbOK(t)
  BY DEF IndInv, ClimbInv, ClimbOK
<1>2. TypeOK /\ TypeOK'
  BY <1>1, TypeInsertInode DEF IndInv
<1>3. /\ pc[t] = "inode" /\ num(Here(t)) < NON_LEAF_KEY_NUM
      /\ ent' = [ent EXCEPT ![Here(t)] = e]
      /\ ilock' = [ilock EXCEPT ![Here(t)] = FALSE]
      /\ pc' = [pc EXCEPT ![t] = Done(t)]
      /\ UNCHANGED <<tree_root, root_level, ninode, leaf_layer, job_queue, loc>>
      /\ UNCHANGED <<meta, tail, version, nleaf>>
  BY DEF InsertInode, Goto, leaf_layer
<1>4. OthersStay(t) /\ pc'[t] = Done(t) /\ loc'[t] = loc[t]
  BY <1>2, <1>3 DEF OthersStay, TypeOK, ThreadTypeOK
<1>5. /\ lev \in Level /\ x \in InodeNum /\ x < ninode[lev]
      /\ Here(t) = <<lev, x>> /\ <<lev, x>> \in Inode
      /\ num(Here(t)) \in Nat /\ n \in Nat
      /\ M \in Seq(ChildId(lev)) /\ Len(M) = n
      /\ loc[t].path.isfull[lev] <=> num(Here(t)) = NON_LEAF_KEY_NUM
  <2>1. /\ lev \in Level /\ x \in InodeNum /\ x < ninode[lev]
        /\ Here(t) = <<lev, x>> /\ num(Here(t)) \in Nat
    BY <1>1, <1>2, <1>3, Merge
  <2>2. /\ M \in Seq(ChildId(lev)) /\ Len(M) = n
        /\ loc[t].path.isfull[lev] <=> num(Here(t)) = NON_LEAF_KEY_NUM
    BY <1>1, <1>2, <1>3, Merge
  <2> HIDE DEF lev, x, M
  <2> QED
    BY <2>1, <2>2 DEF Inode
<1>6. DOMAIN M = 1..n /\ \A q \in 1..n : M[q] < Bound(lev)
  BY <1>3, <1>5, LenProperties, MergedBound
<1> HIDE DEF n, M
<1>7. /\ ent'[<<lev, x>>].ch = M
      /\ \A i \in Level, y \in InodeNum :
           i # lev \/ y # x => ent'[<<i, y>>] = ent[<<i, y>>]
  <2> HIDE DEF lev, x
  <2>1. ent'[<<lev, x>>] = e
    BY <1>2, <1>3, <1>5 DEF TypeOK, SearchTypeOK
  <2>2. \A i \in Level, y \in InodeNum :
          i # lev \/ y # x => ent'[<<i, y>>] = ent[<<i, y>>]
    BY <1>2, <1>3, <1>5 DEF TypeOK, SearchTypeOK, Inode
  <2> QED
    BY <2>1, <2>2
\* The inode is the only one t still holds.
<1>8. ASSUME NEW i \in Level, NEW y \in InodeNum
      PROVE  Holds(t, i, y) <=> i = lev /\ y = x
  <2>1. ~loc[t].path.isfull[lev] /\ InReach(loc[t].path, lev)
    BY <1>1, <1>3, <1>5, Constants DEF Climb
  <2>2. HoldsPath(t) /\ Low(t) = lev
    BY <1>3 DEF HoldsPath, Low
  <2>3. Holds(t, i, y) <=> /\ i >= lev /\ InReach(loc[t].path, i)
                           /\ y = loc[t].path.parray[i]
    BY <1>3, <2>2 DEF Holds, Growing
  <2>4. i > lev => ~InReach(loc[t].path, i)
    BY <1>5, <2>1, Constants DEF InReach, Level
  <2> QED
    BY <1>5, <2>1, <2>3, <2>4, Constants DEF Level
<1>9. /\ ~HoldsPath(t)' /\ ~Carries(t)'
      /\ \A i, y : ~Holds(t, i, y)'
  BY <1>4 DEF HoldsPath, Carries, Holds, Growing, Done
<1>10. nleaf <= nleaf' /\ \A i \in Level : ninode[i] <= ninode'[i]
  <2>1. \A i \in Level : ninode[i] \in 0..MaxInode
    BY <1>2 DEF TypeOK, SearchTypeOK
  <2> QED
    BY <1>2, <1>3, <2>1, LeafNumbers, Constants
<1>11. ClimbInv'
  <2>1. \A u \in Thread : u # t => SameClimb(u) /\ ClimbOK(u)'
    <3>1. \A i \in Level, y \in InodeNum :
            ent'[<<i, y>>] = ent[<<i, y>>] \/ Holds(t, i, y)
      BY <1>7, <1>8
    <3> QED
      BY <1>2, <1>3, <1>4, <1>10, <3>1, OthersClimbOK
  <2>2. InodeLocks'
    <3>1. ASSUME NEW i \in Level, NEW y \in InodeNum
          PROVE  ilock'[<<i, y>>] <=> ilock[<<i, y>>] /\ ~Holds(t, i, y)
      <4>1. ilock'[<<i, y>>] <=> ilock[<<i, y>>] /\ ~(i = lev /\ y = x)
        <5> HIDE DEF lev, x
        <5>1. <<i, y>> \in Inode /\ ilock \in [Inode -> BOOLEAN]
          BY <1>2 DEF TypeOK, SearchTypeOK, Inode
        <5>2. ilock'[<<i, y>>] =
                IF <<i, y>> = <<lev, x>> THEN FALSE ELSE ilock[<<i, y>>]
          BY <1>3, <1>5, <5>1
        <5> QED
          BY <5>1, <5>2
      <4> QED
        BY <1>8, <4>1
    <3> QED
      BY <1>9, <2>1, <3>1, LocksStep DEF IndInv, ClimbInv
  <2>3. ClimbOK(t)'
    BY <1>4, <1>9
    DEF ClimbOK, PathTrue, LeafOfPath, Climb, RootState, CarriedInode, Growing,
        Done
  <2>4. RootLevel'
    <3>1. \A u \in Thread : pc[u] \in {"growroot", "growlevel"} =>
            pc'[u] = pc[u]
      BY <1>3, <1>4 DEF OthersStay
    <3> QED
      BY <1>3, <3>1 DEF IndInv, ClimbInv, RootLevel
  <2> QED
    BY <2>1, <2>2, <2>3, <2>4 DEF ClimbInv
<1>12. Linked'
  <2>1. ASSUME NEW i \in Level, NEW y \in InodeNum, y < ninode'[i]
        PROVE  \/ y < ninode[i] /\ ent'[<<i, y>>].ch = ent[<<i, y>>].ch
               \/ \A j \in DOMAIN ent'[<<i, y>>].ch :
                    ent'[<<i, y>>].ch[j] < Bound(i)
    <3>1. CASE i = lev /\ y = x
      BY <1>6, <1>7, <3>1
    <3>2. CASE ~(i = lev /\ y = x)
      BY <1>3, <1>7, <2>1, <3>2
    <3> QED
      BY <3>1, <3>2
  <2> QED
    BY <1>2, <1>3, <1>10, <2>1, LinkedStep DEF IndInv, TreeInv
<1>13. OneUse' /\ CarriedLeaf'
  <2>1. 0 \in Level
    BY Constants DEF Level
  <2>2. CASE lev = 0
    <3>1. ASSUME NEW l, NEW y \in InodeNum, NEW j \in ChildPlace, Hangs(l, y, j)'
          PROVE  \/ y # x /\ Hangs(l, y, j)
                 \/ y = x /\ j \in 1..n /\ l = M[j]
      <4>1. /\ y < ninode[0] /\ j \in DOMAIN ent'[<<0, y>>].ch
            /\ ent'[<<0, y>>].ch[j] = l
        BY <1>3, <3>1 DEF Hangs
      <4>2. CASE y = x
        BY <1>6, <1>7, <2>2, <4>1, <4>2
      <4>3. CASE y # x
        BY <1>7, <2>1, <4>1, <4>3 DEF Hangs
      <4> QED
        BY <4>2, <4>3
    <3>2. -1 # x /\ \A y \in InodeNum : y # -1
      BY <1>5 DEF InodeNum
    <3>3. SplitPlaces(t, x, -1, n, n)
      BY <1>5, <3>1, <3>2, SMTT(20) DEF M, SplitPlaces
    <3>4. x = loc[t].path.parray[0] /\ n = num(Here(t)) + 2
      BY <2>2 DEF n
    <3> HIDE DEF x
    <3> QED
      BY <1>3, <1>4, <1>5, <1>9, <2>2, <3>2, <3>3, <3>4, BottomSplit
  <2>3. CASE lev # 0
    <3>1. \A y \in InodeNum : ent'[<<0, y>>] = ent[<<0, y>>]
      BY <1>7, <2>1, <2>3
    <3>2. \A l, j : \A y \in InodeNum : Hangs(l, y, j)' <=> Hangs(l, y, j)
      BY <1>3, <3>1 DEF Hangs
    <3> QED
      BY <1>2, <1>4, <1>9, <1>10, <3>2, UseKept DEF IndInv, TreeInv
  <2> QED
    BY <2>2, <2>3
<1>14. LeafInv'
  BY <1>2, <1>3, <1>4, SplitLeafInv DEF Climbing
<1> QED
  BY <1>2, <1>11, <1>12, <1>13, <1>14 DEF IndInv, TreeInv
LEMMA InvGrowRoot ==
  ASSUME IndInv, NEW t \in Thread, GrowRoot(t)
  PROVE  IndInv'
<1> USE Constants
<1> DEFINE lev  == loc[t].lev
           newp == ninode[lev]
           old  == tree_root[2]
           ptr  == loc[t].ptr
           e    == [k |-> <<loc[t].sep>>, ch |-> <<old, ptr>>]
<1>1. TypeOK /\ TypeOK' /\ ClimbOK(t)
  BY TypeGrowRoot DEF IndInv, ClimbInv
<1>2. /\ pc[t] = "grow" /\ lev \in Level /\ newp < MaxInode
      /\ ninode' = [ninode EXCEPT ![lev] = newp + 1]
      /\ ent' = [ent EXCEPT ![<<lev, newp>>] = e]
      /\ ilock' = [ilock EXCEPT ![<<lev, newp>>] = TRUE]
      /\ loc' = [loc EXCEPT ![t].old_root = old, ![t].ptr = newp]
      /\ UNCHANGED <<leaf_layer, job_queue>>
      /\ UNCHANGED <<meta, tail, version, nleaf>>
  BY DEF GrowRoot, leaf_layer
<1>3. PICK label \in {"growroot", "growlevel"} :
        /\ pc' = [pc EXCEPT ![t] = label]
        /\ label = "growroot" => root_level' = lev /\ UNCHANGED tree_root
        /\ label = "growlevel" => tree_root' = <<lev, newp>> /\ UNCHANGED root_level
  BY DEF GrowRoot, Goto
<1>4. /\ OthersStay(t) /\ pc'[t] = label /\ loc'[t].lp = loc[t].lp
      /\ loc'[t].lev = lev /\ loc'[t].ptr = newp /\ loc'[t].old_root = old
  BY <1>1, <1>2, <1>3 DEF OthersStay, TypeOK, ThreadTypeOK, Local
<1>5. /\ lev > 0 /\ lev - 1 \in Level /\ lev \in Nat
      /\ newp \in Nat /\ newp \in InodeNum
      /\ \A u \in Thread : ~Holds(u, lev, newp)
      /\ ~ilock[<<lev, newp>>]
  BY <1>1, <1>2, LocalFields, NewInode DEF PtrTypeOK, Level, InodeNum
\* The root is the inode t has split last.
<1>6. /\ tree_root[1] = lev - 1 /\ old = loc[t].path.parray[lev - 1]
      /\ tree_root = <<lev - 1, old>> /\ root_level = lev - 1
      /\ old \in InodeNum /\ old < ninode[lev - 1] /\ ptr < ninode[lev - 1]
  <2>1. /\ tree_root = <<lev - 1, loc[t].path.parray[lev - 1]>>
        /\ root_level = lev - 1 /\ ptr < ninode[lev - 1]
    BY <1>1, <1>2 DEF ClimbOK, RootState, CarriedInode
  <2>2. tree_root \in Inode /\ tree_root[2] < ninode[tree_root[1]]
    BY <1>1 DEF TypeOK, SearchTypeOK, IndInv, TreeInv, Linked
  <2>3. /\ tree_root[1] = lev - 1 /\ old = loc[t].path.parray[lev - 1]
        /\ tree_root = <<lev - 1, old>>
    BY <2>1
  <2>4. old \in InodeNum
    BY <2>2 DEF Inode
  <2> HIDE DEF lev, old, ptr
  <2> QED
    BY <2>1, <2>2, <2>3, <2>4 DEF old
<1> HIDE DEF e, lev, newp, old, ptr
<1>7. \A i \in Level, y \in InodeNum :
        <<i, y>> # <<lev, newp>> =>
          /\ ent'[<<i, y>>] = ent[<<i, y>>]
          /\ ilock'[<<i, y>>] = ilock[<<i, y>>]
  BY <1>1, <1>2 DEF TypeOK, SearchTypeOK, Inode
<1>8. ent'[<<lev, newp>>] = e /\ ilock'[<<lev, newp>>] = TRUE
  <2>1. <<lev, newp>> \in Inode
    BY <1>2, <1>5 DEF Inode
  <2> QED
    BY <1>1, <1>2, <2>1 DEF TypeOK, SearchTypeOK
<1>9. /\ ninode'[lev] = newp + 1
      /\ \A i \in Level : i # lev => ninode'[i] = ninode[i]
      /\ \A i \in Level : ninode[i] \in Nat /\ ninode[i] <= ninode'[i]
      /\ nleaf <= nleaf'
  <2>1. /\ ninode \in [Level -> 0..MaxInode] /\ newp = ninode[lev]
        /\ \A i \in Level : ninode[i] \in Nat
    <3>1. ninode \in [Level -> 0..MaxInode] /\ newp = ninode[lev]
      BY <1>1 DEF TypeOK, SearchTypeOK, newp
    <3> QED
      BY <3>1
  <2> QED
    BY <1>1, <1>2, <1>5, <2>1, LeafNumbers
<1>10. ~HoldsPath(t) /\ ~HoldsPath(t)' /\ ~Carries(t)'
  BY <1>2, <1>4 DEF HoldsPath, Carries
<1>11. ASSUME NEW i \in Level, NEW y \in InodeNum
       PROVE  /\ Holds(t, i, y) <=> i = lev - 1 /\ y = old
              /\ Holds(t, i, y)' <=> \/ i = lev - 1 /\ y = old
                                     \/ i = lev /\ y = newp
  <2>1. Holds(t, i, y) <=> i = lev - 1 /\ y = old
    BY <1>2, <1>6, <1>10 DEF Holds, Growing, lev
  <2>2. Holds(t, i, y)' <=> \/ i = lev - 1 /\ y = old
                            \/ i = lev /\ y = newp
    BY <1>4, <1>10 DEF Holds, Growing
  <2> QED
    BY <2>1, <2>2
<1>12. ClimbInv'
  <2>1. AtTop(t) /\ root_level <= root_level'
    BY <1>2, <1>3, <1>5, <1>6 DEF AtTop
  <2>2. \A u \in Thread : u # t => SameClimb(u) /\ ClimbOK(u)'
    <3>1. \A i \in Level, y \in InodeNum :
            ent'[<<i, y>>] = ent[<<i, y>>] \/ y = ninode[i]
      BY <1>7 DEF newp
    <3> QED
      BY <1>1, <1>2, <1>4, <1>9, <2>1, <3>1, OthersClimbOK
  <2>3. InodeLocks'
    <3>1. ASSUME NEW i \in Level, NEW y \in InodeNum
          PROVE  /\ Holds(t, i, y)' => Holds(t, i, y) \/ ~ilock[<<i, y>>]
                 /\ ilock'[<<i, y>>] <=> \/ Holds(t, i, y)'
                                         \/ ilock[<<i, y>>] /\ ~Holds(t, i, y)
      <4>1. Holds(t, i, y) => ilock[<<i, y>>]
        BY DEF IndInv, ClimbInv, InodeLocks
      <4>2. CASE i = lev /\ y = newp
        BY <1>5, <1>8, <1>11, <4>2
      <4>3. CASE ~(i = lev /\ y = newp)
        <5>1. ilock'[<<i, y>>] = ilock[<<i, y>>]
          BY <1>7, <4>3
        <5> QED
          BY <1>11, <4>1, <4>3, <5>1
      <4> QED
        BY <4>2, <4>3
    <3> QED
      BY <2>2, <3>1, LocksStep DEF IndInv, ClimbInv
  <2>4. ClimbOK(t)'
    <3>1. RootState(t)'
      BY <1>3, <1>4, <1>6 DEF RootState
    <3>2. CarriedInode(t)'
      <4>1. newp < ninode'[lev] /\ old < ninode'[lev - 1]
        BY <1>5, <1>6, <1>9
      <4> QED
        BY <1>4, <4>1 DEF CarriedInode
    <3> QED
      BY <1>4, <1>10, <3>1, <3>2 DEF ClimbOK, PathTrue, LeafOfPath, Climb
  <2>5. RootLevel'
    BY <1>4 DEF RootLevel
  <2> QED
    BY <2>2, <2>3, <2>4, <2>5 DEF ClimbInv
<1>13. TreeInv'
  <2>1. Linked'
    <3>1. ASSUME NEW i \in Level, NEW y \in InodeNum, y < ninode'[i]
          PROVE  \/ y < ninode[i] /\ ent'[<<i, y>>].ch = ent[<<i, y>>].ch
                 \/ \A j \in DOMAIN ent'[<<i, y>>].ch :
                      ent'[<<i, y>>].ch[j] < Bound(i)
      <4>1. CASE i = lev /\ y = newp
        <5>1. ent'[<<i, y>>].ch = <<old, ptr>> /\ Bound(i) = ninode[lev - 1]
          BY <1>5, <1>8, <4>1 DEF e, Bound
        <5> QED
          BY <1>6, <5>1
      <4>2. CASE ~(i = lev /\ y = newp)
        <5>1. y < ninode[i]
          <6>1. CASE i = lev
            <7>1. y \in Nat /\ y < newp + 1 /\ y # newp /\ newp = ninode[i]
              BY <1>9, <3>1, <4>2, <6>1 DEF InodeNum, newp
            <7> QED
              BY <1>5, <7>1
          <6>2. CASE i # lev
            BY <1>9, <3>1, <6>2
          <6> QED
            BY <6>1, <6>2
        <5> QED
          BY <1>7, <4>2, <5>1
      <4> QED
        BY <4>1, <4>2
    <3>2. UNCHANGED tree_root \/ tree_root'[2] < ninode'[tree_root'[1]]
      BY <1>3, <1>5, <1>9
    <3> QED
      BY <1>1, <1>9, <3>1, <3>2, LinkedStep DEF IndInv, TreeInv
  <2>2. OneUse' /\ CarriedLeaf'
    <3>1. 0 \in Level /\ 0 # lev
      BY <1>5 DEF Level
    <3>2. ninode'[0] = ninode[0] /\ \A y \in InodeNum : ent'[<<0, y>>] = ent[<<0, y>>]
      BY <1>7, <1>9, <3>1
    <3>3. \A l, j : \A y \in InodeNum : Hangs(l, y, j)' <=> Hangs(l, y, j)
      BY <3>2 DEF Hangs
    <3> QED
      BY <1>1, <1>4, <1>9, <1>10, <3>3, UseKept DEF IndInv, TreeInv
  <2> QED
    BY <2>1, <2>2 DEF TreeInv
<1>14. LeafInv'
  BY <1>1, <1>2, <1>3, <1>4, SplitLeafInv DEF Climbing
<1> QED
  BY <1>1, <1>12, <1>13, <1>14 DEF IndInv
\* What SplitInode writes, element by element.
SplitWrote(t, lev, x, newp, n, cut) ==
  /\ lev \in Level /\ lev \in Nat /\ x \in InodeNum /\ x < newp
  /\ newp \in Nat /\ newp \in InodeNum /\ newp < MaxInode
  /\ n \in Nat /\ cut \in Nat /\ cut < n
  /\ loc[t].path.isfull[lev] /\ InReach(loc[t].path, lev)
  /\ ninode'[lev] = newp + 1
  /\ \A i \in Level : i # lev => ninode'[i] = ninode[i]
  /\ \A i \in Level, y \in InodeNum :
       <<i, y>> # <<lev, x>> /\ <<i, y>> # <<lev, newp>> =>
         /\ ent'[<<i, y>>] = ent[<<i, y>>]
         /\ ilock'[<<i, y>>] = ilock[<<i, y>>]
  /\ ilock'[<<lev, x>>] = ~(lev < loc[t].total)
  /\ ilock'[<<lev, newp>>] = FALSE
  /\ DOMAIN ent'[<<lev, x>>].ch = 1..cut
  /\ \A j \in 1..cut :
       j \in 1..n /\ ent'[<<lev, x>>].ch[j] = MergedCh(t)[j]
  /\ DOMAIN ent'[<<lev, newp>>].ch = 1..(n - cut)
  /\ \A j \in 1..(n - cut) :
       j + cut \in 1..n /\ ent'[<<lev, newp>>].ch[j] = MergedCh(t)[j + cut]

LEMMA SplitWrites ==
  ASSUME IndInv, NEW t \in Thread, SplitInode(t),
         NEW lev, lev = loc[t].lev, NEW x, x = loc[t].path.parray[lev],
         NEW newp, newp = ninode[lev], NEW n, n = num(Here(t)) + 2,
         NEW cut, cut = LEFT_KEY_NUM + 1
  PROVE  SplitWrote(t, lev, x, newp, n, cut)
<1> USE Constants
<1> DEFINE mk  == MergedK(t)
           mch == MergedCh(t)
           L   == LEFT_KEY_NUM
           N   == NON_LEAF_KEY_NUM
           lo  == SubSeq(mch, 1, L + 1)
           hi  == SubSeq(mch, L + 2, Len(mch))
           e   == [k |-> SubSeq(mk, 1, L), ch |-> lo]
           f   == [k |-> SubSeq(mk, L + 2, Len(mk)), ch |-> hi]
<1>1. TypeOK /\ PathTrue(t) /\ Climb(t) /\ pc[t] = "inode"
  BY DEF IndInv, ClimbInv, ClimbOK, SplitInode
<1>2. /\ lev \in Level /\ x \in InodeNum /\ x < newp /\ Here(t) = <<lev, x>>
      /\ loc[t].path.isfull[lev] <=> num(Here(t)) = N
  BY <1>1, Merge
<1>3. num(Here(t)) = N
  BY <1>1, Halves
<1>4. /\ Len(lo) = L + 1 /\ \A j \in 1..(L + 1) : lo[j] = mch[j]
      /\ Len(hi) = N - L + 1 /\ \A j \in 1..(N - L + 1) : hi[j] = mch[j + L + 1]
  BY <1>1, Halves
<1>5. EntryOK(e, lev) /\ EntryOK(f, lev)
  BY <1>1, Halves
<1>6. lo \in Seq(ChildId(lev)) /\ hi \in Seq(ChildId(lev))
  BY <1>5 DEF EntryOK
<1>7. /\ ninode' = [ninode EXCEPT ![lev] = newp + 1] /\ newp < MaxInode
      /\ ent' = [ent EXCEPT ![<<lev, x>>] = e, ![<<lev, newp>>] = f]
      /\ ilock' = [ilock EXCEPT ![<<lev, x>>] = ~(lev < loc[t].total),
                                ![<<lev, newp>>] = FALSE]
  BY <1>2, SMTT(30) DEF SplitInode
<1> HIDE DEF mk, mch, lo, hi, e, f
<1>8. n = N + 2 /\ cut = L + 1 /\ n \in Nat /\ cut \in Nat /\ cut < n
  BY <1>3
<1>9. /\ newp \in Nat /\ newp \in InodeNum /\ x # newp /\ lev \in Nat
      /\ ninode \in [Level -> 0..MaxInode]
  <2>1. ninode \in [Level -> 0..MaxInode]
    BY <1>1 DEF TypeOK, SearchTypeOK
  <2>2. newp \in Nat
    BY <1>2, <2>1
  <2>3. newp \in InodeNum /\ lev \in Nat
    <3>1. lev \in Level /\ newp < MaxInode
      BY <1>2, <1>7, SMTT(30)
    <3> QED
      BY <2>2, <3>1, Constants DEF InodeNum, Level
  <2>4. x # newp
    BY <1>2, <2>2 DEF InodeNum
  <2> QED
    BY <2>1, <2>2, <2>3, <2>4
<1>10. <<lev, x>> \in Inode /\ <<lev, newp>> \in Inode /\ <<lev, x>> # <<lev, newp>>
  BY <1>2, <1>9 DEF Inode
<1>11. InReach(loc[t].path, lev)
  BY <1>1 DEF Climb
<1>12. /\ DOMAIN ent = Inode /\ ilock \in [Inode -> BOOLEAN]
  BY <1>1 DEF TypeOK, SearchTypeOK
<1>13. /\ ent'[<<lev, x>>] = e /\ ent'[<<lev, newp>>] = f
       /\ ilock'[<<lev, x>>] = ~(lev < loc[t].total)
       /\ ilock'[<<lev, newp>>] = FALSE
  BY <1>7, <1>10, <1>12, SMTT(30)
<1>14. \A i \in Level, y \in InodeNum :
         <<i, y>> # <<lev, x>> /\ <<i, y>> # <<lev, newp>> =>
           /\ ent'[<<i, y>>] = ent[<<i, y>>]
           /\ ilock'[<<i, y>>] = ilock[<<i, y>>]
  BY <1>7, <1>12 DEF Inode
<1>15. /\ ninode'[lev] = newp + 1
       /\ \A i \in Level : i # lev => ninode'[i] = ninode[i]
  BY <1>2, <1>7, <1>9, SMTT(30)
<1>16. /\ DOMAIN ent'[<<lev, x>>].ch = 1..cut
       /\ \A j \in 1..cut : j \in 1..n /\ ent'[<<lev, x>>].ch[j] = mch[j]
  <2>1. ent'[<<lev, x>>].ch = lo
    BY <1>13 DEF e
  <2>2. DOMAIN lo = 1..cut
    BY <1>4, <1>6, <1>8, LenProperties
  <2>3. \A j \in 1..cut : j \in 1..n
    BY <1>8
  <2>4. ASSUME NEW j \in 1..cut PROVE lo[j] = mch[j]
    BY <1>4, <1>8
  <2>5. DOMAIN ent'[<<lev, x>>].ch = 1..cut
    BY <2>1, <2>2
  <2> QED
    BY <2>1, <2>3, <2>4, <2>5
<1>17. /\ DOMAIN ent'[<<lev, newp>>].ch = 1..(n - cut)
       /\ \A j \in 1..(n - cut) :
            j + cut \in 1..n /\ ent'[<<lev, newp>>].ch[j] = mch[j + cut]
  <2>1. ent'[<<lev, newp>>].ch = hi
    BY <1>13 DEF f
  <2>2. n - cut = N - L + 1
    BY <1>8
  <2>3. DOMAIN hi = 1..(n - cut)
    BY <1>4, <1>6, <2>2, LenProperties
  <2>4. ASSUME NEW j \in 1..(n - cut)
        PROVE  j + cut \in 1..n /\ hi[j] = mch[j + cut]
    <3>1. j + cut \in 1..n /\ j + L + 1 = j + cut
      BY <1>8
    <3>2. hi[j] = mch[j + L + 1]
      BY <1>4, <2>2
    <3> QED
      BY <3>1, <3>2
  <2>5. DOMAIN ent'[<<lev, newp>>].ch = 1..(n - cut)
    BY <2>1, <2>3
  <2> QED
    BY <2>1, <2>4, <2>5
<1> QED
  BY <1>2, <1>3, <1>7, <1>8, <1>9, <1>11, <1>13, <1>14, <1>15, <1>16, <1>17
  DEF mch, SplitWrote

LEMMA InvSplitInode ==
  ASSUME IndInv, NEW t \in Thread, SplitInode(t)
  PROVE  IndInv'
<1> USE Constants
<1> DEFINE lev  == loc[t].lev
           path == loc[t].path
           x    == path.parray[lev]
           newp == ninode[lev]
           n    == num(Here(t)) + 2
           cut  == LEFT_KEY_NUM + 1
           M    == MergedCh(t)
           label == IF lev + 1 <= loc[t].total THEN "inode" ELSE "grow"
<1>1. TypeOK /\ PathTrue(t) /\ Climb(t) /\ ClimbOK(t)
  BY DEF IndInv, ClimbInv, ClimbOK
<1>2. TypeOK'
  BY <1>1, TypeSplitInode
<1>3. /\ pc[t] = "inode" /\ pc' = [pc EXCEPT ![t] = label]
      /\ loc' = [loc EXCEPT ![t].sep = MergedK(t)[LEFT_KEY_NUM + 1],
                            ![t].ptr = newp, ![t].lev = lev + 1]
      /\ UNCHANGED <<tree_root, root_level, leaf_layer, job_queue>>
      /\ UNCHANGED <<meta, tail, version, nleaf>>
  BY DEF SplitInode, Goto, leaf_layer
<1>4. /\ OthersStay(t) /\ pc'[t] = label /\ loc'[t].lp = loc[t].lp
      /\ loc'[t].lev = lev + 1 /\ loc'[t].ptr = newp /\ loc'[t].path = path
      /\ loc'[t].total = loc[t].total
  BY <1>1, <1>3 DEF OthersStay, TypeOK, ThreadTypeOK, Local
<1>5. /\ SplitWrote(t, lev, x, newp, n, cut)
       /\ \A q \in 1..n : M[q] < Bound(lev)
  BY <1>3, SplitWrites, MergedBound
<1> HIDE DEF lev, x, newp, n, cut
<1>6. /\ lev \in Level /\ lev \in Nat /\ x \in InodeNum /\ x < newp
      /\ newp \in Nat /\ newp \in InodeNum /\ newp < MaxInode
      /\ n \in Nat /\ cut \in Nat /\ cut < n
      /\ path.isfull[lev] /\ InReach(path, lev)
      /\ ninode'[lev] = newp + 1
      /\ \A i \in Level : i # lev => ninode'[i] = ninode[i]
  BY <1>5 DEF SplitWrote, path, M
<1>7. /\ \A i \in Level, y \in InodeNum :
           <<i, y>> # <<lev, x>> /\ <<i, y>> # <<lev, newp>> =>
             /\ ent'[<<i, y>>] = ent[<<i, y>>]
             /\ ilock'[<<i, y>>] = ilock[<<i, y>>]
      /\ ilock'[<<lev, x>>] = ~(lev < loc[t].total)
      /\ ilock'[<<lev, newp>>] = FALSE
  BY <1>5 DEF SplitWrote, path, M
<1>8. /\ DOMAIN ent'[<<lev, x>>].ch = 1..cut
      /\ \A j \in 1..cut : j \in 1..n /\ ent'[<<lev, x>>].ch[j] = M[j]
      /\ DOMAIN ent'[<<lev, newp>>].ch = 1..(n - cut)
      /\ \A j \in 1..(n - cut) :
           j + cut \in 1..n /\ ent'[<<lev, newp>>].ch[j] = M[j + cut]
  BY <1>5 DEF SplitWrote, path, M
<1>9. /\ path \in Path /\ path.rl \in Level /\ path.rl \in Nat
      /\ loc[t].total \in Nat /\ lev <= path.rl /\ path.rl <= loc[t].total
      /\ ToRoot(path) => loc[t].total = path.rl
      /\ root_level \in Nat
  <2>1. path \in Path /\ path.rl \in Level /\ loc[t].total \in Level
    BY <1>1, LocalFields DEF Path
  <2>2. path.rl <= loc[t].total /\ (ToRoot(path) => loc[t].total = path.rl)
    BY <1>1, <1>3 DEF Climb, path
  <2>3. lev \in 0..path.rl
    BY <1>6 DEF InReach
  <2> HIDE DEF path, lev
  <2> QED
    BY <1>1, <2>1, <2>2, <2>3 DEF Level, TypeOK, SearchTypeOK
<1> HIDE DEF path, M, label
\* Either another level is in reach, or t is at the root.
<1>10. /\ lev < loc[t].total => /\ label = "inode" /\ lev < path.rl
                                /\ InReach(path, lev + 1)
       /\ ~(lev < loc[t].total) => /\ label = "grow" /\ lev = path.rl
                                   /\ ToRoot(path)
  <2>1. lev = path.rl => ToRoot(path)
    BY <1>6 DEF ToRoot
  <2>2. lev < path.rl => InReach(path, lev + 1)
    BY <1>6, <1>9 DEF InReach
  <2>3. lev + 1 <= loc[t].total <=> lev < loc[t].total
    BY <1>6, <1>9
  <2>4. label = IF lev + 1 <= loc[t].total THEN "inode" ELSE "grow"
    BY DEF label, lev
  <2>5. lev < loc[t].total => lev < path.rl
    BY <1>6, <1>9, <2>1
  <2>6. ~(lev < loc[t].total) => lev = path.rl
    BY <1>6, <1>9
  <2> QED
    BY <2>1, <2>2, <2>3, <2>4, <2>5, <2>6
<1>11. ASSUME NEW i \in Level, NEW y \in InodeNum
       PROVE  Holds(t, i, y) <=> /\ i >= lev /\ InReach(path, i)
                                 /\ y = path.parray[i]
  <2>1. HoldsPath(t) /\ Low(t) = lev
    BY <1>3 DEF HoldsPath, Low, lev
  <2> QED
    BY <1>3, <2>1 DEF Holds, Growing, path
<1>12. ASSUME NEW i \in Level, NEW y \in InodeNum
       PROVE  Holds(t, i, y)' <=> /\ Holds(t, i, y)
                                  /\ i = lev => ~(lev < loc[t].total)
  <2>1. CASE lev < loc[t].total
    <3>1. HoldsPath(t)' /\ Low(t)' = lev + 1 /\ pc'[t] = "inode"
      BY <1>4, <1>10, <2>1 DEF HoldsPath, Low
    <3>2. Holds(t, i, y)' <=> /\ i >= lev + 1 /\ InReach(path, i)
                              /\ y = path.parray[i]
      BY <1>4, <3>1 DEF Holds, Growing
    <3>3. i >= lev + 1 <=> i >= lev /\ i # lev
      BY <1>6 DEF Level
    <3> QED
      BY <1>11, <2>1, <3>2, <3>3
  <2>2. CASE ~(lev < loc[t].total)
    <3>1. ~HoldsPath(t)' /\ pc'[t] = "grow"
      BY <1>4, <1>10, <2>2 DEF HoldsPath
    <3>2. Holds(t, i, y)' <=> i = lev /\ y = path.parray[i]
      <4>1. loc'[t].lev - 1 = lev
        BY <1>4, <1>6
      <4> QED
        BY <1>4, <3>1, <4>1 DEF Holds, Growing
    <3>3. i >= lev /\ InReach(path, i) <=> i = lev
      BY <1>6, <1>9, <1>10, <2>2 DEF InReach, Level
    <3> QED
      BY <1>11, <2>2, <3>2, <3>3
  <2> QED
    BY <2>1, <2>2
<1>13. x = path.parray[lev] /\ newp = ninode[lev] /\ x # newp /\ x < ninode[lev]
  BY <1>6 DEF x, newp
<1>14. /\ \A i \in Level : ninode[i] \in Nat /\ ninode[i] <= ninode'[i]
       /\ nleaf <= nleaf'
  <2>1. \A i \in Level : ninode[i] \in Nat
    <3>1. \A i \in Level : ninode[i] \in 0..MaxInode
      BY <1>1 DEF TypeOK, SearchTypeOK
    <3> QED
      BY <3>1
  <2> QED
    BY <1>1, <1>3, <1>6, <1>13, <2>1, LeafNumbers
<1>15. ClimbInv'
  <2>1. \A u \in Thread : u # t => SameClimb(u) /\ ClimbOK(u)'
    <3>1. Holds(t, lev, x)
      BY <1>6, <1>11, <1>13
    <3>2. \A i \in Level, y \in InodeNum :
            \/ ent'[<<i, y>>] = ent[<<i, y>>]
            \/ Holds(t, i, y)
            \/ y = ninode[i]
      BY <1>7, <1>13, <3>1
    <3> QED
      BY <1>1, <1>2, <1>3, <1>4, <1>14, <3>2, OthersClimbOK
  <2>2. InodeLocks'
    <3>1. ASSUME NEW i \in Level, NEW y \in InodeNum
          PROVE  ilock'[<<i, y>>] <=> \/ Holds(t, i, y)'
                                      \/ ilock[<<i, y>>] /\ ~Holds(t, i, y)
      <4>1. Holds(t, i, y) => ilock[<<i, y>>]
        BY DEF IndInv, ClimbInv, InodeLocks
      <4>2. CASE i = lev /\ y = x
        <5>1. Holds(t, i, y)
          BY <1>6, <1>11, <1>13, <4>2
        <5> QED
          BY <1>7, <1>12, <4>2, <5>1
      <4>3. CASE i = lev /\ y = newp
        <5>1. ~Holds(t, i, y) /\ ~ilock[<<i, y>>]
          BY <1>6, <1>13, <4>3, NewInode
        <5> QED
          BY <1>7, <1>12, <4>3, <5>1
      <4>4. CASE ~(i = lev /\ y = x) /\ ~(i = lev /\ y = newp)
        <5>1. ilock'[<<i, y>>] = ilock[<<i, y>>]
          BY <1>7, <4>4
        <5>2. Holds(t, i, y) => i # lev
          BY <1>11, <1>13, <4>4
        <5> QED
          BY <1>12, <4>1, <5>1, <5>2
      <4> QED
        BY <4>2, <4>3, <4>4
    <3>2. \A i \in Level, y \in InodeNum : Holds(t, i, y)' => Holds(t, i, y)
      BY <1>12
    <3> QED
      BY <2>1, <3>1, <3>2, LocksStep DEF IndInv, ClimbInv
  <2>3. PathTrue(t)'
    <3> SUFFICES ASSUME HoldsPath(t)', NEW i \in Low(t)'..path.rl,
                        InReach(path, i)
                 PROVE  /\ path.parray[i] < ninode'[i]
                        /\ path.ppos[i] <= Len(ent'[<<i, path.parray[i]>>].k)
                        /\ path.isfull[i] <=>
                             Len(ent'[<<i, path.parray[i]>>].k)
                               = NON_LEAF_KEY_NUM
      BY <1>4 DEF PathTrue, num
    <3>1. pc'[t] = "inode" /\ Low(t)' = lev + 1
      BY <1>4, <1>10 DEF HoldsPath, Low
    <3>2. i \in Level /\ i # lev /\ i \in lev..path.rl /\ path.parray[i] \in InodeNum
      BY <1>6, <1>9, <3>1, SMTT(20) DEF Level, Path
    <3>3. /\ path.parray[i] < ninode[i]
          /\ path.ppos[i] <= Len(ent[<<i, path.parray[i]>>].k)
          /\ path.isfull[i] <=>
               Len(ent[<<i, path.parray[i]>>].k) = NON_LEAF_KEY_NUM
      <4>1. HoldsPath(t) /\ Low(t) = lev
        BY <1>3 DEF HoldsPath, Low, lev
      <4> QED
        BY <1>1, <3>2, <4>1 DEF PathTrue, num, path
    <3>4. ent'[<<i, path.parray[i]>>] = ent[<<i, path.parray[i]>>]
      BY <1>7, <3>2
    <3> QED
      BY <1>6, <3>2, <3>3, <3>4
  <2>4. Climb(t)'
    <3>1. /\ path.rl <= root_level
          /\ ToRoot(path) => /\ root_level = path.rl
                             /\ tree_root = <<path.rl, path.parray[path.rl]>>
      BY <1>1, <1>3 DEF Climb, HoldsPath, path
    <3> QED
      BY <1>3, <1>4, <1>9, <1>10, <3>1 DEF Climb
  <2>5. RootState(t)'
    <3>1. CASE lev < loc[t].total
      BY <1>4, <1>10, <3>1 DEF RootState
    <3>2. CASE ~(lev < loc[t].total)
      <4>1. root_level = path.rl /\ tree_root = <<path.rl, path.parray[path.rl]>>
        BY <1>1, <1>3, <1>10, <3>2 DEF Climb, HoldsPath, path
      <4>2. loc'[t].lev - 1 = lev /\ lev = path.rl /\ pc'[t] = "grow"
        BY <1>4, <1>6, <1>10, <3>2
      <4> QED
        BY <1>3, <1>4, <4>1, <4>2 DEF RootState
    <3> QED
      BY <3>1, <3>2
  <2>6. CarriedInode(t)'
    <3>1. newp < ninode'[lev] /\ loc'[t].lev - 1 = lev
      BY <1>4, <1>6
    <3>2. pc'[t] \in {"inode", "grow"}
      BY <1>4 DEF label
    <3> QED
      BY <1>4, <3>1, <3>2 DEF CarriedInode, Growing
  <2>7. LeafOfPath(t)'
    <3>1. HoldsPath(t)' => pc'[t] = "inode"
      BY <1>4 DEF HoldsPath, label
    <3> QED
      BY <3>1 DEF LeafOfPath
  <2>8. RootLevel'
    <3>1. \A u \in Thread : pc[u] \in {"growroot", "growlevel"} =>
            pc'[u] = pc[u]
      BY <1>3, <1>4 DEF OthersStay
    <3> QED
      BY <1>3, <3>1 DEF IndInv, ClimbInv, RootLevel
  <2> QED
    BY <2>1, <2>2, <2>3, <2>4, <2>5, <2>6, <2>7, <2>8 DEF ClimbInv, ClimbOK
<1>16. Linked'
  <2>1. ASSUME NEW i \in Level, NEW y \in InodeNum, y < ninode'[i]
        PROVE  \/ y < ninode[i] /\ ent'[<<i, y>>].ch = ent[<<i, y>>].ch
               \/ \A j \in DOMAIN ent'[<<i, y>>].ch :
                    ent'[<<i, y>>].ch[j] < Bound(i)
    <3>1. CASE i = lev /\ y = x
      BY <1>8, <1>5, <3>1
    <3>2. CASE i = lev /\ y = newp
      BY <1>8, <1>5, <3>2
    <3>3. CASE ~(i = lev /\ y = x) /\ ~(i = lev /\ y = newp)
      <4>1. y < ninode[i]
        <5>1. CASE i = lev
          <6>1. y \in Nat /\ y < newp + 1 /\ y # newp
            BY <1>6, <2>1, <3>3, <5>1 DEF InodeNum
          <6> QED
            BY <1>6, <1>13, <5>1, <6>1
        <5>2. CASE i # lev
          BY <1>6, <2>1, <5>2
        <5> QED
          BY <5>1, <5>2
      <4> QED
        BY <1>7, <3>3, <4>1
    <3> QED
      BY <3>1, <3>2, <3>3
  <2> QED
    BY <1>1, <1>2, <1>3, <1>14, <2>1, LinkedStep DEF IndInv, TreeInv
<1>17. ~Carries(t)'
  <2>1. pc'[t] \in {"inode", "grow"} /\ loc'[t].lev # 0
    BY <1>4, <1>6 DEF label
  <2> QED
    BY <2>1 DEF Carries
<1>18. OneUse' /\ CarriedLeaf'
  <2>1. 0 \in Level
    BY DEF Level
  <2>2. CASE lev = 0
    <3>1. ASSUME NEW l, NEW y \in InodeNum, NEW j \in ChildPlace, Hangs(l, y, j)'
          PROVE  \/ y # x /\ y # newp /\ Hangs(l, y, j)
                 \/ y = x /\ j \in 1..n /\ j <= cut /\ l = M[j]
                 \/ y = newp /\ j + cut \in 1..n /\ l = M[j + cut]
      <4>1. /\ y < ninode'[0] /\ j \in DOMAIN ent'[<<0, y>>].ch
            /\ ent'[<<0, y>>].ch[j] = l
        BY <3>1 DEF Hangs
      <4>2. CASE y = x
        <5>1. j \in 1..cut /\ ent'[<<lev, x>>].ch[j] = l
          BY <1>8, <2>2, <4>1, <4>2
        <5>2. j \in 1..n /\ M[j] = l
          BY <1>8, <5>1
        <5>3. j <= cut
          BY <1>6, <5>1
        <5> QED
          BY <4>2, <5>2, <5>3
      <4>3. CASE y = newp
        BY <1>8, <2>2, <4>1, <4>3
      <4>4. CASE y # x /\ y # newp
        <5>1. ent'[<<0, y>>] = ent[<<0, y>>]
          BY <1>7, <2>1, <4>4
        <5>2. y \in Nat /\ y < newp + 1
          BY <1>6, <2>2, <4>1 DEF InodeNum
        <5>3. y < ninode[0]
          BY <1>6, <1>13, <2>2, <4>4, <5>2
        <5> QED
          BY <4>1, <4>4, <5>1, <5>3 DEF Hangs
      <4> QED
        BY <4>2, <4>3, <4>4
    <3>2. SplitPlaces(t, x, newp, n, cut)
      BY <3>1 DEF SplitPlaces, M
    <3>3. x = loc[t].path.parray[0] /\ n = num(Here(t)) + 2 /\ loc[t].lev = 0
      BY <2>2 DEF x, path, lev, n
    <3> QED
      BY <1>3, <1>4, <1>6, <1>13, <1>17, <3>2, <3>3, BottomSplit
  <2>3. CASE lev # 0
    <3>1. ninode'[0] = ninode[0]
          /\ \A y \in InodeNum : ent'[<<0, y>>] = ent[<<0, y>>]
      BY <1>6, <1>7, <2>1, <2>3
    <3>2. \A l, j : \A y \in InodeNum : Hangs(l, y, j)' <=> Hangs(l, y, j)
      BY <3>1 DEF Hangs
    <3> QED
      BY <1>1, <1>2, <1>4, <1>14, <1>17, <3>2, UseKept DEF IndInv, TreeInv
  <2> QED
    BY <2>2, <2>3
<1>19. LeafInv'
  <2>1. pc'[t] \in Climbing
    BY <1>4 DEF label, Climbing
  <2> QED
    BY <1>2, <1>3, <1>4, <2>1, SplitLeafInv DEF Climbing
<1> QED
  BY <1>2, <1>15, <1>16, <1>18, <1>19 DEF IndInv, TreeInv

=============================================================================
