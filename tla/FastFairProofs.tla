-------------------------- MODULE FastFairProofs --------------------------
(***************************************************************************)
(* FFInv is inductive, and what follows from it: a separator on its way up *)
(* always finds its level, and stores keep off one another's pages.        *)
(***************************************************************************)
EXTENDS FastFairInv, WellFoundedInduction, TLAPS

USE DEF Null

-----------------------------------------------------------------------------
(* What a step of thread t may do to what the others rely on.              *)

\* Pages t may write.
Mine(t, x) ==
  /\ pc[t] \in Held
  /\ x = loc[t].p \/ (Splitting(t) /\ x = loc[t].newp)

Frame(t) ==
  /\ Shape' /\ work' = work
  /\ \A u \in Thread \ {t} : pc'[u] = pc[u] /\ loc'[u] = loc[u]
  /\ npages <= npages'
  /\ \A x \in Allocated :
       /\ page'[x].level = page[x].level
       /\ page'[x].leftmost = page[x].leftmost
       /\ page'[x].sibling # page[x].sibling =>
            pc[t] = "split" /\ x = loc[t].p /\ page'[x].sibling \notin Allocated
       /\ page'[x] # page[x] => Mine(t, x)
  /\ \A x \in Allocated' \ Allocated :
       \A u \in Thread \ {t} : Splitting(u) => page'[x].sibling # loc[u].newp
  /\ \/ root' = root
     \/ root' \in Allocated' /\ page'[root'].level = page[root].level + 1
  /\ \A x \in PageId : mtx'[x] # mtx[x] => {mtx[x], mtx'[x]} \subseteq {t, "none"}
  /\ Splitting(t)' => \/ Splitting(t) /\ loc'[t].newp = loc[t].newp
                      \/ loc'[t].newp \notin Allocated

LEMMA AllocatedGrows ==
  ASSUME Shape, NEW t \in Thread, Frame(t)
  PROVE  Allocated \subseteq Allocated' /\ Allocated \subseteq PageId
BY FastFairConstants DEF Shape, Frame, Allocated, PageId

LEMMA OthersSplit ==
  ASSUME NEW t \in Thread, Frame(t), NEW u \in Thread \ {t}
  PROVE  /\ pc'[u] = pc[u] /\ loc'[u] = loc[u]
         /\ Op(u)' = Op(u) /\ Deletes(u)' = Deletes(u) /\ Stores(u)' = Stores(u)
         /\ Splitting(u)' = Splitting(u)
<1>1. pc'[u] = pc[u] /\ loc'[u] = loc[u] /\ work' = work
  BY DEF Frame
<1>2. Op(u)' = Op(u)
  BY <1>1 DEF Op
<1> QED
  BY <1>1, <1>2 DEF Deletes, Stores, Splitting

\* A page that may have parents stays one.
LEMMA KnownStays ==
  ASSUME Shape, NEW t \in Thread, Frame(t), NEW x, NEW lev
  PROVE  /\ x \in Allocated /\ NotNew(x) => NotNew(x)'
         /\ Known(x, lev) => Known(x, lev)'
         /\ ChildRef(x, lev) => ChildRef(x, lev)'
<1>1. ASSUME x \in Allocated, NotNew(x) PROVE NotNew(x)'
  <2> SUFFICES ASSUME NEW u \in Thread, Splitting(u)' PROVE loc'[u].newp # x
    BY DEF NotNew
  <2>1. CASE u = t
    BY <1>1, <2>1 DEF Frame, NotNew
  <2>2. CASE u # t
    BY <1>1, <2>2, OthersSplit DEF NotNew
  <2> QED
    BY <2>1, <2>2
<1>2. ASSUME Known(x, lev) PROVE Known(x, lev)'
  <2>1. x \in Allocated /\ x \in Allocated' /\ page'[x].level = lev /\ NotNew(x)
    BY <1>2, AllocatedGrows DEF Known, Frame
  <2>2. NotNew(x)'
    BY <1>1, <2>1
  <2> QED
    BY <2>1, <2>2 DEF Known
<1> QED
  BY <1>1, <1>2 DEF ChildRef

LEMMA RootRises ==
  ASSUME FFInv, NEW t \in Thread, Frame(t)
  PROVE  /\ page[root].level \in Nat /\ page'[root'].level \in Nat
         /\ page[root].level <= page'[root'].level
         /\ root' = root \/ page[root].level < page'[root'].level
<1>1. root \in Allocated /\ page'[root].level = page[root].level
  BY DEF FFInv, RootOK, Frame
<1>2. page[root].level \in Nat
  BY <1>1 DEF FFInv, PageOK
<1>3. CASE root' = root
  BY <1>1, <1>2, <1>3
<1>4. CASE root' # root
  BY <1>2, <1>4 DEF Frame
<1> QED
  BY <1>3, <1>4

\* Nobody else writes an internal page that thread u works on.
LEMMA OthersPages ==
  ASSUME FFInv, NEW t \in Thread, NEW u \in Thread \ {t}, pc[u] \in Held,
         ~Deletes(u)
  PROVE  /\ ~Mine(t, loc[u].p)
         /\ Splitting(u) /\ page[loc[u].p].level > 0 => ~Mine(t, loc[u].newp)
<1>1. mtx[loc[u].p] = u /\ NotNew(loc[u].p)
  <2>1. MutexOK(u) /\ WriterOK(u)
    BY DEF FFInv, ThreadOK
  <2> QED
    BY <2>1 DEF MutexOK, WriterOK
<1>2. ~Mine(t, loc[u].p)
  BY <1>1 DEF Mine, NotNew, FFInv, ThreadOK, MutexOK
<1>3. Splitting(u) /\ page[loc[u].p].level > 0 => ~Mine(t, loc[u].newp)
  <2> SUFFICES ASSUME Splitting(u), page[loc[u].p].level > 0,
                      Mine(t, loc[u].newp)
               PROVE  FALSE
    OBVIOUS
  <2>1. /\ page[loc[u].newp].level = page[loc[u].p].level
        /\ Splitting(t) => loc[t].newp # loc[u].newp
    BY DEF FFInv, ThreadOK, NewOK
  <2>2. loc[u].newp = loc[t].p /\ pc[t] \in Held
    BY <2>1 DEF Mine
  <2>3. CASE Deletes(t)
    BY <2>1, <2>2, <2>3 DEF FFInv, ThreadOK, WriterOK
  <2>4. CASE ~Deletes(t)
    BY <2>2, <2>4 DEF FFInv, ThreadOK, WriterOK, NotNew
  <2> QED
    BY <2>3, <2>4
<1> QED
  BY <1>2, <1>3

LEMMA OthersNew ==
  ASSUME FFInv, NEW t \in Thread, Frame(t), NEW u \in Thread \ {t}
  PROVE  MutexOK(u)' /\ NewOK(u)'
<1>1. MutexOK(u) /\ NewOK(u) /\ WriterOK(u) /\ MutexOK(t) /\ NewOK(t) /\ WriterOK(t)
  BY DEF FFInv, ThreadOK
<1>2. pc'[u] = pc[u] /\ loc'[u] = loc[u] /\ Splitting(u)' = Splitting(u)
  BY OthersSplit
<1>3. Held \subseteq Held \cup {"lock"} /\ (Splitting(u) => pc[u] \in Held)
      /\ (pc[t] = "split" => pc[t] \in Held)
  BY DEF Splitting, Held, Storing
<1>4. pc[u] \in Held => loc[u].p \in Allocated /\ loc[u].p \in PageId
                        /\ mtx[loc[u].p] = u
  BY <1>1, <1>3, AllocatedGrows DEF WriterOK, MutexOK, FFInv
<1>5. MutexOK(u)'
  <2> SUFFICES ASSUME pc[u] \in Held PROVE mtx'[loc[u].p] = u
    BY <1>2 DEF MutexOK
  <2> QED
    BY <1>4, FastFairConstants DEF Frame
<1>6. NewOK(u)'
  <2> SUFFICES ASSUME Splitting(u) PROVE NewOK(u)'
    BY <1>2 DEF NewOK
  <2>1. /\ loc[u].newp \in Allocated /\ loc[u].newp # loc[u].p
        /\ page[loc[u].newp].level = page[loc[u].p].level
        /\ page[loc[u].p].sibling = loc[u].newp
        /\ \A q \in Allocated \ {loc[u].p} : page[q].sibling # loc[u].newp
        /\ \A w \in Thread \ {u} : Splitting(w) => loc[w].newp # loc[u].newp
    BY <1>1 DEF NewOK
  <2>2. loc[u].p \in Allocated /\ mtx[loc[u].p] = u
    BY <1>3, <1>4
  <2>3. loc[u].newp \in Allocated'
    BY <2>1, AllocatedGrows DEF FFInv
  <2>4. /\ page'[loc[u].newp].level = page'[loc[u].p].level
        /\ page'[loc[u].p].sibling = loc[u].newp
    <3>1. ~(pc[t] = "split" /\ loc[u].p = loc[t].p)
      BY <1>1, <1>3, <2>2 DEF MutexOK
    <3> QED
      BY <2>1, <2>2, <3>1 DEF Frame
  <2>5. ASSUME NEW q \in Allocated' \ {loc[u].p}
        PROVE  page'[q].sibling # loc[u].newp
    <3>1. CASE q \notin Allocated
      BY <2>5, <3>1 DEF Frame
    <3>2. CASE q \in Allocated /\ page'[q].sibling = page[q].sibling
      BY <2>1, <2>5, <3>2
    <3>3. CASE q \in Allocated /\ page'[q].sibling # page[q].sibling
      BY <2>1, <3>3 DEF Frame
    <3> QED
      BY <3>1, <3>2, <3>3
  <2>6. ASSUME NEW w \in Thread \ {u}, Splitting(w)'
        PROVE  loc'[w].newp # loc[u].newp
    <3>1. CASE w = t
      BY <2>1, <2>6, <3>1 DEF Frame
    <3>2. CASE w # t
      BY <2>1, <2>6, <3>2, OthersSplit
    <3> QED
      BY <3>1, <3>2
  <2> QED
    BY <1>2, <2>1, <2>3, <2>4, <2>5, <2>6 DEF NewOK
<1> QED
  BY <1>5, <1>6

LEMMA OthersWrite ==
  ASSUME FFInv, NEW t \in Thread, Frame(t), NEW u \in Thread \ {t}
  PROVE  WriterOK(u)' /\ SplitOK(u)' /\ InsertOK(u)'
<1>1. /\ MutexOK(u) /\ NewOK(u) /\ WriterOK(u) /\ SplitOK(u) /\ InsertOK(u)
      /\ Shape /\ RootOK
  BY DEF FFInv, ThreadOK
<1>2. /\ pc'[u] = pc[u] /\ loc'[u] = loc[u] /\ Splitting(u)' = Splitting(u)
      /\ Deletes(u)' = Deletes(u) /\ Stores(u)' = Stores(u)
  BY OthersSplit
<1>3. \A x, lev : Known(x, lev) => Known(x, lev)'
  BY <1>1, KnownStays
<1>4. \A x : x \in Allocated /\ NotNew(x) => NotNew(x)'
  BY <1>1, KnownStays
<1>6. WriterOK(u)'
  <2> SUFFICES ASSUME pc[u] \in Held \cup {"lock"} PROVE WriterOK(u)'
    BY <1>2 DEF WriterOK
  <2>1. loc[u].p \in Allocated /\ loc[u].p \in Allocated'
        /\ page'[loc[u].p].level = page[loc[u].p].level
    BY <1>1, AllocatedGrows DEF WriterOK, Frame
  <2>2. ASSUME ~Deletes(u)
        PROVE  /\ Stores(u) /\ NotNew(loc[u].p)' /\ Carries(u)'
               /\ page[loc[u].p].level = loc[u].target
               /\ loc[u].p = root' \/ page[loc[u].p].level < page'[root'].level
    <3>1. /\ Stores(u) /\ NotNew(loc[u].p) /\ Carries(u)
          /\ page[loc[u].p].level = loc[u].target
          /\ loc[u].p = root \/ page[loc[u].p].level < page[root].level
      BY <1>1, <2>2 DEF WriterOK
    <3>2. Carries(u)'
      BY <1>2, <1>3, <3>1 DEF Carries
    <3>3. loc[u].p = root' \/ page[loc[u].p].level < page'[root'].level
      <4>1. page[loc[u].p].level \in Nat /\ page[root].level \in Nat
        BY <1>1, <2>1 DEF FFInv, PageOK, RootOK
      <4> QED
        BY <3>1, <4>1, RootRises
    <3> QED
      BY <1>2, <1>4, <2>1, <3>1, <3>2, <3>3 DEF NotNew
  <2> QED
    BY <1>1, <1>2, <2>1, <2>2 DEF WriterOK
<1>7. ASSUME pc[u] \in Storing
      PROVE  /\ page'[loc[u].p].level = page[loc[u].p].level
             /\ page[loc[u].p].level > 0 =>
                  /\ page'[loc[u].p] = page[loc[u].p]
                  /\ Splitting(u) => page'[loc[u].newp] = page[loc[u].newp]
  <2>1. pc[u] \in Held /\ ~Deletes(u) /\ loc[u].p \in Allocated
    BY <1>1, <1>7 DEF WriterOK, Held
  <2>2. Splitting(u) => loc[u].newp \in Allocated
    BY <1>1 DEF NewOK
  <2> QED
    BY <2>1, <2>2, OthersPages DEF Frame
<1>8. SplitOK(u)'
  <2> SUFFICES ASSUME pc[u] \in {"split", "switch", "cut", "last", "grow"}
               PROVE  SplitOK(u)'
    BY <1>2 DEF SplitOK
  <2>1. pc[u] \in Storing
    BY DEF Storing
  <2>2. pc[u] \in {"switch", "cut", "last"} => Splitting(u)
    BY <1>1 DEF SplitOK, Splitting
  <2> QED
    BY <1>1, <1>2, <1>7, <2>1, <2>2 DEF SplitOK
<1>9. InsertOK(u)'
  <2> SUFFICES ASSUME pc[u] \in Inserting PROVE InsertOK(u)'
    BY <1>2 DEF InsertOK
  <2>1. pc[u] \in Storing
    BY DEF Storing
  <2>2. loc[u].newp # Null => Splitting(u)
    BY DEF Splitting
  <2> QED
    BY <1>1, <1>2, <1>7, <2>1, <2>2 DEF InsertOK
<1> QED
  BY <1>6, <1>8, <1>9

LEMMA OthersRead ==
  ASSUME FFInv, NEW t \in Thread, Frame(t), NEW u \in Thread \ {t}
  PROVE  ReaderOK(u)' /\ UpOK(u)'
<1>1. Shape /\ RootOK /\ ReaderOK(u) /\ UpOK(u)
  BY DEF FFInv, ThreadOK
<1>2. /\ pc'[u] = pc[u] /\ loc'[u] = loc[u]
      /\ Deletes(u)' = Deletes(u) /\ Stores(u)' = Stores(u)
  BY OthersSplit
<1>3. \A x, lev : /\ Known(x, lev) => Known(x, lev)'
                  /\ ChildRef(x, lev) => ChildRef(x, lev)'
  BY <1>1, KnownStays
<1>4. \A x \in Allocated : x \in Allocated' /\ page'[x].level = page[x].level
  BY <1>1, AllocatedGrows DEF Frame
<1>5. Carries(u) => Carries(u)'
  BY <1>2, <1>3 DEF Carries
<1>6. ReaderOK(u)'
  <2> SUFFICES ASSUME pc[u] \in Reading PROVE ReaderOK(u)'
    BY <1>2 DEF ReaderOK
  <2>1. loc[u].p \in Allocated' /\ page'[loc[u].p].level = page[loc[u].p].level
    BY <1>1, <1>4 DEF ReaderOK
  <2>2. InnerReader(pc[u], loc[u]) => InnerReader(pc[u], loc[u])'
    BY <1>2, <1>3, <1>4, <2>1 DEF InnerReader
  <2> QED
    BY <1>1, <1>2, <1>5, <2>1, <2>2 DEF ReaderOK
<1>7. UpOK(u)'
  <2> SUFFICES ASSUME pc[u] = "up" PROVE UpOK(u)'
    BY <1>2 DEF UpOK
  <2> QED
    BY <1>1, <1>2, <1>5, RootRises DEF UpOK
<1> QED
  BY <1>6, <1>7

\* Nothing a step of t does disturbs another thread.
LEMMA OthersStay ==
  ASSUME FFInv, NEW t \in Thread, Frame(t), NEW u \in Thread \ {t}
  PROVE  ThreadOK(u)'
BY OthersNew, OthersWrite, OthersRead DEF ThreadOK

-----------------------------------------------------------------------------
(* Pages and the root.                                                     *)

LEMMA InnerStays ==
  ASSUME FFInv, NEW t \in Thread, Frame(t), NEW x \in Allocated,
         page[x].level > 0,
         page'[x].sc \in 0..(SwitchMod - 1), page'[x].sc % 2 = 0,
         DOMAIN page'[x].ptr = Slot, page'[x].ptr[cardinality - 1] = Null,
         \A i \in Slot : ChildRef(page'[x].ptr[i], page[x].level - 1)
  PROVE  InnerOK(x)'
<1>1. page'[x].level = page[x].level /\ page'[x].leftmost = page[x].leftmost
  BY DEF Frame
<1>2. Known(page[x].leftmost, page[x].level - 1)
  BY DEF FFInv, PageOK, InnerOK
<1>3. \A y, lev : /\ Known(y, lev) => Known(y, lev)'
                  /\ ChildRef(y, lev) => ChildRef(y, lev)'
  BY KnownStays DEF FFInv
<1>4. Known(page[x].leftmost, page[x].level - 1)'
  BY <1>1, <1>2, <1>3 DEF Known, NotNew
<1>5. \A i \in Slot : ChildRef(page[x].ptr[i], page[x].level - 1)'
  BY <1>1, <1>3 DEF ChildRef, Known, NotNew
<1>6. Slot' = Slot
  BY DEF Slot
<1> QED
  BY <1>4, <1>5, <1>6 DEF InnerOK

LEMMA PageStays ==
  ASSUME FFInv, NEW t \in Thread, Frame(t), NEW x \in Allocated,
         \/ page'[x].sibling = page[x].sibling
         \/ /\ page'[x].sibling \in Allocated'
            /\ page'[page'[x].sibling].level = page[x].level,
         page[x].level > 0 => page'[x] = page[x] \/ InnerOK(x)'
  PROVE  PageOK(x)'
<1>1. page'[x].level = page[x].level /\ page'[x].leftmost = page[x].leftmost
  BY DEF Frame
<1>2. PageOK(x) /\ \A y \in Allocated : y \in Allocated' /\ page'[y].level = page[y].level
  BY AllocatedGrows DEF FFInv, Frame
<1>3. page'[x].level \in Nat /\ page'[x].level <= page'[root'].level
  BY <1>1, <1>2, RootRises DEF PageOK
<1>4. page'[x].sibling # Null =>
        /\ page'[x].sibling \in Allocated'
        /\ page'[page'[x].sibling].level = page'[x].level
  BY <1>1, <1>2 DEF PageOK
<1>5. page[x].level > 0 => InnerOK(x)'
  <2> SUFFICES ASSUME page[x].level > 0, page'[x] = page[x] PROVE InnerOK(x)'
    OBVIOUS
  <2>1. InnerOK(x)
    BY <1>2 DEF PageOK
  <2> QED
    BY <2>1, InnerStays DEF InnerOK
<1> QED
  BY <1>1, <1>2, <1>3, <1>4, <1>5 DEF PageOK

LEMMA RootStays ==
  ASSUME FFInv, NEW t \in Thread, Frame(t), root' = root,
         Splitting(t) /\ loc[t].p = root =>
           Splitting(t)' /\ loc'[t].p = loc[t].p,
         page'[root].sibling # page[root].sibling =>
           Splitting(t)' /\ loc'[t].p = root
  PROVE  RootOK'
<1>1. root \in Allocated /\ NotNew(root)
  BY DEF FFInv, RootOK
<1>2. root' \in Allocated' /\ NotNew(root)'
  BY <1>1, AllocatedGrows, KnownStays DEF FFInv, NotNew
<1>3. ASSUME page'[root].sibling # Null
      PROVE  \E u \in Thread : Splitting(u)' /\ loc'[u].p = root
  <2>1. CASE page'[root].sibling # page[root].sibling
    BY <2>1
  <2>2. CASE page'[root].sibling = page[root].sibling
    <3>1. PICK u \in Thread : Splitting(u) /\ loc[u].p = root
      BY <1>3, <2>2 DEF FFInv, RootOK
    <3> QED
      BY <3>1, OthersSplit
  <2> QED
    BY <2>1, <2>2
<1> QED
  BY <1>2, <1>3 DEF RootOK

LEMMA StepEnds ==
  ASSUME FFInv, NEW t \in Thread, Frame(t), ThreadOK(t)', RootOK',
         \A x \in Allocated' : PageOK(x)'
  PROVE  FFInv'
<1>1. \A u \in Thread : ThreadOK(u)'
  BY OthersStay
<1> QED
  BY <1>1 DEF FFInv, Frame

-----------------------------------------------------------------------------
(* Steps that write nothing shared.                                        *)

\* t goes from control point to control point, none of them in a page.
Walks(t) ==
  /\ UNCHANGED <<shared, work>> /\ Shape'
  /\ \A u \in Thread \ {t} : pc'[u] = pc[u] /\ loc'[u] = loc[u]
  /\ pc[t] \notin Storing /\ pc'[t] \notin Storing

LEMMA WalkFrame ==
  ASSUME FFInv, NEW t \in Thread, Walks(t)
  PROVE  Frame(t) /\ ~Splitting(t) /\ ~Splitting(t)'
<1>1. ~Splitting(t) /\ ~Splitting(t)'
  BY DEF Walks, Splitting, Storing
<1>2. npages \in Nat
  BY FastFairConstants DEF FFInv, Shape
<1> QED
  BY <1>1, <1>2 DEF Walks, Frame, shared, Allocated

LEMMA WalkKnown ==
  ASSUME FFInv, NEW t \in Thread, Walks(t), NEW x, NEW lev
  PROVE  /\ Known(x, lev)' <=> Known(x, lev)
         /\ ChildRef(x, lev)' <=> ChildRef(x, lev)
         /\ NotNew(x)' <=> NotNew(x)
<1>1. Frame(t) /\ ~Splitting(t) /\ ~Splitting(t)'
  BY WalkFrame
<1>2. NotNew(x)' <=> NotNew(x)
  BY <1>1, OthersSplit DEF NotNew
<1> QED
  BY <1>2 DEF Known, ChildRef, Walks, shared, Allocated

LEMMA WalkStep ==
  ASSUME FFInv, NEW t \in Thread, Walks(t), ThreadOK(t)'
  PROVE  FFInv'
<1>1. Frame(t) /\ ~Splitting(t)
  BY WalkFrame
<1>2. UNCHANGED <<page, root, npages, mtx>>
  BY DEF Walks, shared
<1>3. \A x \in Allocated' : PageOK(x)'
  BY <1>1, <1>2, PageStays DEF Allocated
<1>4. RootOK'
  BY <1>1, <1>2, RootStays
<1> QED
  BY <1>1, <1>3, <1>4, StepEnds

LEMMA Idle ==
  ASSUME NEW t \in Thread, pc'[t] \in {"idle", "ret"}
  PROVE  ThreadOK(t)'
BY DEF ThreadOK, MutexOK, NewOK, WriterOK, SplitOK, InsertOK, ReaderOK, UpOK,
       Splitting, Held, Storing, Removing, Inserting, Reading, Counting, AtEntry

\* The labels of readers are none of the writers'.
LEMMA ReaderIs ==
  ASSUME NEW t \in Thread, pc[t] \in Reading
  PROVE  /\ pc[t] \notin Held \cup {"lock", "up"} /\ pc[t] \notin Storing
         /\ ~Splitting(t) /\ (ThreadOK(t) <=> ReaderOK(t))
BY DEF ThreadOK, MutexOK, NewOK, WriterOK, SplitOK, InsertOK, UpOK,
       Splitting, Held, Storing, Removing, Inserting, Reading, Counting, AtEntry

\* l and m are of one call, and as far up.
SameGoal(l, m) == l.n = m.n /\ l.target = m.target /\ l.val = m.val
SameCall(l, m) == SameGoal(l, m) /\ l.newp = m.newp

LEMMA CallGoesOn ==
  ASSUME FFInv, NEW t \in Thread, Frame(t), SameGoal(loc'[t], loc[t])
  PROVE  /\ Op(t)' = Op(t) /\ Deletes(t)' = Deletes(t) /\ Stores(t)' = Stores(t)
         /\ Carries(t) => Carries(t)'
<1>1. Op(t)' = Op(t)
  BY DEF Op, Frame, SameGoal
<1>2. Carries(t) => Carries(t)'
  BY KnownStays DEF FFInv, SameGoal, Carries, Known, NotNew
<1> QED
  BY <1>1, <1>2 DEF Deletes, Stores

-----------------------------------------------------------------------------
(* The steps of readers.                                                   *)

LEMMA FieldNames ==
  /\ LocalFields = {"n", "key", "val", "p", "sc", "i", "k", "q", "t", "ret",
                    "cnt", "csc", "target", "ip", "num", "newp", "split",
                    "first", "buf", "got", "seen"}
  /\ PageFields = {"leftmost", "sibling", "level", "sc", "last", "key", "ptr"}
BY DEF LocalFields, NoLocal, PageFields, EmptyPage

\* The local variables of t become l.
Becomes(t, l) == (loc' = loc /\ l = loc[t]) \/ loc' = [loc EXCEPT ![t] = l]

LEMMA WalkShape ==
  ASSUME FFInv, NEW t \in Thread, NEW label \in Label \ Storing, Goto(t, label),
         UNCHANGED <<shared, work>>, pc[t] \notin Storing, NEW l,
         DOMAIN l = LocalFields, Becomes(t, l)
  PROVE  Walks(t) /\ pc'[t] = label /\ loc'[t] = l
<1>1. /\ pc \in [Thread -> Label] /\ DOMAIN loc = Thread
      /\ \A u \in Thread : DOMAIN loc[u] = LocalFields
  BY DEF FFInv, Shape
<1>2. /\ pc' \in [Thread -> Label] /\ pc'[t] = label /\ loc'[t] = l
      /\ \A u \in Thread \ {t} : pc'[u] = pc[u] /\ loc'[u] = loc[u]
      /\ DOMAIN loc' = Thread
  BY <1>1 DEF Goto, Becomes
<1>3. \A u \in Thread : DOMAIN loc'[u] = LocalFields
  BY <1>1, <1>2
<1>4. Shape'
  BY <1>2, <1>3 DEF FFInv, Shape, shared, Allocated
<1> QED
  BY <1>2, <1>4 DEF Walks

LEMMA AtReader ==
  ASSUME FFInv, NEW t \in Thread, pc[t] \in Reading
  PROVE  /\ DOMAIN loc = Thread /\ DOMAIN loc[t] = LocalFields
         /\ loc[t].p \in Allocated /\ page[loc[t].p].level \in Nat
         /\ IsLeaf(loc[t].p) <=> page[loc[t].p].level = 0
         /\ page[loc[t].p].level > 0 => InnerReader(pc[t], loc[t]) /\ InnerOK(loc[t].p)
<1>1. ReaderOK(t)
  BY DEF FFInv, ThreadOK
<1>2. loc[t].p \in Allocated
  BY <1>1 DEF ReaderOK
<1>3. PageOK(loc[t].p)
  BY <1>2 DEF FFInv
<1> QED
  BY <1>1, <1>2, <1>3 DEF ReaderOK, PageOK, IsLeaf, FFInv, Shape
LEMMA InnerReaderWalks ==
  ASSUME FFInv, NEW t \in Thread, Walks(t), NEW label, NEW l,
         pc'[t] = label, loc'[t] = l, InnerReader(label, l)
  PROVE  InnerReader(pc[t], loc[t])'
<1>1. PICK lev : lev = page[l.p].level - 1
  OBVIOUS
<1>2. \A x : (ChildRef(x, lev)' <=> ChildRef(x, lev))
             /\ (Known(x, lev)' <=> Known(x, lev))
  BY WalkKnown
<1>3. page' = page /\ npages' = npages
  BY DEF Walks, shared
<1> QED
  BY <1>1, <1>2, <1>3 DEF InnerReader, Allocated

\* A reader that goes on, on its page or on another.
LEMMA ReaderMoves ==
  ASSUME FFInv, NEW t \in Thread, pc[t] \in Reading, UNCHANGED <<shared, work>>,
         NEW label \in Reading, Goto(t, label), NEW l, DOMAIN l = LocalFields,
         Becomes(t, l), SameCall(l, loc[t]),
         \/ l.p = loc[t].p
         \/ /\ l.p \in Allocated
            /\ Stores(t) => page[l.p].level > loc[t].target,
         page[l.p].level > 0 => InnerReader(label, l)
  PROVE  FFInv'
<1>1. /\ label \in Label \ Storing /\ label \notin Held \cup {"lock", "up"}
      /\ pc[t] \notin Storing
  BY DEF Label, Held, Storing, Removing, Inserting, Reading, Counting, AtEntry
<1>2. Walks(t) /\ pc'[t] = label /\ loc'[t] = l
  BY <1>1, WalkShape
<1>3. ReaderOK(t) /\ Frame(t) /\ page' = page /\ npages' = npages
  BY <1>2, WalkFrame DEF FFInv, ThreadOK, Walks, shared
<1>4. page[l.p].level > 0 => InnerReader(pc[t], loc[t])'
  BY <1>2, InnerReaderWalks
<1>5. ReaderOK(t)'
  BY <1>2, <1>3, <1>4, CallGoesOn DEF ReaderOK, SameCall, SameGoal, Allocated
<1>6. ThreadOK(t)'
  BY <1>1, <1>2, <1>5 DEF ThreadOK, MutexOK, NewOK, WriterOK, SplitOK, InsertOK,
     UpOK, Held, Storing, Splitting
<1> QED
  BY <1>2, <1>6, WalkStep

LEMMA InvCond ==
  ASSUME FFInv, NEW t \in Thread, Cond(t)
  PROVE  FFInv'
<1> DEFINE l == loc[t]
           pg == page[l.p]
<1>1. pc[t] = "cond" /\ pc[t] \in Reading
  BY DEF Cond, Reading
<1>2. PICK label \in {"key", "check", "lastchild"} :
        /\ Goto(t, label)
        /\ label = "key" => pg.ptr[l.i] # Null
        /\ label = "check" => IsLeaf(l.p)
  BY DEF Cond
<1>3. ASSUME pg.level > 0 PROVE InnerReader(label, l)
  <2>1. InnerReader("cond", l) /\ InnerOK(l.p) /\ label # "check"
    BY <1>1, <1>2, <1>3, AtReader
  <2>2. l.i \in 1..(cardinality - 1) /\ l.sc \in Nat /\ l.sc % 2 = 0
        /\ ChildRef(l.ret, pg.level - 1)
    BY <2>1 DEF InnerReader
  <2>3. label = "key" => l.i \in 0..(cardinality - 2)
    BY <1>2, <2>1, <2>2, FastFairConstants DEF InnerOK
  <2> QED
    BY <1>2, <2>1, <2>2, <2>3 DEF InnerReader, Counting, AtEntry
<1>4. label \in Reading /\ UNCHANGED <<shared, work>> /\ Becomes(t, l)
  BY <1>2 DEF Reading, AtEntry, Cond, Becomes, ghost
<1> QED
  BY <1>1, <1>2, <1>3, <1>4, AtReader, ReaderMoves DEF SameCall, SameGoal

LEMMA InvLastChild ==
  ASSUME FFInv, NEW t \in Thread, LastChild(t)
  PROVE  FFInv'
<1> DEFINE l == loc[t]
           pg == page[l.p]
<1>1. pc[t] = "lastchild" /\ pc[t] \in Reading /\ Goto(t, "check")
  BY DEF LastChild, Reading
<1>2. PICK m : m = [l EXCEPT !.ret = pg.ptr[l.i - 1]]
  OBVIOUS
<1>3. /\ DOMAIN m = LocalFields /\ SameCall(m, l) /\ m.p = l.p
      /\ m.sc = l.sc /\ m.ret = pg.ptr[l.i - 1]
  BY <1>1, <1>2, AtReader, FieldNames DEF SameCall, SameGoal
<1>4. ASSUME pg.level > 0 PROVE InnerReader("check", m)
  <2>1. InnerReader("lastchild", l) /\ InnerOK(l.p)
    BY <1>1, <1>4, AtReader
  <2>2. l.i - 1 \in Slot /\ l.sc \in Nat /\ l.sc % 2 = 0
    BY <2>1, FastFairConstants DEF InnerReader, Slot
  <2>3. ChildRef(m.ret, page[m.p].level - 1)
    BY <1>3, <2>1, <2>2 DEF InnerOK
  <2> QED
    BY <1>3, <2>2, <2>3 DEF InnerReader, Counting, AtEntry
<1>5. UNCHANGED <<shared, work>> /\ Becomes(t, m) /\ "check" \in Reading
  BY <1>2 DEF Reading, LastChild, Becomes, ghost
<1> QED
  BY <1>1, <1>3, <1>4, <1>5, ReaderMoves

LEMMA InvBeginPage ==
  ASSUME FFInv, NEW t \in Thread, BeginPage(t)
  PROVE  FFInv'
<1> DEFINE l == loc[t]
           pg == page[l.p]
<1>1. pc[t] = "begin" /\ pc[t] \in Reading
  BY DEF BeginPage, Reading
<1>2. PICK label \in {"key", "count"} :
        Goto(t, label) /\ (label = "count" => ~IsForward(pg.sc))
  BY DEF BeginPage
<1>3. PICK m : /\ Becomes(t, m)
               /\ m = [l EXCEPT !.sc = pg.sc, !.ret = Null, !.i = 0, !.buf = <<>>,
                                !.first = IF @ = Null THEN l.p ELSE @]
  <2>1. loc' = [loc EXCEPT ![t] =
                 [l EXCEPT !.sc = pg.sc, !.ret = Null, !.i = 0, !.buf = <<>>,
                           !.first = IF @ = Null THEN l.p ELSE @]]
    BY <1>1, AtReader, FieldNames DEF BeginPage
  <2> QED
    BY <2>1 DEF Becomes
<1>4. /\ DOMAIN m = LocalFields /\ SameCall(m, l) /\ m.p = l.p
      /\ m.sc = pg.sc /\ m.ret = Null /\ m.i = 0
  BY <1>1, <1>3, AtReader, FieldNames DEF SameCall, SameGoal
<1>5. ASSUME pg.level > 0 PROVE InnerReader(label, m)
  <2>1. pg.sc \in Nat /\ pg.sc % 2 = 0 /\ label # "count"
    BY <1>1, <1>2, <1>5, AtReader, FastFairConstants DEF InnerOK, IsForward
  <2> QED
    BY <1>2, <1>4, <2>1, FastFairConstants
       DEF InnerReader, Counting, AtEntry, ChildRef
<1>6. UNCHANGED <<shared, work>> /\ label \in Reading
  BY <1>2 DEF Reading, Counting, AtEntry, BeginPage, ghost
<1> QED
  BY <1>1, <1>2, <1>3, <1>4, <1>5, <1>6, ReaderMoves

LEMMA InvCount ==
  ASSUME FFInv, NEW t \in Thread, Count(t)
  PROVE  FFInv'
<1> DEFINE l == loc[t]
<1>1. pc[t] \in Counting /\ pc[t] \in Reading
  BY DEF Count, Counting, Reading
<1>2. page[l.p].level = 0
  BY <1>1, AtReader DEF InnerReader
<1>3. PICK label \in Counting \cup {"check", "key"} : Goto(t, label)
  <2>1. pc \in [Thread -> Label]
    BY DEF FFInv, Shape
  <2>2. pc' = pc => Goto(t, pc[t])
    BY <2>1 DEF Goto
  <2> QED
    BY <1>1, <2>2 DEF Count, Counting
<1>4. PICK m : /\ Becomes(t, m) /\ DOMAIN m = LocalFields
               /\ SameCall(m, l) /\ m.p = l.p
  <2>1. CASE loc' = loc
    BY <1>1, <2>1, AtReader DEF Becomes, SameCall, SameGoal
  <2>2. CASE \E v : loc' = [loc EXCEPT ![t].csc = v]
    <3>1. PICK v : loc' = [loc EXCEPT ![t] = [l EXCEPT !.csc = v]]
      BY <2>2
    <3>2. PICK m : m = [l EXCEPT !.csc = v]
      OBVIOUS
    <3>3. DOMAIN m = LocalFields /\ SameCall(m, l) /\ m.p = l.p
      BY <1>1, <3>2, AtReader, FieldNames DEF SameCall, SameGoal
    <3>4. Becomes(t, m)
      BY <3>1, <3>2 DEF Becomes
    <3> QED
      BY <3>3, <3>4
  <2>3. CASE \E v : loc' = [loc EXCEPT ![t].cnt = v]
    <3>1. PICK v : loc' = [loc EXCEPT ![t] = [l EXCEPT !.cnt = v]]
      BY <2>3
    <3>2. PICK m : m = [l EXCEPT !.cnt = v]
      OBVIOUS
    <3>3. DOMAIN m = LocalFields /\ SameCall(m, l) /\ m.p = l.p
      BY <1>1, <3>2, AtReader, FieldNames DEF SameCall, SameGoal
    <3>4. Becomes(t, m)
      BY <3>1, <3>2 DEF Becomes
    <3> QED
      BY <3>3, <3>4
  <2>4. CASE \E v : loc' = [loc EXCEPT ![t].i = v]
    <3>1. PICK v : loc' = [loc EXCEPT ![t] = [l EXCEPT !.i = v]]
      BY <2>4
    <3>2. PICK m : m = [l EXCEPT !.i = v]
      OBVIOUS
    <3>3. DOMAIN m = LocalFields /\ SameCall(m, l) /\ m.p = l.p
      BY <1>1, <3>2, AtReader, FieldNames DEF SameCall, SameGoal
    <3>4. Becomes(t, m)
      BY <3>1, <3>2 DEF Becomes
    <3> QED
      BY <3>3, <3>4
  <2> QED
    BY <2>1, <2>2, <2>3, <2>4 DEF Count
<1>5. UNCHANGED <<shared, work>> /\ label \in Reading
  BY <1>3 DEF Reading, AtEntry, Count, ghost
<1> QED
  BY <1>1, <1>2, <1>3, <1>4, <1>5, ReaderMoves

\* The next record is there, or the walk has ended.
LEMMA AdvanceMoves ==
  ASSUME FFInv, NEW t \in Thread, pc[t] \in AtEntry, NEW l, Advance(t, l),
         UNCHANGED <<shared, work>>, DOMAIN l = LocalFields,
         SameCall(l, loc[t]), l.p = loc[t].p,
         page[l.p].level > 0 =>
           /\ l.sc \in Nat /\ l.sc % 2 = 0 /\ l.i \in 0..(cardinality - 2)
           /\ ChildRef(l.ret, page[l.p].level - 1)
  PROVE  FFInv'
<1>1. pc[t] \in Reading
  BY DEF Reading
<1>2. CASE IsForward(l.sc)
  <2>1. PICK m : m = [l EXCEPT !.i = @ + 1]
    OBVIOUS
  <2>2. /\ DOMAIN m = LocalFields /\ SameCall(m, loc[t]) /\ m.p = loc[t].p
        /\ m.sc = l.sc /\ m.ret = l.ret /\ m.i = l.i + 1
    BY <2>1, FieldNames DEF SameCall, SameGoal
  <2>3. Goto(t, "cond") /\ Becomes(t, m)
    BY <1>2, <2>1 DEF Advance, Becomes
  <2>4. page[m.p].level > 0 => InnerReader("cond", m)
    BY <2>2, FastFairConstants DEF InnerReader, Counting, AtEntry
  <2> QED
    BY <1>1, <2>2, <2>3, <2>4, ReaderMoves DEF Reading
<1>3. CASE ~IsForward(l.sc)
  <2>1. PICK m : m = [l EXCEPT !.i = @ - 1]
    OBVIOUS
  <2>2. DOMAIN m = LocalFields /\ SameCall(m, loc[t]) /\ m.p = loc[t].p
    BY <2>1, FieldNames DEF SameCall, SameGoal
  <2>3. Becomes(t, m)
    BY <1>3, <2>1 DEF Advance, Becomes
  <2>4. PICK label \in {"check", "key"} : Goto(t, label)
    BY <1>3 DEF Advance
  <2>5. ~(page[m.p].level > 0)
    BY <1>3, <2>2 DEF IsForward
  <2> QED
    BY <1>1, <2>2, <2>3, <2>4, <2>5, ReaderMoves DEF Reading, AtEntry
<1> QED
  BY <1>2, <1>3

LEMMA AtEntryHas ==
  ASSUME FFInv, NEW t \in Thread, pc[t] \in AtEntry
  PROVE  /\ pc[t] \in Reading /\ DOMAIN loc[t] = LocalFields
         /\ page[loc[t].p].level > 0 =>
              /\ loc[t].sc \in Nat /\ loc[t].sc % 2 = 0
              /\ loc[t].i \in 0..(cardinality - 2)
              /\ ChildRef(loc[t].ret, page[loc[t].p].level - 1)
              /\ InnerOK(loc[t].p) /\ InnerReader(pc[t], loc[t])
<1>1. pc[t] \in Reading
  BY DEF Reading
<1> QED
  BY <1>1, AtReader DEF InnerReader, AtEntry

\* A call that is over.
LEMMA CallEnds ==
  ASSUME FFInv, NEW t \in Thread, pc[t] \notin Storing,
         UNCHANGED <<shared, work>>, NEW label \in {"ret", "idle"},
         Goto(t, label), NEW l, DOMAIN l = LocalFields, Becomes(t, l)
  PROVE  FFInv'
<1>1. label \in Label \ Storing
  BY DEF Label, Storing, Inserting
<1>2. Walks(t) /\ pc'[t] = label
  BY <1>1, WalkShape
<1> QED
  BY <1>2, Idle, WalkStep

LEMMA InvReadKey ==
  ASSUME FFInv, NEW t \in Thread, ReadKey(t)
  PROVE  FFInv'
<1> DEFINE l == loc[t]
<1>1. pc[t] = "key" /\ pc[t] \in AtEntry /\ pc[t] \notin Storing
      /\ UNCHANGED <<shared, work>>
  BY DEF ReadKey, AtEntry, Storing, Inserting, ghost
<1>2. PICK k : k = page[l.p].key[l.i]
  OBVIOUS
<1>3. CASE PastMax(t, k)
  <2>1. PICK m : m = [l EXCEPT !.got = @ \o l.buf]
    OBVIOUS
  <2>2. DOMAIN m = LocalFields
    BY <1>1, <2>1, AtEntryHas
  <2>3. Goto(t, "ret") /\ Becomes(t, m)
    BY <1>2, <1>3, <2>1 DEF ReadKey, Becomes
  <2> QED
    BY <1>1, <2>2, <2>3, CallEnds
<1>4. CASE ~PastMax(t, k) /\ Wants(t, k)
  <2>1. PICK m : m = [l EXCEPT !.k = k]
    OBVIOUS
  <2>2. /\ DOMAIN m = LocalFields /\ SameCall(m, l) /\ m.p = l.p
        /\ m.sc = l.sc /\ m.i = l.i /\ m.ret = l.ret
    BY <1>1, <2>1, AtEntryHas, FieldNames DEF SameCall, SameGoal
  <2>3. Goto(t, "pair") /\ Becomes(t, m)
    BY <1>2, <1>4, <2>1, SMTT(30) DEF ReadKey, Becomes
  <2>4. page[m.p].level > 0 => InnerReader("pair", m)
    BY <1>1, <2>2, AtEntryHas DEF InnerReader, Counting, AtEntry
  <2> QED
    BY <1>1, <2>2, <2>3, <2>4, AtEntryHas, ReaderMoves DEF Reading, AtEntry
<1>5. CASE ~PastMax(t, k) /\ ~Wants(t, k)
  <2>1. Advance(t, l)
    BY <1>2, <1>5 DEF ReadKey
  <2> QED
    BY <1>1, <2>1, AtEntryHas, AdvanceMoves DEF SameCall, SameGoal
<1> QED
  BY <1>3, <1>4, <1>5

LEMMA InvReadPair ==
  ASSUME FFInv, NEW t \in Thread, ReadPair(t)
  PROVE  FFInv'
<1> DEFINE l == loc[t]
           lev == page[l.p].level - 1
<1>1. pc[t] \in {"pair", "pairleft", "pairright"} /\ pc[t] \in AtEntry
      /\ UNCHANGED <<shared, work>>
  BY DEF ReadPair, AtEntry, ghost
<1>2. page[l.p].level > 0 => ChildRef(LeftPtr(l.p, l.i), lev)
                             /\ ChildRef(page[l.p].ptr[l.i], lev)
  <2> SUFFICES ASSUME page[l.p].level > 0
               PROVE  ChildRef(LeftPtr(l.p, l.i), lev)
                      /\ ChildRef(page[l.p].ptr[l.i], lev)
    OBVIOUS
  <2>1. l.i \in 0..(cardinality - 2) /\ InnerOK(l.p)
    BY <1>1, AtEntryHas
  <2>2. l.i \in Slot /\ (l.i # 0 => l.i - 1 \in Slot)
    BY <2>1, FastFairConstants DEF Slot
  <2> QED
    BY <2>1, <2>2 DEF InnerOK, LeftPtr, ChildRef
<1>3. CASE pc[t] \in {"pair", "pairleft"} /\ loc' = [loc EXCEPT ![t].q = LeftPtr(l.p, l.i)]
           /\ Goto(t, IF pc[t] = "pair" THEN "pairright" ELSE "judge")
  <2>1. PICK m : m = [l EXCEPT !.q = LeftPtr(l.p, l.i)]
    OBVIOUS
  <2>2. /\ DOMAIN m = LocalFields /\ SameCall(m, l) /\ m.p = l.p
        /\ m.sc = l.sc /\ m.i = l.i /\ m.ret = l.ret /\ m.t = l.t
        /\ m.q = LeftPtr(l.p, l.i)
    BY <1>1, <2>1, AtEntryHas, FieldNames DEF SameCall, SameGoal
  <2>3. Becomes(t, m)
    BY <1>3, <2>1 DEF Becomes
  <2>4. PICK label \in {"pairright", "judge"} :
          Goto(t, label) /\ (label = "judge" => pc[t] = "pairleft")
    BY <1>3
  <2>5. page[m.p].level > 0 => InnerReader(label, m)
    BY <1>1, <1>2, <2>2, <2>4, AtEntryHas DEF InnerReader, Counting, AtEntry
  <2> QED
    BY <1>1, <2>2, <2>3, <2>4, <2>5, AtEntryHas, ReaderMoves DEF Reading, AtEntry
<1>4. CASE pc[t] \in {"pair", "pairright"} /\ loc' = [loc EXCEPT ![t].t = page[l.p].ptr[l.i]]
           /\ Goto(t, IF pc[t] = "pair" THEN "pairleft" ELSE "judge")
  <2>1. PICK m : m = [l EXCEPT !.t = page[l.p].ptr[l.i]]
    OBVIOUS
  <2>2. /\ DOMAIN m = LocalFields /\ SameCall(m, l) /\ m.p = l.p
        /\ m.sc = l.sc /\ m.i = l.i /\ m.ret = l.ret /\ m.q = l.q
        /\ m.t = page[l.p].ptr[l.i]
    BY <1>1, <2>1, AtEntryHas, FieldNames DEF SameCall, SameGoal
  <2>3. Becomes(t, m)
    BY <1>4, <2>1 DEF Becomes
  <2>4. PICK label \in {"pairleft", "judge"} :
          Goto(t, label) /\ (label = "judge" => pc[t] = "pairright")
    BY <1>4
  <2>5. page[m.p].level > 0 => InnerReader(label, m)
    BY <1>1, <1>2, <2>2, <2>4, AtEntryHas, SMTT(30) DEF InnerReader, Counting, AtEntry
  <2> QED
    BY <1>1, <2>2, <2>3, <2>4, <2>5, AtEntryHas, ReaderMoves DEF Reading, AtEntry
<1> QED
  BY <1>3, <1>4 DEF ReadPair

LEMMA InvJudge ==
  ASSUME FFInv, NEW t \in Thread, Judge(t)
  PROVE  FFInv'
<1> DEFINE l == loc[t]
           lev == page[l.p].level - 1
<1>1. pc[t] = "judge" /\ pc[t] \in AtEntry /\ pc[t] \in Reading
      /\ UNCHANGED <<shared, work>>
  BY DEF Judge, Reading, AtEntry, ghost
<1>2. ASSUME NEW v, loc' = [loc EXCEPT ![t].ret = v], Goto(t, "check"),
             page[l.p].level > 0 => ChildRef(v, lev)
      PROVE  FFInv'
  <2>1. PICK m : m = [l EXCEPT !.ret = v]
    OBVIOUS
  <2>2. /\ DOMAIN m = LocalFields /\ SameCall(m, l) /\ m.p = l.p
        /\ m.sc = l.sc /\ m.ret = v
    BY <1>1, <2>1, AtEntryHas, FieldNames DEF SameCall, SameGoal
  <2>3. Becomes(t, m)
    BY <1>2, <2>1 DEF Becomes
  <2>4. page[m.p].level > 0 => InnerReader("check", m)
    BY <1>1, <1>2, <2>2, AtEntryHas DEF InnerReader, Counting, AtEntry
  <2> QED
    BY <1>1, <1>2, <2>2, <2>3, <2>4, ReaderMoves DEF Reading
<1>3. Advance(t, l) => FFInv'
  BY <1>1, AtEntryHas, AdvanceMoves DEF SameCall, SameGoal
<1>4. CASE ~IsLeaf(l.p)
  <2>1. page[l.p].level > 0 => ChildRef(l.q, lev) /\ ChildRef(l.t, lev)
    BY <1>1, AtEntryHas DEF InnerReader
  <2> QED
    BY <1>2, <1>3, <1>4, <2>1 DEF Judge, InnerJudge
<1>5. CASE IsLeaf(l.p)
  <2>1. ~(page[l.p].level > 0)
    BY <1>1, <1>5, AtReader
  <2>2. CASE IsScan(t)
    <3>1. PICK m : m = [l EXCEPT !.buf = Append(@, l.t)]
      OBVIOUS
    <3>2. DOMAIN m = LocalFields /\ SameCall(m, l) /\ m.p = l.p
      BY <1>1, <3>1, AtEntryHas, FieldNames DEF SameCall, SameGoal
    <3>3. Advance(t, m) => FFInv'
      BY <1>1, <2>1, <3>2, AdvanceMoves
    <3> QED
      BY <1>3, <1>5, <2>2, <3>1, <3>3 DEF Judge, RangeJudge
  <2>3. CASE ~IsScan(t)
    BY <1>2, <1>3, <1>5, <2>1, <2>3 DEF Judge, LeafJudge
  <2> QED
    BY <2>2, <2>3
<1> QED
  BY <1>4, <1>5

\* A writer that has come to its page.
LEMMA ReachesLock ==
  ASSUME FFInv, NEW t \in Thread, pc[t] \notin Storing,
         UNCHANGED <<shared, work>>, Goto(t, "lock"), NEW l,
         DOMAIN l = LocalFields, Becomes(t, l), l.p \in Allocated,
         NEW op, op = work.prog[t][l.n].op,
         \/ op = "delete" /\ page[l.p].level = 0
         \/ /\ op \in {"insert", "update"} /\ NotNew(l.p) /\ l.target \in Nat
            /\ l.target > 0 => Known(l.val, l.target - 1)
            /\ page[l.p].level = l.target
            /\ l.p = root \/ page[l.p].level < page[root].level
  PROVE  FFInv'
<1>1. /\ "lock" \in Label \ Storing /\ "lock" \notin Held \cup Reading \cup {"up"}
  BY DEF Label, Held, Storing, Removing, Inserting, Reading, Counting, AtEntry
<1>2. Walks(t) /\ pc'[t] = "lock" /\ loc'[t] = l
  BY <1>1, WalkShape
<1>3. UNCHANGED <<page, root, npages, work>>
  BY DEF shared
<1>4. (Deletes(t)' <=> op = "delete") /\ (Stores(t)' <=> op \in {"insert", "update"})
  BY <1>2, <1>3 DEF Deletes, Stores, Op
<1>5. \A x, lev : (Known(x, lev) => Known(x, lev)') /\ (NotNew(x) => NotNew(x)')
  BY <1>2, WalkKnown
<1>6. PICK p, v, g : p = l.p /\ v = l.val /\ g = l.target
  OBVIOUS
<1>7. op = "delete" => WriterOK(t)'
  BY <1>1, <1>2, <1>3, <1>4 DEF WriterOK, Allocated, Removing, Storing, Inserting
<1>8. ASSUME op # "delete" PROVE WriterOK(t)'
  <2>1. Carries(t)'
    BY <1>2, <1>5, <1>6, <1>8 DEF Carries, Known, NotNew
  <2>2. NotNew(loc[t].p)'
    BY <1>2, <1>5, <1>6, <1>8 DEF NotNew
  <2> QED
    BY <1>1, <1>2, <1>3, <1>4, <1>8, <2>1, <2>2
       DEF WriterOK, Allocated, Removing, Storing, Inserting
<1>9. ThreadOK(t)'
  BY <1>1, <1>2, <1>7, <1>8 DEF ThreadOK, MutexOK, NewOK, SplitOK, InsertOK,
     ReaderOK, UpOK, Held, Storing, Splitting
<1> QED
  BY <1>2, <1>9, WalkStep

LEMMA InvCheck ==
  ASSUME FFInv, NEW t \in Thread, Check(t)
  PROVE  FFInv'
<1> DEFINE l == loc[t]
<1>1. pc[t] = "check" /\ pc[t] \in Reading /\ UNCHANGED <<shared, work>>
      /\ Becomes(t, l)
  BY DEF Check, Reading, ghost, Becomes
<1>2. PICK label \in {"begin", "nextpage", "result", "sibling"} :
        Goto(t, label) /\ (label \in {"nextpage", "result"} => IsLeaf(l.p))
  BY DEF Check
<1>3. page[l.p].level > 0 => InnerReader(label, l)
  <2> SUFFICES ASSUME page[l.p].level > 0 PROVE InnerReader(label, l)
    OBVIOUS
  <2>1. InnerReader("check", l) /\ label \in {"begin", "sibling"}
    BY <1>1, <1>2, AtReader
  <2> QED
    BY <2>1 DEF InnerReader, Counting, AtEntry
<1> QED
  BY <1>1, <1>2, <1>3, AtReader, ReaderMoves DEF SameCall, SameGoal, Reading

LEMMA InvReadSibling ==
  ASSUME FFInv, NEW t \in Thread, ReadSibling(t)
  PROVE  FFInv'
<1> DEFINE l == loc[t]
           lev == page[l.p].level - 1
           s == page[l.p].sibling
<1>1. pc[t] \in {"sibling", "sibkey"} /\ pc[t] \in Reading
      /\ UNCHANGED <<shared, work>>
  BY DEF ReadSibling, Reading, ghost
<1>2. CASE pc[t] = "sibling"
  <2>1. PICK mine : mine = IF IsLeaf(l.p) THEN Null
                           ELSE IF l.ret # Null THEN l.ret ELSE page[l.p].leftmost
    OBVIOUS
  <2>2. PICK m : m = [l EXCEPT !.t = s, !.ret = mine]
    OBVIOUS
  <2>3. /\ DOMAIN m = LocalFields /\ SameCall(m, l) /\ m.p = l.p
        /\ m.sc = l.sc /\ m.ret = mine /\ m.t = s
    BY <1>1, <2>2, AtReader, FieldNames DEF SameCall, SameGoal
  <2>4. Becomes(t, m)
    <3>1. loc' = [loc EXCEPT ![t] = [l EXCEPT !.t = s, !.ret = mine]]
      BY <1>1, <1>2, <2>1, AtReader, FieldNames DEF ReadSibling
    <3> QED
      BY <2>2, <3>1 DEF Becomes
  <2>5. PICK label \in {"result", "sibkey"} :
          Goto(t, label) /\ (label = "sibkey" => s # Null)
    BY <1>2 DEF ReadSibling
  <2>6. ASSUME page[m.p].level > 0 PROVE InnerReader(label, m)
    <3>1. InnerReader("sibling", l) /\ InnerOK(l.p) /\ ~IsLeaf(l.p)
          /\ l.p \in Allocated
      BY <1>1, <1>2, <2>3, <2>6, AtReader
    <3>2. Known(mine, lev)
      BY <2>1, <3>1 DEF InnerReader, InnerOK, ChildRef
    <3>3. s # Null => s \in Allocated /\ page[s].level = page[l.p].level
      BY <3>1 DEF FFInv, PageOK
    <3>4. page[l.p].level \in Nat
      BY <1>1, AtReader
    <3>5. l.sc \in Nat /\ l.sc % 2 = 0
      BY <3>1 DEF InnerReader
    <3>6. mine \in Allocated
      BY <3>2 DEF Known
    <3> QED
      BY <2>3, <2>5, <3>2, <3>3, <3>4, <3>5, <3>6
         DEF InnerReader, Counting, AtEntry
  <2> QED
    BY <1>1, <2>3, <2>4, <2>5, <2>6, ReaderMoves DEF Reading
<1>3. CASE pc[t] = "sibkey"
  <2>1. PICK r \in {l.t, l.ret} : loc' = [loc EXCEPT ![t].ret = r]
    <3>1. loc' = [loc EXCEPT ![t] = [l EXCEPT !.ret =
                    IF NotBelow(l.key, page[l.t].key[0]) THEN l.t ELSE l.ret]]
      BY <1>1, <1>3, AtReader, FieldNames DEF ReadSibling
    <3> QED
      BY <3>1
  <2>2. PICK m : m = [l EXCEPT !.ret = r]
    OBVIOUS
  <2>3. /\ DOMAIN m = LocalFields /\ SameCall(m, l) /\ m.p = l.p
        /\ m.sc = l.sc /\ m.ret = r
    BY <1>1, <2>2, AtReader, FieldNames DEF SameCall, SameGoal
  <2>4. Becomes(t, m) /\ Goto(t, "result")
    BY <1>3, <2>1, <2>2 DEF Becomes, ReadSibling
  <2>5. ASSUME page[m.p].level > 0 PROVE InnerReader("result", m)
    <3>1. InnerReader("sibkey", l)
      BY <1>1, <1>3, <2>3, <2>5, AtReader
    <3>2. /\ Known(l.ret, lev) /\ l.t \in Allocated
          /\ page[l.t].level = lev + 1
          /\ l.sc \in Nat /\ l.sc % 2 = 0
      BY <3>1 DEF InnerReader
    <3> QED
      BY <2>3, <3>2 DEF InnerReader, Counting, AtEntry, Known
  <2> QED
    BY <1>1, <2>3, <2>4, <2>5, ReaderMoves DEF Reading
<1> QED
  BY <1>1, <1>2, <1>3

LEMMA InvDescend ==
  ASSUME FFInv, NEW t \in Thread, Descend(t)
  PROVE  FFInv'
<1> DEFINE l == loc[t]
           lev == page[l.p].level
           d == page[l.ret]
<1>1. pc[t] = "result" /\ pc[t] \in Reading /\ pc[t] \notin Storing
      /\ UNCHANGED <<shared, work>> /\ ~IsLeaf(l.p)
  BY DEF Descend, Reading, Storing, Inserting, ghost
<1>2. /\ lev \in Nat /\ lev > 0 /\ l.p \in Allocated /\ ReaderOK(t)
      /\ l.ret \in Allocated
      /\ d.level = lev \/ Known(l.ret, lev - 1)
  <2>1. InnerReader("result", l) /\ lev \in Nat /\ lev > 0 /\ l.p \in Allocated
    BY <1>1, AtReader
  <2> QED
    BY <2>1 DEF InnerReader, FFInv, ThreadOK
<1>3. /\ d.level \in Nat /\ (d.leftmost = Null <=> d.level = 0)
      /\ lev <= page[root].level /\ page[root].level \in Nat
      /\ d.level = lev \/ d.level = lev - 1
  BY <1>2 DEF FFInv, PageOK, Known, RootOK
<1>4. /\ Stores(t) => /\ lev > l.target /\ Carries(t) /\ l.target \in Nat
                      /\ l.target = 0 <=> l.newp = Null
      /\ ~Stores(t) => l.newp = Null
  BY <1>1, <1>2 DEF ReaderOK, Carries
<1>5. PICK m : m = [l EXCEPT !.p = l.ret, !.first = Null]
  OBVIOUS
<1>6. /\ DOMAIN m = LocalFields /\ SameCall(m, l) /\ m.p = l.ret
  BY <1>1, <1>5, AtReader, FieldNames DEF SameCall, SameGoal
<1>7. Becomes(t, m)
  <2>1. loc' = [loc EXCEPT ![t] = [l EXCEPT !.p = l.ret, !.first = Null]]
    BY <1>1, AtReader, FieldNames DEF Descend
  <2> QED
    BY <1>5, <2>1 DEF Becomes
<1>8. CASE \/ l.newp # Null /\ d.level <= l.target
           \/ Op(t).op \in {"insert", "update"} /\ d.leftmost = Null
  <2>1. Goto(t, "lock")
    BY <1>8 DEF Descend
  <2>2. Stores(t) /\ Op(t).op \in {"insert", "update"}
    BY <1>4, <1>8 DEF Stores
  <2>3. d.level = l.target /\ d.level = lev - 1
    BY <1>2, <1>3, <1>4, <1>8, <2>2
  <2>4. NotNew(l.ret) /\ d.level < page[root].level
    BY <1>2, <1>3, <2>3 DEF Known
  <2>5. m.target = l.target /\ m.val = l.val /\ work.prog[t][m.n].op = Op(t).op
    BY <1>6 DEF SameCall, SameGoal, Op
  <2>6. m.target > 0 => Known(m.val, m.target - 1)
    BY <1>4, <2>2, <2>5 DEF Carries
  <2> QED
    BY <1>1, <1>2, <1>4, <1>6, <1>7, <2>1, <2>2, <2>3, <2>4, <2>5, <2>6,
       ReachesLock
<1>9. CASE ~(\/ l.newp # Null /\ d.level <= l.target
             \/ Op(t).op \in {"insert", "update"} /\ d.leftmost = Null)
  <2>1. Goto(t, "begin")
    BY <1>9 DEF Descend
  <2>2. Stores(t) => d.level > l.target
    BY <1>3, <1>4, <1>9 DEF Stores
  <2>3. InnerReader("begin", m)
    BY DEF InnerReader, Counting, AtEntry
  <2> QED
    BY <1>1, <1>2, <1>6, <1>7, <2>1, <2>2, <2>3, ReaderMoves DEF Reading
<1> QED
  BY <1>8, <1>9

\* A reader that leaves a leaf for its sibling, or for good.
LEMMA LeavesLeaf ==
  ASSUME FFInv, NEW t \in Thread, pc[t] \in Reading, ~Stores(t),
         IsLeaf(loc[t].p), page[loc[t].p].sibling # Null, Goto(t, "begin"),
         UNCHANGED <<shared, work>>, NEW m, DOMAIN m = LocalFields,
         Becomes(t, m), SameCall(m, loc[t]), m.p = page[loc[t].p].sibling
  PROVE  FFInv'
<1>1. loc[t].p \in Allocated /\ page[loc[t].p].level = 0
  BY AtReader
<1>2. m.p \in Allocated /\ page[m.p].level = 0
  BY <1>1 DEF FFInv, PageOK
<1> QED
  BY <1>2, ReaderMoves DEF Reading

LEMMA InvSearchHop ==
  ASSUME FFInv, NEW t \in Thread, SearchHop(t)
  PROVE  FFInv'
<1> DEFINE l == loc[t]
<1>1. pc[t] \in Reading /\ pc[t] \notin Storing /\ UNCHANGED <<shared, work>>
      /\ ~Stores(t) /\ IsLeaf(l.p)
  BY DEF SearchHop, Reading, Storing, Inserting, ghost, Stores
<1>2. CASE l.ret # page[l.p].sibling \/ l.ret = Null
  BY <1>1, <1>2, AtReader, CallEnds DEF SearchHop, Becomes
<1>3. CASE ~(l.ret # page[l.p].sibling \/ l.ret = Null)
  <2>1. PICK m : m = [l EXCEPT !.p = l.ret]
    OBVIOUS
  <2>2. DOMAIN m = LocalFields /\ SameCall(m, l) /\ m.p = l.ret
    BY <1>1, <2>1, AtReader, FieldNames DEF SameCall, SameGoal
  <2>3. Becomes(t, m) /\ Goto(t, "begin")
    BY <1>3, <2>1 DEF SearchHop, Becomes
  <2> QED
    BY <1>1, <1>3, <2>2, <2>3, LeavesLeaf
<1> QED
  BY <1>2, <1>3

LEMMA InvDeleteHop ==
  ASSUME FFInv, NEW t \in Thread, DeleteHop(t)
  PROVE  FFInv'
<1> DEFINE l == loc[t]
<1>1. pc[t] \in Reading /\ pc[t] \notin Storing /\ UNCHANGED <<shared, work>>
      /\ ~Stores(t) /\ IsLeaf(l.p) /\ work.prog[t][l.n].op = "delete"
  BY DEF DeleteHop, Reading, Storing, Inserting, ghost, Stores, Op
<1>2. CASE l.ret # page[l.p].sibling
  <2>1. Goto(t, "lock") /\ Becomes(t, l)
    BY <1>2 DEF DeleteHop, Becomes
  <2>2. DOMAIN l = LocalFields /\ l.p \in Allocated /\ page[l.p].level = 0
    BY <1>1, AtReader
  <2> QED
    BY <1>1, <2>1, <2>2, ReachesLock
<1>3. CASE l.ret = page[l.p].sibling /\ l.ret = Null
  BY <1>1, <1>3, AtReader, CallEnds DEF DeleteHop, Becomes
<1>4. CASE l.ret = page[l.p].sibling /\ l.ret # Null
  <2>1. PICK m : m = [l EXCEPT !.p = l.ret]
    OBVIOUS
  <2>2. DOMAIN m = LocalFields /\ SameCall(m, l) /\ m.p = l.ret
    BY <1>1, <2>1, AtReader, FieldNames DEF SameCall, SameGoal
  <2>3. Becomes(t, m) /\ Goto(t, "begin")
    BY <1>4, <2>1 DEF DeleteHop, Becomes
  <2> QED
    BY <1>1, <1>4, <2>2, <2>3, LeavesLeaf
<1> QED
  BY <1>2, <1>3, <1>4

LEMMA InvNextPage ==
  ASSUME FFInv, NEW t \in Thread, NextPage(t)
  PROVE  FFInv'
<1> DEFINE l == loc[t]
           s == page[l.p].sibling
<1>1. pc[t] = "nextpage" /\ pc[t] \in Reading /\ pc[t] \notin Storing
      /\ UNCHANGED <<shared, work>>
  BY DEF NextPage, Reading, Storing, Inserting, ghost
<1>2. IsLeaf(l.p) /\ page[l.p].level = 0
  BY <1>1, AtReader DEF InnerReader
<1>3. ~Stores(t)
  BY <1>1, <1>2 DEF FFInv, ThreadOK, ReaderOK, Carries
<1>4. PICK m : m = [l EXCEPT !.got = l.got \o l.buf, !.p = s]
  OBVIOUS
<1>5. DOMAIN m = LocalFields /\ SameCall(m, l) /\ m.p = s
  BY <1>1, <1>4, AtReader, FieldNames DEF SameCall, SameGoal
<1>6. Becomes(t, m)
  <2>1. loc' = [loc EXCEPT ![t] = [l EXCEPT !.got = l.got \o l.buf, !.p = s]]
    BY <1>1, AtReader, FieldNames DEF NextPage
  <2> QED
    BY <1>4, <2>1 DEF Becomes
<1>7. Goto(t, "ret") \/ (Goto(t, "begin") /\ s # Null)
  BY DEF NextPage
<1>8. CASE Goto(t, "ret")
  BY <1>1, <1>5, <1>6, <1>8, CallEnds
<1>9. CASE Goto(t, "begin") /\ s # Null
  BY <1>1, <1>2, <1>3, <1>5, <1>6, <1>9, LeavesLeaf
<1> QED
  BY <1>7, <1>8, <1>9

LEMMA InvReaderStep ==
  ASSUME FFInv, NEW t \in Thread, ReaderStep(t)
  PROVE  FFInv'
BY InvBeginPage, InvCount, InvCond, InvLastChild, InvReadKey, InvReadPair,
   InvJudge, InvCheck, InvReadSibling, InvDescend, InvSearchHop, InvDeleteHop,
   InvNextPage DEF ReaderStep

-----------------------------------------------------------------------------
(* The other steps that write nothing shared.                              *)

LEMMA InvCall ==
  ASSUME FFInv, NEW t \in Thread, Call(t)
  PROVE  FFInv'
<1>1. PICK o, n : o = work.prog[t][loc[t].n + 1] /\ n = loc[t].n + 1
  OBVIOUS
<1>2. PICK l : l = [NoLocal EXCEPT !.n = n, !.key = o.key, !.val = o.key,
                                   !.p = root,
                                   !.seen = [h |-> hist, here |-> present]]
  OBVIOUS
<1>3. /\ DOMAIN l = LocalFields /\ l.p = root /\ l.n = n
      /\ l.newp = Null /\ l.target = 0
  BY <1>2 DEF NoLocal, LocalFields
<1>4. Becomes(t, l) /\ UNCHANGED <<shared, work>> /\ pc[t] = "idle"
  BY <1>1, <1>2 DEF Call, Becomes
<1>5. pc[t] \notin Storing
  BY <1>4 DEF Storing, Inserting
<1>6. /\ root \in Allocated /\ NotNew(root) /\ page[root].level \in Nat
      /\ IsLeaf(root) <=> page[root].level = 0
  BY DEF FFInv, RootOK, PageOK, IsLeaf
<1>7. o = work.prog[t][l.n]
  BY <1>1, <1>3
<1>8. CASE IsLeaf(root) /\ o.op \in {"insert", "update"}
  <2>1. Goto(t, "lock")
    BY <1>1, <1>8, SMTT(30) DEF Call
  <2> QED
    BY <1>3, <1>4, <1>5, <1>6, <1>7, <1>8, <2>1, ReachesLock
<1>9. CASE ~(IsLeaf(root) /\ o.op \in {"insert", "update"})
  <2>1. Goto(t, "begin")
    BY <1>1, <1>9 DEF Call
  <2>2. "begin" \in Label \ Storing /\ "begin" \notin Held \cup {"lock", "up"}
    BY DEF Label, Held, Storing, Removing, Inserting
  <2>3. Walks(t) /\ pc'[t] = "begin" /\ loc'[t] = l
    BY <1>3, <1>4, <1>5, <2>1, <2>2, WalkShape
  <2>4. UNCHANGED <<page, root, npages, work>>
    BY <1>4 DEF shared
  <2>5. Stores(t)' <=> o.op \in {"insert", "update"}
    BY <1>7, <2>3, <2>4 DEF Stores, Op
  <2>6. InnerReader(pc[t], loc[t])'
    BY <2>3 DEF InnerReader, Counting, AtEntry
  <2>7. ReaderOK(t)'
    BY <1>3, <1>6, <1>9, <2>3, <2>4, <2>5, <2>6
       DEF ReaderOK, Carries, Allocated
  <2>8. ThreadOK(t)'
    BY <2>2, <2>3, <2>7 DEF ThreadOK, MutexOK, NewOK, WriterOK, SplitOK,
       InsertOK, UpOK, Held, Storing, Splitting
  <2> QED
    BY <2>3, <2>8, WalkStep
<1> QED
  BY <1>8, <1>9

LEMMA InvReturn ==
  ASSUME FFInv, NEW t \in Thread, Return(t)
  PROVE  FFInv'
<1>1. PICK l : l = [NoLocal EXCEPT !.n = loc[t].n]
  OBVIOUS
<1>2. DOMAIN l = LocalFields
  BY <1>1 DEF LocalFields
<1>3. Becomes(t, l) /\ UNCHANGED <<shared, work>> /\ pc[t] = "ret"
      /\ Goto(t, "idle")
  BY <1>1 DEF Return, Becomes
<1>4. pc[t] \notin Storing
  BY <1>3 DEF Storing, Inserting
<1> QED
  BY <1>2, <1>3, <1>4, CallEnds

LEMMA InvInsertInternal ==
  ASSUME FFInv, NEW t \in Thread, InsertInternal(t)
  PROVE  FFInv'
<1> DEFINE l == loc[t]
<1>1. pc[t] = "up" /\ pc[t] \notin Storing /\ UNCHANGED <<shared, work>>
  BY DEF InsertInternal, Storing, Inserting, ghost
<1>2. /\ Stores(t) /\ Carries(t) /\ l.newp # Null
      /\ l.target \in 1..page[root].level
  BY <1>1 DEF FFInv, ThreadOK, UpOK
<1>3. /\ root \in Allocated /\ NotNew(root) /\ page[root].level \in Nat
  BY DEF FFInv, RootOK, PageOK
<1>4. PICK m : m = [l EXCEPT !.p = root]
  OBVIOUS
<1>5. DOMAIN m = LocalFields /\ SameCall(m, l) /\ m.p = root
  BY <1>4, FieldNames DEF SameCall, SameGoal, FFInv, Shape
<1>6. Becomes(t, m)
  BY <1>4 DEF InsertInternal, Becomes
<1>7. CASE page[root].level > l.target
  <2>1. Goto(t, "begin")
    BY <1>2, <1>3, <1>7 DEF InsertInternal
  <2>2. "begin" \in Label \ Storing /\ "begin" \notin Held \cup {"lock", "up"}
    BY DEF Label, Held, Storing, Removing, Inserting
  <2>3. Walks(t) /\ pc'[t] = "begin" /\ loc'[t] = m
    BY <1>1, <1>5, <1>6, <2>1, <2>2, WalkShape
  <2>4. UNCHANGED <<page, root, npages, work>>
    BY <1>1 DEF shared
  <2>5. Stores(t)' /\ Carries(t)'
    BY <1>2, <1>5, <2>3, CallGoesOn, WalkFrame DEF SameCall
  <2>6. InnerReader(pc[t], loc[t])'
    BY <2>3 DEF InnerReader, Counting, AtEntry
  <2>7. ReaderOK(t)'
    BY <1>2, <1>3, <1>5, <1>7, <2>3, <2>4, <2>5, <2>6
       DEF ReaderOK, Allocated, SameCall, SameGoal
  <2>8. ThreadOK(t)'
    BY <2>2, <2>3, <2>7 DEF ThreadOK, MutexOK, NewOK, WriterOK, SplitOK,
       InsertOK, UpOK, Held, Storing, Splitting
  <2> QED
    BY <2>3, <2>8, WalkStep
<1>8. CASE page[root].level = l.target
  <2>1. Goto(t, "lock")
    BY <1>2, <1>3, <1>8 DEF InsertInternal
  <2>2. /\ work.prog[t][m.n].op \in {"insert", "update"}
        /\ m.target = l.target /\ m.val = l.val
    BY <1>2, <1>5 DEF Stores, Op, SameCall, SameGoal
  <2>3. m.target > 0 => Known(m.val, m.target - 1)
    BY <1>2, <2>2 DEF Carries
  <2>4. m.target \in Nat
    BY <1>3, <1>8, <2>2
  <2> QED
    BY <1>1, <1>3, <1>5, <1>6, <1>8, <2>1, <2>2, <2>3, <2>4, ReachesLock
<1> QED
  BY <1>2, <1>3, <1>7, <1>8

-----------------------------------------------------------------------------
(* Steps of a thread that has a page's mutex, takes it or gives it up, and *)
(* allocates no page.                                                      *)

Moves(t, label, l) ==
  /\ pc' \in [Thread -> Label] /\ pc'[t] = label /\ loc'[t] = l
  /\ DOMAIN loc' = Thread /\ \A u \in Thread : DOMAIN loc'[u] = LocalFields
  /\ \A u \in Thread \ {t} : pc'[u] = pc[u] /\ loc'[u] = loc[u]

LEMMA MovesTo ==
  ASSUME FFInv, NEW t \in Thread, NEW label \in Label, Goto(t, label),
         NEW l, DOMAIN l = LocalFields, Becomes(t, l)
  PROVE  Moves(t, label, l)
<1>1. /\ pc \in [Thread -> Label] /\ DOMAIN loc = Thread
      /\ \A u \in Thread : DOMAIN loc[u] = LocalFields
  BY DEF FFInv, Shape
<1>2. /\ pc' \in [Thread -> Label] /\ pc'[t] = label /\ loc'[t] = l
      /\ \A u \in Thread \ {t} : pc'[u] = pc[u] /\ loc'[u] = loc[u]
      /\ DOMAIN loc' = Thread
  BY <1>1 DEF Goto, Becomes
<1>3. \A u \in Thread : DOMAIN loc'[u] = LocalFields
  BY <1>1, <1>2
<1> QED
  BY <1>2, <1>3 DEF Moves

\* Page q is written, but not its place in the tree.
Rewritten(q, r) ==
  /\ page' = [page EXCEPT ![q] = r] /\ DOMAIN r = PageFields
  /\ r.level = page[q].level /\ r.leftmost = page[q].leftmost
  /\ r.sibling = page[q].sibling

\* t takes or gives up mutexes.
MutexStep(t) ==
  /\ mtx' \in [PageId -> Thread \cup {"none"}]
  /\ \A x \in PageId : mtx'[x] # mtx[x] => {mtx[x], mtx'[x]} \subseteq {t, "none"}

LEMMA WriteFrame ==
  ASSUME FFInv, NEW t \in Thread, NEW label, NEW l, Moves(t, label, l),
         UNCHANGED <<root, npages, work>>, MutexStep(t),
         NEW q, NEW r,
         page' = page \/ (q \in Allocated /\ Mine(t, q) /\ Rewritten(q, r)),
         Splitting(t)' => Splitting(t) /\ l.newp = loc[t].newp
  PROVE  /\ Frame(t) /\ Allocated' = Allocated
         /\ \A x \in Allocated : x # q => page'[x] = page[x]
         /\ \A x \in Allocated : page'[x].sibling = page[x].sibling
         /\ page' # page => page'[q] = r
<1>1. Shape /\ npages \in Nat /\ Allocated' = Allocated /\ Allocated \subseteq PageId
  BY FastFairConstants DEF FFInv, Shape, Allocated
<1>2. DOMAIN page' = PageId /\ \A x \in Allocated : DOMAIN page'[x] = PageFields
  BY <1>1 DEF Shape, Rewritten
<1>3. \A x \in Allocated :
        /\ page'[x].level = page[x].level /\ page'[x].leftmost = page[x].leftmost
        /\ page'[x].sibling = page[x].sibling
        /\ page'[x] # page[x] => x = q /\ Mine(t, x)
  BY <1>1 DEF Shape, Rewritten
<1>4. Shape'
  BY <1>1, <1>2 DEF Shape, Moves, MutexStep
<1>5. page' # page => page'[q] = r
  BY <1>1 DEF Shape, Rewritten
<1>6. Frame(t)
  BY <1>1, <1>3, <1>4 DEF Frame, Moves, MutexStep
<1> QED
  BY <1>1, <1>3, <1>5, <1>6

LEMMA WriteStep ==
  ASSUME FFInv, NEW t \in Thread, NEW label, NEW l, Moves(t, label, l),
         UNCHANGED <<root, npages, work>>, MutexStep(t),
         NEW q, NEW r,
         page' = page \/ (q \in Allocated /\ Mine(t, q) /\ Rewritten(q, r)),
         Splitting(t)' => Splitting(t) /\ l.newp = loc[t].newp,
         Splitting(t) /\ loc[t].p = root => Splitting(t)' /\ l.p = loc[t].p,
         page' # page /\ page[q].level > 0 => InnerOK(q)',
         ThreadOK(t)'
  PROVE  FFInv'
<1>1. /\ Frame(t) /\ Allocated' = Allocated
      /\ \A x \in Allocated : x # q => page'[x] = page[x]
      /\ \A x \in Allocated : page'[x].sibling = page[x].sibling
  BY WriteFrame
<1>2. ASSUME NEW x \in Allocated PROVE PageOK(x)'
  <2>1. page[x].level > 0 => page'[x] = page[x] \/ InnerOK(x)'
    BY <1>1
  <2> QED
    BY <1>1, <2>1, PageStays
<1>3. RootOK'
  BY <1>1, RootStays DEF Moves, FFInv, RootOK
<1> QED
  BY <1>1, <1>2, <1>3, StepEnds

\* A writer that keeps its page and its mutex.
LEMMA WriterGoesOn ==
  ASSUME FFInv, NEW t \in Thread, Frame(t), pc[t] \in Held, pc'[t] \in Held,
         pc'[t] \in Storing => pc[t] \in Storing,
         pc'[t] \in Removing => pc[t] \in Removing,
         pc'[t] # "split",
         Allocated' = Allocated, root' = root, mtx' = mtx,
         loc'[t].p = loc[t].p, SameGoal(loc'[t], loc[t]),
         \A x \in Allocated : page'[x].sibling = page[x].sibling,
         Splitting(t)' => Splitting(t) /\ loc'[t].newp = loc[t].newp,
         SplitOK(t)', InsertOK(t)'
  PROVE  ThreadOK(t)'
<1>1. MutexOK(t) /\ NewOK(t) /\ WriterOK(t)
  BY DEF FFInv, ThreadOK
<1>2. /\ Deletes(t)' = Deletes(t) /\ Stores(t)' = Stores(t)
      /\ Carries(t) => Carries(t)'
  BY CallGoesOn
<1>3. loc[t].p \in Allocated /\ root \in Allocated
  BY <1>1 DEF WriterOK, FFInv, RootOK
<1>4. MutexOK(t)'
  BY <1>1 DEF MutexOK
<1>5. \A x \in Allocated : page'[x].level = page[x].level
  BY DEF Frame
<1>6. NewOK(t)'
  <2> SUFFICES ASSUME Splitting(t)' PROVE NewOK(t)'
    BY DEF NewOK
  <2>1. /\ loc[t].newp \in Allocated /\ loc[t].newp # loc[t].p
        /\ page[loc[t].newp].level = page[loc[t].p].level
        /\ page[loc[t].p].sibling = loc[t].newp
        /\ \A q \in Allocated \ {loc[t].p} : page[q].sibling # loc[t].newp
        /\ \A u \in Thread \ {t} : Splitting(u) => loc[u].newp # loc[t].newp
    BY <1>1 DEF NewOK
  <2>2. \A u \in Thread \ {t} : Splitting(u)' => loc'[u].newp # loc[t].newp
    BY <2>1, OthersSplit
  <2> QED
    BY <1>3, <1>5, <2>1, <2>2 DEF NewOK
<1>7. WriterOK(t)'
  <2>1. ~Deletes(t) =>
          /\ Stores(t) /\ NotNew(loc[t].p) /\ Carries(t)
          /\ page[loc[t].p].level = loc[t].target
          /\ loc[t].p = root \/ page[loc[t].p].level < page[root].level
    BY <1>1 DEF WriterOK
  <2>2. ~Deletes(t) => NotNew(loc[t].p)'
    <3>1. PICK p : p = loc[t].p
      OBVIOUS
    <3>2. ~Deletes(t) => NotNew(p)'
      BY <1>3, <2>1, <3>1, KnownStays DEF FFInv
    <3> QED
      BY <3>1, <3>2 DEF NotNew
  <2>3. /\ pc'[t] \in Removing => Deletes(t)
        /\ pc'[t] \in Storing => ~Deletes(t)
        /\ Deletes(t) => page[loc[t].p].level = 0
    BY <1>1 DEF WriterOK
  <2> QED
    BY <1>2, <1>3, <1>5, <2>1, <2>2, <2>3 DEF WriterOK, SameGoal
<1>8. pc'[t] \notin Reading \cup {"up"}
  BY DEF Held, Storing, Removing, Inserting, Reading, Counting, AtEntry
<1> QED
  BY <1>4, <1>6, <1>7, <1>8 DEF ThreadOK, ReaderOK, UpOK

\* What a thread with a mutex knows.
LEMMA AtPage ==
  ASSUME FFInv, NEW t \in Thread, pc[t] \in Held \cup {"lock"}
  PROVE  /\ DOMAIN loc = Thread /\ DOMAIN loc[t] = LocalFields
         /\ loc[t].p \in Allocated /\ loc[t].p \in PageId
         /\ DOMAIN page[loc[t].p] = PageFields
         /\ page[loc[t].p].level \in Nat
         /\ IsLeaf(loc[t].p) <=> page[loc[t].p].level = 0
         /\ page[loc[t].p].level > 0 => InnerOK(loc[t].p)
         /\ pc[t] \in Held => mtx[loc[t].p] = t
         /\ Deletes(t) => page[loc[t].p].level = 0
         /\ pc[t] \in Storing => ~Deletes(t)
         /\ ~Deletes(t) =>
              /\ Stores(t) /\ NotNew(loc[t].p) /\ Carries(t)
              /\ page[loc[t].p].level = loc[t].target
              /\ loc[t].p = root \/ page[loc[t].p].level < page[root].level
<1>1. WriterOK(t) /\ MutexOK(t) /\ Shape
  BY DEF FFInv, ThreadOK
<1>2. loc[t].p \in Allocated /\ loc[t].p \in PageId
  BY <1>1 DEF WriterOK, Allocated
<1>3. PageOK(loc[t].p)
  BY <1>2 DEF FFInv
<1> QED
  BY <1>1, <1>2, <1>3 DEF WriterOK, MutexOK, PageOK, IsLeaf, Shape

LEMMA MutexChange ==
  ASSUME FFInv, NEW t \in Thread, NEW p \in PageId, mtx[p] \in {t, "none"},
         NEW m \in {t, "none"}, mtx' = [mtx EXCEPT ![p] = m]
  PROVE  MutexStep(t) /\ mtx'[p] = m
BY DEF MutexStep, FFInv, Shape

LEMMA MutexKept ==
  ASSUME FFInv, NEW t \in Thread, mtx' = mtx
  PROVE  MutexStep(t)
BY DEF MutexStep, FFInv, Shape

\* A store to one field of a page.
LEMMA OneField ==
  ASSUME NEW p, DOMAIN page[p] = PageFields, NEW v,
         \/ page' = [page EXCEPT ![p].sc = v]
         \/ page' = [page EXCEPT ![p].ptr = v]
         \/ page' = [page EXCEPT ![p].key = v]
         \/ page' = [page EXCEPT ![p].last = v]
  PROVE  \E r : Rewritten(p, r)
<1> DEFINE Part(r) == /\ DOMAIN r = PageFields /\ r.level = page[p].level
                      /\ r.leftmost = page[p].leftmost
                      /\ r.sibling = page[p].sibling
<1>1. /\ Part([page[p] EXCEPT !.sc = v]) /\ Part([page[p] EXCEPT !.ptr = v])
      /\ Part([page[p] EXCEPT !.key = v]) /\ Part([page[p] EXCEPT !.last = v])
  BY FieldNames
<1>2. \/ page' = [page EXCEPT ![p] = [page[p] EXCEPT !.sc = v]]
      \/ page' = [page EXCEPT ![p] = [page[p] EXCEPT !.ptr = v]]
      \/ page' = [page EXCEPT ![p] = [page[p] EXCEPT !.key = v]]
      \/ page' = [page EXCEPT ![p] = [page[p] EXCEPT !.last = v]]
  OBVIOUS
<1> QED
  BY <1>1, <1>2 DEF Rewritten

LEMMA InvRemoveKey ==
  ASSUME FFInv, NEW t \in Thread, RemoveKey(t)
  PROVE  FFInv'
<1> DEFINE l == loc[t]
           p == l.p
<1>1. pc[t] \in Removing /\ pc[t] \in Held /\ pc[t] \notin Storing
      /\ UNCHANGED <<root, npages, work, mtx>>
  BY SMTT(30) DEF RemoveKey, Removing, Held, Storing, Inserting, ghost
<1>2. Deletes(t) /\ page[p].level = 0 /\ p \in Allocated /\ ~Splitting(t)
  BY <1>1, AtPage DEF FFInv, ThreadOK, WriterOK, Splitting, Removing, Inserting
<1>3. PICK label \in {"unlock", "dup", "pullkey", "pullptr", "droplast"} : Goto(t, label)
  BY SMTT(30) DEF RemoveKey
<1>4. PICK m : Becomes(t, m) /\ DOMAIN m = LocalFields /\ m.p = p /\ SameGoal(m, l)
  <2>1. CASE loc' = loc
    BY <1>1, <2>1, AtPage DEF Becomes, SameGoal
  <2>2. CASE \E v : loc' = [loc EXCEPT ![t].i = v]
    <3>1. PICK v : loc' = [loc EXCEPT ![t] = [l EXCEPT !.i = v]]
      BY <2>2
    <3>2. PICK m : m = [l EXCEPT !.i = v]
      OBVIOUS
    <3>3. DOMAIN m = LocalFields /\ SameGoal(m, l) /\ m.p = p
      BY <1>1, <3>2, AtPage, FieldNames DEF SameGoal
    <3>4. Becomes(t, m)
      BY <3>1, <3>2 DEF Becomes
    <3> QED
      BY <3>3, <3>4
  <2> QED
    BY <2>1, <2>2, SMTT(30) DEF RemoveKey
<1>5. PICK r : Rewritten(p, r)
  <2>1. DOMAIN page[p] = PageFields
    BY <1>1, AtPage
  <2>2. CASE \E v : page' = [page EXCEPT ![p].sc = v]
    BY <2>1, <2>2, OneField
  <2>3. CASE \E v : page' = [page EXCEPT ![p].ptr = v]
    BY <2>1, <2>3, OneField
  <2>4. CASE \E v : page' = [page EXCEPT ![p].key = v]
    BY <2>1, <2>4, OneField
  <2>5. CASE \E v : page' = [page EXCEPT ![p].last = v]
    BY <2>1, <2>5, OneField
  <2> QED
    BY <2>2, <2>3, <2>4, <2>5 DEF RemoveKey
<1>6. Moves(t, label, m)
  BY <1>3, <1>4, MovesTo DEF Label
<1>7. ~Splitting(t)' /\ label \in Held /\ label \notin Storing /\ label # "split"
      /\ (label \in Removing \/ label = "unlock")
  BY <1>3, <1>6 DEF Splitting, Moves, Inserting, Held, Storing, Removing
<1>8. MutexStep(t) /\ Mine(t, p)
  BY <1>1, MutexKept DEF Mine
<1>9. /\ Frame(t) /\ Allocated' = Allocated
      /\ \A x \in Allocated : page'[x].sibling = page[x].sibling
  BY <1>1, <1>2, <1>5, <1>6, <1>7, <1>8, WriteFrame
<1>10. SplitOK(t)' /\ InsertOK(t)'
  BY <1>6, <1>7 DEF SplitOK, InsertOK, Moves, Storing
<1>11. ThreadOK(t)'
  BY <1>1, <1>4, <1>6, <1>7, <1>9, <1>10, WriterGoesOn DEF Moves
<1> QED
  BY <1>1, <1>2, <1>5, <1>6, <1>7, <1>8, <1>11, WriteStep

LEMMA InnerWrite ==
  ASSUME FFInv, NEW t \in Thread, Frame(t), NEW x \in Allocated,
         page[x].level > 0, page'[x].sc = page[x].sc, NEW j, NEW v,
         \/ page'[x].ptr = page[x].ptr
         \/ /\ page'[x].ptr = [page[x].ptr EXCEPT ![j] = v]
            /\ ChildRef(v, page[x].level - 1)
            /\ j = cardinality - 1 => v = Null
  PROVE  InnerOK(x)'
<1>1. InnerOK(x)
  BY DEF FFInv, PageOK
<1>2. DOMAIN page'[x].ptr = Slot /\ page'[x].ptr[cardinality - 1] = Null
  BY <1>1, FastFairConstants DEF InnerOK, Slot
<1>3. \A i \in Slot : ChildRef(page'[x].ptr[i], page[x].level - 1)
  BY <1>1 DEF InnerOK
<1> QED
  BY <1>1, <1>2, <1>3, InnerStays DEF InnerOK

\* What a thread that inserts knows of the page it inserts into.
LEMMA AtInsert ==
  ASSUME FFInv, NEW t \in Thread, pc[t] \in Inserting
  PROVE  LET l == loc[t] IN
         /\ pc[t] \in Held /\ pc[t] \in Storing
         /\ l.ip \in Allocated /\ l.ip \in PageId /\ Mine(t, l.ip)
         /\ page[l.ip].level = page[l.p].level
         /\ DOMAIN page[l.ip] = PageFields
         /\ page[l.p].level > 0 =>
              /\ InnerOK(l.ip)
              /\ l.num \in 0..(cardinality - 2)
              /\ pc[t] \in {"insert", "endmark"} => page[l.ip].ptr[l.num] = Null
              /\ pc[t] \in {"endmark", "shiftptr", "putkey", "putptr"} =>
                   l.i \in -1..(l.num - 1)
              /\ pc[t] = "shiftkey" => l.i \in 0..(l.num - 1)
<1>1. pc[t] \in Held /\ pc[t] \in Storing
  BY DEF Held, Storing
<1>2. InsertOK(t) /\ NewOK(t) /\ Shape
  BY DEF FFInv, ThreadOK
<1>3. loc[t].newp # Null => Splitting(t)
  BY DEF Splitting
<1>4. loc[t].ip = loc[t].p \/ (Splitting(t) /\ loc[t].ip = loc[t].newp)
  BY <1>2, <1>3 DEF InsertOK
<1>5. loc[t].ip \in Allocated /\ page[loc[t].ip].level = page[loc[t].p].level
  BY <1>1, <1>2, <1>4, AtPage DEF NewOK
<1>6. page[loc[t].p].level > 0 => InnerOK(loc[t].ip)
  BY <1>5 DEF FFInv, PageOK
<1>7. Mine(t, loc[t].ip)
  BY <1>1, <1>4 DEF Mine
<1>8. loc[t].ip \in PageId /\ DOMAIN page[loc[t].ip] = PageFields
  BY <1>2, <1>5 DEF Shape, Allocated
<1> QED
  BY <1>1, <1>2, <1>5, <1>6, <1>7, <1>8 DEF InsertOK

\* The store that takes t to label changes at most entry j, to v, and leaves
\* room where the next store goes.
InsertFits(m, label, j, v) ==
  /\ label = "unlock" => m.newp = Null
  /\ label = "grow" => m.newp # Null
  /\ page' = page \/ \E r : Rewritten(m.ip, r)
  /\ page[m.p].level > 0 =>
       /\ page'[m.ip].sc = page[m.ip].sc
       /\ \/ page'[m.ip].ptr = page[m.ip].ptr
          \/ /\ page'[m.ip].ptr = [page[m.ip].ptr EXCEPT ![j] = v]
             /\ ChildRef(v, page[m.ip].level - 1)
             /\ j = cardinality - 1 => v = Null
       /\ label \in {"insert", "endmark"} => page'[m.ip].ptr[m.num] = Null
       /\ label \in {"endmark", "shiftptr", "putkey", "putptr"} =>
            m.i \in -1..(m.num - 1)
       /\ label = "shiftkey" => m.i \in 0..(m.num - 1)

LEMMA InsertGoesOn ==
  ASSUME FFInv, NEW t \in Thread, pc[t] \in Inserting,
         UNCHANGED <<root, npages, work, mtx>>,
         NEW label \in Inserting \cup {"unlock", "grow"}, Goto(t, label),
         NEW m, DOMAIN m = LocalFields, Becomes(t, m), SameCall(m, loc[t]),
         m.p = loc[t].p, m.ip = loc[t].ip, m.num = loc[t].num,
         NEW j, NEW v, InsertFits(m, label, j, v)
  PROVE  FFInv'
<1> DEFINE l == loc[t]
<1>0. PICK q : q = l.ip
  OBVIOUS
<1>1. /\ pc[t] \in Held /\ pc[t] \in Storing /\ q \in Allocated /\ Mine(t, q)
      /\ page[q].level = page[l.p].level
      /\ page[l.p].level > 0 => InnerOK(q) /\ l.num \in 0..(cardinality - 2)
  BY <1>0, AtInsert
<1>2. label \in Label /\ label \in Held /\ label \notin Removing
      /\ label \notin {"split", "switch", "cut", "last"}
      /\ (label \in Storing => pc[t] \in Storing)
  BY <1>1 DEF Label, Held, Storing, Inserting, Removing
<1>3. Moves(t, label, m) /\ MutexStep(t)
  BY <1>2, MovesTo, MutexKept
<1>4. Splitting(t)' => Splitting(t) /\ m.newp = l.newp
  BY <1>3 DEF InsertFits, Moves, Splitting, SameCall
<1>5. Splitting(t) => Splitting(t)'
  BY <1>3 DEF InsertFits, Moves, Splitting, SameCall
<1>6. PICK r : page' = page \/ Rewritten(q, r)
  BY <1>0 DEF InsertFits
<1>7. /\ Frame(t) /\ Allocated' = Allocated
      /\ \A x \in Allocated : page'[x].sibling = page[x].sibling
  BY <1>1, <1>3, <1>4, <1>6, WriteFrame
<1>8. ASSUME page[q].level > 0 PROVE InnerOK(q)'
  <2>1. /\ page'[q].sc = page[q].sc
        /\ \/ page'[q].ptr = page[q].ptr
           \/ /\ page'[q].ptr = [page[q].ptr EXCEPT ![j] = v]
              /\ ChildRef(v, page[q].level - 1)
              /\ j = cardinality - 1 => v = Null
    BY <1>0, <1>1, <1>8 DEF InsertFits
  <2>2. InnerOK(q)
    BY <1>1, <1>8
  <2>3. Frame(t) /\ q \in Allocated
    BY <1>1, <1>7
  <2> QED
    BY <1>8, <2>1, <2>2, <2>3, InnerWrite
<1>9. SplitOK(t)'
  BY <1>2, <1>3 DEF InsertFits, SplitOK, Moves
<1>10. page'[l.p].level = page[l.p].level
  BY <1>1, <1>7, AtPage DEF Frame
<1>11. InsertOK(t)'
  <2>1. InsertOK(t)
    BY DEF FFInv, ThreadOK
  <2>2. l.ip = l.p \/ (l.newp # Null /\ l.ip = l.newp)
    BY <2>1 DEF InsertOK
  <2> QED
    BY <1>0, <1>1, <1>3, <1>10, <2>2 DEF InsertFits, InsertOK, Moves, SameCall
<1>12. ThreadOK(t)'
  BY <1>1, <1>2, <1>3, <1>4, <1>7, <1>9, <1>11, WriterGoesOn DEF Moves, SameCall
<1> QED
  BY <1>1, <1>3, <1>4, <1>5, <1>6, <1>8, <1>12, WriteStep DEF Moves

\* A store to the pointers of a page, and one to its other fields.
LEMMA PtrStored ==
  ASSUME NEW p, p \in DOMAIN page, DOMAIN page[p] = PageFields, NEW j, NEW v,
         page' = [page EXCEPT ![p].ptr[j] = v]
  PROVE  /\ \E r : Rewritten(p, r)
         /\ page'[p].ptr = [page[p].ptr EXCEPT ![j] = v]
         /\ page'[p].sc = page[p].sc
<1>1. page' = [page EXCEPT ![p].ptr = [page[p].ptr EXCEPT ![j] = v]]
  OBVIOUS
<1>2. page'[p] = [page[p] EXCEPT !.ptr = [page[p].ptr EXCEPT ![j] = v]]
  BY <1>1
<1>3. \E r : Rewritten(p, r)
  BY <1>1, OneField
<1> QED
  BY <1>2, <1>3, FieldNames

LEMMA OtherStored ==
  ASSUME NEW p, p \in DOMAIN page, DOMAIN page[p] = PageFields, NEW v,
         \/ page' = [page EXCEPT ![p].key = v]
         \/ page' = [page EXCEPT ![p].last = v]
  PROVE  /\ \E r : Rewritten(p, r)
         /\ page'[p].ptr = page[p].ptr /\ page'[p].sc = page[p].sc
<1>1. \E r : Rewritten(p, r)
  BY OneField
<1>2. \/ page'[p] = [page[p] EXCEPT !.key = v]
      \/ page'[p] = [page[p] EXCEPT !.last = v]
  OBVIOUS
<1> QED
  BY <1>1, <1>2, FieldNames

LEMMA InvInsertKey ==
  ASSUME FFInv, NEW t \in Thread, InsertKey(t)
  PROVE  FFInv'
<1> DEFINE l == loc[t]
           q == l.ip
           pg == page[q]
           Same(m) == /\ DOMAIN m = LocalFields /\ SameCall(m, l)
                      /\ m.p = l.p /\ m.ip = l.ip /\ m.num = l.num
<1>1. pc[t] \in Inserting /\ UNCHANGED <<root, npages, work, mtx>>
  BY DEF InsertKey, Inserting, ghost
<1>2. /\ pc[t] \in Held /\ pc[t] \in Storing /\ q \in Allocated /\ q \in PageId
      /\ pg.level = page[l.p].level /\ DOMAIN pg = PageFields
      /\ page[l.p].level > 0 => InnerOK(q) /\ l.num \in 0..(cardinality - 2)
  BY <1>1, AtInsert
<1>3. /\ DOMAIN loc = Thread /\ DOMAIN l = LocalFields /\ DOMAIN page = PageId
      /\ Same(l) /\ (loc' = loc => Becomes(t, l))
  BY <1>1, <1>2, AtPage DEF FFInv, Shape, Becomes, SameCall, SameGoal
<1>4. ASSUME NEW v PROVE Same([l EXCEPT !.i = v]) /\ [l EXCEPT !.i = v].i = v
  BY <1>3, FieldNames DEF SameCall, SameGoal
<1>5. pg.level > 0 => \A i \in Slot : ChildRef(pg.ptr[i], pg.level - 1)
  BY <1>2 DEF InnerOK
<1>6. \A lev : ChildRef(Null, lev)
  BY DEF ChildRef
<1>7. cardinality \in Nat /\ cardinality > 3 /\ Slot = 0..(cardinality - 1)
  BY FastFairConstants DEF Slot
<1>11. CASE pc[t] = "insert"
  <2>1. PICK m : m = [l EXCEPT !.i = l.num - 1]
    OBVIOUS
  <2>2. Same(m) /\ m.i = l.num - 1
    BY <1>4, <2>1
  <2>3. Becomes(t, m)
    BY <1>11, <2>1 DEF InsertKey, Becomes
  <2>4. PICK label \in {"putkey", "endmark"} :
          Goto(t, label) /\ (label = "putkey" <=> l.num = 0)
    BY <1>11 DEF InsertKey
  <2>5. page' = page \/ \E r : Rewritten(q, r)
    BY <1>2, <1>11, OneField DEF InsertKey
  <2>6. page[l.p].level > 0 => page' = page /\ pg.ptr[l.num] = Null
    BY <1>1, <1>2, <1>11, AtInsert, SMTT(30) DEF InsertKey, InnerOK, IsForward
  <2>7. InsertFits(m, label, 0, Null)
    BY <1>2, <1>7, <2>2, <2>4, <2>5, <2>6 DEF InsertFits
  <2> QED
    BY <1>1, <2>2, <2>3, <2>4, <2>7, InsertGoesOn DEF Inserting
<1>12. CASE pc[t] = "endmark"
  <2>1. Goto(t, "shiftptr") /\ loc' = loc
        /\ page' = [page EXCEPT ![q].ptr[l.num + 1] = pg.ptr[l.num]]
    BY <1>12 DEF InsertKey
  <2>2. /\ \E r : Rewritten(q, r)
        /\ page'[q].ptr = [pg.ptr EXCEPT ![l.num + 1] = pg.ptr[l.num]]
        /\ page'[q].sc = pg.sc
    BY <1>2, <1>3, <2>1, PtrStored
  <2>3. page[l.p].level > 0 => pg.ptr[l.num] = Null /\ l.i \in -1..(l.num - 1)
    BY <1>1, <1>12, AtInsert
  <2>4. page[l.p].level > 0 => page'[q].ptr[l.num] = Null
    BY <1>2, <1>7, <2>2, <2>3 DEF InnerOK
  <2>5. InsertFits(l, "shiftptr", l.num + 1, pg.ptr[l.num])
    BY <1>2, <1>6, <2>2, <2>3 DEF InsertFits
  <2> QED
    BY <1>1, <1>3, <2>1, <2>5, InsertGoesOn DEF Inserting
<1>13. CASE pc[t] = "shiftptr"
  <2>1. loc' = loc /\ page' = [page EXCEPT ![q].ptr[l.i + 1] = LeftPtr(q, l.i + 1)]
    BY <1>13 DEF InsertKey
  <2>2. PICK label \in {"shiftkey", "putkey"} :
          Goto(t, label) /\ (label = "shiftkey" => l.i >= 0)
    BY <1>13 DEF InsertKey
  <2>3. /\ \E r : Rewritten(q, r)
        /\ page'[q].ptr = [pg.ptr EXCEPT ![l.i + 1] = LeftPtr(q, l.i + 1)]
        /\ page'[q].sc = pg.sc
    BY <1>2, <1>3, <2>1, PtrStored
  <2>4. page[l.p].level > 0 => l.i \in -1..(l.num - 1)
    BY <1>1, <1>13, AtInsert
  <2>5. ASSUME page[l.p].level > 0
        PROVE  ChildRef(LeftPtr(q, l.i + 1), pg.level - 1)
    <3>1. InnerOK(q) /\ l.num \in 0..(cardinality - 2) /\ l.i \in -1..(l.num - 1)
      BY <1>2, <2>4, <2>5
    <3>2. CASE l.i = -1
      BY <3>1, <3>2 DEF LeftPtr, InnerOK, ChildRef
    <3>3. CASE l.i # -1
      <4>1. l.i \in Slot /\ l.i + 1 # 0 /\ l.i + 1 - 1 = l.i
        BY <1>7, <3>1, <3>3
      <4> QED
        BY <3>1, <4>1 DEF LeftPtr, InnerOK
    <3> QED
      BY <3>2, <3>3
  <2>6. page[l.p].level > 0 => l.i + 1 # cardinality - 1
    BY <1>2, <1>7, <2>4
  <2>7. page[l.p].level > 0 /\ label = "shiftkey" => l.i \in 0..(l.num - 1)
    BY <1>2, <1>7, <2>2, <2>4
  <2>8. InsertFits(l, label, l.i + 1, LeftPtr(q, l.i + 1))
    BY <1>2, <2>2, <2>3, <2>4, <2>5, <2>6, <2>7 DEF InsertFits
  <2> QED
    BY <1>1, <1>3, <2>1, <2>2, <2>8, InsertGoesOn DEF Inserting
<1>14. CASE pc[t] = "shiftkey"
  <2>1. Goto(t, "shiftptr") /\ loc' = [loc EXCEPT ![t].i = l.i - 1]
        /\ page' = [page EXCEPT ![q].key[l.i + 1] = pg.key[l.i]]
    BY <1>14 DEF InsertKey
  <2>2. PICK m : m = [l EXCEPT !.i = l.i - 1]
    OBVIOUS
  <2>3. Same(m) /\ m.i = l.i - 1 /\ Becomes(t, m)
    BY <1>4, <2>1, <2>2 DEF Becomes
  <2>4. /\ \E r : Rewritten(q, r)
        /\ page'[q].ptr = pg.ptr /\ page'[q].sc = pg.sc
    <3>1. PICK v : v = [pg.key EXCEPT ![l.i + 1] = pg.key[l.i]]
      OBVIOUS
    <3>2. page' = [page EXCEPT ![q].key = v]
      BY <2>1, <3>1
    <3> QED
      BY <1>2, <1>3, <3>2, OtherStored
  <2>5. page[l.p].level > 0 => l.i \in 0..(l.num - 1)
    BY <1>1, <1>14, AtInsert
  <2>6. page[l.p].level > 0 => m.i \in -1..(m.num - 1)
    BY <1>2, <1>7, <2>3, <2>5
  <2>7. InsertFits(m, "shiftptr", 0, Null)
    BY <2>3, <2>4, <2>6 DEF InsertFits
  <2> QED
    BY <1>1, <2>1, <2>3, <2>7, InsertGoesOn DEF Inserting
<1>15. CASE pc[t] = "putkey"
  <2>1. Goto(t, "putptr") /\ loc' = loc
        /\ page' = [page EXCEPT ![q].key[l.i + 1] = l.key]
    BY <1>15 DEF InsertKey
  <2>2. /\ \E r : Rewritten(q, r)
        /\ page'[q].ptr = pg.ptr /\ page'[q].sc = pg.sc
    <3>1. PICK v : v = [pg.key EXCEPT ![l.i + 1] = l.key]
      OBVIOUS
    <3>2. page' = [page EXCEPT ![q].key = v]
      BY <2>1, <3>1
    <3> QED
      BY <1>2, <1>3, <3>2, OtherStored
  <2>3. page[l.p].level > 0 => l.i \in -1..(l.num - 1)
    BY <1>1, <1>15, AtInsert
  <2>4. InsertFits(l, "putptr", 0, Null)
    BY <2>2, <2>3 DEF InsertFits
  <2> QED
    BY <1>1, <1>3, <2>1, <2>4, InsertGoesOn DEF Inserting
<1>16. CASE pc[t] = "putptr"
  <2>1. loc' = loc /\ page' = [page EXCEPT ![q].ptr[l.i + 1] = l.val]
    BY <1>16 DEF InsertKey
  <2>2. PICK label \in {"end0", "putlast"} : Goto(t, label)
    BY <1>16 DEF InsertKey
  <2>3. /\ \E r : Rewritten(q, r)
        /\ page'[q].ptr = [pg.ptr EXCEPT ![l.i + 1] = l.val]
        /\ page'[q].sc = pg.sc
    BY <1>2, <1>3, <2>1, PtrStored
  <2>4. page[l.p].level > 0 => l.i \in -1..(l.num - 1)
    BY <1>1, <1>16, AtInsert
  <2>5. page[l.p].level > 0 => l.i + 1 # cardinality - 1
    BY <1>2, <1>7, <2>4
  <2>6. page[l.p].level > 0 => ChildRef(l.val, pg.level - 1)
    BY <1>1, <1>2, AtPage DEF Carries, ChildRef
  <2>7. InsertFits(l, label, l.i + 1, l.val)
    BY <1>2, <2>2, <2>3, <2>5, <2>6 DEF InsertFits
  <2> QED
    BY <1>1, <1>3, <2>1, <2>2, <2>7, InsertGoesOn DEF Inserting
<1>17. CASE pc[t] = "end0"
  <2>1. Goto(t, "putlast") /\ loc' = loc
        /\ page' = [page EXCEPT ![q].ptr[1] = Null]
    BY <1>17 DEF InsertKey
  <2>2. /\ \E r : Rewritten(q, r)
        /\ page'[q].ptr = [pg.ptr EXCEPT ![1] = Null]
        /\ page'[q].sc = pg.sc
    BY <1>2, <1>3, <2>1, PtrStored
  <2>3. InsertFits(l, "putlast", 1, Null)
    BY <1>6, <2>2 DEF InsertFits
  <2> QED
    BY <1>1, <1>3, <2>1, <2>3, InsertGoesOn DEF Inserting
<1>18. CASE pc[t] = "putlast"
  <2>1. loc' = loc /\ page' = [page EXCEPT ![q].last = l.num]
    BY <1>18 DEF InsertKey
  <2>2. PICK label \in {"unlock", "grow"} :
          /\ Goto(t, label)
          /\ label = "unlock" <=> l.newp = Null
    BY <1>18 DEF InsertKey
  <2>3. /\ \E r : Rewritten(q, r)
        /\ page'[q].ptr = pg.ptr /\ page'[q].sc = pg.sc
    BY <1>2, <1>3, <2>1, OtherStored
  <2>4. InsertFits(l, label, 0, Null)
    BY <2>2, <2>3 DEF InsertFits
  <2> QED
    BY <1>1, <1>3, <2>1, <2>2, <2>4, InsertGoesOn DEF Inserting
<1> QED
  BY <1>11, <1>12, <1>13, <1>14, <1>15, <1>16, <1>17, <1>18 DEF InsertKey

-----------------------------------------------------------------------------
(* Splits.                                                                 *)

\* count() of a page that has an end.
LEMMA CountIs ==
  ASSUME NEW p, NEW j \in Slot, page[p].ptr[j] = Null
  PROVE  /\ CountLocked(p) \in 0..j /\ page[p].ptr[CountLocked(p)] = Null
         /\ \A i \in 0..(CountLocked(p) - 1) : page[p].ptr[i] # Null
<1> DEFINE T == {c \in Nat : c <= j /\ page[p].ptr[c] = Null}
           Is(c) == /\ c = cardinality \/ page[p].ptr[c] = Null
                    /\ \A i \in 0..(c - 1) : page[p].ptr[i] # Null
<1>1. j \in Nat /\ cardinality \in Nat /\ j < cardinality /\ j \in T
  BY FastFairConstants DEF Slot
<1>2. PICK d \in T : \A e \in T : ~(<<e, d>> \in OpToRel(<, Nat))
  <2> HIDE DEF T
  <2>1. T \subseteq Nat /\ T # {}
    BY <1>1 DEF T
  <2> QED
    BY <2>1, NatLessThanWellFounded, WFMin
<1>3. \A e \in T : ~(e < d)
  BY <1>2 DEF OpToRel
<1>4. d \in 0..cardinality /\ Is(d)
  <2>1. d \in Nat /\ d <= j /\ page[p].ptr[d] = Null
    BY <1>2
  <2>2. ASSUME NEW i \in 0..(d - 1), page[p].ptr[i] = Null PROVE FALSE
    <3>1. i \in Nat /\ i < d /\ i <= j
      BY <1>1, <2>1
    <3>2. i \in T
      BY <2>2, <3>1
    <3> QED
      BY <1>3, <3>1, <3>2
  <2> QED
    BY <1>1, <2>1, <2>2
<1>5. CountLocked(p) = CHOOSE c \in 0..cardinality : Is(c)
  BY DEF CountLocked
<1>6. CountLocked(p) \in 0..cardinality /\ Is(CountLocked(p))
  <2> HIDE DEF Is
  <2> QED
    BY <1>4, <1>5
<1>7. PICK c : c = CountLocked(p)
  OBVIOUS
<1>8. c \in 0..cardinality /\ Is(c)
  BY <1>6, <1>7
<1>9. c <= j
  BY <1>1, <1>8
<1> QED
  BY <1>1, <1>7, <1>8, <1>9

LEMMA EvenNext ==
  ASSUME NEW n \in Nat \ {0}, n % 2 = 0, NEW s \in 0..(n - 1), s % 2 = 0
  PROVE  (s + 2) % n \in 0..(n - 1) /\ ((s + 2) % n) % 2 = 0
<1>0. s + 2 < n \/ s + 2 = n \/ s + 2 > n
  <2>1. s \in Int /\ n \in Int
    OBVIOUS
  <2> QED
    BY <2>1
<1>1. CASE s + 2 < n
  <2>1. (s + 2) % n = s + 2 /\ (s + 2) % 2 = 0
    BY <1>1
  <2> QED
    BY <1>1, <2>1
<1>2. CASE s + 2 = n
  <2>1. (s + 2) % n = 0
    BY <1>2
  <2> QED
    BY <2>1
<1>3. CASE s + 2 > n
  <2>1. s = n - 1
    BY <1>3
  <2> QED
    BY <2>1
<1> QED
  BY <1>0, <1>1, <1>2, <1>3

LEMMA SplitGoesOn ==
  ASSUME FFInv, NEW t \in Thread, pc[t] \in {"switch", "cut", "last"},
         UNCHANGED <<root, npages, work, mtx>>,
         NEW label \in {"cut", "last", "insert"}, Goto(t, label),
         NEW m, DOMAIN m = LocalFields, Becomes(t, m), SameCall(m, loc[t]),
         m.p = loc[t].p, NEW r, Rewritten(m.p, r),
         page[m.p].level > 0 => InnerOK(m.p)',
         Frame(t) => SplitOK(t)' /\ InsertOK(t)'
  PROVE  FFInv'
<1> DEFINE l == loc[t]
<1>1. /\ pc[t] \in Held /\ pc[t] \in Storing
      /\ label \in Held /\ label \in Storing /\ label \notin Removing
      /\ label # "split" /\ label \in Label
  BY DEF Held, Storing, Inserting, Removing, Label
<1>2. Moves(t, label, m) /\ MutexStep(t)
  BY <1>1, MovesTo, MutexKept
<1>3. l.newp # Null
  BY DEF FFInv, ThreadOK, SplitOK
<1>4. /\ Splitting(t) /\ Splitting(t)' /\ m.newp = l.newp
  BY <1>2, <1>3 DEF Splitting, Moves, SameCall, Inserting
<1>5. l.p \in Allocated /\ Mine(t, l.p)
  BY <1>1, AtPage DEF Mine
<1>6. /\ Frame(t) /\ Allocated' = Allocated
      /\ \A x \in Allocated : page'[x].sibling = page[x].sibling
  BY <1>2, <1>4, <1>5, WriteFrame
<1>7. ThreadOK(t)'
  BY <1>1, <1>2, <1>4, <1>6, WriterGoesOn DEF Moves, SameCall
<1> QED
  BY <1>1, <1>2, <1>4, <1>5, <1>7, WriteStep DEF Moves

\* What a thread that splits a page knows before it cuts it off.
LEMMA AtSplit ==
  ASSUME FFInv, NEW t \in Thread, pc[t] \in {"split", "switch", "cut", "last"}
  PROVE  LET l == loc[t] IN
         /\ pc[t] \in Held /\ pc[t] \in Storing /\ DOMAIN loc = Thread
         /\ DOMAIN l = LocalFields /\ DOMAIN page = PageId
         /\ l.p \in Allocated /\ l.p \in PageId /\ Mine(t, l.p)
         /\ DOMAIN page[l.p] = PageFields /\ l.ip = l.p
         /\ page[l.p].level > 0 => InnerOK(l.p)
         /\ pc[t] # "split" =>
              /\ l.newp # Null /\ l.newp \in Allocated /\ l.newp # l.p
              /\ page[l.newp].level = page[l.p].level
              /\ page[l.p].level > 0 =>
                   /\ l.num \in 0..(cardinality - 2)
                   /\ page[l.newp].ptr[cardinality - 2] = Null
                   /\ pc[t] = "last" => page[l.p].ptr[l.num] = Null
<1>1. pc[t] \in Held /\ pc[t] \in Storing
  BY DEF Held, Storing
<1>2. SplitOK(t) /\ NewOK(t) /\ Shape
  BY DEF FFInv, ThreadOK
<1>3. pc[t] # "split" => Splitting(t)
  BY <1>2 DEF SplitOK, Splitting
<1> QED
  BY <1>1, <1>2, <1>3, AtPage DEF SplitOK, NewOK, Shape, Mine

LEMMA InvSwitch ==
  ASSUME FFInv, NEW t \in Thread, Split(t), pc[t] = "switch"
  PROVE  FFInv'
<1> DEFINE l == loc[t]
           pg == page[l.p]
<1>1. /\ Goto(t, "cut") /\ loc' = loc
      /\ page' = [page EXCEPT ![l.p].sc =
                    (IF IsForward(pg.sc) THEN pg.sc + 2 ELSE pg.sc + 1) % SwitchMod]
      /\ UNCHANGED <<root, npages, work, mtx>>
  BY DEF Split, ghost
<1>2. PICK v : page' = [page EXCEPT ![l.p].sc = v]
               /\ (IsForward(pg.sc) => v = (pg.sc + 2) % SwitchMod)
  BY <1>1
<1>3. PICK r : Rewritten(l.p, r)
  BY <1>2, AtSplit, OneField
<1>4. /\ DOMAIN l = LocalFields /\ Becomes(t, l) /\ SameCall(l, l)
      /\ l.p \in Allocated
  BY <1>1, AtSplit DEF Becomes, SameCall, SameGoal
<1>5. /\ page'[l.p].sc = v /\ page'[l.p].ptr = pg.ptr
      /\ page'[l.p].level = pg.level /\ page'[l.p].leftmost = pg.leftmost
  <2>1. page'[l.p] = [pg EXCEPT !.sc = v]
    BY <1>2, AtSplit
  <2> QED
    BY <2>1, AtSplit, FieldNames
<1>6. \A x \in Allocated : x # l.p => page'[x] = page[x]
  BY <1>2
<1>7. PICK p : p = l.p
  OBVIOUS
<1>8. Splitting(t) /\ Splitting(t)'
  BY <1>1, AtSplit DEF Splitting, Goto, FFInv, Shape
<1>9. Moves(t, "cut", l) /\ MutexStep(t)
  BY <1>1, <1>4, MovesTo, MutexKept DEF Label
<1>10. Frame(t)
  BY <1>1, <1>3, <1>4, <1>8, <1>9, AtSplit, WriteFrame
<1>11. page[p].level > 0 => InnerOK(p)'
  <2> SUFFICES ASSUME page[p].level > 0 PROVE InnerOK(p)'
    OBVIOUS
  <2>1. InnerOK(p)
    BY <1>7, AtSplit
  <2>2. v \in 0..(SwitchMod - 1) /\ v % 2 = 0
    BY <1>2, <1>7, <2>1, EvenNext, FastFairConstants DEF InnerOK, IsForward
  <2> QED
    BY <1>4, <1>5, <1>7, <1>10, <2>1, <2>2, InnerStays, SMTT(30) DEF InnerOK
<1>12. SplitOK(t)' /\ InsertOK(t)'
  BY <1>1, <1>5, <1>6, <1>9, AtSplit DEF SplitOK, InsertOK, Moves, Inserting
<1>13. PICK m : m = l
  OBVIOUS
<1> QED
  BY <1>1, <1>3, <1>4, <1>7, <1>11, <1>12, <1>13, SplitGoesOn

LEMMA InvCut ==
  ASSUME FFInv, NEW t \in Thread, Split(t), pc[t] = "cut"
  PROVE  FFInv'
<1> DEFINE l == loc[t]
           pg == page[l.p]
<1>1. /\ Goto(t, "last") /\ loc' = loc
      /\ page' = [page EXCEPT ![l.p].ptr[l.num] = Null]
      /\ UNCHANGED <<root, npages, work, mtx>>
  BY DEF Split, ghost
<1>2. /\ \E r : Rewritten(l.p, r)
      /\ page'[l.p].ptr = [pg.ptr EXCEPT ![l.num] = Null]
      /\ page'[l.p].sc = pg.sc
  BY <1>1, AtSplit, PtrStored
<1>3. PICK r : Rewritten(l.p, r)
  BY <1>2
<1>4. /\ DOMAIN l = LocalFields /\ Becomes(t, l) /\ SameCall(l, l)
      /\ l.p \in Allocated
  BY <1>1, AtSplit DEF Becomes, SameCall, SameGoal
<1>5. page'[l.p].level = pg.level /\ page'[l.p].leftmost = pg.leftmost
  BY <1>3, AtSplit DEF Rewritten
<1>6. \A x \in Allocated : x # l.p => page'[x] = page[x]
  BY <1>1
<1>7. PICK p : p = l.p
  OBVIOUS
<1>8. Splitting(t) /\ Splitting(t)'
  BY <1>1, AtSplit DEF Splitting, Goto, FFInv, Shape
<1>9. Moves(t, "last", l) /\ MutexStep(t)
  BY <1>1, <1>4, MovesTo, MutexKept DEF Label
<1>10. Frame(t)
  BY <1>1, <1>3, <1>4, <1>8, <1>9, AtSplit, WriteFrame, SMTT(30)
<1>11. page[p].level > 0 => InnerOK(p)'
  BY <1>2, <1>4, <1>7, <1>10, InnerWrite DEF ChildRef
<1>12. page[p].level > 0 => page'[p].ptr[l.num] = Null
  <2>1. page[p].level > 0 => DOMAIN pg.ptr = Slot /\ l.num \in Slot
    BY <1>7, AtSplit, FastFairConstants DEF InnerOK, Slot
  <2> QED
    BY <1>2, <1>7, <2>1
<1>13. SplitOK(t)' /\ InsertOK(t)'
  BY <1>1, <1>5, <1>6, <1>7, <1>9, <1>12, AtSplit
     DEF SplitOK, InsertOK, Moves, Inserting
<1>14. PICK m : m = l
  OBVIOUS
<1> QED
  BY <1>1, <1>3, <1>4, <1>7, <1>11, <1>13, <1>14, SplitGoesOn

LEMMA InvLast ==
  ASSUME FFInv, NEW t \in Thread, Split(t), pc[t] = "last"
  PROVE  FFInv'
<1> DEFINE l == loc[t]
           pg == page[l.p]
           n == CountLocked(l.newp)
<1>1. /\ Goto(t, "insert") /\ page' = [page EXCEPT ![l.p].last = l.num - 1]
      /\ loc' = loc \/ loc' = [loc EXCEPT ![t].ip = l.newp, ![t].num = n]
      /\ UNCHANGED <<root, npages, work, mtx>>
  BY DEF Split, ghost
<1>2. /\ \E r : Rewritten(l.p, r)
      /\ page'[l.p].ptr = pg.ptr /\ page'[l.p].sc = pg.sc
  BY <1>1, AtSplit, OtherStored
<1>3. PICK r : Rewritten(l.p, r)
  BY <1>2
<1>4. PICK m : /\ DOMAIN m = LocalFields /\ Becomes(t, m) /\ SameCall(m, l)
               /\ m.p = l.p
               /\ \/ m.ip = l.p /\ m.num = l.num
                  \/ m.ip = l.newp /\ m.num = n
  <2>1. CASE loc' = loc
    BY <2>1, AtSplit DEF Becomes, SameCall, SameGoal
  <2>2. CASE loc' = [loc EXCEPT ![t].ip = l.newp, ![t].num = n]
    <3>1. PICK m : m = [l EXCEPT !.ip = l.newp, !.num = n]
      OBVIOUS
    <3>2. DOMAIN m = LocalFields /\ SameCall(m, l) /\ m.p = l.p
          /\ m.ip = l.newp /\ m.num = n
      BY <3>1, AtSplit, FieldNames DEF SameCall, SameGoal
    <3>3. loc' = [loc EXCEPT ![t] = [l EXCEPT !.ip = l.newp, !.num = n]]
      BY <2>2, AtSplit, FieldNames
    <3> QED
      BY <3>1, <3>2, <3>3 DEF Becomes
  <2> QED
    BY <1>1, <2>1, <2>2
<1>5. /\ page'[l.p].level = pg.level /\ page'[l.p].leftmost = pg.leftmost
      /\ l.p \in Allocated
  BY <1>3, AtSplit DEF Rewritten
<1>6. \A x \in Allocated : x # l.p => page'[x] = page[x]
  BY <1>1
<1>7. PICK p : p = l.p
  OBVIOUS
<1>8. Moves(t, "insert", m) /\ MutexStep(t)
  BY <1>1, <1>4, MovesTo, MutexKept DEF Label
<1>9. Splitting(t) /\ Splitting(t)' /\ m.newp = l.newp
  BY <1>4, <1>8, AtSplit DEF Splitting, Moves, SameCall, Inserting
<1>10. Frame(t)
  BY <1>1, <1>3, <1>5, <1>8, <1>9, AtSplit, WriteFrame, SMTT(30)
<1>11. page[p].level > 0 => InnerOK(p)'
  BY <1>2, <1>5, <1>7, <1>10, InnerWrite
<1>12. ASSUME pg.level > 0
       PROVE  m.num \in 0..(cardinality - 2) /\ page'[m.ip].ptr[m.num] = Null
  <2>1. /\ l.num \in 0..(cardinality - 2) /\ pg.ptr[l.num] = Null
        /\ page[l.newp].ptr[cardinality - 2] = Null
        /\ page'[l.newp] = page[l.newp]
    BY <1>6, <1>12, AtSplit
  <2>2. cardinality - 2 \in Slot
    BY FastFairConstants DEF Slot
  <2>3. n \in 0..(cardinality - 2) /\ page[l.newp].ptr[n] = Null
    BY <2>1, <2>2, CountIs
  <2> QED
    BY <1>2, <1>4, <2>1, <2>3
<1>13. SplitOK(t)' /\ InsertOK(t)'
  <2>1. SplitOK(t)'
    BY <1>8 DEF SplitOK, Moves
  <2>2. m.ip = m.p \/ (m.newp # Null /\ m.ip = m.newp)
    BY <1>4, <1>9, AtSplit
  <2> QED
    BY <1>4, <1>5, <1>8, <1>12, <2>1, <2>2 DEF InsertOK, Moves
<1> QED
  BY <1>1, <1>3, <1>4, <1>7, <1>11, <1>13, SplitGoesOn

\* What a page that is split off holds.
LEMMA SiblingIs ==
  ASSUME FFInv, NEW t \in Thread, pc[t] = "split", NEW p, p = loc[t].p,
         NEW m, m = SplitAt(p), NEW s, s = Sibling(p, m)
  PROVE  /\ DOMAIN s = PageFields /\ s.level = page[p].level
         /\ s.sibling = page[p].sibling
         /\ s.leftmost = Null <=> page[p].level = 0
         /\ page[p].level > 0 =>
              /\ m \in 0..(cardinality - 2)
              /\ s.sc = 0 /\ Known(s.leftmost, page[p].level - 1)
              /\ DOMAIN s.ptr = Slot
              /\ \A i \in Slot : ChildRef(s.ptr[i], page[p].level - 1)
              /\ s.ptr[cardinality - 1] = Null /\ s.ptr[cardinality - 2] = Null
<1> DEFINE from == FirstMoved(p, m)
           n == CountLocked(p) - from
           N == [EmptyPage EXCEPT
                   !.level = page[p].level,
                   !.leftmost = IF IsLeaf(p) THEN Null ELSE page[p].ptr[m],
                   !.sibling = page[p].sibling,
                   !.last = n - 1,
                   !.key = [i \in Slot |-> IF i < n THEN page[p].key[from + i]
                                                    ELSE Infinity],
                   !.ptr = [i \in Slot |-> IF i < n THEN page[p].ptr[from + i]
                                                    ELSE Null]]
<1>1. s = N
  BY DEF Sibling
<1>2. /\ DOMAIN s = PageFields /\ s.level = page[p].level
      /\ s.sibling = page[p].sibling /\ s.sc = 0
      /\ s.leftmost = IF IsLeaf(p) THEN Null ELSE page[p].ptr[m]
      /\ s.ptr = [i \in Slot |-> IF i < n THEN page[p].ptr[from + i] ELSE Null]
  <2> HIDE DEF from, n
  <2> QED
    BY <1>1 DEF EmptyPage, PageFields
<1>3. /\ page[p].level \in Nat /\ (IsLeaf(p) <=> page[p].level = 0)
      /\ page[p].level > 0 => InnerOK(p)
  BY AtPage DEF Held, Storing
<1>4. ASSUME page[p].level > 0
      PROVE  /\ CountLocked(p) = cardinality - 1
             /\ m \in 0..(cardinality - 2) /\ n = cardinality - 2 - m
             /\ from = m + 1
             /\ \A i \in 0..(cardinality - 2) : page[p].ptr[i] # Null
  <2>1. /\ \A i \in 0..(cardinality - 2) : page[p].ptr[i] # Null
        /\ page[p].ptr[cardinality - 1] = Null
    BY <1>3, <1>4 DEF FFInv, ThreadOK, SplitOK, InnerOK
  <2>2. cardinality - 1 \in Slot /\ cardinality \in Nat /\ cardinality > 3
    BY FastFairConstants DEF Slot
  <2>3. PICK c : c = CountLocked(p)
    OBVIOUS
  <2>4. c \in 0..(cardinality - 1) /\ page[p].ptr[c] = Null
    BY <2>1, <2>2, <2>3, CountIs
  <2>5. c = cardinality - 1
    BY <2>1, <2>2, <2>4
  <2>6. m = (cardinality - 1) \div 2
    BY <2>3, <2>5 DEF SplitAt
  <2>7. m \in 0..(cardinality - 2)
    BY <2>2, <2>6
  <2>8. from = m + 1
    BY <1>3, <1>4 DEF FirstMoved
  <2> QED
    BY <2>1, <2>2, <2>3, <2>5, <2>7, <2>8
<1>5. cardinality \in Nat /\ cardinality > 3 /\ Slot = 0..(cardinality - 1)
  BY FastFairConstants DEF Slot
<1>6. s.leftmost = Null <=> page[p].level = 0
  BY <1>2, <1>3, <1>4, SMTT(30)
<1>7. ASSUME page[p].level > 0
      PROVE  /\ Known(s.leftmost, page[p].level - 1)
             /\ DOMAIN s.ptr = Slot
             /\ \A i \in Slot : ChildRef(s.ptr[i], page[p].level - 1)
             /\ s.ptr[cardinality - 1] = Null /\ s.ptr[cardinality - 2] = Null
  <2>1. \A i \in Slot : ChildRef(page[p].ptr[i], page[p].level - 1)
    BY <1>3, <1>7 DEF InnerOK
  <2>2. /\ m \in 0..(cardinality - 2) /\ n = cardinality - 2 - m /\ from = m + 1
        /\ page[p].ptr[m] # Null
    BY <1>4, <1>7
  <2>3. Known(s.leftmost, page[p].level - 1)
    BY <1>2, <1>3, <1>5, <1>7, <2>1, <2>2, SMTT(30) DEF ChildRef
  <2> HIDE DEF from, n
  <2>4. ASSUME NEW i \in Slot PROVE ChildRef(s.ptr[i], page[p].level - 1)
    <3>1. CASE i < n
      <4>1. from + i \in Slot /\ s.ptr[i] = page[p].ptr[from + i]
        BY <1>2, <1>5, <2>2, <3>1
      <4> QED
        BY <2>1, <4>1
    <3>2. CASE ~(i < n)
      BY <1>2, <3>2 DEF ChildRef
    <3> QED
      BY <3>1, <3>2
  <2>5. s.ptr[cardinality - 1] = Null /\ s.ptr[cardinality - 2] = Null
    BY <1>2, <1>5, <2>2, SMTT(30)
  <2> QED
    BY <1>2, <2>3, <2>4, <2>5
<1> QED
  BY <1>2, <1>4, <1>6, <1>7

\* The page that npages + 1 makes one of the tree.
LEMMA NewPage ==
  ASSUME Shape, npages < MaxPage, npages' = npages + 1
  PROVE  LET s == -(npages + 1) IN
         /\ s \in PageId /\ s \notin Allocated /\ s # Null
         /\ Allocated' = Allocated \cup {s} /\ npages' \in 1..MaxPage
         /\ npages <= npages' /\ Allocated \subseteq PageId
<1>1. npages \in Nat /\ MaxPage \in Nat /\ npages + 1 \in 1..MaxPage
  BY FastFairConstants DEF Shape
<1>2. \A q \in PageId : \E i \in 1..MaxPage : q = -i
  BY DEF PageId
<1>3. -(npages + 1) \in PageId
  BY <1>1 DEF PageId
<1>4. -(npages + 1) \notin Allocated
  BY <1>1 DEF Allocated
<1>5. ASSUME NEW q PROVE q \in Allocated' <=> q \in Allocated \/ q = -(npages + 1)
  <2>1. CASE q \in PageId
    <3>1. PICK i \in 1..MaxPage : q = -i
      BY <1>2, <2>1
    <3>2. i \in Int /\ -q = i
      BY <1>1, <3>1
    <3> QED
      BY <1>1, <2>1, <3>1, <3>2 DEF Allocated
  <2>2. CASE q \notin PageId
    BY <1>3, <2>2 DEF Allocated
  <2> QED
    BY <2>1, <2>2
<1> QED
  BY <1>1, <1>3, <1>4, <1>5 DEF Allocated

LEMMA InvSplitOff ==
  ASSUME FFInv, NEW t \in Thread, Split(t), pc[t] = "split"
  PROVE  FFInv'
<1> DEFINE l == loc[t]
<1>1. PICK p : p = l.p
  OBVIOUS
<1>2. PICK m : m = SplitAt(p)
  OBVIOUS
<1>3. PICK s : s = -(npages + 1)
  OBVIOUS
<1>4. PICK S : S = Sibling(p, m)
  OBVIOUS
<1>5. /\ npages < MaxPage /\ npages' = npages + 1
      /\ page' = [page EXCEPT ![s] = S, ![p].sibling = s]
      /\ loc' = [loc EXCEPT ![t].newp = s, ![t].num = m,
                            ![t].split = page[p].key[m]]
      /\ Goto(t, "switch") /\ UNCHANGED <<root, mtx, work>>
  BY <1>1, <1>2, <1>3, <1>4 DEF Split, ghost
<1>6. /\ pc[t] \in Held /\ pc[t] \in Storing /\ DOMAIN loc = Thread
      /\ DOMAIN l = LocalFields /\ DOMAIN page = PageId
      /\ p \in Allocated /\ p \in PageId /\ DOMAIN page[p] = PageFields
      /\ l.ip = p /\ Mine(t, p) /\ mtx[p] = t
      /\ page[p].level \in Nat
      /\ ~Splitting(t)
  BY <1>1, AtSplit, AtPage DEF Splitting, Inserting
<1>7. /\ ~Deletes(t) /\ Stores(t) /\ NotNew(p) /\ Carries(t)
      /\ page[p].level = l.target
      /\ p = root \/ page[p].level < page[root].level
  BY <1>1, <1>6, AtPage
<1>8. /\ s \in PageId /\ s \notin Allocated /\ s # Null
      /\ Allocated' = Allocated \cup {s} /\ npages' \in 1..MaxPage
      /\ npages <= npages' /\ Allocated \subseteq PageId
  BY <1>3, <1>5, NewPage DEF FFInv
<1>9. /\ DOMAIN S = PageFields /\ S.level = page[p].level
      /\ S.sibling = page[p].sibling
      /\ S.leftmost = Null <=> page[p].level = 0
      /\ page[p].level > 0 =>
           /\ m \in 0..(cardinality - 2)
           /\ S.sc = 0 /\ Known(S.leftmost, page[p].level - 1)
           /\ DOMAIN S.ptr = Slot
           /\ \A i \in Slot : ChildRef(S.ptr[i], page[p].level - 1)
           /\ S.ptr[cardinality - 1] = Null /\ S.ptr[cardinality - 2] = Null
  BY <1>1, <1>2, <1>4, SiblingIs
<1>10. PICK k : /\ k = [l EXCEPT !.newp = s, !.num = m, !.split = page[p].key[m]]
  OBVIOUS
<1>11. /\ DOMAIN k = LocalFields /\ SameGoal(k, l) /\ k.p = p /\ k.ip = p
       /\ k.newp = s /\ k.num = m
  BY <1>1, <1>6, <1>10, FieldNames DEF SameGoal
<1>12. Becomes(t, k)
  <2>1. loc' = [loc EXCEPT ![t] = [l EXCEPT !.newp = s, !.num = m,
                                            !.split = page[p].key[m]]]
    BY <1>5, <1>6, FieldNames
  <2> QED
    BY <1>10, <2>1 DEF Becomes
<1>13. Moves(t, "switch", k)
  BY <1>5, <1>11, <1>12, MovesTo DEF Label
<1>14. /\ page'[s] = S /\ page'[p] = [page[p] EXCEPT !.sibling = s]
       /\ DOMAIN page' = PageId
       /\ \A x \in PageId : x # s /\ x # p => page'[x] = page[x]
  BY <1>5, <1>6, <1>8
<1>15. /\ DOMAIN page'[p] = PageFields /\ page'[p].sibling = s
       /\ page'[p].level = page[p].level /\ page'[p].leftmost = page[p].leftmost
       /\ page'[p].ptr = page[p].ptr /\ page'[p].sc = page[p].sc
  BY <1>6, <1>14, FieldNames
<1>16. Shape'
  BY <1>5, <1>8, <1>9, <1>13, <1>14, <1>15 DEF FFInv, Shape, Moves
<1>17. \A u \in Thread \ {t} : Splitting(u) => page[p].sibling # loc[u].newp
  <2> SUFFICES ASSUME NEW u \in Thread \ {t}, Splitting(u)
               PROVE  page[p].sibling # loc[u].newp
    OBVIOUS
  <2>1. NewOK(u) /\ MutexOK(u) /\ pc[u] \in Held
    BY DEF FFInv, ThreadOK, Splitting, Held, Storing
  <2>2. loc[u].p # p
    BY <1>6, <2>1 DEF MutexOK
  <2> QED
    BY <1>6, <2>1, <2>2 DEF NewOK
<1>18. Frame(t)
  <2>1. \A x \in Allocated :
          /\ page'[x].level = page[x].level
          /\ page'[x].leftmost = page[x].leftmost
          /\ page'[x].sibling # page[x].sibling =>
               x = p /\ page'[x].sibling = s
          /\ page'[x] # page[x] => x = p
    BY <1>8, <1>14, <1>15
  <2>2. \A x \in Allocated' \ Allocated : page'[x].sibling = page[p].sibling
    BY <1>8, <1>9, <1>14
  <2> QED
    BY <1>1, <1>5, <1>6, <1>8, <1>11, <1>13, <1>16, <1>17, <2>1, <2>2, SMTT(30)
       DEF Frame, Moves
<1>19. Splitting(t)' /\ pc'[t] = "switch" /\ loc'[t] = k
  BY <1>8, <1>11, <1>13 DEF Moves, Splitting
<1>20. \A x \in Allocated : page[x].sibling # s
  BY <1>8 DEF FFInv, PageOK
<1>21. \A x, lev : /\ Known(x, lev) => Known(x, lev)'
                   /\ ChildRef(x, lev) => ChildRef(x, lev)'
  BY <1>18, KnownStays DEF FFInv
<1>22. ASSUME NEW x \in Allocated PROVE PageOK(x)'
  <2>1. CASE x # p
    <3>1. page'[x] = page[x]
      BY <1>8, <1>14, <2>1
    <3> QED
      BY <1>18, <3>1, PageStays
  <2>2. CASE x = p
    <3>1. page'[p].sibling \in Allocated' /\ page'[page'[p].sibling].level = page[p].level
      BY <1>8, <1>9, <1>14, <1>15
    <3>2. ASSUME page[p].level > 0 PROVE InnerOK(p)'
      <4>1. InnerOK(p)
        BY <1>6, <3>2 DEF FFInv, PageOK
      <4> QED
        BY <1>6, <1>15, <1>18, <3>2, <4>1, InnerStays DEF InnerOK
    <3> QED
      BY <1>6, <1>18, <2>2, <3>1, <3>2, PageStays
  <2> QED
    BY <2>1, <2>2
<1>23. PageOK(s)'
  <2>1. PageOK(p) /\ page[p].level <= page[root].level /\ root \in Allocated
    BY <1>6 DEF FFInv, PageOK, RootOK
  <2>2. page'[root'].level = page[root].level
    BY <1>5, <1>18, <2>1 DEF Frame
  <2>3. page'[s].sibling # Null => /\ page'[s].sibling \in Allocated'
                                  /\ page'[page'[s].sibling].level = page'[s].level
    BY <1>8, <1>9, <1>14, <1>18, <2>1 DEF PageOK, Frame
  <2>4. ASSUME page[p].level > 0 PROVE InnerOK(s)'
    <3>1. /\ S.sc = 0 /\ Known(S.leftmost, page[p].level - 1)
          /\ DOMAIN S.ptr = Slot
          /\ \A i \in Slot : ChildRef(S.ptr[i], page[p].level - 1)
          /\ S.ptr[cardinality - 1] = Null
      BY <1>9, <2>4
    <3>2. PICK lev : lev = page[p].level - 1
      OBVIOUS
    <3>3. Known(S.leftmost, lev)' /\ \A i \in Slot : ChildRef(S.ptr[i], lev)'
      BY <1>21, <3>1, <3>2
    <3>4. /\ page'[s] = S /\ page'[s].level - 1 = lev
          /\ 0 \in 0..(SwitchMod - 1) /\ 0 % 2 = 0
      BY <1>9, <1>14, <3>2, FastFairConstants
    <3>5. Slot' = Slot
      BY DEF Slot
    <3> QED
      BY <3>1, <3>3, <3>4, <3>5 DEF InnerOK, Known, ChildRef, NotNew
  <2> QED
    BY <1>6, <1>9, <1>14, <2>1, <2>2, <2>3, <2>4 DEF PageOK
<1>24. RootOK'
  <2>1. page'[root].sibling # page[root].sibling => loc'[t].p = root
    BY <1>1, <1>11, <1>18, <1>19 DEF Frame, FFInv, RootOK
  <2> QED
    BY <1>5, <1>6, <1>18, <1>19, <2>1, RootStays
<1>25. NewOK(t)'
  <2>1. /\ s \in Allocated' /\ s # p /\ page'[s].level = page'[p].level
        /\ page'[p].sibling = s
    BY <1>6, <1>8, <1>9, <1>14, <1>15
  <2>2. ASSUME NEW q \in Allocated' \ {p} PROVE page'[q].sibling # s
    <3>1. CASE q = s
      BY <1>6, <1>9, <1>14, <1>20, <3>1
    <3>2. CASE q # s
      BY <1>8, <1>14, <1>20, <2>2, <3>2
    <3> QED
      BY <3>1, <3>2
  <2>3. ASSUME NEW u \in Thread \ {t}, Splitting(u)' PROVE loc'[u].newp # s
    <3>1. Splitting(u) /\ loc'[u] = loc[u]
      BY <1>18, <2>3, OthersSplit
    <3> QED
      BY <1>8, <3>1 DEF FFInv, ThreadOK, NewOK
  <2> QED
    BY <1>11, <1>19, <2>1, <2>2, <2>3 DEF NewOK
<1>26. WriterOK(t)'
  <2>1. /\ Deletes(t)' = Deletes(t) /\ Stores(t)' = Stores(t) /\ Carries(t)'
    BY <1>7, <1>11, <1>18, <1>19, CallGoesOn
  <2>2. NotNew(p)'
    BY <1>6, <1>7, <1>18, KnownStays DEF FFInv
  <2>3. page'[p].level = k.target /\ p \in Allocated'
    BY <1>7, <1>8, <1>11, <1>15, <1>6 DEF SameGoal
  <2>4. p = root' \/ page'[p].level < page'[root'].level
    BY <1>5, <1>7, <1>15, <1>18 DEF Frame, FFInv, RootOK
  <2> QED
    BY <1>7, <1>11, <1>19, <2>1, <2>2, <2>3, <2>4
       DEF WriterOK, NotNew, Removing
<1>27. MutexOK(t)'
  BY <1>5, <1>6, <1>11, <1>19 DEF MutexOK
<1>28. SplitOK(t)'
  BY <1>8, <1>9, <1>11, <1>14, <1>15, <1>19 DEF SplitOK
<1>29. InsertOK(t)' /\ ReaderOK(t)' /\ UpOK(t)'
  BY <1>19 DEF InsertOK, ReaderOK, UpOK, Inserting, Reading, Counting, AtEntry
<1>30. ThreadOK(t)'
  BY <1>25, <1>26, <1>27, <1>28, <1>29 DEF ThreadOK
<1> QED
  BY <1>8, <1>18, <1>22, <1>23, <1>24, <1>30, StepEnds

LEMMA InvSplit ==
  ASSUME FFInv, NEW t \in Thread, Split(t)
  PROVE  FFInv'
<1>1. pc[t] \in {"split", "switch", "cut", "last"}
  BY SMTT(30) DEF Split
<1> QED
  BY <1>1, InvSplitOff, InvSwitch, InvCut, InvLast

-----------------------------------------------------------------------------
(* The other steps of writers.                                             *)

LEMMA WriterIs ==
  ASSUME NEW t \in Thread, pc'[t] \in {"lock", "store", "remove", "unlock"},
         MutexOK(t)', WriterOK(t)'
  PROVE  ThreadOK(t)'
BY DEF ThreadOK, NewOK, SplitOK, InsertOK, ReaderOK, UpOK, Splitting,
       Inserting, Reading, Counting, AtEntry

LEMMA InvLock ==
  ASSUME FFInv, NEW t \in Thread, Lock(t)
  PROVE  FFInv'
<1> DEFINE l == loc[t]
<1>1. /\ pc[t] = "lock" /\ mtx[l.p] = "none" /\ mtx' = [mtx EXCEPT ![l.p] = t]
      /\ UNCHANGED <<page, root, npages, loc, work>>
  BY DEF Lock, FreePage, ghost
<1>2. PICK label \in {"remove", "store"} :
        Goto(t, label) /\ (label = "remove" <=> Deletes(t))
  BY DEF Lock, Deletes
<1>3. /\ DOMAIN l = LocalFields /\ Becomes(t, l) /\ l.p \in PageId
      /\ l.p \in Allocated /\ SameGoal(l, l)
  BY <1>1, AtPage DEF Becomes, SameGoal
<1>4. Moves(t, label, l)
  BY <1>2, <1>3, MovesTo DEF Label
<1>5. MutexStep(t) /\ mtx'[l.p] = t
  BY <1>1, <1>3, MutexChange
<1>6. ~Splitting(t) /\ ~Splitting(t)'
  BY <1>1, <1>2, <1>4 DEF Splitting, Moves, Inserting
<1>7. Frame(t)
  BY <1>1, <1>4, <1>5, <1>6, WriteFrame
<1>8. Allocated' = Allocated
  BY <1>1 DEF Allocated
<1>9. WriterOK(t)'
  <2>1. /\ Deletes(t)' = Deletes(t) /\ Stores(t)' = Stores(t)
        /\ Carries(t) => Carries(t)'
    BY <1>1, <1>3, <1>7, CallGoesOn
  <2>2. NotNew(l.p) => NotNew(l.p)'
    <3>1. PICK p : p = l.p
      OBVIOUS
    <3> QED
      BY <1>1, <1>3, <1>7, <3>1, KnownStays DEF FFInv, NotNew
  <2>3. /\ Deletes(t) => page[l.p].level = 0
        /\ ~Deletes(t) =>
              /\ Stores(t) /\ NotNew(l.p) /\ Carries(t)
              /\ page[l.p].level = l.target
              /\ l.p = root \/ page[l.p].level < page[root].level
    BY <1>1, AtPage
  <2>4. pc'[t] = label /\ (label \in Removing <=> label = "remove")
        /\ (label \in Storing <=> label = "store")
    BY <1>4 DEF Moves, Removing, Storing, Inserting
  <2> QED
    BY <1>1, <1>2, <1>3, <1>8, <2>1, <2>2, <2>3, <2>4 DEF WriterOK
<1>10. MutexOK(t)'
  BY <1>1, <1>5 DEF MutexOK
<1>11. ThreadOK(t)'
  BY <1>4, <1>9, <1>10, WriterIs DEF Moves
<1> QED
  BY <1>1, <1>4, <1>5, <1>6, <1>11, WriteStep

LEMMA InvStoreDone ==
  ASSUME FFInv, NEW t \in Thread, StoreDone(t)
  PROVE  FFInv'
<1> DEFINE l == loc[t]
<1>1. /\ pc[t] = "unlock" /\ mtx' = [mtx EXCEPT ![l.p] = "none"]
      /\ Goto(t, "ret") /\ UNCHANGED <<page, root, npages, loc, work>>
  BY DEF StoreDone, Unlock, ghost
<1>2. pc[t] \in Held
  BY <1>1 DEF Held
<1>3. /\ DOMAIN l = LocalFields /\ Becomes(t, l) /\ l.p \in PageId
      /\ mtx[l.p] = t
  BY <1>1, <1>2, AtPage DEF Becomes
<1>4. Moves(t, "ret", l)
  BY <1>1, <1>3, MovesTo DEF Label
<1>5. MutexStep(t)
  BY <1>1, <1>3, MutexChange
<1>6. ~Splitting(t) /\ ~Splitting(t)'
  BY <1>1, <1>4 DEF Splitting, Moves, Inserting
<1>7. ThreadOK(t)'
  BY <1>4, Idle DEF Moves
<1> QED
  BY <1>1, <1>4, <1>5, <1>6, <1>7, WriteStep

\* A store goes on to the sibling of a page that it has locked: no page is
\* being split off there, and it is not the root.
LEMMA SiblingHop ==
  ASSUME FFInv, NEW t \in Thread, pc[t] = "store", NEW p, p = loc[t].p,
         page[p].sibling # Null
  PROVE  LET s == page[p].sibling IN
         /\ s \in Allocated /\ NotNew(s) /\ page[s].level = loc[t].target
         /\ page[s].level < page[root].level
<1>1. pc[t] \in Held /\ pc[t] \in Storing /\ ~Splitting(t)
  BY DEF Held, Storing, Splitting, Inserting
<1>2. /\ p \in Allocated /\ mtx[p] = t /\ ~Deletes(t)
      /\ page[p].level = loc[t].target
      /\ p = root \/ page[p].level < page[root].level
  BY <1>1, AtPage
<1>3. /\ page[p].sibling \in Allocated
      /\ page[page[p].sibling].level = page[p].level
  BY <1>2 DEF FFInv, PageOK
<1>4. ASSUME NEW u \in Thread, Splitting(u) PROVE loc[u].p # p
  <2>1. pc[u] \in Held
    BY <1>4 DEF Splitting, Held, Storing
  <2> QED
    BY <1>1, <1>2, <1>4, <2>1 DEF FFInv, ThreadOK, MutexOK
<1>5. NotNew(page[p].sibling)
  BY <1>2, <1>4 DEF NotNew, FFInv, ThreadOK, NewOK
<1>6. p # root
  BY <1>4 DEF FFInv, RootOK
<1> QED
  BY <1>2, <1>3, <1>5, <1>6

LEMMA InvStoreBeyond ==
  ASSUME FFInv, NEW t \in Thread, Store(t), BeyondSibling(t, loc[t].p)
  PROVE  FFInv'
<1> DEFINE l == loc[t]
<1>0. PICK p : p = l.p
  OBVIOUS
<1>1. PICK s : s = page[p].sibling
  OBVIOUS
<1>2. /\ pc[t] = "store" /\ s # Null /\ loc' = [loc EXCEPT ![t].p = s]
      /\ mtx' = [mtx EXCEPT ![p] = "none"] /\ Goto(t, "lock")
      /\ UNCHANGED <<page, root, npages, work>>
  BY <1>0, <1>1 DEF Store, BeyondSibling, Unlock, ghost
<1>3. pc[t] \in Held /\ pc[t] \in Storing
  BY <1>2 DEF Held, Storing
<1>4. /\ DOMAIN l = LocalFields /\ p \in PageId /\ mtx[p] = t
      /\ ~Deletes(t) /\ Stores(t) /\ Carries(t)
  BY <1>0, <1>3, AtPage
<1>5. /\ s \in Allocated /\ NotNew(s) /\ page[s].level = l.target
      /\ page[s].level < page[root].level
  BY <1>0, <1>1, <1>2, SiblingHop
<1>6. PICK m : m = [l EXCEPT !.p = s]
  OBVIOUS
<1>7. DOMAIN m = LocalFields /\ SameGoal(m, l) /\ m.p = s /\ Becomes(t, m)
  BY <1>2, <1>4, <1>6, FieldNames DEF SameGoal, Becomes
<1>8. Moves(t, "lock", m)
  BY <1>2, <1>7, MovesTo DEF Label
<1>9. MutexStep(t)
  BY <1>2, <1>4, MutexChange
<1>10. ~Splitting(t) /\ ~Splitting(t)'
  BY <1>2, <1>8 DEF Splitting, Moves, Inserting
<1>11. Frame(t)
  BY <1>2, <1>8, <1>9, <1>10, WriteFrame
<1>12. Allocated' = Allocated
  BY <1>2 DEF Allocated
<1>13. WriterOK(t)'
  <2>1. /\ Deletes(t)' = Deletes(t) /\ Stores(t)' = Stores(t) /\ Carries(t)'
    BY <1>4, <1>7, <1>8, <1>11, CallGoesOn DEF Moves
  <2>2. NotNew(s)'
    BY <1>5, <1>11, KnownStays DEF FFInv
  <2> QED
    BY <1>2, <1>4, <1>5, <1>7, <1>8, <1>12, <2>1, <2>2
       DEF WriterOK, Moves, NotNew, SameGoal, Removing, Storing, Inserting
<1>14. MutexOK(t)'
  BY <1>8 DEF MutexOK, Moves, Held, Storing, Removing, Inserting
<1>15. ThreadOK(t)'
  BY <1>8, <1>13, <1>14, WriterIs DEF Moves
<1> QED
  BY <1>2, <1>8, <1>9, <1>10, <1>15, WriteStep

\* The key is there: an update of a leaf writes its pointer.
LEMMA InvStoreThere ==
  ASSUME FFInv, NEW t \in Thread, Store(t), Goto(t, "ret"), loc' = loc,
         Unlock(t, loc[t].p),
         \/ page' = page
         \/ /\ IsLeaf(loc[t].p)
            /\ \E i, v : page' = [page EXCEPT ![loc[t].p].ptr[i] = v]
  PROVE  FFInv'
<1> DEFINE l == loc[t]
<1>0. PICK p : p = l.p
  OBVIOUS
<1>2. /\ pc[t] = "store" /\ mtx' = [mtx EXCEPT ![p] = "none"]
      /\ UNCHANGED <<root, npages, work>>
  BY <1>0, SMTT(30) DEF Store, Unlock, ghost
<1>3. pc[t] \in Held
  BY <1>2 DEF Held, Storing
<1>4. /\ DOMAIN l = LocalFields /\ p \in PageId /\ mtx[p] = t /\ Becomes(t, l)
      /\ p \in Allocated /\ Mine(t, p) /\ p \in DOMAIN page
      /\ DOMAIN page[p] = PageFields
      /\ IsLeaf(p) <=> page[p].level = 0
  BY <1>0, <1>3, AtPage DEF Becomes, Mine, FFInv, Shape
<1>5. PICK r : page' = page \/ (page[p].level = 0 /\ Rewritten(p, r))
  <2>1. CASE page' = page
    BY <2>1
  <2>2. CASE IsLeaf(p) /\ \E i, v : page' = [page EXCEPT ![p].ptr[i] = v]
    <3>1. PICK i, v : page' = [page EXCEPT ![p].ptr[i] = v]
      BY <2>2
    <3>2. \E r : Rewritten(p, r)
      BY <1>4, <3>1, PtrStored
    <3> QED
      BY <1>4, <2>2, <3>2
  <2> QED
    BY <1>0, <2>1, <2>2
<1>6. Moves(t, "ret", l)
  BY <1>2, <1>4, MovesTo DEF Label
<1>7. MutexStep(t)
  BY <1>2, <1>4, MutexChange
<1>8. ~Splitting(t) /\ ~Splitting(t)'
  BY <1>2, <1>6 DEF Splitting, Moves, Inserting
<1>9. ThreadOK(t)'
  BY <1>6, Idle DEF Moves
<1> QED
  BY <1>2, <1>4, <1>5, <1>6, <1>7, <1>8, <1>9, WriteStep

LEMMA InvStoreHere ==
  ASSUME FFInv, NEW t \in Thread, Store(t), ~BeyondSibling(t, loc[t].p),
         \A i \in 0..(CountLocked(loc[t].p) - 1) :
           page[loc[t].p].key[i] # loc[t].key
  PROVE  FFInv'
<1> DEFINE l == loc[t]
<1>0. PICK p, n : p = l.p /\ n = CountLocked(p)
  OBVIOUS
<1>1. /\ pc[t] = "store" /\ UNCHANGED <<page, mtx, root, npages, work>>
      /\ loc' = [loc EXCEPT ![t].ip = p, ![t].num = n, ![t].newp = Null]
      /\ Goto(t, IF n < cardinality - 1 THEN "insert" ELSE "split")
  BY <1>0, SMTT(30) DEF Store, ghost
<1>2. PICK label \in {"insert", "split"} :
        Goto(t, label) /\ (label = "insert" <=> n < cardinality - 1)
  BY <1>1
<1>3. pc[t] \in Held /\ pc[t] \in Storing
  BY <1>1 DEF Held, Storing
<1>4. /\ DOMAIN loc = Thread /\ DOMAIN l = LocalFields /\ p \in Allocated
      /\ mtx[p] = t /\ (page[p].level > 0 => InnerOK(p))
  BY <1>0, <1>3, AtPage
<1>5. PICK m : m = [l EXCEPT !.ip = p, !.num = n, !.newp = Null]
  OBVIOUS
<1>6. /\ DOMAIN m = LocalFields /\ SameGoal(m, l) /\ m.p = p /\ m.ip = p
      /\ m.num = n /\ m.newp = Null
  BY <1>0, <1>4, <1>5, FieldNames DEF SameGoal
<1>7. Becomes(t, m)
  <2>1. loc' = [loc EXCEPT ![t] = [l EXCEPT !.ip = p, !.num = n, !.newp = Null]]
    BY <1>1, <1>4, FieldNames
  <2> QED
    BY <1>5, <2>1 DEF Becomes
<1>8. Moves(t, label, m) /\ MutexStep(t)
  BY <1>2, <1>1, <1>6, <1>7, MovesTo, MutexKept DEF Label
<1>9. ~Splitting(t) /\ ~Splitting(t)'
  BY <1>1, <1>6, <1>8 DEF Splitting, Moves, Inserting
<1>10. /\ Frame(t) /\ Allocated' = Allocated
  BY <1>1, <1>8, <1>9, WriteFrame
<1>11. page[p].level > 0 =>
         /\ n \in 0..(cardinality - 1) /\ page[p].ptr[n] = Null
         /\ \A i \in 0..(n - 1) : page[p].ptr[i] # Null
  <2> SUFFICES ASSUME page[p].level > 0
               PROVE  /\ n \in 0..(cardinality - 1) /\ page[p].ptr[n] = Null
                      /\ \A i \in 0..(n - 1) : page[p].ptr[i] # Null
    OBVIOUS
  <2>1. cardinality - 1 \in Slot /\ page[p].ptr[cardinality - 1] = Null
    BY <1>4, FastFairConstants DEF InnerOK, Slot
  <2> QED
    BY <1>0, <2>1, CountIs
<1>12. /\ page' = page /\ mtx' = mtx /\ root' = root
       /\ pc'[t] = label /\ loc'[t] = m
  BY <1>1, <1>8 DEF Moves
<1>13. page[p].level > 0 =>
         /\ label = "insert" => /\ n \in 0..(cardinality - 2)
                                /\ page[p].ptr[n] = Null
         /\ label = "split" =>
              \A i \in 0..(cardinality - 2) : page[p].ptr[i] # Null
  BY <1>2, <1>11, FastFairConstants
<1>14. SplitOK(t)'
  BY <1>2, <1>6, <1>12, <1>13 DEF SplitOK
<1>15. InsertOK(t)'
  BY <1>2, <1>6, <1>12, <1>13 DEF InsertOK, Inserting
<1>16. MutexOK(t)'
  BY <1>1, <1>4, <1>6, <1>8 DEF MutexOK, Moves
<1>17. WriterOK(t)'
  <2>1. /\ Deletes(t)' = Deletes(t) /\ Stores(t)' = Stores(t)
        /\ Carries(t) => Carries(t)'
    BY <1>6, <1>8, <1>10, CallGoesOn DEF Moves
  <2>2. NotNew(p) => NotNew(p)'
    BY <1>4, <1>10, KnownStays DEF FFInv
  <2>3. /\ ~Deletes(t) /\ Stores(t) /\ NotNew(p) /\ Carries(t)
        /\ page[p].level = l.target
        /\ p = root \/ page[p].level < page[root].level
    BY <1>0, <1>3, AtPage
  <2> QED
    BY <1>2, <1>4, <1>6, <1>10, <1>12, <2>1, <2>2, <2>3
       DEF WriterOK, NotNew, SameGoal, Removing
<1>18. ThreadOK(t)'
  BY <1>8, <1>9, <1>14, <1>15, <1>16, <1>17
     DEF ThreadOK, NewOK, ReaderOK, UpOK, Moves, Reading, Counting, AtEntry
<1> QED
  BY <1>1, <1>8, <1>9, <1>18, WriteStep

LEMMA InvStore ==
  ASSUME FFInv, NEW t \in Thread, Store(t)
  PROVE  FFInv'
<1> DEFINE p == loc[t].p
           n == CountLocked(p)
           at == {i \in 0..(n - 1) : page[p].key[i] = loc[t].key}
<1>1. CASE BeyondSibling(t, p)
  BY <1>1, InvStoreBeyond
<1>2. CASE ~BeyondSibling(t, p) /\ at # {}
  <2>1. /\ Unlock(t, p) /\ Goto(t, "ret") /\ loc' = loc
        /\ page' = IF Op(t).op = "update" /\ IsLeaf(p)
                     THEN [page EXCEPT ![p].ptr[CHOOSE i \in at : \A j \in at : i <= j]
                                         = loc[t].val]
                     ELSE page
    BY <1>2 DEF Store
  <2> QED
    BY <2>1, InvStoreThere
<1>3. CASE ~BeyondSibling(t, p) /\ at = {}
  BY <1>3, InvStoreHere
<1> QED
  BY <1>1, <1>2, <1>3

\* What a thread knows that has put an entry into one of a split's pages.
LEMMA AtGrow ==
  ASSUME FFInv, NEW t \in Thread, pc[t] = "grow"
  PROVE  LET l == loc[t] IN
         /\ pc[t] \in Held /\ Splitting(t) /\ ~Deletes(t) /\ Stores(t)
         /\ DOMAIN loc = Thread /\ DOMAIN l = LocalFields
         /\ l.p \in Allocated /\ l.p \in PageId /\ NotNew(l.p)
         /\ mtx[l.p] = t /\ page[l.p].level \in Nat
         /\ l.p = root \/ page[l.p].level < page[root].level
         /\ Carries(t) /\ page[l.p].level = l.target
         /\ l.newp # Null /\ l.newp \in Allocated
         /\ page[l.newp].level = page[l.p].level
         /\ \A u \in Thread \ {t} : Splitting(u) => loc[u].newp # l.newp
<1>1. pc[t] \in Held /\ pc[t] \in Storing
  BY DEF Held, Storing
<1>2. loc[t].newp # Null
  BY DEF FFInv, ThreadOK, SplitOK
<1>3. Splitting(t)
  BY <1>2 DEF Splitting
<1>4. NewOK(t)
  BY DEF FFInv, ThreadOK
<1> QED
  BY <1>1, <1>2, <1>3, <1>4, AtPage DEF NewOK

LEMMA InvGrowUp ==
  ASSUME FFInv, NEW t \in Thread, Grow(t), ~IsRoot(loc[t].p)
  PROVE  FFInv'
<1> DEFINE l == loc[t]
<1>0. PICK p, s, lev : p = l.p /\ s = l.newp /\ lev = page[p].level
  OBVIOUS
<1>1. /\ pc[t] = "grow" /\ mtx' = [mtx EXCEPT ![p] = "none"]
      /\ loc' = [loc EXCEPT ![t].key = l.split, ![t].val = s,
                            ![t].target = lev + 1]
      /\ Goto(t, "up") /\ UNCHANGED <<page, root, npages, work>>
      /\ p # root
  BY <1>0 DEF Grow, Unlock, IsRoot, ghost
<1>2. /\ pc[t] \in Held /\ Splitting(t) /\ ~Deletes(t) /\ Stores(t)
      /\ DOMAIN loc = Thread /\ DOMAIN l = LocalFields
      /\ p \in PageId /\ mtx[p] = t /\ lev \in Nat
      /\ lev < page[root].level /\ s # Null /\ s \in Allocated
      /\ page[s].level = lev
      /\ \A u \in Thread \ {t} : Splitting(u) => loc[u].newp # s
  BY <1>0, <1>1, AtGrow
<1>3. PICK m : m = [l EXCEPT !.key = l.split, !.val = s, !.target = lev + 1]
  OBVIOUS
<1>4. /\ DOMAIN m = LocalFields /\ m.n = l.n /\ m.newp = s /\ m.val = s
      /\ m.target = lev + 1
  BY <1>0, <1>2, <1>3, FieldNames
<1>5. Becomes(t, m)
  <2>1. loc' = [loc EXCEPT ![t] = [l EXCEPT !.key = l.split, !.val = s,
                                            !.target = lev + 1]]
    BY <1>1, <1>2, FieldNames
  <2> QED
    BY <1>3, <2>1 DEF Becomes
<1>6. Moves(t, "up", m)
  BY <1>1, <1>4, <1>5, MovesTo DEF Label
<1>7. MutexStep(t)
  BY <1>1, <1>2, MutexChange
<1>8. /\ page' = page /\ root' = root /\ npages' = npages /\ work' = work
      /\ pc'[t] = "up" /\ loc'[t] = m /\ ~Splitting(t)'
  BY <1>1, <1>6 DEF Moves, Splitting, Inserting
<1>9. Frame(t) /\ Allocated' = Allocated
  BY <1>6, <1>7, <1>8, WriteFrame
<1>10. NotNew(s)'
  <2> SUFFICES ASSUME NEW u \in Thread, Splitting(u)' PROVE loc'[u].newp # s
    BY DEF NotNew
  <2>1. u # t
    BY <1>8
  <2> QED
    BY <1>2, <1>9, <2>1, OthersSplit
<1>11. UpOK(t)'
  <2>1. Stores(t)' = Stores(t)
    BY <1>4, <1>8 DEF Stores, Op
  <2>2. Known(s, lev)'
    BY <1>2, <1>8, <1>9, <1>10 DEF Known, NotNew
  <2>3. Carries(t)'
    BY <1>2, <1>4, <1>8, <2>2 DEF Carries, Known, NotNew
  <2>4. page[root].level \in Nat
    BY DEF FFInv, RootOK, PageOK
  <2> QED
    BY <1>2, <1>4, <1>8, <2>1, <2>3, <2>4 DEF UpOK
<1>12. ThreadOK(t)'
  BY <1>8, <1>11
     DEF ThreadOK, MutexOK, NewOK, WriterOK, SplitOK, InsertOK, ReaderOK,
         Held, Storing, Removing, Inserting, Reading, Counting, AtEntry
<1> QED
  BY <1>0, <1>1, <1>6, <1>7, <1>8, <1>12, WriteStep

LEMMA InvGrowRoot ==
  ASSUME FFInv, NEW t \in Thread, Grow(t), IsRoot(loc[t].p)
  PROVE  FFInv'
<1> DEFINE l == loc[t]
<1>0. PICK p, c, s, lev : /\ p = l.p /\ c = l.newp /\ s = -(npages + 1)
                          /\ lev = page[p].level
  OBVIOUS
<1>1. PICK S : S = [EmptyPage EXCEPT !.leftmost = p, !.level = lev + 1,
                      !.last = 0, !.key[0] = l.split, !.ptr[0] = c]
  OBVIOUS
<1>2. /\ pc[t] = "grow" /\ p = root /\ npages < MaxPage
      /\ npages' = npages + 1 /\ page' = [page EXCEPT ![s] = S] /\ root' = s
      /\ Goto(t, "unlock") /\ UNCHANGED <<mtx, loc, work>>
  BY <1>0, <1>1 DEF Grow, IsRoot, LevelUp, ghost
<1>3. /\ pc[t] \in Held /\ Splitting(t) /\ ~Deletes(t) /\ Stores(t)
      /\ DOMAIN loc = Thread /\ DOMAIN l = LocalFields
      /\ p \in Allocated /\ NotNew(p) /\ mtx[p] = t /\ lev \in Nat
      /\ Carries(t) /\ lev = l.target
      /\ c # Null /\ c \in Allocated /\ page[c].level = lev
      /\ \A u \in Thread \ {t} : Splitting(u) => loc[u].newp # c
  <2>1. pc[t] = "grow" /\ p = l.p /\ c = l.newp /\ lev = page[l.p].level
    BY <1>0, <1>2
  <2> QED
    BY <2>1, AtGrow
<1>4. /\ s \in PageId /\ s \notin Allocated /\ s # Null
      /\ Allocated' = Allocated \cup {s} /\ npages' \in 1..MaxPage
      /\ npages <= npages' /\ Allocated \subseteq PageId
  BY <1>0, <1>2, NewPage DEF FFInv
<1>5. /\ DOMAIN S = PageFields /\ S.leftmost = p /\ S.level = lev + 1
      /\ S.sibling = Null /\ S.sc = 0 /\ DOMAIN S.ptr = Slot
      /\ S.ptr[0] = c /\ \A i \in Slot : i # 0 => S.ptr[i] = Null
  <2>1. 0 \in Slot
    BY FastFairConstants DEF Slot
  <2> QED
    BY <1>1, <2>1 DEF EmptyPage, PageFields
<1>6. DOMAIN page = PageId
  BY DEF FFInv, Shape
<1>7. /\ page'[s] = S /\ DOMAIN page' = PageId
      /\ \A x \in Allocated : page'[x] = page[x]
  BY <1>2, <1>4, <1>6
<1>8. Moves(t, "unlock", l)
  BY <1>2, <1>3, MovesTo DEF Label, Becomes
<1>9. Shape'
  BY <1>2, <1>4, <1>5, <1>7, <1>8 DEF FFInv, Shape, Moves
<1>10. ~Splitting(t)' /\ pc'[t] = "unlock" /\ loc'[t] = l
  BY <1>8 DEF Moves, Splitting, Inserting
<1>11. Frame(t)
  <2>1. \A u \in Thread : Splitting(u) => loc[u].newp # Null
    BY DEF Splitting
  <2>2. \A x \in Allocated' \ Allocated : x = s
    BY <1>4
  <2> QED
    BY <1>0, <1>2, <1>4, <1>5, <1>7, <1>8, <1>9, <1>10, <2>1, <2>2
       DEF Frame, Moves
<1>12. \A x, y : Known(x, y) => Known(x, y)'
  BY <1>11, KnownStays DEF FFInv
<1>13. \A x \in Allocated : PageOK(x)'
  BY <1>7, <1>11, PageStays
<1>14. Known(c, lev)'
  <2>1. NotNew(c)'
    <3> SUFFICES ASSUME NEW u \in Thread, Splitting(u)' PROVE loc'[u].newp # c
      BY DEF NotNew
    <3>1. u # t
      BY <1>10
    <3> QED
      BY <1>3, <1>11, <3>1, OthersSplit
  <2> QED
    BY <1>3, <1>4, <1>7, <2>1 DEF Known, NotNew
<1>15. Known(p, lev)'
  BY <1>0, <1>3, <1>12 DEF Known
<1>16. InnerOK(s)'
  <2>1. Slot' = Slot /\ cardinality - 1 \in Slot /\ cardinality - 1 # 0
    BY FastFairConstants DEF Slot
  <2>2. \A i \in Slot : ChildRef(S.ptr[i], lev)'
    BY <1>5, <1>14 DEF ChildRef, Known, NotNew
  <2>3. S.level - 1 = lev /\ 0 \in 0..(SwitchMod - 1) /\ 0 % 2 = 0
    BY <1>3, <1>5, FastFairConstants
  <2>4. Known(S.leftmost, lev)'
    BY <1>5, <1>15 DEF Known, NotNew
  <2>5. PICK k : k = lev
    OBVIOUS
  <2> QED
    BY <1>5, <1>7, <2>1, <2>2, <2>3, <2>4 DEF InnerOK, Known, ChildRef, NotNew
<1>17. PageOK(s)'
  BY <1>2, <1>3, <1>4, <1>5, <1>7, <1>16 DEF PageOK, Allocated, PageId
<1>18. RootOK'
  <2>1. NotNew(s)'
    <3> SUFFICES ASSUME NEW u \in Thread, Splitting(u)' PROVE loc'[u].newp # s
      BY DEF NotNew
    <3>1. u # t
      BY <1>10
    <3>2. Splitting(u) /\ loc'[u] = loc[u]
      BY <1>11, <3>1, OthersSplit
    <3> QED
      BY <1>4, <3>2 DEF FFInv, ThreadOK, NewOK
  <2> QED
    BY <1>2, <1>4, <1>5, <1>7, <2>1 DEF RootOK, NotNew
<1>19. WriterOK(t)'
  <2>1. /\ Deletes(t)' = Deletes(t) /\ Stores(t)' = Stores(t) /\ Carries(t)'
    BY <1>3, <1>10, <1>11, CallGoesOn DEF SameGoal
  <2>2. NotNew(p)'
    BY <1>15 DEF Known, NotNew
  <2>3. page'[p].level < page'[s].level /\ page'[p].level = lev
    <3>1. page'[p].level = lev /\ page'[s].level = lev + 1 /\ lev \in Nat
      BY <1>0, <1>3, <1>5, <1>7
    <3> QED
      BY <3>1
  <2> QED
    BY <1>0, <1>2, <1>3, <1>4, <1>10, <2>1, <2>2, <2>3
       DEF WriterOK, NotNew, Removing
<1>20. MutexOK(t)'
  BY <1>0, <1>2, <1>3, <1>10 DEF MutexOK
<1>21. ThreadOK(t)'
  BY <1>10, <1>19, <1>20, WriterIs
<1> QED
  BY <1>4, <1>11, <1>13, <1>17, <1>18, <1>21, StepEnds

LEMMA InvWriterStep ==
  ASSUME FFInv, NEW t \in Thread, WriterStep(t)
  PROVE  FFInv'
BY InvLock, InvStore, InvSplit, InvInsertKey, InvStoreDone, InvGrowUp,
   InvGrowRoot, InvInsertInternal, InvRemoveKey DEF WriterStep, Grow

-----------------------------------------------------------------------------
(* The first state.                                                        *)

LEMMA InitRoot ==
  ASSUME Init
  PROVE  /\ root \in Allocated /\ page[root].level \in Nat
         /\ \A p \in Allocated \ {root} : page[p].level < page[root].level
<1> DEFINE Top(p) == /\ -p <= npages
                     /\ \A q \in PageId : -q <= npages =>
                          page[q].level <= page[p].level
<1>1. WellFormed(work) /\ page = work.pages /\ npages = work.count
  BY WorkloadOK DEF Init
<1>2. Allocated = {p \in PageId : -p <= work.count}
  BY <1>1 DEF Allocated
<1>3. \A p \in Allocated : page[p].level \in Nat
  BY <1>1, <1>2 DEF WellFormed
<1>4. PICK r \in Allocated :
        \A p \in Allocated \ {r} : page[p].level < page[r].level
  BY <1>1, <1>2 DEF WellFormed
<1>5. r \in PageId /\ Top(r)
  BY <1>3, <1>4 DEF Allocated
<1>6. root = CHOOSE p \in PageId : Top(p)
  BY DEF Init
<1>7. root \in PageId /\ Top(root)
  <2> HIDE DEF Top
  <2> QED
    BY <1>5, <1>6
<1>8. root \in Allocated /\ page[r].level <= page[root].level
  BY <1>5, <1>7 DEF Allocated
<1>9. root = r
  BY <1>3, <1>4, <1>8
<1> QED
  BY <1>3, <1>4, <1>9

LEMMA InitInv ==
  ASSUME Init
  PROVE  FFInv
<1> DEFINE Made == {p \in PageId : -p <= work.count}
<1>1. WellFormed(work) /\ page = work.pages /\ npages = work.count
  BY WorkloadOK DEF Init
<1>2. Allocated = Made
  BY <1>1 DEF Allocated
<1>3. /\ root \in Allocated /\ page[root].level \in Nat
      /\ \A p \in Allocated \ {root} : page[p].level < page[root].level
  BY InitRoot
<1>4. /\ pc = [t \in Thread |-> "idle"] /\ loc = [t \in Thread |-> NoLocal]
      /\ mtx = [p \in PageId |-> "none"]
  BY DEF Init
<1>5. \A t \in Thread : ~Splitting(t) /\ pc[t] = "idle"
  BY <1>4 DEF Splitting, Inserting
<1>6. \A x : NotNew(x)
  BY <1>5 DEF NotNew
<1>7. ASSUME NEW p \in Allocated
      PROVE  /\ page[p] \in [leftmost : Made \cup {Null},
                             sibling : Made \cup {Null},
                             level : Nat, sc : 0..(SwitchMod - 1),
                             last : -1..(cardinality - 1),
                             key : [Slot -> Key \cup {Infinity}],
                             ptr : [Slot -> Made \cup Key \cup {Null}]]
             /\ page[p].leftmost = Null <=> page[p].level = 0
             /\ page[p].sibling # p
             /\ page[p].sibling # Null =>
                  page[page[p].sibling].level = page[p].level
             /\ page[p].level > 0 =>
                  /\ page[p].sc % 2 = 0 /\ page[p].ptr[cardinality - 1] = Null
                  /\ \A c \in {page[p].leftmost} \cup {page[p].ptr[i] : i \in Slot} :
                       c # Null => c \in Made /\ page[c].level = page[p].level - 1
  <2>1. page[p] = work.pages[p] /\ p \in Made
    BY <1>1, <1>2, <1>7
  <2>2. work.pages[p] \in [leftmost : Made \cup {Null},
                           sibling : Made \cup {Null},
                           level : Nat, sc : 0..(SwitchMod - 1),
                           last : -1..(cardinality - 1),
                           key : [Slot -> Key \cup {Infinity}],
                           ptr : [Slot -> Made \cup Key \cup {Null}]]
    BY <1>1, <2>1 DEF WellFormed
  <2>3. /\ work.pages[p].leftmost = Null <=> work.pages[p].level = 0
        /\ work.pages[p].sibling # p
        /\ work.pages[p].sibling # Null =>
             work.pages[work.pages[p].sibling].level = work.pages[p].level
    BY <1>1, <2>1 DEF WellFormed
  <2>4. work.pages[p].level > 0 =>
          /\ work.pages[p].sc % 2 = 0
          /\ work.pages[p].ptr[cardinality - 1] = Null
          /\ \A c \in {work.pages[p].leftmost} \cup {work.pages[p].ptr[i] : i \in Slot} :
               c # Null => /\ c \in Made
                           /\ work.pages[c].level = work.pages[p].level - 1
    BY <1>1, <2>1 DEF WellFormed
  <2> HIDE DEF Made
  <2> QED
    BY <1>1, <2>1, <2>2, <2>3, <2>4
<1>8. Shape
  <2>1. "idle" \in Label
    BY DEF Label
  <2>2. npages \in 1..MaxPage /\ DOMAIN page = PageId
    BY <1>1 DEF WellFormed
  <2>3. \A p \in Allocated : DOMAIN page[p] = PageFields
    BY <1>7, FieldNames
  <2> QED
    BY <1>4, <2>1, <2>2, <2>3 DEF Shape, LocalFields
<1>9. RootOK
  <2>1. page[root].sibling = Null
    <3> SUFFICES ASSUME page[root].sibling # Null PROVE FALSE
      OBVIOUS
    <3>1. page[root].sibling \in Allocated \ {root}
      BY <1>2, <1>3, <1>7
    <3> QED
      BY <1>3, <1>7, <3>1
  <2> QED
    BY <1>3, <1>6, <2>1 DEF RootOK
<1>10. ASSUME NEW p \in Allocated PROVE PageOK(p)
  <2>1. page[p].level \in Nat /\ page[p].level <= page[root].level
    BY <1>3, <1>7, <1>10
  <2>2. page[p].sibling # Null => /\ page[p].sibling \in Allocated
                                 /\ page[page[p].sibling].level = page[p].level
    BY <1>2, <1>7, <1>10
  <2>3. ASSUME page[p].level > 0 PROVE InnerOK(p)
    <3>1. /\ page[p].sc \in 0..(SwitchMod - 1) /\ DOMAIN page[p].ptr = Slot
          /\ page[p].leftmost # Null
      BY <1>7, <1>10, <2>3
    <3>2. /\ page[p].sc % 2 = 0 /\ page[p].ptr[cardinality - 1] = Null
          /\ \A c \in {page[p].leftmost} \cup {page[p].ptr[i] : i \in Slot} :
               c # Null => c \in Made /\ page[c].level = page[p].level - 1
      BY <1>7, <1>10, <2>3
    <3>3. Known(page[p].leftmost, page[p].level - 1)
      BY <1>2, <1>6, <3>1, <3>2 DEF Known
    <3>4. ASSUME NEW i \in Slot
          PROVE  ChildRef(page[p].ptr[i], page[p].level - 1)
      <4>1. page[p].ptr[i] \in {page[p].ptr[j] : j \in Slot}
        OBVIOUS
      <4> QED
        BY <1>2, <1>6, <3>2, <4>1 DEF Known, ChildRef
    <3> QED
      BY <3>1, <3>2, <3>3, <3>4 DEF InnerOK
  <2> QED
    BY <1>7, <1>10, <2>1, <2>2, <2>3 DEF PageOK
<1>11. \A t \in Thread : ThreadOK(t)
  BY <1>5 DEF ThreadOK, MutexOK, NewOK, WriterOK, SplitOK, InsertOK, ReaderOK,
     UpOK, Held, Storing, Removing, Inserting, Reading, Counting, AtEntry
<1> QED
  BY <1>8, <1>9, <1>10, <1>11 DEF FFInv

-----------------------------------------------------------------------------
(* The theorems.                                                           *)

LEMMA StutterInv ==
  ASSUME FFInv, UNCHANGED vars
  PROVE  FFInv'
<1>1. UNCHANGED <<work, page, root, npages, mtx, pc, loc>>
  BY DEF vars
<1>2. Shape' /\ Allocated' = Allocated
  BY <1>1 DEF FFInv, Shape, Allocated
<1>3. \A t \in Thread : /\ Splitting(t)' <=> Splitting(t)
                        /\ Deletes(t)' <=> Deletes(t)
                        /\ Stores(t)' <=> Stores(t)
  BY <1>1 DEF Splitting, Deletes, Stores, Op
<1>4. \A x : NotNew(x)' <=> NotNew(x)
  BY <1>1, <1>3 DEF NotNew
<1>5. \A x, lev : /\ Known(x, lev)' <=> Known(x, lev)
                  /\ ChildRef(x, lev)' <=> ChildRef(x, lev)
  BY <1>1, <1>2, <1>4 DEF Known, ChildRef
<1>6. RootOK'
  BY <1>1, <1>2, <1>3, <1>4 DEF FFInv, RootOK, NotNew
<1>7. ASSUME NEW p \in Allocated PROVE PageOK(p)'
  <2>1. PageOK(p)
    BY DEF FFInv
  <2>2. InnerOK(p) => InnerOK(p)'
    BY <1>1, <1>5, SMTT(30) DEF InnerOK, Known, ChildRef, NotNew, Slot
  <2> QED
    BY <1>1, <1>2, <2>1, <2>2 DEF PageOK
<1>8. ASSUME NEW t \in Thread PROVE ThreadOK(t)'
  <2>1. ThreadOK(t)
    BY DEF FFInv
  <2>2. MutexOK(t)' /\ SplitOK(t)' /\ InsertOK(t)'
    BY <1>1, <2>1 DEF ThreadOK, MutexOK, SplitOK, InsertOK
  <2>3. NewOK(t)'
    BY <1>1, <1>2, <1>3, <2>1 DEF ThreadOK, NewOK
  <2>4. Carries(t) => Carries(t)'
    BY <1>1, <1>5 DEF Carries, Known, NotNew
  <2>5. NotNew(loc[t].p)' <=> NotNew(loc[t].p)
    BY <1>1, <1>4 DEF NotNew
  <2>6. WriterOK(t)'
    BY <1>1, <1>2, <1>3, <2>1, <2>4, <2>5 DEF ThreadOK, WriterOK
  <2>7. ReaderOK(t)'
    <3>1. InnerReader(pc[t], loc[t]) => InnerReader(pc[t], loc[t])'
      BY <1>1, <1>2, <1>5 DEF InnerReader
    <3> QED
      BY <1>1, <1>2, <1>3, <2>1, <2>4, <3>1 DEF ThreadOK, ReaderOK
  <2>8. UpOK(t)'
    BY <1>1, <1>3, <2>1, <2>4 DEF ThreadOK, UpOK
  <2> QED
    BY <2>2, <2>3, <2>6, <2>7, <2>8 DEF ThreadOK
<1> QED
  BY <1>2, <1>6, <1>7, <1>8 DEF FFInv

LEMMA NextInv ==
  ASSUME FFInv, [Next]_vars
  PROVE  FFInv'
<1>1. CASE UNCHANGED vars
  BY <1>1, StutterInv
<1>2. ASSUME NEW t \in Thread, Call(t) \/ Step(t) PROVE FFInv'
  BY <1>2, InvCall, InvReturn, InvReaderStep, InvWriterStep DEF Step
<1> QED
  BY <1>1, <1>2 DEF Next

\* FFInv always holds.
THEOREM FFInvHolds == Spec => []FFInv
<1>1. Init => FFInv
  BY InitInv
<1>2. FFInv /\ [Next]_vars => FFInv'
  BY NextInv
<1> QED
  BY <1>1, <1>2, PTL DEF Spec

\* SeparatorPlaced always holds: whatever splits run together, a separator on
\* its way up (btree.h:577) finds a level of pages to go to.
THEOREM SeparatorPlacedHolds == Spec => []SeparatorPlaced
<1>1. FFInv => SeparatorPlaced
  <2> SUFFICES ASSUME FFInv, NEW t \in Thread, pc[t] = "up"
               PROVE  loc[t].target <= page[root].level
    BY DEF SeparatorPlaced
  <2>1. loc[t].target \in 1..page[root].level
    BY DEF FFInv, ThreadOK, UpOK
  <2> QED
    BY <2>1
<1> QED
  BY <1>1, FFInvHolds, PTL

LEMMA ChangingMine ==
  ASSUME FFInv, NEW t \in Thread, NEW x \in Changing(t)
  PROVE  Mine(t, x) /\ (x = loc[t].p => mtx[x] = t)
<1>1. pc[t] \in Storing \cup Removing /\ pc[t] \in Held
  BY DEF Changing, Storing, Inserting, Removing, Held
<1>2. x = loc[t].p \/ (Splitting(t) /\ x = loc[t].newp)
  BY DEF FFInv, ThreadOK, SplitOK, InsertOK, Changing, Splitting, Inserting
<1> QED
  BY <1>1, <1>2 DEF FFInv, ThreadOK, MutexOK, Mine

\* OneStorer always holds.
THEOREM OneStorerHolds == Spec => []OneStorer
<1>1. FFInv => OneStorer
  <2> SUFFICES ASSUME FFInv, NEW t \in Thread, NEW u \in Thread, t # u,
                      NEW x \in Changing(t) \cap Changing(u)
               PROVE  /\ page[x].level = 0
                      /\ \/ Deletes(u) /\ Splitting(t) /\ x = loc[t].newp
                         \/ Deletes(t) /\ Splitting(u) /\ x = loc[u].newp
    BY DEF OneStorer
  <2>1. /\ Mine(t, x) /\ (x = loc[t].p => mtx[x] = t)
        /\ Mine(u, x) /\ (x = loc[u].p => mtx[x] = u)
    BY ChangingMine
  <2>2. CASE Splitting(t) /\ x = loc[t].newp /\ x = loc[u].p
    BY <2>1, <2>2, AtPage DEF Mine, NotNew
  <2>3. CASE Splitting(u) /\ x = loc[u].newp /\ x = loc[t].p
    BY <2>1, <2>3, AtPage DEF Mine, NotNew
  <2>4. ~(Splitting(t) /\ x = loc[t].newp /\ Splitting(u) /\ x = loc[u].newp)
    BY DEF FFInv, ThreadOK, NewOK
  <2> QED
    BY <2>1, <2>2, <2>3, <2>4 DEF Mine
<1> QED
  BY <1>1, FFInvHolds, PTL

-----------------------------------------------------------------------------
(* One writer, where deletes keep off the pages being split off.           *)

RemovesOff ==
  \A t, u \in Thread :
    pc[u] \in Removing /\ Splitting(t) => loc[u].p # loc[t].newp

Writing == Storing \cup Removing

\* A thread writes from where it wrote, or from the lock it takes.
LEMMA WritesAfter ==
  ASSUME FFInv, NEW t \in Thread, Call(t) \/ Step(t), pc'[t] \in Writing
  PROVE  Lock(t) \/ Store(t) \/ Split(t) \/ InsertKey(t) \/ RemoveKey(t)
<1>1. pc \in [Thread -> Label]
  BY DEF FFInv, Shape
<1> USE DEF Goto, Writing, Storing, Removing, Inserting
<1>2. ~Call(t) /\ ~Return(t) /\ ~BeginPage(t) /\ ~Cond(t) /\ ~LastChild(t)
  BY <1>1 DEF Call, Return, BeginPage, Cond, LastChild
<1>3. ~Count(t)
  BY <1>1 DEF Count
<1>4. ASSUME NEW l PROVE ~Advance(t, l)
  BY <1>1 DEF Advance
<1>5. ~ReadKey(t) /\ ~ReadPair(t)
  BY <1>1, <1>4 DEF ReadKey, ReadPair
<1>6. ~Judge(t)
  BY <1>1, <1>4 DEF Judge, InnerJudge, LeafJudge, RangeJudge
<1>7. ~Check(t) /\ ~ReadSibling(t) /\ ~Descend(t)
  BY <1>1 DEF Check, ReadSibling, Descend
<1>8. ~SearchHop(t) /\ ~DeleteHop(t) /\ ~NextPage(t)
  BY <1>1 DEF SearchHop, DeleteHop, NextPage
<1>9. ~StoreDone(t) /\ ~Grow(t) /\ ~InsertInternal(t)
  BY <1>1 DEF StoreDone, Grow, InsertInternal
<1> QED
  BY <1>2, <1>3, <1>5, <1>6, <1>7, <1>8, <1>9 DEF Step, ReaderStep, WriterStep

\* A step is one thread's.
LEMMA OthersKeep ==
  ASSUME FFInv, NEW t \in Thread, Call(t) \/ Step(t), NEW u \in Thread \ {t}
  PROVE  pc'[u] = pc[u] /\ loc'[u] = loc[u]
<1> DEFINE Keeps == pc'[u] = pc[u] /\ loc'[u] = loc[u]
<1>0. pc \in [Thread -> Label] /\ DOMAIN loc = Thread
  BY DEF FFInv, Shape
<1> USE <1>0 DEF Goto
<1>1. Call(t) \/ Return(t) \/ BeginPage(t) \/ Cond(t) \/ LastChild(t) => Keeps
  BY DEF Call, Return, BeginPage, Cond, LastChild
<1>2. Count(t) => Keeps
  BY DEF Count
<1>3. ASSUME NEW l, Advance(t, l) PROVE Keeps
  BY <1>3 DEF Advance
<1>4. ReadKey(t) \/ ReadPair(t) => Keeps
  BY <1>3 DEF ReadKey, ReadPair
<1>5. Judge(t) => Keeps
  BY <1>3 DEF Judge, InnerJudge, LeafJudge, RangeJudge
<1>6. Check(t) \/ ReadSibling(t) \/ Descend(t) => Keeps
  BY DEF Check, ReadSibling, Descend
<1>7. SearchHop(t) \/ DeleteHop(t) \/ NextPage(t) => Keeps
  BY DEF SearchHop, DeleteHop, NextPage
<1>8. Lock(t) \/ Store(t) \/ StoreDone(t) \/ Grow(t) \/ InsertInternal(t) => Keeps
  BY SMTT(30) DEF Lock, Store, StoreDone, Grow, InsertInternal
<1>9. Split(t) \/ InsertKey(t) \/ RemoveKey(t) => Keeps
  BY DEF Split, InsertKey, RemoveKey
<1> QED
  BY <1>1, <1>2, <1>4, <1>5, <1>6, <1>7, <1>8, <1>9
     DEF Step, ReaderStep, WriterStep

\* A new page is new to the tree, or was new before.
LEMMA SplitsAfter ==
  ASSUME FFInv, NEW t \in Thread, Call(t) \/ Step(t), Splitting(t)'
  PROVE  \/ Splitting(t) /\ loc'[t].newp = loc[t].newp
         \/ loc'[t].newp \notin Allocated
<1>1. pc \in [Thread -> Label] /\ DOMAIN loc = Thread
      /\ DOMAIN loc[t] = LocalFields
  BY DEF FFInv, Shape
<1>2. /\ pc'[t] \in {"switch", "cut", "last", "grow"} \cup Inserting
      /\ loc'[t].newp # Null
  BY DEF Splitting
<1>3. pc'[t] \in Writing /\ pc'[t] \notin Removing \cup {"store", "unlock"}
  BY <1>2 DEF Writing, Storing, Inserting, Removing
<1>4. ~Lock(t) /\ ~RemoveKey(t)
  <2>1. ~Lock(t)
    BY <1>1, <1>3 DEF Lock, Goto, Removing
  <2>2. ~RemoveKey(t)
    BY <1>1, <1>3 DEF RemoveKey, Goto, Removing
  <2> QED
    BY <2>1, <2>2
<1>5. ~Store(t)
  <2> SUFFICES ASSUME Store(t) PROVE FALSE
    OBVIOUS
  <2>1. pc'[t] # "lock" /\ pc'[t] # "ret"
    BY <1>2 DEF Inserting
  <2>2. \E v, n : loc' = [loc EXCEPT ![t].ip = v, ![t].num = n, ![t].newp = Null]
    <3>1. ~BeyondSibling(t, loc[t].p)
      BY <1>1, <2>1 DEF Store, Goto
    <3>2. ~Goto(t, "ret")
      BY <1>1, <2>1 DEF Goto
    <3> QED
      BY <3>1, <3>2 DEF Store
  <2>3. loc'[t].newp = Null
    BY <1>1, <2>2, FieldNames
  <2> QED
    BY <1>2, <2>3
<1>6. CASE InsertKey(t)
  <2>1. pc[t] \in Inserting
    BY <1>6 DEF InsertKey, Inserting
  <2>2. loc' = loc \/ \E v : loc' = [loc EXCEPT ![t].i = v]
    BY <1>6 DEF InsertKey
  <2>3. loc'[t].newp = loc[t].newp
    BY <1>1, <2>2, FieldNames
  <2> QED
    BY <1>2, <2>1, <2>3 DEF Splitting
<1>7. CASE Split(t) /\ pc[t] = "split"
  <2>1. PICK s : s = -(npages + 1)
    OBVIOUS
  <2>2. /\ npages < MaxPage /\ npages' = npages + 1
        /\ loc' = [loc EXCEPT ![t].newp = s, ![t].num = SplitAt(loc[t].p),
                              ![t].split = page[loc[t].p].key[SplitAt(loc[t].p)]]
    BY <1>7, <2>1 DEF Split
  <2>3. loc'[t].newp = s
    BY <1>1, <2>2, FieldNames
  <2> QED
    BY <2>1, <2>2, <2>3, NewPage DEF FFInv
<1>8. CASE Split(t) /\ pc[t] # "split"
  <2>1. pc[t] \in {"switch", "cut", "last"}
    BY <1>8, SMTT(30) DEF Split
  <2>2. loc' = loc \/ \E v, n : loc' = [loc EXCEPT ![t].ip = v, ![t].num = n]
    BY <1>8 DEF Split
  <2>3. loc'[t].newp = loc[t].newp
    BY <1>1, <2>2, FieldNames
  <2> QED
    BY <1>2, <2>1, <2>3 DEF Splitting
<1> QED
  BY <1>3, <1>4, <1>5, <1>6, <1>7, <1>8, WritesAfter

\* A thread removes from the page it has removed from, or has just locked.
LEMMA RemovesAfter ==
  ASSUME FFInv, NEW t \in Thread, Call(t) \/ Step(t), pc'[t] \in Removing
  PROVE  /\ loc'[t].p = loc[t].p /\ ~Splitting(t)'
         /\ pc[t] \in Removing \/ (pc[t] = "lock" /\ Deletes(t))
<1>1. pc \in [Thread -> Label] /\ DOMAIN loc = Thread
      /\ DOMAIN loc[t] = LocalFields
  BY DEF FFInv, Shape
<1>2. pc'[t] \in Writing /\ ~Splitting(t)'
  BY DEF Writing, Splitting, Removing, Inserting
<1>3. ~Store(t) /\ ~Split(t) /\ ~InsertKey(t)
  <2>1. ~Store(t)
    BY <1>1 DEF Store, Goto, Removing
  <2>2. ~Split(t)
    BY <1>1 DEF Split, Goto, Removing
  <2>3. ~InsertKey(t)
    BY <1>1 DEF InsertKey, Goto, Removing
  <2> QED
    BY <2>1, <2>2, <2>3
<1>4. CASE Lock(t)
  BY <1>1, <1>2, <1>4 DEF Lock, Goto, Removing, Deletes
<1>5. CASE RemoveKey(t)
  <2>1. pc[t] \in Removing
    BY <1>5, SMTT(30) DEF RemoveKey, Removing
  <2>2. loc' = loc \/ \E v : loc' = [loc EXCEPT ![t].i = v]
    BY <1>5, SMTT(30) DEF RemoveKey
  <2>3. loc'[t].p = loc[t].p
    BY <1>1, <2>2, FieldNames
  <2> QED
    BY <1>2, <2>1, <2>3
<1> QED
  BY <1>2, <1>3, <1>4, <1>5, WritesAfter

LEMMA RemovesOffStep ==
  ASSUME FFInv, DeletesKeepOff, RemovesOff, [Next]_vars
  PROVE  RemovesOff'
<1>1. CASE UNCHANGED vars
  BY <1>1 DEF vars, RemovesOff, Splitting
<1>2. ASSUME NEW w \in Thread, Call(w) \/ Step(w) PROVE RemovesOff'
  <2> SUFFICES ASSUME NEW t \in Thread, NEW u \in Thread,
                      pc'[u] \in Removing, Splitting(t)'
               PROVE  loc'[u].p # loc'[t].newp
    BY DEF RemovesOff
  <2>1. \A x \in Thread \ {w} :
          /\ pc'[x] = pc[x] /\ loc'[x] = loc[x]
          /\ Splitting(x)' <=> Splitting(x)
    BY <1>2, OthersKeep DEF Splitting
  <2>2. t # u
    BY DEF Splitting, Removing, Inserting
  <2>3. /\ loc'[u].p = loc[u].p
        /\ pc[u] \in Removing \/ (pc[u] = "lock" /\ Deletes(u))
    <3>1. CASE u = w
      BY <1>2, <3>1, RemovesAfter
    <3>2. CASE u # w
      BY <2>1, <3>2
    <3> QED
      BY <3>1, <3>2
  <2>4. \/ Splitting(t) /\ loc'[t].newp = loc[t].newp
        \/ loc'[t].newp \notin Allocated
    <3>1. CASE t = w
      BY <1>2, <3>1, SplitsAfter
    <3>2. CASE t # w
      BY <2>1, <3>2
    <3> QED
      BY <3>1, <3>2
  <2>5. loc[u].p \in Allocated
    <3>1. pc[u] \in Held \cup {"lock"}
      BY <2>3 DEF Held
    <3> QED
      BY <3>1, AtPage
  <2> QED
    BY <2>3, <2>4, <2>5 DEF RemovesOff, DeletesKeepOff
<1> QED
  BY <1>1, <1>2 DEF Next

\* OneWriter holds as long as no delete is about to lock a page that another
\* thread is splitting off: in runs without deletes, in particular.
THEOREM OneWriterHolds == Spec /\ []DeletesKeepOff => []OneWriter
<1>1. Init => RemovesOff
  BY DEF Init, RemovesOff, Removing
<1>2. FFInv /\ DeletesKeepOff /\ RemovesOff /\ [Next]_vars => RemovesOff'
  BY RemovesOffStep
<1>3. FFInv /\ OneStorer /\ RemovesOff => OneWriter
  <2> SUFFICES ASSUME FFInv, OneStorer, RemovesOff, NEW t \in Thread,
                      NEW u \in Thread, t # u,
                      NEW x \in Changing(t) \cap Changing(u)
               PROVE  FALSE
    BY DEF OneWriter
  <2>1. \/ Deletes(u) /\ Splitting(t) /\ x = loc[t].newp
        \/ Deletes(t) /\ Splitting(u) /\ x = loc[u].newp
    BY DEF OneStorer
  <2>2. ASSUME NEW v \in Thread, Deletes(v), x \in Changing(v)
        PROVE  pc[v] \in Removing /\ x = loc[v].p
    <3>1. pc[v] \notin Storing
      BY <2>2 DEF FFInv, ThreadOK, WriterOK, Held
    <3> QED
      BY <2>2, <3>1 DEF Changing, Storing, Inserting, Removing
  <2> QED
    BY <2>1, <2>2 DEF RemovesOff
<1> QED
  BY <1>1, <1>2, <1>3, FFInvHolds, OneStorerHolds, PTL DEF Spec
=============================================================================
