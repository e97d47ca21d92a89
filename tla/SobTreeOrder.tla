---------------------------- MODULE SobTreeOrder ----------------------------
(* The order of keys of sobtree_v2.h.  First where a transaction ends: the  *)
(* bounds of SobTreeRanges, which no thread can see, tell it the inode and  *)
(* the leaf that own its key, although new nodes are on their way to        *)
(* parents that do not know them.  Then that every step keeps the tree's    *)
(* part of OrderInv.                                                        *)
EXTENDS SobTreeTheorems, SobTreeRanges

-----------------------------------------------------------------------------
(* An inode's entries, one at a time.                                      *)

LEMMA Entries ==
  ASSUME TypeOK, Linked, NEW i \in Level, NEW x \in InodeNum
  PROVE  /\ i \in Nat /\ i \in NodeLevel /\ i - 1 \in NodeLevel /\ x \in Nat
         /\ <<i, x>> \in Inode
         /\ ent[<<i, x>>].k \in Seq(Key) /\ ent[<<i, x>>].ch \in Seq(ChildId(i))
         /\ Len(ent[<<i, x>>].k) = Size(i, x)
         /\ Len(ent[<<i, x>>].ch) = Size(i, x) + 1
         /\ Size(i, x) \in Nat /\ Size(i, x) <= NON_LEAF_KEY_NUM
         /\ \A j \in 1..Size(i, x) : Sep(i, x, j) \in Key /\ Sep(i, x, j) \in Int
         /\ \A j \in 1..(Size(i, x) + 1) :
              /\ j \in ChildPlace /\ Kid(i, x, j) \in ChildId(i)
              /\ Kid(i, x, j) \in Nat
              /\ x < ninode[i] => Node(i - 1, Kid(i, x, j))
<1> USE Constants
<1>1. i \in Nat /\ i \in NodeLevel /\ i - 1 \in NodeLevel /\ x \in Nat
      /\ <<i, x>> \in Inode
  BY DEF Level, NodeLevel, InodeNum, Inode
<1>2. /\ ent[<<i, x>>].k \in Seq(Key) /\ ent[<<i, x>>].ch \in Seq(ChildId(i))
      /\ Len(ent[<<i, x>>].k) = Size(i, x)
      /\ Len(ent[<<i, x>>].ch) = Size(i, x) + 1
      /\ Size(i, x) <= NON_LEAF_KEY_NUM
  BY <1>1 DEF TypeOK, SearchTypeOK, Size, num
<1>3. Size(i, x) \in Nat
  BY <1>2, LenProperties
<1>4. ASSUME NEW j \in 1..Size(i, x)
      PROVE  Sep(i, x, j) \in Key /\ Sep(i, x, j) \in Int
  <2>1. Sep(i, x, j) \in Key
    BY <1>2, ElementOfSeq DEF Sep
  <2> QED
    BY <2>1
<1>5. ChildId(i) \subseteq Nat
  BY DEF ChildId, LnodeId, InodeNum
<1>6. ASSUME NEW j \in 1..(Size(i, x) + 1)
      PROVE  /\ j \in ChildPlace /\ Kid(i, x, j) \in ChildId(i)
             /\ Kid(i, x, j) \in Nat
             /\ x < ninode[i] => Node(i - 1, Kid(i, x, j))
  <2>1. Kid(i, x, j) \in ChildId(i) /\ Kid(i, x, j) \in Nat
    BY <1>2, <1>5, ElementOfSeq DEF Kid
  <2>2. j \in ChildPlace
    BY <1>2, <1>3 DEF ChildPlace
  <2>3. j \in DOMAIN ent[<<i, x>>].ch
    BY <1>2, LenProperties
  <2>4. x < ninode[i] => Kid(i, x, j) < IF i = 0 THEN nleaf ELSE ninode[i - 1]
    BY <2>3 DEF Linked, Kid
  <2>5. i = 0 <=> i - 1 = -1
    BY <1>1
  <2> QED
    BY <2>1, <2>2, <2>4, <2>5 DEF Node
<1> QED
  BY <1>1, <1>2, <1>3, <1>4, <1>6

\* Bounds are integers, nodes are numbers.
LEMMA BoundType ==
  ASSUME NEW low \in Bounds, NEW i \in NodeLevel, NEW x \in Nat
  PROVE  low[i][x] \in Int
BY DEF Bounds

LEMMA NodeType ==
  ASSUME NEW i, NEW x, Node(i, x)
  PROVE  x \in Nat /\ (i \in Level => Public(i, x))
BY Constants DEF Node, Public, Level

\* What the order says of one place of one inode.
LEMMA Place ==
  ASSUME TypeOK, Linked, NEW low \in Bounds, ChildBounds(low), SepsOwned(low),
         NEW i \in Level, NEW x \in InodeNum, NEW j, NEW c, ChildAt(i, x, j, c)
  PROVE  /\ j \in Nat /\ Node(i - 1, c) /\ Node(i, x)
         /\ low[i - 1][c] \in Int /\ low[i][x] \in Int
         /\ low[i][x] <= low[i - 1][c]
         /\ j = 1 => low[i - 1][c] = low[i][x]
         /\ j > 1 => /\ low[i][x] < low[i - 1][c]
                     /\ low[i - 1][c] = Sep(i, x, j - 1)
         /\ \A y \in Nat : Node(i, y) /\ low[i][x] < low[i][y]
                              => low[i - 1][c] < low[i][y]
<1>1. /\ i \in Nat /\ i \in NodeLevel /\ i - 1 \in NodeLevel /\ x \in Nat
      /\ Size(i, x) \in Nat
      /\ x < ninode[i] /\ j \in 1..(Size(i, x) + 1) /\ c = Kid(i, x, j)
  BY Entries DEF ChildAt
<1>2. /\ Node(i - 1, c) /\ c \in Nat
      /\ \A m \in 1..Size(i, x) : Sep(i, x, m) \in Int
  BY <1>1, Entries
<1>3. Node(i, x)
  <2>1. i # -1
    BY <1>1
  <2> QED
    BY <1>1, <2>1 DEF Node
<1>4. low[i - 1][c] \in Int /\ low[i][x] \in Int
  BY <1>1, <1>2, BoundType
<1>5. low[i - 1][c] = IF j = 1 THEN low[i][x] ELSE Sep(i, x, j - 1)
  BY <1>1 DEF ChildBounds
<1>6. CASE j = 1
  BY <1>1, <1>2, <1>3, <1>4, <1>5, <1>6
<1>7. CASE j > 1
  <2>1. j - 1 \in 1..Size(i, x) /\ j \in Nat
    BY <1>1, <1>7
  <2>2. low[i][x] < Sep(i, x, j - 1) /\ Owns(low, i, x, Sep(i, x, j - 1))
    BY <1>1, <2>1 DEF SepsOwned
  <2>3. ASSUME NEW y \in Nat, Node(i, y), low[i][x] < low[i][y]
        PROVE  low[i - 1][c] < low[i][y]
    <3>1. Public(i, y) /\ low[i][y] \in Int
      BY <1>1, <2>3, NodeType, BoundType
    <3>2. low[i][y] <= Sep(i, x, j - 1) => low[i][y] <= low[i][x]
      BY <2>2, <3>1 DEF Owns
    <3> QED
      BY <1>2, <1>4, <1>5, <1>7, <2>1, <2>3, <3>1, <3>2
  <2> QED
    BY <1>2, <1>3, <1>4, <1>5, <1>7, <2>1, <2>2, <2>3
<1> QED
  BY <1>1, <1>6, <1>7

\* A node hangs from one place.
LEMMA OnePlace ==
  ASSUME TypeOK, Linked, NEW low \in Bounds, TreeOrder(low),
         NEW i \in Level, NEW x \in InodeNum, NEW y \in InodeNum,
         NEW j, NEW m, NEW c, ChildAt(i, x, j, c), ChildAt(i, y, m, c)
  PROVE  x = y /\ j = m
<1>1. ChildBounds(low) /\ SepsOwned(low) /\ Distinct(low)
  BY DEF TreeOrder
<1>2. /\ Node(i, x) /\ Node(i, y) /\ low[i][x] \in Int /\ low[i][y] \in Int
      /\ low[i - 1][c] \in Int
      /\ low[i][x] <= low[i - 1][c] /\ low[i][y] <= low[i - 1][c]
      /\ low[i][x] < low[i][y] => low[i - 1][c] < low[i][y]
      /\ low[i][y] < low[i][x] => low[i - 1][c] < low[i][x]
  BY <1>1, Place, NodeType
<1>3. x = y
  <2>1. low[i][x] = low[i][y]
    BY <1>2
  <2>2. x \in Nat /\ y \in Nat /\ i \in NodeLevel
    BY <1>2, NodeType, Entries
  <2> QED
    BY <1>1, <1>2, <2>1, <2>2 DEF Distinct
<1>4. ASSUME NEW a, NEW b, ChildAt(i, x, a, c), ChildAt(i, x, b, c), a < b
      PROVE  FALSE
  <2>1. /\ a \in Nat /\ b \in Nat /\ a >= 1 /\ b > 1 /\ x < ninode[i]
        /\ a \in 1..(Size(i, x) + 1) /\ b \in 1..(Size(i, x) + 1)
        /\ Size(i, x) \in Nat
    <3>1. Size(i, x) \in Nat
      BY Entries
    <3>2. /\ x < ninode[i]
          /\ a \in 1..(Size(i, x) + 1) /\ b \in 1..(Size(i, x) + 1)
      BY <1>4 DEF ChildAt
    <3> QED
      BY <1>4, <3>1, <3>2
  <2>2. low[i][x] < low[i - 1][c] /\ low[i - 1][c] = Sep(i, x, b - 1)
    BY <1>1, <1>4, <2>1, Place
  <2>3. a > 1 /\ low[i - 1][c] = Sep(i, x, a - 1)
    <3>1. a # 1
      BY <1>1, <1>2, <1>4, <2>2, Place
    <3>2. a > 1
      BY <2>1, <3>1
    <3> QED
      BY <1>1, <1>4, <3>2, Place
  <2>4. a - 1 \in 1..Size(i, x) /\ b - 1 \in 1..Size(i, x) /\ a - 1 < b - 1
    BY <1>4, <2>1, <2>3
  <2>5. Sep(i, x, a - 1) < Sep(i, x, b - 1)
    BY <1>1, <2>1, <2>4 DEF SepsOwned
  <2> QED
    BY <1>2, <2>2, <2>3, <2>5
<1>5. j \in Nat /\ m \in Nat
  BY <1>1, Place
<1> QED
  BY <1>3, <1>4, <1>5

\* A set of numbers has a smallest one.
LEMMA Least ==
  ASSUME NEW T \in SUBSET Nat, T # {}
  PROVE  \E d \in T : \A e \in T : d <= e
<1>1. PICK d \in T : \A e \in T : ~(<<e, d>> \in OpToRel(<, Nat))
  BY NatLessThanWellFounded, WFMin
<1>2. \A e \in T : ~(e < d)
  BY <1>1 DEF OpToRel
<1> QED
  BY <1>2

\* The separators that do not exceed key are the first ones.
LEMMA ChildPosPrefix ==
  ASSUME TypeOK, Linked, NEW low \in Bounds, SepsOwned(low),
         NEW i \in Level, NEW x \in InodeNum, x < ninode[i], NEW key \in Key
  PROVE  \A b \in 1..Size(i, x) :
           b <= ChildPos(<<i, x>>, key) <=> Sep(i, x, b) <= key
<1> DEFINE N == Size(i, x)
           P == {b \in 1..N : Sep(i, x, b) <= key}
           T == {b \in 1..N : ~(Sep(i, x, b) <= key)}
<1>1. N \in Nat /\ key \in Int /\ \A b \in 1..N : Sep(i, x, b) \in Int
  BY Entries, Constants
<1>2. \A a, b \in 1..N : a < b => Sep(i, x, a) < Sep(i, x, b)
  BY DEF SepsOwned
<1>3. ChildPos(<<i, x>>, key) = Cardinality(P)
  BY DEF ChildPos, Sep, Size
<1>4. ASSUME NEW m \in 0..N, P = 1..m
      PROVE  \A b \in 1..N : b <= ChildPos(<<i, x>>, key) <=> Sep(i, x, b) <= key
  <2>1. Cardinality(1..m) = m
    BY <1>1, FS_Interval
  <2>2. ChildPos(<<i, x>>, key) = m
    BY <1>3, <1>4, <2>1
  <2>3. ASSUME NEW b \in 1..N PROVE b <= m <=> Sep(i, x, b) <= key
    <3>1. b \in P <=> b \in 1..m
      BY <1>4
    <3> QED
      BY <1>1, <3>1
  <2> QED
    BY <2>2, <2>3
<1>5. CASE T = {}
  <2>1. P = 1..N
    BY <1>5
  <2>2. N \in 0..N
    BY <1>1
  <2> HIDE DEF P
  <2> QED
    BY <1>4, <2>1, <2>2
<1>6. CASE T # {}
  <2>1. T \in SUBSET Nat
    BY <1>1
  <2>2. PICK d \in T : \A e \in T : d <= e
    BY <1>6, <2>1, Least
  <2>3. d \in 1..N /\ ~(Sep(i, x, d) <= key) /\ d \in Nat /\ d - 1 \in 0..N
    BY <1>1, <2>2
  <2>4. ASSUME NEW b \in 1..N PROVE Sep(i, x, b) <= key <=> b < d
    <3>1. CASE b < d
      <4>1. b \notin T
        BY <1>1, <2>2, <2>3, <3>1
      <4> QED
        BY <3>1, <4>1
    <3>2. CASE b = d
      BY <2>3, <3>2
    <3>3. CASE b > d
      <4>1. Sep(i, x, d) < Sep(i, x, b)
        BY <1>2, <2>3, <3>3
      <4> QED
        BY <1>1, <2>3, <3>3, <4>1
    <3> QED
      BY <1>1, <2>3, <3>1, <3>2, <3>3
  <2>5. P = 1..(d - 1)
    BY <1>1, <2>3, <2>4
  <2> HIDE DEF P
  <2> QED
    BY <1>4, <2>3, <2>5
<1> QED
  BY <1>5, <1>6

-----------------------------------------------------------------------------
(* One level of a descent.                                                 *)

\* c is the last of the children of level i's parents that start at key or
\* before.
LastChild(low, i, c, key) ==
  /\ low[i - 1][c] <= key
  /\ \A y \in Nat : IsChild(i, y) /\ low[i - 1][y] <= key
                      => low[i - 1][y] <= low[i - 1][c]

LEMMA StepDown ==
  ASSUME TypeOK, Linked, NEW low \in Bounds, TreeOrder(low),
         NEW i \in Level, NEW x \in InodeNum, x < ninode[i], NEW key \in Key,
         Owns(low, i, x, key), NEW c, c = Child(<<i, x>>, key)
  PROVE  /\ ChildAt(i, x, ChildPos(<<i, x>>, key) + 1, c)
         /\ LastChild(low, i, c, key)
<1> DEFINE cp == ChildPos(<<i, x>>, key)
<1>1. ChildBounds(low) /\ SepsOwned(low) /\ Distinct(low)
  BY DEF TreeOrder
<1>2. /\ i \in Nat /\ i \in NodeLevel /\ i - 1 \in NodeLevel /\ x \in Nat
      /\ Size(i, x) \in Nat /\ key \in Int
      /\ \A j \in 1..Size(i, x) : Sep(i, x, j) \in Int
  BY Entries, Constants
<1>3. cp \in 0..Size(i, x)
  <2>1. <<i, x>> \in Inode
    BY DEF Inode
  <2> QED
    BY <2>1, ChildPosType DEF Size
<1>4. \A b \in 1..Size(i, x) : b <= cp <=> Sep(i, x, b) <= key
  BY <1>1, ChildPosPrefix
<1>5. ChildAt(i, x, cp + 1, c)
  <2>1. Kid(i, x, cp + 1) = c
    BY DEF Child, Kid
  <2> QED
    BY <1>2, <1>3, <2>1 DEF ChildAt
<1> HIDE DEF cp
<1>6. /\ low[i - 1][c] \in Int /\ low[i][x] \in Int
      /\ low[i][x] <= low[i - 1][c]
      /\ cp + 1 = 1 => low[i - 1][c] = low[i][x]
      /\ cp + 1 > 1 => low[i - 1][c] = Sep(i, x, (cp + 1) - 1)
  BY <1>1, <1>5, Place
<1>7. cp > 0 => cp \in 1..Size(i, x) /\ low[i - 1][c] = Sep(i, x, cp)
  <2>1. (cp + 1) - 1 = cp
    BY <1>3
  <2> QED
    BY <1>2, <1>3, <1>6, <2>1
<1>8. low[i - 1][c] <= key
  <2>1. CASE cp = 0
    BY <1>6, <2>1 DEF Owns
  <2>2. CASE cp > 0
    BY <1>3, <1>4, <1>7, <2>2
  <2> QED
    BY <1>3, <2>1, <2>2
<1>9. ASSUME NEW y \in Nat, IsChild(i, y), low[i - 1][y] <= key
      PROVE  low[i - 1][y] <= low[i - 1][c]
  <2>1. PICK z \in InodeNum, j \in ChildPlace : ChildAt(i, z, j, y)
    BY <1>9 DEF IsChild
  <2>2. /\ j \in Nat /\ Node(i, z)
        /\ low[i - 1][y] \in Int /\ low[i][z] \in Int
        /\ low[i][z] <= low[i - 1][y]
        /\ j = 1 => low[i - 1][y] = low[i][z]
        /\ j > 1 => low[i - 1][y] = Sep(i, z, j - 1)
        /\ low[i][z] < low[i][x] => low[i - 1][y] < low[i][x]
    <3>1. Node(i, x)
      BY <1>1, <1>5, Place
    <3> QED
      BY <1>1, <1>2, <2>1, <3>1, Place
  <2>3. low[i][z] <= low[i][x]
    <3>1. Public(i, z) /\ z \in Nat
      BY <2>2, NodeType
    <3> QED
      BY <1>2, <1>9, <2>2, <3>1 DEF Owns
  <2>4. CASE low[i][z] < low[i][x]
    BY <1>6, <2>2, <2>4
  <2>5. CASE low[i][z] = low[i][x]
    <3>1. z = x
      <4>1. z \in Nat /\ Node(i, x)
        BY <1>1, <1>5, <2>2, NodeType, Place
      <4> QED
        BY <1>1, <1>2, <2>2, <2>5, <4>1 DEF Distinct
    <3>2. j \in 1..(Size(i, x) + 1)
      BY <2>1, <3>1 DEF ChildAt
    <3>3. CASE j = 1
      BY <1>6, <2>2, <2>5, <3>3
    <3>4. CASE j > 1
      <4>1. j - 1 \in 1..Size(i, x) /\ j - 1 \in Nat
        BY <1>2, <2>2, <3>2, <3>4
      <4>2. low[i - 1][y] = Sep(i, x, j - 1)
        BY <2>2, <3>1, <3>4
      <4>3. j - 1 <= cp
        BY <1>4, <1>9, <4>1, <4>2
      <4>4. cp > 0
        BY <1>3, <3>4, <4>1, <4>3
      <4>5. j - 1 < cp => Sep(i, x, j - 1) < Sep(i, x, cp)
        BY <1>1, <1>7, <4>1, <4>4 DEF SepsOwned
      <4>6. low[i - 1][c] = Sep(i, x, cp)
        BY <1>7, <4>4
      <4>7. j - 1 = cp => low[i - 1][y] = low[i - 1][c]
        BY <4>2, <4>6
      <4> QED
        BY <1>3, <1>6, <2>2, <4>1, <4>2, <4>3, <4>5, <4>6, <4>7
    <3> QED
      BY <2>2, <3>2, <3>3, <3>4
  <2> QED
    BY <1>6, <2>2, <2>3, <2>4, <2>5
<1> QED
  BY <1>5, <1>8, <1>9 DEF cp, LastChild

\* An inode of a held path is locked and has the next node of the path.
PathPlace(t, i, x, j, c) ==
  /\ i \in Level /\ x \in InodeNum /\ i <= root_level
  /\ ChildAt(i, x, j, c) /\ Holds(t, i, x) /\ ilock[<<i, x>>]

LEMMA PathChild ==
  ASSUME IndInv, ShapeInv, NEW t \in Thread, HoldsPath(t),
         NEW i \in Nat, Low(t) <= i, InReach(loc[t].path, i),
         NEW x, x = loc[t].path.parray[i], NEW c,
         c = IF i = 0 THEN loc[t].lp ELSE loc[t].path.parray[i - 1]
  PROVE  PathPlace(t, i, x, loc[t].path.ppos[i] + 1, c)
<1>1. /\ TypeOK /\ InodeLocks /\ Linked
      /\ ClimbOK(t) /\ PathTrue(t) /\ Climb(t) /\ PathLinked(t)
  BY DEF IndInv, ClimbInv, ClimbOK, TreeInv, ShapeInv
<1>2. loc[t].path.rl \in Nat /\ i <= loc[t].path.rl /\ i \in Level
      /\ x \in InodeNum /\ loc[t].path.ppos[i] \in Nat
      /\ loc[t].path.rl <= root_level /\ root_level \in Nat
  <2>1. loc[t].path \in Path
    BY <1>1, LocalFields
  <2>2. loc[t].path.rl \in Level /\ i \in 0..loc[t].path.rl
    BY <2>1 DEF Path, InReach
  <2>3. i \in Level /\ i <= loc[t].path.rl /\ loc[t].path.rl \in Nat
    BY <2>2, Constants DEF Level
  <2>4. x \in InodeNum /\ loc[t].path.ppos[i] \in Nat
    BY <2>1, <2>3, Constants DEF Path
  <2>5. loc[t].path.rl <= root_level /\ root_level \in Nat
    BY <1>1, Constants DEF Climb, TypeOK, SearchTypeOK, Level
  <2> QED
    BY <2>3, <2>4, <2>5
<1>3. Low(t) \in Nat /\ i \in Low(t)..loc[t].path.rl
  <2>1. loc[t].lev \in Nat
    BY <1>1, LocalFields
  <2> QED
    BY <1>2, <2>1 DEF Low
<1>4. x < ninode[i] /\ loc[t].path.ppos[i] <= Size(i, x)
  BY <1>1, <1>3 DEF PathTrue, Size
<1>5. Size(i, x) \in Nat
  BY <1>1, <1>2, Entries
<1>6. Kid(i, x, loc[t].path.ppos[i] + 1) = c
  BY <1>1, <1>3 DEF PathLinked
<1>7. Holds(t, i, x) /\ ilock[<<i, x>>]
  BY <1>1, <1>2 DEF Holds, InodeLocks
<1> QED
  BY <1>2, <1>4, <1>5, <1>6, <1>7 DEF PathPlace, ChildAt

-----------------------------------------------------------------------------
(* New nodes and the nodes they were split from.                           *)

BornNodes(t) ==
  /\ BornAt(t) \in NodeLevel /\ BornAt(t) \in Int
  /\ loc[t].ptr \in Nat /\ Origin(t) \in Nat
  /\ Node(BornAt(t), loc[t].ptr) /\ Node(BornAt(t), Origin(t))
  /\ loc[t].sep \in Int

\* An inode t has split and unlocked hangs from the inode t holds above it;
\* so does a leaf of a client or of a worker that has its path.
LEMMA OriginPlace ==
  ASSUME IndInv, ShapeInv, NEW t \in Thread, Bears(t), HoldsPath(t),
         NEW i, i = BornAt(t) + 1
  PROVE  PathPlace(t, i, loc[t].path.parray[i], loc[t].path.ppos[i] + 1,
                   Origin(t))
<1>1. TypeOK /\ Climb(t) /\ loc[t].lev \in Nat
  <2>1. TypeOK /\ Climb(t)
    BY DEF IndInv, ClimbInv, ClimbOK
  <2> QED
    BY <2>1, LocalFields
<1>2. /\ i \in Nat /\ Low(t) = i
      /\ Origin(t) = IF i = 0 THEN loc[t].lp ELSE loc[t].path.parray[i - 1]
  <2>1. CASE pc[t] = "inode"
    <3>1. BornAt(t) = loc[t].lev - 1 /\ Low(t) = loc[t].lev
      BY <2>1 DEF BornAt, Low
    <3> QED
      BY <1>1, <3>1 DEF Origin
  <2>2. CASE pc[t] # "inode"
    <3>1. BornAt(t) = -1 /\ Low(t) = 0
      BY <2>2 DEF BornAt, Low, HoldsPath
    <3> QED
      BY <3>1 DEF Origin
  <2> QED
    BY <2>1, <2>2
<1>3. InReach(loc[t].path, i)
  <2>1. CASE pc[t] = "inode"
    BY <1>1, <1>2, <2>1 DEF Climb, Low
  <2>2. CASE pc[t] # "inode"
    <3>1. i = 0
      BY <1>2, <2>2 DEF Low
    <3>2. loc[t].path.rl \in Nat
      BY <1>1, LocalFields, Constants DEF Path, Level
    <3> QED
      BY <3>1, <3>2 DEF InReach
  <2> QED
    BY <2>1, <2>2
<1>4. Low(t) <= i
  BY <1>2
<1> QED
  BY <1>2, <1>3, <1>4, PathChild

LEMMA BornType ==
  ASSUME IndInv, ShapeInv, NEW t \in Thread, Bears(t)
  PROVE  BornNodes(t)
<1>1. /\ TypeOK /\ Linked /\ CarriedLeaf /\ CarriedInode(t) /\ RootState(t)
      /\ LeafAlone /\ PtrTypeOK(t)
      /\ loc[t].lev \in Nat /\ loc[t].lev <= MaxLevel + 1 /\ MaxLevel \in Nat
      /\ loc[t].ptr \in Nat /\ loc[t].sep \in Int
      /\ loc[t].lp \in LnodeId /\ loc[t].path \in Path
  <2>1. TypeOK
    BY DEF IndInv
  <2>2. loc[t].sep \in Int /\ loc[t].lev \in Nat /\ loc[t].lev <= MaxLevel + 1
        /\ MaxLevel \in Nat
    BY <2>1, LocalFields, Constants
  <2> QED
    BY <2>1, <2>2, LocalFields
    DEF IndInv, ClimbInv, ClimbOK, TreeInv, ShapeInv
<1>2. CASE Carries(t)
  <2>1. BornAt(t) = -1
    BY <1>1, <1>2 DEF Carries, BornAt
  <2>2. loc[t].ptr < nleaf /\ loc[t].lp < nleaf /\ loc[t].lp \in Nat
    BY <1>1, <1>2 DEF CarriedLeaf, LeafAlone, LnodeId
  <2> QED
    BY <1>1, <2>1, <2>2 DEF BornNodes, Origin, Node, NodeLevel
<1>3. CASE ~Carries(t)
  <2>1. pc[t] \in {"inode", "grow"} /\ loc[t].lev > 0
        /\ BornAt(t) = loc[t].lev - 1
    BY <1>1, <1>3 DEF Bears, Carries, BornAt, PtrTypeOK
  <2>2. BornAt(t) \in Level /\ BornAt(t) \in Nat /\ BornAt(t) + 1 = loc[t].lev
    BY <1>1, <2>1 DEF Level
  <2>3. Origin(t) = loc[t].path.parray[BornAt(t)] /\ Origin(t) \in Nat
    BY <1>1, <2>2, Constants DEF Origin, Path, InodeNum
  <2>4. loc[t].ptr < ninode[BornAt(t)]
    BY <1>1, <2>1 DEF CarriedInode
  <2>5. Origin(t) < ninode[BornAt(t)]
    <3>1. CASE pc[t] = "inode"
      <4>1. HoldsPath(t)
        BY <3>1 DEF HoldsPath
      <4>2. PICK x, j : x \in InodeNum /\ loc[t].lev \in Level
              /\ ChildAt(loc[t].lev, x, j, Origin(t))
        BY <2>2, <4>1, OriginPlace DEF PathPlace
      <4>3. /\ x < ninode[loc[t].lev] /\ j \in 1..(Size(loc[t].lev, x) + 1)
            /\ Origin(t) = Kid(loc[t].lev, x, j)
        BY <4>2 DEF ChildAt
      <4>4. Node(BornAt(t), Origin(t))
        BY <1>1, <2>1, <4>2, <4>3, Entries
      <4> QED
        BY <2>2, <4>4 DEF Node
    <3>2. CASE pc[t] = "grow"
      <4>1. tree_root = <<BornAt(t), Origin(t)>>
        BY <1>1, <2>1, <2>3, <3>2 DEF RootState
      <4> QED
        BY <1>1, <4>1 DEF Linked
    <3> QED
      BY <2>1, <3>1, <3>2
  <2> QED
    BY <1>1, <2>2, <2>3, <2>4, <2>5, Constants DEF BornNodes, Node, NodeLevel, Level
<1> QED
  BY <1>2, <1>3

\* A new node is not the last child that starts before key, but the node it
\* was split from may be.
LEMMA BornAfter ==
  ASSUME IndInv, ShapeInv, NEW low \in Bounds, TreeOrder(low),
         NEW t \in Thread, Bears(t), NEW i \in Level, i = BornAt(t) + 1,
         IsChild(i, Origin(t)), NEW key \in Key, NEW c, Node(i - 1, c),
         LastChild(low, i, c, key), low[i - 1][loc[t].ptr] <= key
  PROVE  low[i - 1][loc[t].ptr] <= low[i - 1][c] \/ c = Origin(t)
<1>1. BornNodes(t)
  BY BornType
<1>2. i - 1 = BornAt(t) /\ i - 1 \in NodeLevel /\ c \in Nat
  BY <1>1, NodeType DEF BornNodes
<1>3. /\ loc[t].ptr \in Nat /\ Origin(t) \in Nat /\ loc[t].sep \in Int
      /\ Node(i - 1, loc[t].ptr) /\ Node(i - 1, Origin(t))
  BY <1>1, <1>2 DEF BornNodes
<1>4. /\ low[i - 1][loc[t].ptr] = loc[t].sep
      /\ low[i - 1][Origin(t)] < loc[t].sep
      /\ \A y \in Nat : Node(i - 1, y) /\ low[i - 1][y] < loc[t].sep =>
           low[i - 1][y] <= low[i - 1][Origin(t)]
  BY <1>2 DEF TreeOrder, BornBound
<1>5. /\ low[i - 1][c] \in Int /\ low[i - 1][Origin(t)] \in Int /\ key \in Int
  BY <1>2, <1>3, BoundType, Constants
<1>6. low[i - 1][Origin(t)] <= low[i - 1][c]
  <2>1. low[i - 1][Origin(t)] <= key
    BY <1>3, <1>4, <1>5
  <2> QED
    BY <1>3, <2>1 DEF LastChild
<1>7. CASE low[i - 1][c] < loc[t].sep
  <2>1. low[i - 1][c] <= low[i - 1][Origin(t)]
    BY <1>2, <1>4, <1>7
  <2>2. low[i - 1][c] = low[i - 1][Origin(t)]
    BY <1>5, <1>6, <2>1
  <2> QED
    BY <1>2, <1>3, <2>2 DEF TreeOrder, Distinct
<1>8. CASE ~(low[i - 1][c] < loc[t].sep)
  BY <1>3, <1>4, <1>5, <1>8
<1> QED
  BY <1>7, <1>8

\* Facts the lemmas below share.
LEMMA Parts ==
  ASSUME IndInv, ShapeInv
  PROVE  /\ TypeOK /\ Linked /\ OneUse /\ CarriedLeaf /\ InodeLocks
         /\ LeafLockOwner /\ RootLevel /\ LeafAllocated
         /\ CarriedApart /\ InodesRooted /\ TopEmpty /\ LeafAlone
         /\ \A t \in Thread : /\ ClimbOK(t) /\ PathTrue(t) /\ Climb(t)
                              /\ RootState(t) /\ CarriedInode(t)
                              /\ LeafOfPath(t) /\ InodeAlone(t)
                              /\ PathLinked(t) /\ LeafKnown(t)
BY DEF IndInv, TreeInv, ClimbInv, ClimbOK, LeafInv, ShapeInv

-----------------------------------------------------------------------------
(* The whole descent.                                                      *)

\* From an unlocked inode that owns the key to the inode that does below it:
\* a new node between the two is known to an inode that is locked.
LEMMA StepOwns ==
  ASSUME IndInv, ShapeInv, NEW low \in Bounds, TreeOrder(low),
         tree_root[1] = root_level, NEW i \in 1..root_level,
         NEW x \in InodeNum, x < ninode[i], ~ilock[<<i, x>>], NEW key \in Key,
         Owns(low, i, x, key), NEW c, c = Child(<<i, x>>, key)
  PROVE  Owns(low, i - 1, c, key)
<1>1. TypeOK /\ Linked /\ InodesRooted
  BY Parts
<1>2. i \in Level /\ i - 1 \in Level /\ i \in Nat /\ root_level \in Nat
  BY <1>1, Constants DEF TypeOK, SearchTypeOK, Level
<1>3. /\ ChildAt(i, x, ChildPos(<<i, x>>, key) + 1, c)
      /\ LastChild(low, i, c, key)
  BY <1>1, <1>2, StepDown
<1>4. Node(i - 1, c) /\ c \in Nat
  <2>1. ChildBounds(low) /\ SepsOwned(low)
    BY DEF TreeOrder
  <2> QED
    BY <1>1, <1>2, <1>3, <2>1, Place, NodeType
<1> SUFFICES ASSUME NEW y \in Nat, Public(i - 1, y), low[i - 1][y] <= key
             PROVE  low[i - 1][y] <= low[i - 1][c]
  BY <1>3 DEF Owns, LastChild
<1>5. y \in InodeNum /\ y < ninode[i - 1]
  <2>1. y < ninode[i - 1] /\ ninode[i - 1] <= MaxInode /\ ninode[i - 1] \in Nat
    BY <1>1, <1>2, Constants DEF Public, Node, TypeOK, SearchTypeOK
  <2> QED
    BY <2>1, Constants DEF InodeNum
<1>6. \/ tree_root = <<i - 1, y>>
      \/ IsChild((i - 1) + 1, y)
      \/ \E t \in Thread :
           /\ loc[t].ptr = y
           /\ \/ Bears(t) /\ BornAt(t) = i - 1
              \/ pc[t] = "growroot" /\ loc[t].lev = i - 1
  BY <1>1, <1>2, <1>5 DEF InodesRooted
<1>7. tree_root # <<i - 1, y>>
  <2>1. i - 1 # root_level
    BY <1>2
  <2> QED
    BY <2>1
<1>8. CASE IsChild((i - 1) + 1, y)
  <2>1. IsChild(i, y)
    <3>1. (i - 1) + 1 = i
      BY <1>2
    <3> QED
      BY <1>8, <3>1
  <2> QED
    BY <1>3, <2>1 DEF LastChild
<1>9. ASSUME NEW t \in Thread, loc[t].ptr = y, Bears(t), BornAt(t) = i - 1
      PROVE  low[i - 1][y] <= low[i - 1][c]
  <2>1. i - 1 # -1
    BY <1>2
  <2>2. pc[t] \in {"inode", "grow"} /\ BornAt(t) = loc[t].lev - 1
    BY <1>9, <2>1 DEF BornAt
  <2>3. loc[t].lev = i
    <3>1. loc[t].lev \in Nat
      BY <1>1, LocalFields
    <3> QED
      BY <1>2, <1>9, <2>2, <3>1
  <2>4. pc[t] # "grow"
    <3>1. RootState(t)
      BY Parts
    <3> QED
      BY <1>2, <2>3, <3>1 DEF RootState
  <2>5. HoldsPath(t)
    BY <2>2, <2>4 DEF HoldsPath
  <2>6. i = BornAt(t) + 1
    BY <1>2, <1>9
  <2>7. PICK z, j : z = loc[t].path.parray[i] /\ j = loc[t].path.ppos[i] + 1
    OBVIOUS
  <2>8. PathPlace(t, i, z, j, Origin(t))
    BY <1>9, <2>5, <2>6, <2>7, OriginPlace
  <2>9. z \in InodeNum /\ ChildAt(i, z, j, Origin(t)) /\ ilock[<<i, z>>]
    BY <2>8 DEF PathPlace
  <2>10. IsChild(i, Origin(t))
    <3>1. j \in ChildPlace
      BY <1>1, <1>2, <2>9, Entries DEF ChildAt
    <3> QED
      BY <2>9, <3>1 DEF IsChild
  <2>11. low[i - 1][y] <= low[i - 1][c] \/ c = Origin(t)
    BY <1>2, <1>3, <1>4, <1>9, <2>6, <2>10, BornAfter
  <2>12. c # Origin(t)
    <3>1. c = Origin(t) => x = z
      BY <1>1, <1>2, <1>3, <2>9, OnePlace
    <3> QED
      BY <2>9, <3>1
  <2> QED
    BY <2>11, <2>12
<1>10. ASSUME NEW t \in Thread, pc[t] = "growroot", loc[t].lev = i - 1
       PROVE  FALSE
  <2>1. RootState(t)
    BY Parts
  <2>2. tree_root[1] = loc[t].lev - 1 /\ root_level = loc[t].lev
    BY <1>10, <2>1 DEF RootState
  <2> QED
    BY <1>2, <1>10, <2>2
<1> QED
  BY <1>6, <1>7, <1>8, <1>9, <1>10

\* The root owns every key.
LEMMA RootOwns ==
  ASSUME IndInv, ShapeInv, NEW low \in Bounds, TreeOrder(low), NEW key \in Key,
         tree_root[1] = root_level, ~ilock[tree_root],
         NEW x, x = tree_root[2]
  PROVE  Owns(low, root_level, x, key)
<1>1. TypeOK /\ Linked /\ InodesRooted /\ TopEmpty /\ InodeLocks
  BY Parts
<1>2. root_level \in Level /\ root_level \in Nat /\ tree_root = <<root_level, x>>
      /\ x \in InodeNum /\ x \in Nat
  BY <1>1, Constants DEF TypeOK, SearchTypeOK, Level, Inode, InodeNum
<1>3. low[root_level][x] < key
  BY DEF TreeOrder, RootBound
<1>4. low[root_level][x] <= key
  <2>1. low[root_level][x] \in Int /\ key \in Int
    BY <1>2, BoundType, Constants DEF NodeLevel, Level
  <2> QED
    BY <1>3, <2>1
<1>5. ASSUME NEW y \in Nat, Public(root_level, y)
      PROVE  y = x
  <2>1. y \in InodeNum /\ y < ninode[root_level]
    <3>1. /\ y < ninode[root_level] /\ ninode[root_level] <= MaxInode
          /\ ninode[root_level] \in Nat
      BY <1>1, <1>2, <1>5, Constants DEF Public, Node, TypeOK, SearchTypeOK
    <3> QED
      BY <3>1, Constants DEF InodeNum
  <2>2. \/ tree_root = <<root_level, y>>
        \/ root_level + 1 \in Level /\ IsChild(root_level + 1, y)
        \/ \E t \in Thread :
             /\ loc[t].ptr = y
             /\ \/ Bears(t) /\ BornAt(t) = root_level
                \/ pc[t] = "growroot" /\ loc[t].lev = root_level
    BY <1>1, <1>2, <2>1 DEF InodesRooted
  <2>3. ~(root_level + 1 \in Level /\ IsChild(root_level + 1, y))
    <3>1. root_level + 1 \in Level => ninode[root_level + 1] = 0
      BY <1>1, <1>2 DEF TopEmpty
    <3> QED
      BY <3>1 DEF IsChild, ChildAt, InodeNum
  <2>4. ASSUME NEW t \in Thread, Bears(t), BornAt(t) = root_level
        PROVE  FALSE
    <3>1. pc[t] \in {"inode", "grow"} /\ BornAt(t) = loc[t].lev - 1
      BY <1>2, <2>4 DEF BornAt
    <3>2. loc[t].lev = root_level + 1 /\ Climb(t) /\ RootState(t)
      <4>1. loc[t].lev \in Nat
        BY <1>1, LocalFields
      <4> QED
        BY <1>2, <2>4, <3>1, <4>1, Parts
    <3>3. CASE pc[t] = "inode"
      <4>1. loc[t].path.rl <= root_level /\ loc[t].lev \in 0..loc[t].path.rl
        BY <3>2, <3>3 DEF Climb, HoldsPath, InReach
      <4>2. loc[t].path.rl \in Nat
        BY <1>1, LocalFields, Constants DEF Path, Level
      <4> QED
        BY <1>2, <3>2, <4>1, <4>2
    <3>4. CASE pc[t] = "grow"
      <4>1. tree_root = <<root_level, loc[t].path.parray[root_level]>>
        BY <1>2, <3>2, <3>4 DEF RootState
      <4>2. loc[t].path.parray[root_level] = x
        BY <1>2, <4>1
      <4>3. Holds(t, root_level, x)
        BY <1>2, <3>2, <3>4, <4>2 DEF Holds
      <4> QED
        BY <1>1, <1>2, <4>3 DEF InodeLocks
    <3> QED
      BY <3>1, <3>3, <3>4
  <2>5. ASSUME NEW t \in Thread, pc[t] = "growroot" PROVE FALSE
    <3>1. RootState(t) /\ loc[t].lev \in Nat
      BY <1>1, LocalFields, Parts
    <3>2. tree_root[1] = loc[t].lev - 1 /\ root_level = loc[t].lev
      BY <2>5, <3>1 DEF RootState
    <3> QED
      BY <1>2, <3>1, <3>2
  <2> QED
    BY <1>2, <2>2, <2>3, <2>4, <2>5
<1>6. low[root_level][x] \in Int
  BY <1>2, BoundType DEF NodeLevel, Level
<1> QED
  BY <1>4, <1>5, <1>6 DEF Owns

LEMMA DescentOwns ==
  ASSUME IndInv, ShapeInv, NEW low \in Bounds, TreeOrder(low), NEW key \in Key,
         NEW p \in Descents(key)
  PROVE  \A i \in 0..root_level :
           /\ i \in Level /\ p[i] \in InodeNum /\ p[i] < ninode[i]
           /\ ~ilock[<<i, p[i]>>] /\ Owns(low, i, p[i], key)
<1>1. TypeOK /\ Linked
  BY Parts
<1>2. /\ root_level \in Nat /\ 0..root_level \subseteq Level
      /\ p \in [0..root_level -> InodeNum]
      /\ tree_root = <<root_level, p[root_level]>>
      /\ \A i \in 0..root_level : ~ilock[<<i, p[i]>>]
      /\ \A i \in 1..root_level : p[i - 1] = Child(<<i, p[i]>>, key)
  BY <1>1, Constants, SMTT(30) DEF TypeOK, SearchTypeOK, Level, Descents, IsDescent
<1>3. \A i \in 0..root_level : p[i] < ninode[i]
  BY <1>1, DescentAllocated
<1> DEFINE T == {d \in Nat : d <= root_level
                    /\ ~Owns(low, root_level - d, p[root_level - d], key)}
<1>4. T = {}
  <2> SUFFICES ASSUME T # {} PROVE FALSE
    OBVIOUS
  <2>1. T \in SUBSET Nat
    OBVIOUS
  <2>2. PICK d \in T : \A e \in T : d <= e
    BY <2>1, Least
  <2>3. d \in Nat /\ d <= root_level
        /\ ~Owns(low, root_level - d, p[root_level - d], key)
    BY <2>2
  <2>4. d # 0
    <3>1. tree_root[1] = root_level /\ tree_root[2] = p[root_level]
          /\ ~ilock[tree_root]
      BY <1>2
    <3>2. Owns(low, root_level, p[root_level], key)
      BY <3>1, RootOwns
    <3>3. root_level - 0 = root_level
      BY <1>2
    <3> QED
      BY <2>3, <3>2, <3>3
  <2>5. PICK i : i = root_level - (d - 1)
    OBVIOUS
  <2>6. i \in 1..root_level /\ i \in 0..root_level /\ i - 1 = root_level - d
    BY <1>2, <2>3, <2>4, <2>5
  <2>7. Owns(low, i, p[i], key)
    <3>1. d - 1 \in Nat /\ d - 1 <= root_level /\ ~(d <= d - 1)
      BY <1>2, <2>3, <2>4
    <3>2. d - 1 \notin T
      BY <2>2, <3>1
    <3> QED
      BY <2>5, <3>1, <3>2
  <2>8. Owns(low, i - 1, p[i - 1], key)
    <3>1. /\ p[i] \in InodeNum /\ p[i] < ninode[i] /\ ~ilock[<<i, p[i]>>]
          /\ p[i - 1] = Child(<<i, p[i]>>, key) /\ tree_root[1] = root_level
      BY <1>2, <1>3, <2>6
    <3> QED
      BY <2>6, <2>7, <3>1, StepOwns
  <2> QED
    BY <2>3, <2>6, <2>8
<1> SUFFICES ASSUME NEW i \in 0..root_level PROVE Owns(low, i, p[i], key)
  BY <1>2, <1>3
<1>5. root_level - i \in Nat /\ root_level - i <= root_level
      /\ root_level - (root_level - i) = i
  BY <1>2
<1> QED
  BY <1>4, <1>5

-----------------------------------------------------------------------------
(* The leaf it ends in.                                                    *)

LEMMA BottomLast ==
  ASSUME IndInv, ShapeInv, NEW low \in Bounds, TreeOrder(low), NEW key \in Key,
         NEW p \in Descents(key), NEW c, c = LeafFor(p, key),
         NEW x, x = p[0]
  PROVE  /\ 0 \in Level /\ x \in InodeNum /\ ~ilock[<<0, x>>]
         /\ ChildAt(0, x, ChildPos(<<0, x>>, key) + 1, c)
         /\ LastChild(low, 0, c, key)
         /\ Node(-1, c) /\ c \in Nat /\ c \in LnodeId
<1>1. TypeOK /\ Linked
  BY Parts
<1>2. 0 \in 0..root_level /\ 0 \in Level
  BY <1>1, Constants DEF TypeOK, SearchTypeOK, Level
<1>3. /\ x \in InodeNum /\ x < ninode[0] /\ ~ilock[<<0, x>>]
      /\ Owns(low, 0, x, key)
  BY <1>2, DescentOwns
<1>4. /\ ChildAt(0, x, ChildPos(<<0, x>>, key) + 1, c)
      /\ LastChild(low, 0, c, key)
  BY <1>1, <1>2, <1>3, StepDown DEF LeafFor
<1>5. Node(0 - 1, c)
  <2>1. ChildBounds(low) /\ SepsOwned(low)
    BY DEF TreeOrder
  <2> QED
    BY <1>1, <1>2, <1>3, <1>4, <2>1, Place
<1>6. c \in LnodeId
  BY <1>1, DescentType
<1> QED
  BY <1>2, <1>3, <1>4, <1>5, <1>6, NodeType

\* A leaf that is found unlocked is not one that was split and whose parent
\* does not know.
LEMMA FreeOrigin ==
  ASSUME IndInv, ShapeInv, NEW low \in Bounds, TreeOrder(low), NEW key \in Key,
         NEW p \in Descents(key), NEW c, c = LeafFor(p, key), ~meta[c].lock,
         NEW u \in Thread, Carries(u)
  PROVE  loc[u].lp # c
<1> SUFFICES ASSUME loc[u].lp = c PROVE FALSE
  OBVIOUS
<1>1. TypeOK /\ Linked /\ LeafLockOwner
  BY Parts
<1>2. PICK x : x = p[0]
  OBVIOUS
<1>3. /\ 0 \in Level /\ x \in InodeNum /\ ~ilock[<<0, x>>]
      /\ ChildAt(0, x, ChildPos(<<0, x>>, key) + 1, c)
  BY <1>2, BottomLast
<1>4. CASE HoldsPath(u)
  <2>1. Bears(u) /\ BornAt(u) = -1
    BY <1>1, LocalFields DEF Bears, Carries, BornAt
  <2>2. Origin(u) = c
    BY <2>1 DEF Origin
  <2>3. 0 = BornAt(u) + 1
    BY <2>1
  <2>4. PICK z, j : z = loc[u].path.parray[0] /\ j = loc[u].path.ppos[0] + 1
    OBVIOUS
  <2>5. PathPlace(u, 0, z, j, c)
    BY <1>4, <2>1, <2>2, <2>3, <2>4, OriginPlace
  <2>6. z \in InodeNum /\ ChildAt(0, z, j, c) /\ ilock[<<0, z>>]
    BY <2>5 DEF PathPlace
  <2>7. x = z
    BY <1>1, <1>3, <2>6, OnePlace
  <2> QED
    BY <1>3, <2>6, <2>7
<1>5. CASE ~HoldsPath(u)
  <2>1. u \in Worker /\ pc[u] \in {"publish", "locate"}
    BY <1>1, <1>5
    DEF Carries, HoldsPath, Thread, TypeOK, ThreadTypeOK, ForegroundLabel
  <2>2. HoldsLeaf(u) /\ pc[u] # "addleft"
    BY <2>1, Constants DEF HoldsLeaf
  <2> QED
    BY <1>1, <2>2 DEF LeafLockOwner
<1> QED
  BY <1>4, <1>5

\* A leaf in the search layer, in the words of the bounds.
LEMMA InTreeIsChild ==
  ASSUME TypeOK, Linked, NEW l, InTree(l) PROVE IsChild(0, l)
<1>1. PICK x \in InodeNum, j \in ChildPlace : Hangs(l, x, j)
  BY DEF InTree
<1>2. 0 \in Level
  BY Constants DEF Level
<1>3. /\ ent[<<0, x>>].ch \in Seq(ChildId(0))
      /\ Len(ent[<<0, x>>].ch) = Size(0, x) + 1
  BY <1>2, Entries
<1>4. ChildAt(0, x, j, l)
  BY <1>1, <1>3, LenProperties DEF Hangs, ChildAt, Kid
<1> QED
  BY <1>4 DEF IsChild

\* The leaf a new one was split from is in the search layer.
LEMMA OriginInTree ==
  ASSUME IndInv, ShapeInv, Rooted, NEW u \in Thread, Carries(u)
  PROVE  IsChild(0, loc[u].lp)
<1>1. TypeOK /\ Linked /\ LeafAlone /\ loc[u].lp \in LnodeId
  BY Parts, LocalFields
<1>2. loc[u].lp < nleaf
  BY <1>1 DEF LeafAlone
<1>3. \A t \in Thread : Carries(t) => loc[t].ptr # loc[u].lp
  BY <1>1 DEF LeafAlone, Uses
<1>4. InTree(loc[u].lp)
  BY <1>1, <1>2, <1>3 DEF Rooted
<1> QED
  BY <1>1, <1>4, InTreeIsChild

\* The leaf a transaction finds unlocked owns the key.
LEMMA FoundLeaf ==
  ASSUME IndInv, ShapeInv, Rooted, NEW low \in Bounds, TreeOrder(low),
         NEW key \in Key, NEW p \in Descents(key), NEW c,
         c = LeafFor(p, key), ~meta[c].lock
  PROVE  Owns(low, -1, c, key)
<1>1. TypeOK /\ Linked
  BY Parts
<1>2. /\ 0 \in Level /\ LastChild(low, 0, c, key) /\ Node(-1, c)
  BY BottomLast
<1>3. 0 - 1 = -1
  OBVIOUS
<1> SUFFICES ASSUME NEW y \in Nat, Public(-1, y), low[-1][y] <= key
             PROVE  low[-1][y] <= low[-1][c]
  BY <1>2, <1>3 DEF Owns, LastChild
<1>4. y \in LnodeId /\ y < nleaf
  BY <1>1, Constants DEF Public, Node, LnodeId, TypeOK, LeafTypeOK
<1>5. CASE InTree(y)
  BY <1>1, <1>2, <1>3, <1>5, InTreeIsChild DEF LastChild
<1>6. CASE ~InTree(y)
  <2>1. PICK u \in Thread : Carries(u) /\ loc[u].ptr = y
    BY <1>4, <1>6 DEF Rooted
  <2>2. Bears(u) /\ BornAt(u) = -1
    BY <1>1, <2>1, LocalFields DEF Bears, Carries, BornAt
  <2>3. Origin(u) = loc[u].lp /\ 0 = BornAt(u) + 1
    BY <2>2 DEF Origin
  <2>4. IsChild(0, Origin(u))
    BY <2>1, <2>3, OriginInTree
  <2>5. Node(0 - 1, c) /\ low[0 - 1][loc[u].ptr] <= key
    BY <1>2, <1>3, <2>1
  <2>6. low[0 - 1][loc[u].ptr] <= low[0 - 1][c] \/ c = Origin(u)
    BY <1>2, <2>2, <2>3, <2>4, <2>5, BornAfter
  <2>7. c # Origin(u)
    BY <2>1, <2>3, FreeOrigin
  <2> QED
    BY <1>3, <2>1, <2>6, <2>7
<1> QED
  BY <1>5, <1>6

\* A worker's split key leads back to the leaf it was taken from.
LEMMA FoundOrigin ==
  ASSUME IndInv, ShapeInv, Rooted, NEW low \in Bounds, TreeOrder(low),
         NEW w \in Thread, pc[w] = "locate", NEW p \in Descents(loc[w].sep)
  PROVE  LeafFor(p, loc[w].sep) = loc[w].lp
<1>1. TypeOK /\ Linked /\ CarriedLeaf /\ loc[w].sep \in Key
  BY Parts, LocalFields
<1>2. PICK c : c = LeafFor(p, loc[w].sep)
  OBVIOUS
<1>3. PICK x : x = p[0]
  OBVIOUS
<1>4. /\ 0 \in Level /\ x \in InodeNum
      /\ ChildAt(0, x, ChildPos(<<0, x>>, loc[w].sep) + 1, c)
      /\ LastChild(low, 0, c, loc[w].sep) /\ Node(-1, c) /\ c \in Nat
  BY <1>1, <1>2, <1>3, BottomLast
<1>5. Carries(w) /\ Bears(w) /\ BornAt(w) = -1 /\ Origin(w) = loc[w].lp
  BY DEF Carries, Bears, BornAt, Origin
<1>6. BornNodes(w)
  BY <1>5, BornType
<1>7. /\ loc[w].ptr \in Nat /\ loc[w].lp \in Nat /\ Node(-1, loc[w].ptr)
      /\ Node(-1, loc[w].lp) /\ loc[w].sep \in Int
  BY <1>5, <1>6 DEF BornNodes
<1>8. IsChild(0, Origin(w))
  BY <1>5, OriginInTree
<1>9. 0 - 1 = -1 /\ 0 = BornAt(w) + 1 /\ -1 \in NodeLevel
  BY <1>5, Constants DEF NodeLevel
<1>10. low[-1][loc[w].ptr] = loc[w].sep
  BY <1>5 DEF TreeOrder, BornBound
<1>11. low[-1][loc[w].ptr] <= low[-1][c] \/ c = loc[w].lp
  <2>1. low[0 - 1][loc[w].ptr] <= loc[w].sep /\ Node(0 - 1, c)
    BY <1>4, <1>7, <1>9, <1>10
  <2> QED
    BY <1>1, <1>4, <1>5, <1>8, <1>9, <2>1, BornAfter
<1>12. CASE low[-1][loc[w].ptr] <= low[-1][c]
  <2>1. low[-1][c] <= loc[w].sep
    BY <1>4, <1>9 DEF LastChild
  <2>2. low[-1][c] \in Int
    BY <1>4, <1>9, BoundType
  <2>3. low[-1][c] = low[-1][loc[w].ptr]
    BY <1>7, <1>10, <1>12, <2>1, <2>2
  <2>4. c = loc[w].ptr
    BY <1>4, <1>7, <1>9, <2>3 DEF TreeOrder, Distinct
  <2>5. Hangs(c, x, ChildPos(<<0, x>>, loc[w].sep) + 1)
    <3>1. /\ ent[<<0, x>>].ch \in Seq(ChildId(0))
          /\ Len(ent[<<0, x>>].ch) = Size(0, x) + 1
      BY <1>1, <1>4, Entries
    <3> QED
      BY <1>4, <3>1, LenProperties DEF Hangs, ChildAt, Kid
  <2>6. ChildPos(<<0, x>>, loc[w].sep) + 1 \in ChildPlace
    BY <1>1, <1>4, Entries DEF ChildAt
  <2> QED
    BY <1>1, <1>4, <1>5, <2>4, <2>5, <2>6 DEF CarriedLeaf
<1> QED
  BY <1>2, <1>11, <1>12

\* No descent passes an inode that was split and whose parent does not know.
LEMMA PathApart ==
  ASSUME IndInv, ShapeInv, NEW low \in Bounds, TreeOrder(low), NEW key \in Key,
         NEW p \in Descents(key), NEW t \in Thread, pc[t] = "inode",
         loc[t].lev > 0, NEW i \in 0..root_level, i = loc[t].lev - 1
  PROVE  p[i] # Origin(t)
<1> SUFFICES ASSUME p[i] = Origin(t) PROVE FALSE
  OBVIOUS
<1>1. TypeOK /\ Linked
  BY Parts
<1>2. loc[t].lev \in Nat /\ root_level \in Nat /\ i \in Nat
  BY <1>1, LocalFields, Constants, SMTT(30) DEF TypeOK, SearchTypeOK, Level
<1>3. PICK lev : lev = loc[t].lev
  OBVIOUS
<1>4. Bears(t) /\ HoldsPath(t) /\ lev = BornAt(t) + 1
  BY <1>2, <1>3 DEF Bears, HoldsPath, BornAt
<1>5. PICK z, j : z = loc[t].path.parray[lev] /\ j = loc[t].path.ppos[lev] + 1
  OBVIOUS
<1>6. PathPlace(t, lev, z, j, Origin(t))
  BY <1>4, <1>5, OriginPlace
<1>7. /\ lev \in Level /\ z \in InodeNum /\ lev <= root_level
      /\ ChildAt(lev, z, j, Origin(t)) /\ ilock[<<lev, z>>]
  BY <1>6 DEF PathPlace
<1>8. lev \in 1..root_level /\ lev \in 0..root_level /\ lev - 1 = i
  BY <1>2, <1>3, <1>7
<1>9. PICK x : x = p[lev]
  OBVIOUS
<1>10. /\ x \in InodeNum /\ x < ninode[lev] /\ ~ilock[<<lev, x>>]
       /\ Owns(low, lev, x, key)
  BY <1>8, <1>9, DescentOwns
<1>11. p[i] = Child(<<lev, x>>, key)
  BY <1>8, <1>9 DEF Descents, IsDescent
<1>12. ChildAt(lev, x, ChildPos(<<lev, x>>, key) + 1, p[i])
  BY <1>1, <1>7, <1>10, <1>11, StepDown
<1>13. x = z
  BY <1>1, <1>7, <1>10, <1>12, OnePlace
<1> QED
  BY <1>7, <1>10, <1>13

-----------------------------------------------------------------------------
(* Steps that leave the tree alone.                                        *)

\* The tree, and what t carries to it, stay.
Aside(t) ==
  /\ UNCHANGED <<tree_root, root_level, ent, ninode, nleaf>>
  /\ Bears(t)' <=> Bears(t)
  /\ Bears(t) => /\ loc'[t].ptr = loc[t].ptr /\ loc'[t].sep = loc[t].sep
                 /\ BornAt(t)' = BornAt(t) /\ Origin(t)' = Origin(t)
  /\ pc[t] # "growroot" /\ pc'[t] # "growroot"

TreeStep(t) ==
  \/ SplitBuild(t) \/ InsertInode(t) \/ SplitInode(t) \/ GrowRoot(t)
  \/ GrowSecondStore(t)

LEMMA AsideStep ==
  ASSUME TypeOK, NEW t \in Thread, Step(t)
  PROVE  Aside(t) \/ TreeStep(t)
<1>1. /\ t \in Thread /\ pc \in [Thread -> ForegroundLabel \cup WorkerLabel]
      /\ loc \in [Thread -> Local]
  BY DEF TypeOK, ThreadTypeOK
<1>2. CASE \/ Call(t) \/ SearchLnode(t) \/ ReadCh(t) \/ FindLeaf(t) \/ Return(t)
           \/ CopyMeta(t) \/ FillSlot(t) \/ PushJob(t) \/ PopJob(t)
           \/ SplitLock(t) \/ SplitCopy(t) \/ SplitUnlock(t)
           \/ UnlockOldRoot(t) \/ UnlockNewRoot(t) \/ FillOnly(t) \/ TakeLeaf(t)
  <2>1. UNCHANGED <<tree_root, root_level, ent, ninode, nleaf>>
    BY <1>2
    DEF Call, SearchLnode, ReadCh, FindLeaf, Return, CopyMeta, FillSlot,
        PushJob, PopJob, SplitLock, SplitCopy, SplitUnlock, UnlockOldRoot,
        UnlockNewRoot, FillOnly, TakeLeaf, search_layer, leaf_layer
  <2>2. /\ pc[t] \notin {"publish", "locate", "addleft", "level", "inode",
                         "grow", "growroot"}
        /\ pc'[t] \notin {"publish", "locate", "addleft", "level", "inode",
                          "grow", "growroot"}
    BY <1>1, <1>2
    DEF Call, SearchLnode, ReadCh, FindLeaf, Return, CopyMeta, FillSlot,
        PushJob, PopJob, SplitLock, SplitCopy, SplitUnlock, UnlockOldRoot,
        UnlockNewRoot, FillOnly, TakeLeaf, Goto, SearchResult, Done
  <2>3. ~Bears(t) /\ ~Bears(t)'
    BY <2>2 DEF Bears, Carries
  <2> QED
    BY <2>1, <2>2, <2>3 DEF Aside
<1>3. CASE SplitPublish(t) \/ InsertLeft(t) \/ FindInode(t) \/ ReadLevel(t)
  <2>1. UNCHANGED <<tree_root, root_level, ent, ninode, nleaf>>
    BY <1>3
    DEF SplitPublish, InsertLeft, FindInode, ReadLevel, search_layer,
        leaf_layer
  <2>2. /\ pc[t] \in {"publish", "addleft", "locate", "level"}
        /\ \/ pc'[t] \in {"addleft", "locate", "level"}
           \/ pc'[t] = "inode" /\ loc'[t].lev = 0
    BY <1>1, <1>3
    DEF SplitPublish, InsertLeft, FindInode, ReadLevel, Goto, Local
  <2>3. /\ loc'[t].ptr = loc[t].ptr /\ loc'[t].sep = loc[t].sep
        /\ loc'[t].lp = loc[t].lp
    BY <1>1, <1>3
    DEF SplitPublish, InsertLeft, FindInode, ReadLevel, Local
  <2>4. Bears(t) /\ BornAt(t) = -1 /\ Origin(t) = loc[t].lp
    BY <2>2 DEF Bears, Carries, BornAt, Origin
  <2>5. Bears(t)' /\ BornAt(t)' = -1
    BY <2>2 DEF Bears, Carries, BornAt
  <2>6. Origin(t)' = loc'[t].lp
    BY <2>5 DEF Origin
  <2> QED
    BY <2>1, <2>2, <2>3, <2>4, <2>5, <2>6 DEF Aside
<1> QED
  BY <1>2, <1>3
  DEF Step, NextStep, ClientStep, WorkerStep, SplitStep, TreeStep

\* What the others bear stays what it was.
LEMMA OthersBear ==
  ASSUME NEW t \in Thread, OthersStay(t), NEW u \in Thread, u # t
  PROVE  /\ pc'[u] = pc[u] /\ loc'[u] = loc[u]
         /\ Bears(u)' <=> Bears(u)
         /\ Carries(u)' <=> Carries(u)
         /\ BornAt(u)' = BornAt(u) /\ Origin(u)' = Origin(u)
<1>1. pc'[u] = pc[u] /\ loc'[u] = loc[u]
  BY DEF OthersStay
<1>2. (Carries(u)' <=> Carries(u)) /\ (Bears(u)' <=> Bears(u))
      /\ BornAt(u)' = BornAt(u)
  BY <1>1 DEF Bears, Carries, BornAt
<1> QED
  BY <1>1, <1>2 DEF Origin

\* After a step that leaves the tree alone, everybody bears what he did.
LEMMA AllBear ==
  ASSUME NEW t \in Thread, OthersStay(t), Aside(t), NEW u \in Thread
  PROVE  /\ Bears(u)' <=> Bears(u)
         /\ Bears(u) => /\ loc'[u].ptr = loc[u].ptr /\ loc'[u].sep = loc[u].sep
                        /\ BornAt(u)' = BornAt(u) /\ Origin(u)' = Origin(u)
         /\ pc'[u] = "growroot" <=> pc[u] = "growroot"
         /\ pc[u] = "growroot" => loc'[u] = loc[u]
<1>1. CASE u = t
  BY <1>1 DEF Aside
<1>2. CASE u # t
  BY <1>2, OthersBear
<1> QED
  BY <1>1, <1>2

\* The conjuncts of ShapeInv that speak of the inodes.
TreeShape ==
  /\ CarriedApart /\ InodesRooted /\ TopEmpty
  /\ \A t \in Thread : RootMade(t)

LEMMA TreeShapeAside ==
  ASSUME TreeShape, NEW t \in Thread, OthersStay(t), Aside(t)
  PROVE  TreeShape'
<1>1. UNCHANGED <<tree_root, root_level, ent, ninode, nleaf>>
  BY DEF Aside
<1>2. \A i, c : IsChild(i, c)' <=> IsChild(i, c)
  BY <1>1 DEF IsChild, ChildAt, Size, num, Kid
<1>3. \A u \in Thread :
        /\ Bears(u)' <=> Bears(u)
        /\ Bears(u) => loc'[u].ptr = loc[u].ptr /\ BornAt(u)' = BornAt(u)
        /\ pc'[u] = "growroot" <=> pc[u] = "growroot"
        /\ pc[u] = "growroot" => loc'[u] = loc[u]
  BY AllBear
<1>4. CarriedApart'
  BY <1>1, <1>2, <1>3 DEF TreeShape, CarriedApart
<1>5. InodesRooted'
  <2> SUFFICES ASSUME NEW i \in Level, NEW x \in InodeNum, x < ninode'[i]
               PROVE  \/ tree_root' = <<i, x>>
                      \/ i + 1 \in Level /\ IsChild(i + 1, x)'
                      \/ \E u \in Thread :
                           /\ loc'[u].ptr = x
                           /\ \/ Bears(u)' /\ BornAt(u)' = i
                              \/ pc'[u] = "growroot" /\ loc'[u].lev = i
    BY DEF InodesRooted
  <2>1. \/ tree_root = <<i, x>>
        \/ i + 1 \in Level /\ IsChild(i + 1, x)
        \/ \E u \in Thread :
             /\ loc[u].ptr = x
             /\ \/ Bears(u) /\ BornAt(u) = i
                \/ pc[u] = "growroot" /\ loc[u].lev = i
    BY <1>1 DEF TreeShape, InodesRooted
  <2> QED
    BY <1>1, <1>2, <1>3, <2>1
<1>6. TopEmpty'
  BY <1>1 DEF TreeShape, TopEmpty
<1>7. \A u \in Thread : RootMade(u)'
  BY <1>1, <1>3 DEF TreeShape, RootMade, ChildAt, Size, num, Kid
<1> QED
  BY <1>4, <1>5, <1>6, <1>7 DEF TreeShape

LEMMA TreeOrderAside ==
  ASSUME NEW low \in Bounds, TreeOrder(low), NEW t \in Thread, OthersStay(t),
         Aside(t)
  PROVE  TreeOrder(low)'
<1>1. UNCHANGED <<tree_root, root_level, ent, ninode, nleaf>>
  BY DEF Aside
<1>2. \A i, x : /\ Node(i, x)' <=> Node(i, x)
                /\ Size(i, x)' = Size(i, x)
                /\ \A j : Sep(i, x, j)' = Sep(i, x, j)
                          /\ Kid(i, x, j)' = Kid(i, x, j)
  BY <1>1 DEF Node, Size, num, Sep, Kid
<1>3. Distinct(low)'
  BY <1>2 DEF TreeOrder, Distinct
<1>4. ChildBounds(low)'
  BY <1>1, <1>2 DEF TreeOrder, ChildBounds
<1>5. SepsOwned(low)'
  <2>1. \A i \in Level : \A x, k : Owns(low, i, x, k)' <=> Owns(low, i, x, k)
    <3>1. \A i \in Level : i # -1
      BY Constants DEF Level
    <3> QED
      BY <1>2, <3>1 DEF Owns, Public
  <2> QED
    BY <1>1, <1>2, <2>1 DEF TreeOrder, SepsOwned
<1>6. RootBound(low)'
  BY <1>1 DEF TreeOrder, RootBound
<1>7. \A u \in Thread : BornBound(low, u)'
  <2> SUFFICES ASSUME NEW u \in Thread PROVE BornBound(low, u)'
    OBVIOUS
  <2>1. /\ Bears(u)' <=> Bears(u)
        /\ Bears(u) => /\ loc'[u].ptr = loc[u].ptr /\ loc'[u].sep = loc[u].sep
                       /\ BornAt(u)' = BornAt(u) /\ Origin(u)' = Origin(u)
    BY AllBear
  <2>2. BornBound(low, u)
    BY DEF TreeOrder
  <2> QED
    BY <1>2, <2>1, <2>2 DEF BornBound
<1> QED
  BY <1>3, <1>4, <1>5, <1>6, <1>7 DEF TreeOrder

-----------------------------------------------------------------------------
(* Where a split puts its new node.                                        *)

\* t is to add its node right of child pos + 1 of inode x of level i.
Spot(t, i, x, pos) ==
  /\ i \in Level /\ i \in Nat /\ i - 1 \in NodeLevel /\ i \in NodeLevel
  /\ x \in InodeNum /\ x \in Nat /\ x < ninode[i] /\ Here(t) = <<i, x>>
  /\ Holds(t, i, x)
  /\ pos \in Nat /\ pos <= Size(i, x)
  /\ Size(i, x) \in Nat /\ Size(i, x) <= NON_LEAF_KEY_NUM
  /\ ChildAt(i, x, pos + 1, Origin(t))
  /\ Bears(t) /\ BornAt(t) = i - 1
  /\ Node(i - 1, loc[t].ptr) /\ loc[t].ptr \in Nat /\ Origin(t) \in Nat
  /\ Node(i - 1, Origin(t)) /\ loc[t].ptr \in ChildId(i)
  /\ loc[t].sep \in Int /\ loc[t].sep \in Key
  /\ ~IsChild(i, loc[t].ptr)

LEMMA SpotFacts ==
  ASSUME IndInv, ShapeInv, NEW t \in Thread, pc[t] = "inode",
         NEW i, i = loc[t].lev, NEW x, x = loc[t].path.parray[i],
         NEW pos, pos = loc[t].path.ppos[i]
  PROVE  Spot(t, i, x, pos)
<1>1. TypeOK /\ Linked /\ CarriedLeaf /\ CarriedApart
  BY Parts
<1>2. i \in Level /\ loc[t].sep \in Key /\ loc[t].path \in Path
      /\ loc[t].ptr \in ChildId(i)
  BY <1>1, LocalFields DEF PtrTypeOK
<1>3. pos \in Nat /\ loc[t].sep \in Int /\ i \in Nat
  <2>1. loc[t].path.ppos \in [Level -> 0..NON_LEAF_KEY_NUM]
    BY <1>2 DEF Path
  <2>2. pos \in 0..NON_LEAF_KEY_NUM
    BY <1>2, <2>1
  <2>3. i \in Nat
    BY <1>2, Constants DEF Level
  <2>4. loc[t].sep \in Int
    BY <1>2, Constants
  <2> QED
    BY <2>2, <2>3, <2>4
<1>4. Bears(t) /\ HoldsPath(t) /\ BornAt(t) = i - 1 /\ i = BornAt(t) + 1
  BY <1>3 DEF Bears, HoldsPath, BornAt
<1>5. PathPlace(t, i, x, pos + 1, Origin(t))
  BY <1>4, OriginPlace
<1>6. /\ x \in InodeNum /\ ChildAt(i, x, pos + 1, Origin(t)) /\ Holds(t, i, x)
  BY <1>5, SMTT(30) DEF PathPlace
<1>7. /\ i - 1 \in NodeLevel /\ i \in NodeLevel /\ x \in Nat
      /\ Size(i, x) \in Nat /\ Size(i, x) <= NON_LEAF_KEY_NUM
  BY <1>1, <1>2, <1>6, Entries
<1>8. x < ninode[i] /\ pos <= Size(i, x)
  BY <1>3, <1>6, <1>7 DEF ChildAt
<1>9. BornNodes(t)
  BY <1>4, BornType
<1>10. /\ Node(i - 1, loc[t].ptr) /\ loc[t].ptr \in Nat /\ Origin(t) \in Nat
       /\ Node(i - 1, Origin(t))
  BY <1>4, <1>9 DEF BornNodes
<1>11. ~IsChild(i, loc[t].ptr)
  <2>1. CASE i = 0
    <3>1. Carries(t)
      BY <2>1 DEF Carries
    <3>2. ASSUME NEW y \in InodeNum, NEW j \in ChildPlace,
                 ChildAt(0, y, j, loc[t].ptr)
          PROVE  FALSE
      <4>1. /\ ent[<<0, y>>].ch \in Seq(ChildId(0))
            /\ Len(ent[<<0, y>>].ch) = Size(0, y) + 1
        BY <1>1, <1>2, <2>1, Entries
      <4>2. Hangs(loc[t].ptr, y, j)
        BY <3>2, <4>1, LenProperties DEF Hangs, ChildAt, Kid
      <4> QED
        BY <1>1, <3>1, <4>2 DEF CarriedLeaf
    <3> QED
      BY <2>1, <3>2 DEF IsChild
  <2>2. CASE i # 0
    BY <1>1, <1>2, <1>3, <1>4, <2>2 DEF CarriedApart
  <2> QED
    BY <2>1, <2>2
<1>12. Here(t) = <<i, x>>
  BY DEF Here
<1> QED
  BY <1>2, <1>3, <1>4, <1>6, <1>7, <1>8, <1>10, <1>11, <1>12 DEF Spot

\* The merged entries of t's inode, one at a time.
MergedSep(t, i, x, pos, j) ==
  IF j < pos + 1 THEN Sep(i, x, j)
  ELSE IF j = pos + 1 THEN loc[t].sep ELSE Sep(i, x, j - 1)
MergedKid(t, i, x, pos, j) ==
  IF j < pos + 2 THEN Kid(i, x, j)
  ELSE IF j = pos + 2 THEN loc[t].ptr ELSE Kid(i, x, j - 1)

MergedEntries(t, i, x, pos) ==
  /\ MergedK(t) \in Seq(Key) /\ Len(MergedK(t)) = Size(i, x) + 1
  /\ MergedCh(t) \in Seq(ChildId(i)) /\ Len(MergedCh(t)) = Size(i, x) + 2
  /\ \A j \in 1..(Size(i, x) + 1) : MergedK(t)[j] = MergedSep(t, i, x, pos, j)
  /\ \A j \in 1..(Size(i, x) + 2) : MergedCh(t)[j] = MergedKid(t, i, x, pos, j)

\* r is s, n long, with e at p.
Put(r, S, s, n, p, e) ==
  /\ r \in Seq(S) /\ Len(r) = n + 1
  /\ \A j \in 1..(n + 1) :
       r[j] = IF j < p THEN s[j] ELSE IF j = p THEN e ELSE s[j - 1]

LEMMA InsertAtIs ==
  ASSUME NEW S, NEW s \in Seq(S), NEW n \in Nat, Len(s) = n,
         NEW p \in 1..(n + 1), NEW e \in S
  PROVE  Put(InsertAt(s, p, e), S, s, n, p, e)
<1> DEFINE r == InsertAt(s, p, e)
<1> HIDE DEF r
<1>1. Inserted(r, S, s, p, e)
  BY InsertAtType DEF r
<1>2. /\ r \in Seq(S) /\ Len(r) = n + 1
      /\ \A j \in 1..(n + 1) : /\ j < p => r[j] = s[j]
                               /\ j = p => r[j] = e
                               /\ j > p => r[j] = s[j - 1]
  BY <1>1 DEF Inserted
<1>3. Put(r, S, s, n, p, e)
  BY <1>2 DEF Put
<1> QED
  BY <1>3 DEF r

LEMMA MergedIs ==
  ASSUME TypeOK, Linked, NEW t \in Thread, NEW i, i = loc[t].lev,
         NEW x, x = loc[t].path.parray[i],
         NEW pos, pos = loc[t].path.ppos[i], Spot(t, i, x, pos)
  PROVE  MergedEntries(t, i, x, pos)
<1> DEFINE n == <<i, x>>
           N == Size(i, x)
<1>1. /\ ent[n].k \in Seq(Key) /\ ent[n].ch \in Seq(ChildId(i))
      /\ Len(ent[n].k) = N /\ Len(ent[n].ch) = N + 1
      /\ N \in Nat /\ pos \in Nat /\ pos <= N
      /\ loc[t].sep \in Key /\ loc[t].ptr \in ChildId(i) /\ Here(t) = n
  BY Entries DEF Spot
<1> HIDE DEF n, N
<1>2. N + 1 \in Nat /\ pos + 1 \in 1..(N + 1) /\ pos + 2 \in 1..((N + 1) + 1)
      /\ (N + 1) + 1 = N + 2
  <2>1. N \in Nat /\ pos \in Nat /\ pos <= N
    BY <1>1
  <2> QED
    BY <2>1
<1>3. /\ MergedK(t) = InsertAt(ent[n].k, pos + 1, loc[t].sep)
      /\ MergedCh(t) = InsertAt(ent[n].ch, pos + 2, loc[t].ptr)
  BY <1>1 DEF MergedK, MergedCh
<1>4. Put(MergedK(t), Key, ent[n].k, N, pos + 1, loc[t].sep)
  BY <1>1, <1>2, <1>3, InsertAtIs
<1>5. Put(MergedCh(t), ChildId(i), ent[n].ch, N + 1, pos + 2, loc[t].ptr)
  <2> DEFINE s == ent[n].ch
             S == ChildId(i)
             e == loc[t].ptr
             m == N + 1
             p == pos + 2
  <2>1. /\ s \in Seq(S) /\ m \in Nat /\ Len(s) = m /\ p \in 1..(m + 1)
        /\ e \in S
    BY <1>1, <1>2, SMTT(30)
  <2> HIDE DEF s, S, e, m, p
  <2>2. Put(InsertAt(s, p, e), S, s, m, p, e)
    BY <2>1, InsertAtIs
  <2> QED
    BY <1>3, <2>2, SMTT(30) DEF s, S, e, m, p
<1>6. \A j : /\ Sep(i, x, j) = ent[n].k[j]
             /\ Kid(i, x, j) = ent[n].ch[j]
  BY DEF Sep, Kid, n
<1>7. \A j \in 1..(N + 1) : MergedK(t)[j] = MergedSep(t, i, x, pos, j)
  BY <1>4, <1>6, SMTT(30) DEF MergedSep, Put
<1>8. \A j \in 1..(N + 2) : MergedCh(t)[j] = MergedKid(t, i, x, pos, j)
  BY <1>2, <1>5, <1>6 DEF MergedKid, Put
<1>9. Len(MergedCh(t)) = N + 2
  BY <1>2, <1>5, SMTT(30) DEF Put
<1> QED
  BY <1>4, <1>5, <1>7, <1>8, <1>9 DEF MergedEntries, N, Put

\* A child that starts after the node t has split starts after the split key.
LEMMA ChildAfter ==
  ASSUME TypeOK, Linked, NEW low \in Bounds, TreeOrder(low),
         NEW t \in Thread, NEW i, NEW x, NEW pos, Spot(t, i, x, pos),
         NEW y \in InodeNum, NEW j, NEW c, ChildAt(i, y, j, c),
         low[i - 1][Origin(t)] < low[i - 1][c]
  PROVE  loc[t].sep < low[i - 1][c]
<1>1. ChildBounds(low) /\ SepsOwned(low) /\ Distinct(low) /\ BornBound(low, t)
  BY DEF TreeOrder
<1>2. /\ i \in Level /\ i - 1 \in NodeLevel /\ Bears(t) /\ BornAt(t) = i - 1
      /\ loc[t].ptr \in Nat /\ Node(i - 1, loc[t].ptr) /\ loc[t].sep \in Int
      /\ Origin(t) \in Nat /\ ~IsChild(i, loc[t].ptr)
  BY DEF Spot
<1>3. Node(i - 1, c) /\ c \in Nat /\ low[i - 1][c] \in Int
  BY <1>1, <1>2, Place, NodeType
<1>4. low[i - 1][Origin(t)] \in Int
  BY <1>2, BoundType
<1>5. ~(low[i - 1][c] < loc[t].sep)
  <2>1. low[i - 1][c] < loc[t].sep => low[i - 1][c] <= low[i - 1][Origin(t)]
    BY <1>1, <1>2, <1>3 DEF BornBound
  <2> QED
    BY <1>3, <1>4, <2>1
<1>6. low[i - 1][c] # loc[t].sep
  <2>1. c # loc[t].ptr
    <3>1. j \in ChildPlace
      BY <1>2, Entries DEF ChildAt
    <3> QED
      BY <1>2, <3>1 DEF IsChild
  <2>2. low[i - 1][loc[t].ptr] = loc[t].sep
    BY <1>1, <1>2 DEF BornBound
  <2> QED
    BY <1>1, <1>2, <1>3, <2>1, <2>2 DEF Distinct
<1> QED
  BY <1>2, <1>3, <1>5, <1>6

\* The split key belongs where t puts it.
Fits(low, t, i, x, pos) ==
  /\ low[i - 1][loc[t].ptr] = loc[t].sep
  /\ low[i][x] < loc[t].sep /\ Owns(low, i, x, loc[t].sep)
  /\ \A j \in 1..Size(i, x) : /\ j <= pos => Sep(i, x, j) < loc[t].sep
                              /\ j > pos => loc[t].sep < Sep(i, x, j)

LEMMA SepFits ==
  ASSUME TypeOK, Linked, NEW low \in Bounds, TreeOrder(low),
         NEW t \in Thread, NEW i, NEW x, NEW pos, Spot(t, i, x, pos)
  PROVE  Fits(low, t, i, x, pos)
<1>1. ChildBounds(low) /\ SepsOwned(low) /\ Distinct(low) /\ BornBound(low, t)
  BY DEF TreeOrder
<1>2. /\ i \in Level /\ i \in NodeLevel /\ i - 1 \in NodeLevel
      /\ x \in InodeNum /\ x \in Nat
      /\ x < ninode[i] /\ pos \in Nat /\ pos <= Size(i, x) /\ Size(i, x) \in Nat
      /\ Bears(t) /\ BornAt(t) = i - 1 /\ Origin(t) \in Nat
      /\ ChildAt(i, x, pos + 1, Origin(t)) /\ loc[t].sep \in Int
  BY DEF Spot
<1>3. \A j \in 1..Size(i, x) : Sep(i, x, j) \in Int
  BY <1>2, Entries
<1>4. /\ low[i - 1][loc[t].ptr] = loc[t].sep
      /\ low[i - 1][Origin(t)] < loc[t].sep
  BY <1>1, <1>2 DEF BornBound
<1>5. low[i][x] \in Int /\ low[i - 1][Origin(t)] \in Int
  BY <1>2, BoundType
<1>6. /\ low[i][x] <= low[i - 1][Origin(t)]
      /\ pos = 0 => low[i - 1][Origin(t)] = low[i][x]
      /\ pos > 0 => low[i - 1][Origin(t)] = Sep(i, x, pos)
  <2>1. /\ low[i][x] <= low[i - 1][Origin(t)]
        /\ pos + 1 = 1 => low[i - 1][Origin(t)] = low[i][x]
        /\ pos + 1 > 1 => low[i - 1][Origin(t)] = Sep(i, x, (pos + 1) - 1)
    BY <1>1, <1>2, Place
  <2>2. (pos + 1) - 1 = pos
    BY <1>2
  <2> QED
    BY <1>2, <2>1, <2>2
<1>7. low[i][x] < loc[t].sep
  BY <1>2, <1>4, <1>5, <1>6
<1>8. Owns(low, i, x, loc[t].sep)
  <2> SUFFICES ASSUME NEW y \in Nat, Public(i, y), low[i][x] < low[i][y]
               PROVE  loc[t].sep < low[i][y]
    <3>1. \A y \in Nat : low[i][y] \in Int
      BY <1>2, BoundType
    <3> QED
      BY <1>2, <1>5, <1>7, <3>1 DEF Owns
  <2>1. y \in InodeNum /\ y < ninode[i]
    <3>1. /\ y < ninode[i] /\ ninode[i] <= MaxInode /\ ninode[i] \in Nat
      BY <1>2, Constants DEF Public, Node, TypeOK, SearchTypeOK, Level
    <3> QED
      BY <3>1, Constants DEF InodeNum
  <2>2. PICK c : c = Kid(i, y, 1)
    OBVIOUS
  <2>3. ChildAt(i, y, 1, c)
    <3>1. Size(i, y) \in Nat
      BY <1>2, <2>1, Entries
    <3> QED
      BY <2>1, <2>2, <3>1 DEF ChildAt
  <2>4. low[i - 1][c] = low[i][y]
    BY <1>1, <1>2, <2>1, <2>3, Place
  <2>5. low[i - 1][Origin(t)] < low[i][y]
    <3>1. Node(i, y)
      BY DEF Public
    <3> QED
      BY <1>1, <1>2, <3>1, Place
  <2> QED
    BY <2>1, <2>3, <2>4, <2>5, ChildAfter
<1>9. ASSUME NEW j \in 1..Size(i, x), j <= pos PROVE Sep(i, x, j) < loc[t].sep
  <2>1. pos > 0 /\ pos \in 1..Size(i, x)
    BY <1>2, <1>9
  <2>2. j < pos => Sep(i, x, j) < Sep(i, x, pos)
    BY <1>1, <1>2, <2>1 DEF SepsOwned
  <2>3. Sep(i, x, j) \in Int /\ Sep(i, x, pos) \in Int
    BY <1>3, <2>1
  <2>4. Sep(i, x, j) <= Sep(i, x, pos)
    BY <1>2, <1>9, <2>2, <2>3
  <2> QED
    BY <1>2, <1>4, <1>6, <2>1, <2>3, <2>4
<1>10. ASSUME NEW j \in 1..Size(i, x), j > pos PROVE loc[t].sep < Sep(i, x, j)
  <2>1. PICK c : c = Kid(i, x, j + 1)
    OBVIOUS
  <2>2. ChildAt(i, x, j + 1, c) /\ j + 1 > 1 /\ (j + 1) - 1 = j
    BY <1>2, <2>1 DEF ChildAt
  <2>3. low[i - 1][c] = Sep(i, x, j)
    BY <1>1, <1>2, <2>2, Place
  <2>4. low[i - 1][Origin(t)] < Sep(i, x, j)
    <3>1. CASE pos = 0
      BY <1>1, <1>2, <1>6, <3>1 DEF SepsOwned
    <3>2. CASE pos > 0
      <4>1. pos \in 1..Size(i, x)
        BY <1>2, <3>2
      <4> QED
        BY <1>1, <1>2, <1>6, <1>10, <3>2, <4>1 DEF SepsOwned
    <3> QED
      BY <1>2, <3>1, <3>2
  <2> QED
    BY <1>2, <2>2, <2>3, <2>4, ChildAfter
<1> QED
  BY <1>4, <1>7, <1>8, <1>9, <1>10 DEF Fits

\* The inode with the new node added is as ordered as it was.
MergedRight(low, t, i, x) ==
  /\ \A j \in 1..(Size(i, x) + 2) :
       /\ MergedCh(t)[j] \in Nat /\ Node(i - 1, MergedCh(t)[j])
       /\ low[i - 1][MergedCh(t)[j]]
            = IF j = 1 THEN low[i][x] ELSE MergedK(t)[j - 1]
  /\ \A j \in 1..(Size(i, x) + 1) :
       /\ MergedK(t)[j] \in Int
       /\ low[i][x] < MergedK(t)[j] /\ Owns(low, i, x, MergedK(t)[j])
       /\ \A m \in 1..(Size(i, x) + 1) :
            j < m => MergedK(t)[j] < MergedK(t)[m]

LEMMA MergedOrder ==
  ASSUME TypeOK, Linked, NEW low \in Bounds, TreeOrder(low),
         NEW t \in Thread, NEW i, NEW x, NEW pos, Spot(t, i, x, pos),
         MergedEntries(t, i, x, pos)
  PROVE  MergedRight(low, t, i, x)
<1>1. ChildBounds(low) /\ SepsOwned(low)
  BY DEF TreeOrder
<1>2. Fits(low, t, i, x, pos)
  BY SepFits
<1>3. /\ i \in Level /\ x \in InodeNum /\ x < ninode[i]
      /\ pos \in Nat /\ pos <= Size(i, x) /\ Size(i, x) \in Nat
      /\ loc[t].sep \in Int /\ loc[t].ptr \in Nat /\ Node(i - 1, loc[t].ptr)
      /\ ChildAt(i, x, pos + 1, Origin(t))
  BY DEF Spot
<1>4. /\ \A j \in 1..Size(i, x) :
           /\ Sep(i, x, j) \in Int
           /\ low[i][x] < Sep(i, x, j) /\ Owns(low, i, x, Sep(i, x, j))
           /\ \A m \in 1..Size(i, x) : j < m => Sep(i, x, j) < Sep(i, x, m)
      /\ \A j \in 1..(Size(i, x) + 1) :
           /\ Kid(i, x, j) \in Nat /\ Node(i - 1, Kid(i, x, j))
           /\ low[i - 1][Kid(i, x, j)]
                = IF j = 1 THEN low[i][x] ELSE Sep(i, x, j - 1)
  <2>1. /\ \A j \in 1..Size(i, x) : Sep(i, x, j) \in Int
        /\ \A j \in 1..(Size(i, x) + 1) :
             Kid(i, x, j) \in Nat /\ Node(i - 1, Kid(i, x, j))
    BY <1>3, Entries
  <2> QED
    BY <1>1, <1>3, <2>1 DEF SepsOwned, ChildBounds
<1>5. ASSUME NEW j \in 1..(Size(i, x) + 2)
      PROVE  /\ MergedCh(t)[j] \in Nat /\ Node(i - 1, MergedCh(t)[j])
             /\ low[i - 1][MergedCh(t)[j]]
                  = IF j = 1 THEN low[i][x] ELSE MergedK(t)[j - 1]
  <2>1. MergedCh(t)[j] = MergedKid(t, i, x, pos, j)
    BY DEF MergedEntries
  <2>2. j > 1 => /\ j - 1 \in 1..(Size(i, x) + 1)
                 /\ MergedK(t)[j - 1] = MergedSep(t, i, x, pos, j - 1)
    <3>1. j > 1 => j - 1 \in 1..(Size(i, x) + 1)
      BY <1>3
    <3> QED
      BY <3>1 DEF MergedEntries
  <2>3. CASE j < pos + 2
    <3>1. MergedCh(t)[j] = Kid(i, x, j) /\ j \in 1..(Size(i, x) + 1)
      BY <1>3, <2>1, <2>3 DEF MergedKid
    <3>2. j > 1 => MergedK(t)[j - 1] = Sep(i, x, j - 1)
      <4>1. j - 1 < pos + 1
        BY <1>3, <2>3
      <4> QED
        BY <2>2, <4>1 DEF MergedSep
    <3>3. j = 1 \/ j > 1
      BY <1>3
    <3> QED
      BY <1>4, <3>1, <3>2, <3>3
  <2>4. CASE j = pos + 2
    <3>1. MergedCh(t)[j] = loc[t].ptr /\ j > 1 /\ j # 1
      BY <1>3, <2>1, <2>4 DEF MergedKid
    <3>2. j - 1 = pos + 1 /\ ~(j - 1 < pos + 1)
      BY <1>3, <2>4
    <3>3. MergedK(t)[j - 1] = loc[t].sep
      BY <2>2, <3>1, <3>2 DEF MergedSep
    <3> QED
      BY <1>2, <1>3, <3>1, <3>3 DEF Fits
  <2>5. CASE j > pos + 2
    <3>1. /\ MergedCh(t)[j] = Kid(i, x, j - 1) /\ j - 1 \in 1..(Size(i, x) + 1)
          /\ j > 1 /\ j # 1 /\ j - 1 # 1
      BY <1>3, <2>1, <2>5 DEF MergedKid
    <3>2. MergedK(t)[j - 1] = Sep(i, x, (j - 1) - 1)
      <4>1. ~(j - 1 < pos + 1) /\ j - 1 # pos + 1
        BY <1>3, <2>5
      <4> QED
        BY <2>2, <3>1, <4>1 DEF MergedSep
    <3> QED
      BY <1>4, <3>1, <3>2
  <2> QED
    BY <1>3, <2>3, <2>4, <2>5
<1>6. ASSUME NEW j \in 1..(Size(i, x) + 1)
      PROVE  /\ MergedK(t)[j] \in Int
             /\ low[i][x] < MergedK(t)[j] /\ Owns(low, i, x, MergedK(t)[j])
             /\ j < pos + 1 => /\ j \in 1..Size(i, x) /\ j <= pos
                               /\ MergedK(t)[j] = Sep(i, x, j)
             /\ j = pos + 1 => MergedK(t)[j] = loc[t].sep
             /\ j > pos + 1 => /\ j - 1 \in 1..Size(i, x) /\ j - 1 > pos
                               /\ MergedK(t)[j] = Sep(i, x, j - 1)
  <2>1. MergedK(t)[j] = MergedSep(t, i, x, pos, j)
    BY DEF MergedEntries
  <2>2. /\ j < pos + 1 => /\ j \in 1..Size(i, x) /\ j <= pos
                          /\ MergedK(t)[j] = Sep(i, x, j)
        /\ j = pos + 1 => MergedK(t)[j] = loc[t].sep
        /\ j > pos + 1 => /\ j - 1 \in 1..Size(i, x) /\ j - 1 > pos
                          /\ MergedK(t)[j] = Sep(i, x, j - 1)
    BY <1>3, <2>1 DEF MergedSep
  <2>3. j < pos + 1 \/ j = pos + 1 \/ j > pos + 1
    BY <1>3
  <2>4. /\ loc[t].sep \in Int /\ low[i][x] < loc[t].sep
        /\ Owns(low, i, x, loc[t].sep)
    BY <1>2, <1>3 DEF Fits
  <2> QED
    BY <1>4, <2>2, <2>3, <2>4
<1>7. ASSUME NEW j \in 1..(Size(i, x) + 1), NEW m \in 1..(Size(i, x) + 1), j < m
      PROVE  MergedK(t)[j] < MergedK(t)[m]
  <2>1. \A a \in 1..Size(i, x) : /\ a <= pos => Sep(i, x, a) < loc[t].sep
                                 /\ a > pos => loc[t].sep < Sep(i, x, a)
    BY <1>2 DEF Fits
  <2>2. CASE m < pos + 1
    <3>1. j < pos + 1
      BY <1>3, <1>7, <2>2
    <3> QED
      BY <1>4, <1>6, <1>7, <2>2, <3>1
  <2>3. CASE m = pos + 1
    <3>1. j < pos + 1
      BY <1>3, <1>7, <2>3
    <3> QED
      BY <1>6, <2>1, <2>3, <3>1
  <2>4. CASE m > pos + 1 /\ j < pos + 1
    <3>1. j < m - 1
      BY <1>3, <2>4
    <3> QED
      BY <1>4, <1>6, <2>4, <3>1
  <2>5. CASE m > pos + 1 /\ j = pos + 1
    BY <1>6, <2>1, <2>5
  <2>6. CASE m > pos + 1 /\ j > pos + 1
    <3>1. j - 1 < m - 1
      BY <1>3, <1>7
    <3> QED
      BY <1>4, <1>6, <2>6, <3>1
  <2> QED
    BY <1>3, <2>2, <2>3, <2>4, <2>5, <2>6
<1> QED
  BY <1>5, <1>6, <1>7 DEF MergedRight

-----------------------------------------------------------------------------
(* What the steps that change the tree write.                              *)

\* The entries of inode <<i, x>> after the step are k and ch, s separators
\* and s + 1 children, taken from from + 1 on.
Entered(i, x, s, k, ch, from) ==
  /\ Size(i, x)' = s
  /\ \A j \in 1..s : Sep(i, x, j)' = k[j + from]
  /\ \A j \in 1..(s + 1) : Kid(i, x, j)' = ch[j + from]

InsertWrote(t, i, x) ==
  /\ UNCHANGED <<tree_root, root_level, ninode, nleaf>>
  /\ Entered(i, x, Size(i, x) + 1, MergedK(t), MergedCh(t), 0)
  /\ \A a \in Level, y \in InodeNum :
       a # i \/ y # x => ent'[<<a, y>>] = ent[<<a, y>>]
  /\ ~Bears(t)' /\ pc'[t] \in {"ret", "unlock"} /\ OthersStay(t)
  /\ pc[t] = "inode"

LEMMA InsertWrites ==
  ASSUME IndInv, ShapeInv, NEW t \in Thread, InsertInode(t),
         NEW i, i = loc[t].lev, NEW x, x = loc[t].path.parray[i],
         NEW pos, pos = loc[t].path.ppos[i]
  PROVE  /\ Spot(t, i, x, pos) /\ MergedEntries(t, i, x, pos)
         /\ InsertWrote(t, i, x)
<1>1. TypeOK /\ Linked /\ OthersStay(t)
  BY Parts, StepStays DEF Step, NextStep, SplitStep
<1>2. /\ pc[t] = "inode" /\ pc' = [pc EXCEPT ![t] = Done(t)]
      /\ ent' = [ent EXCEPT ![Here(t)] =
                   [k |-> MergedK(t), ch |-> MergedCh(t)]]
      /\ UNCHANGED <<tree_root, root_level, ninode, nleaf>>
  BY DEF InsertInode, Goto, leaf_layer
<1>3. Spot(t, i, x, pos)
  BY <1>2, SpotFacts
<1>4. MergedEntries(t, i, x, pos)
  BY <1>1, <1>3, MergedIs
<1>5. /\ i \in Level /\ x \in InodeNum /\ Here(t) = <<i, x>>
      /\ <<i, x>> \in Inode /\ DOMAIN ent = Inode
  BY <1>1, <1>3 DEF Spot, Inode, TypeOK, SearchTypeOK
<1>6. /\ ent'[<<i, x>>].k = MergedK(t) /\ ent'[<<i, x>>].ch = MergedCh(t)
      /\ \A a \in Level, y \in InodeNum :
           a # i \/ y # x => ent'[<<a, y>>] = ent[<<a, y>>]
  <2>1. ent'[<<i, x>>] = [k |-> MergedK(t), ch |-> MergedCh(t)]
    BY <1>2, <1>5
  <2>2. \A a \in Level, y \in InodeNum :
          a # i \/ y # x => ent'[<<a, y>>] = ent[<<a, y>>]
    BY <1>2, <1>5 DEF Inode
  <2> QED
    BY <2>1, <2>2
<1>7. Entered(i, x, Size(i, x) + 1, MergedK(t), MergedCh(t), 0)
  <2>1. Size(i, x)' = Size(i, x) + 1
    BY <1>4, <1>6, SMTT(30) DEF Size, num, MergedEntries
  <2>2. \A j \in Nat : j + 0 = j
    OBVIOUS
  <2>3. \A j : /\ Sep(i, x, j)' = MergedK(t)[j]
               /\ Kid(i, x, j)' = MergedCh(t)[j]
    BY <1>6 DEF Sep, Kid
  <2>4. Size(i, x) \in Nat
    BY <1>3, SMTT(30) DEF Spot
  <2>5. /\ \A j \in 1..(Size(i, x) + 1) : j \in Nat
        /\ \A j \in 1..((Size(i, x) + 1) + 1) : j \in Nat
    BY <2>4
  <2> QED
    BY <2>1, <2>2, <2>3, <2>5 DEF Entered
<1>8. pc'[t] \in {"ret", "unlock"}
  BY <1>1, <1>2 DEF TypeOK, ThreadTypeOK, Done
<1>9. ~Bears(t)'
  BY <1>8 DEF Bears, Carries
<1> QED
  BY <1>1, <1>2, <1>3, <1>4, <1>6, <1>7, <1>8, <1>9 DEF InsertWrote

HalvesWrote(t, i, x, n) ==
  LET L == LEFT_KEY_NUM
      N == NON_LEAF_KEY_NUM
  IN
  /\ UNCHANGED <<tree_root, root_level, nleaf>>
  /\ n = ninode[i] /\ n \in Nat /\ n \in InodeNum /\ x # n /\ x < n
  /\ ninode'[i] = n + 1
  /\ \A a \in Level : a # i => ninode'[a] = ninode[a]
  /\ Size(i, x) = N
  /\ Entered(i, x, L, MergedK(t), MergedCh(t), 0)
  /\ Entered(i, n, N - L, MergedK(t), MergedCh(t), L + 1)
  /\ \A a \in Level, y \in InodeNum :
       a # i \/ (y # x /\ y # n) => ent'[<<a, y>>] = ent[<<a, y>>]
  /\ OthersStay(t) /\ pc[t] = "inode"
  /\ pc'[t] \in {"inode", "grow"} /\ pc'[t] # "growroot"
  /\ pc'[t] = "grow" <=> ~(i + 1 <= loc[t].total)
  /\ loc'[t].lev = i + 1 /\ loc'[t].ptr = n /\ loc'[t].sep = MergedK(t)[L + 1]
  /\ loc'[t].path = loc[t].path /\ loc'[t].lp = loc[t].lp
  /\ Bears(t)' /\ BornAt(t)' = i /\ Origin(t)' = x /\ ~Carries(t)'

LEMMA HalvesWrites ==
  ASSUME IndInv, ShapeInv, NEW t \in Thread, SplitInode(t),
         NEW i, i = loc[t].lev, NEW x, x = loc[t].path.parray[i],
         NEW pos, pos = loc[t].path.ppos[i], NEW n, n = ninode[i]
  PROVE  /\ Spot(t, i, x, pos) /\ MergedEntries(t, i, x, pos)
         /\ HalvesWrote(t, i, x, n)
<1> DEFINE L == LEFT_KEY_NUM
           N == NON_LEAF_KEY_NUM
           mk == MergedK(t)
           mch == MergedCh(t)
<1>1. TypeOK /\ Linked /\ OthersStay(t) /\ PathTrue(t) /\ Climb(t)
  BY Parts, StepStays DEF Step, NextStep, SplitStep
<1>2. /\ pc[t] = "inode" /\ ~(num(Here(t)) < N) /\ n < MaxInode
      /\ ninode' = [ninode EXCEPT ![i] = n + 1]
      /\ ent' = [ent EXCEPT
           ![Here(t)]  = [k |-> SubSeq(mk, 1, L), ch |-> SubSeq(mch, 1, L + 1)],
           ![<<i, n>>] = [k  |-> SubSeq(mk, L + 2, Len(mk)),
                          ch |-> SubSeq(mch, L + 2, Len(mch))]]
      /\ loc' = [loc EXCEPT ![t].sep = mk[L + 1], ![t].ptr = n,
                            ![t].lev = i + 1]
      /\ pc' = [pc EXCEPT ![t] = IF i + 1 <= loc[t].total THEN "inode"
                                                          ELSE "grow"]
      /\ UNCHANGED <<tree_root, root_level, nleaf>>
  BY DEF SplitInode, Goto, leaf_layer
<1>3. Spot(t, i, x, pos)
  BY <1>2, SpotFacts
<1>4. MergedEntries(t, i, x, pos)
  BY <1>1, <1>3, MergedIs
<1>5. /\ i \in Level /\ i \in Nat /\ x \in InodeNum /\ x \in Nat
      /\ Here(t) = <<i, x>> /\ x < n /\ n \in Nat
      /\ ninode \in [Level -> 0..MaxInode] /\ DOMAIN ent = Inode
  <2>1. ninode \in [Level -> 0..MaxInode] /\ DOMAIN ent = Inode
    BY <1>1 DEF TypeOK, SearchTypeOK
  <2>2. /\ i \in Level /\ i \in Nat /\ x \in InodeNum /\ x \in Nat
        /\ Here(t) = <<i, x>> /\ x < n
    BY <1>3, SMTT(30) DEF Spot
  <2>3. n \in Nat
    BY <2>1, <2>2, Constants
  <2> QED
    BY <2>1, <2>2, <2>3
<1>6. n \in InodeNum /\ x # n
  <2>1. n \in Nat /\ n < MaxInode /\ MaxInode \in Nat
    BY <1>2, <1>5, Constants
  <2>2. x \in Nat /\ x < n
    BY <1>5
  <2>3. n \in 0..(MaxInode - 1)
    BY <2>1
  <2> QED
    BY <2>1, <2>2, <2>3 DEF InodeNum
<1>7. Size(i, x) = N
  <2>1. num(Here(t)) = N
    BY <1>1, Halves
  <2> QED
    BY <1>5, <2>1 DEF Size
<1>8. /\ <<i, x>> \in Inode /\ <<i, n>> \in Inode /\ <<i, x>> # <<i, n>>
  BY <1>5, <1>6 DEF Inode
<1>9. /\ L \in Nat /\ L >= 1 /\ N \in Nat /\ L < N
      /\ mk \in Seq(Key) /\ Len(mk) = N + 1
      /\ mch \in Seq(ChildId(i)) /\ Len(mch) = N + 2
  BY <1>4, <1>7, Constants DEF MergedEntries
<1> HIDE DEF L, N, mk, mch
<1>10. /\ ent'[<<i, x>>] = [k  |-> SubSeq(mk, 1, L),
                            ch |-> SubSeq(mch, 1, L + 1)]
       /\ ent'[<<i, n>>] = [k  |-> SubSeq(mk, L + 2, Len(mk)),
                            ch |-> SubSeq(mch, L + 2, Len(mch))]
  BY <1>2, <1>5, <1>8
<1>11. \A a \in Level, y \in InodeNum :
         a # i \/ (y # x /\ y # n) => ent'[<<a, y>>] = ent[<<a, y>>]
  <2> SUFFICES ASSUME NEW a \in Level, NEW y \in InodeNum,
                      a # i \/ (y # x /\ y # n)
               PROVE  ent'[<<a, y>>] = ent[<<a, y>>]
    OBVIOUS
  <2>1. PICK m : m = <<a, y>>
    OBVIOUS
  <2>2. m \in Inode /\ m # <<i, x>> /\ m # <<i, n>>
    BY <2>1 DEF Inode
  <2>3. ent'[m] = ent[m]
    BY <1>2, <1>5, <2>2
  <2> QED
    BY <2>1, <2>3
<1>12. Entered(i, x, L, mk, mch, 0)
  <2> DEFINE k == SubSeq(mk, 1, L)
             c == SubSeq(mch, 1, L + 1)
  <2>1. /\ 1 \in 1..Len(mk) /\ L \in 0..Len(mk) /\ 1 <= L + 1
        /\ L - 1 + 1 = L /\ \A j \in 1..L : 1 + j - 1 = j + 0
    BY <1>9
  <2>2. /\ 1 \in 1..Len(mch) /\ L + 1 \in 0..Len(mch) /\ 1 <= (L + 1) + 1
        /\ (L + 1) - 1 + 1 = L + 1 /\ \A j \in 1..(L + 1) : 1 + j - 1 = j + 0
    BY <1>9
  <2>3. Len(k) = L /\ \A j \in 1..L : k[j] = mk[j + 0]
    BY <1>9, <2>1, PartType
  <2>4. \A j \in 1..(L + 1) : c[j] = mch[j + 0]
    BY <1>9, <2>2, PartType
  <2>5. ent'[<<i, x>>] = [k |-> k, ch |-> c]
    BY <1>10
  <2> HIDE DEF k, c
  <2>6. ent'[<<i, x>>].k = k /\ ent'[<<i, x>>].ch = c
    BY <2>5
  <2> QED
    BY <2>3, <2>4, <2>6 DEF Entered, Size, num, Sep, Kid
<1>13. Entered(i, n, N - L, mk, mch, L + 1)
  <2> DEFINE k == SubSeq(mk, L + 2, Len(mk))
             c == SubSeq(mch, L + 2, Len(mch))
  <2>1. /\ L + 2 \in 1..Len(mk) /\ Len(mk) \in 0..Len(mk)
        /\ L + 2 <= Len(mk) + 1 /\ Len(mk) - (L + 2) + 1 = N - L
        /\ \A j \in 1..(N - L) : (L + 2) + j - 1 = j + (L + 1)
    BY <1>9
  <2>2. /\ L + 2 \in 1..Len(mch) /\ Len(mch) \in 0..Len(mch)
        /\ L + 2 <= Len(mch) + 1 /\ Len(mch) - (L + 2) + 1 = (N - L) + 1
        /\ \A j \in 1..((N - L) + 1) : (L + 2) + j - 1 = j + (L + 1)
    BY <1>9
  <2>3. Len(k) = N - L /\ \A j \in 1..(N - L) : k[j] = mk[j + (L + 1)]
    BY <1>9, <2>1, PartType
  <2>4. \A j \in 1..((N - L) + 1) : c[j] = mch[j + (L + 1)]
    BY <1>9, <2>2, PartType
  <2>5. ent'[<<i, n>>] = [k |-> k, ch |-> c]
    BY <1>10
  <2> HIDE DEF k, c
  <2>6. ent'[<<i, n>>].k = k /\ ent'[<<i, n>>].ch = c
    BY <2>5
  <2> QED
    BY <2>3, <2>4, <2>6 DEF Entered, Size, num, Sep, Kid
<1>14. ninode'[i] = n + 1 /\ \A a \in Level : a # i => ninode'[a] = ninode[a]
  BY <1>2, <1>5
<1>15. /\ pc'[t] \in {"inode", "grow"}
       /\ pc'[t] = "grow" <=> ~(i + 1 <= loc[t].total)
       /\ loc'[t].lev = i + 1 /\ loc'[t].ptr = n
       /\ loc'[t].sep = mk[L + 1]
       /\ loc'[t].path = loc[t].path /\ loc'[t].lp = loc[t].lp
  BY <1>1, <1>2 DEF TypeOK, ThreadTypeOK, Local
<1>16. Bears(t)' /\ BornAt(t)' = i /\ Origin(t)' = x /\ ~Carries(t)'
  <2>1. BornAt(t)' = i
    BY <1>5, <1>15 DEF BornAt
  <2>2. i # -1
    BY <1>5
  <2>3. Origin(t)' = x
    BY <1>15, <2>1, <2>2 DEF Origin
  <2>4. i + 1 # 0
    BY <1>5
  <2> QED
    BY <1>15, <2>1, <2>3, <2>4 DEF Bears, Carries
<1> QED
  BY <1>1, <1>2, <1>3, <1>4, <1>5, <1>6, <1>7, <1>11, <1>12, <1>13, <1>14,
     <1>15, <1>16 DEF HalvesWrote, L, N, mk, mch

\* o, the old root, and the new node hang from a new root n of level i, which
\* was empty.
RootWrote(t, i, n, o) ==
  /\ i \in Level /\ i \in Nat /\ i > 0 /\ i - 1 \in Level /\ i \in NodeLevel
  /\ i - 1 \in NodeLevel
  /\ n = 0 /\ n \in InodeNum /\ ninode[i] = 0 /\ ninode'[i] = 1
  /\ \A a \in Level : a # i => ninode'[a] = ninode[a]
  /\ nleaf' = nleaf
  /\ tree_root = <<i - 1, o>> /\ root_level = i - 1 /\ o \in InodeNum
  /\ o < ninode[i - 1]
  /\ pc[t] = "grow" /\ Bears(t) /\ BornAt(t) = i - 1 /\ Origin(t) = o
  /\ Node(i - 1, loc[t].ptr) /\ loc[t].ptr \in InodeNum
  /\ loc[t].ptr < ninode[i - 1] /\ loc[t].sep \in Int
  /\ Size(i, n)' = 1 /\ Sep(i, n, 1)' = loc[t].sep
  /\ Kid(i, n, 1)' = o /\ Kid(i, n, 2)' = loc[t].ptr
  /\ \A a \in Level, y \in InodeNum :
       a # i \/ y # n => ent'[<<a, y>>] = ent[<<a, y>>]
  /\ OthersStay(t) /\ ~Bears(t)'
  /\ loc'[t].lev = i /\ loc'[t].ptr = n /\ loc'[t].old_root = o
  /\ \/ /\ pc'[t] = "growroot" /\ root_level' = i /\ tree_root' = tree_root
     \/ /\ pc'[t] = "growlevel" /\ tree_root' = <<i, n>>
        /\ root_level' = root_level

LEMMA RootWrites ==
  ASSUME IndInv, ShapeInv, NEW t \in Thread, GrowRoot(t),
         NEW i, i = loc[t].lev, NEW n, n = ninode[i], NEW o, o = Origin(t)
  PROVE  RootWrote(t, i, n, o)
<1>1. /\ TypeOK /\ Linked /\ OthersStay(t) /\ RootState(t) /\ TopEmpty
      /\ loc[t].lev \in Nat /\ PtrTypeOK(t)
  BY Parts, StepStays, LocalFields
  DEF Step, NextStep, SplitStep
<1>2. /\ pc[t] = "grow" /\ i \in Level /\ n < MaxInode
      /\ ninode' = [ninode EXCEPT ![i] = n + 1]
      /\ ent' = [ent EXCEPT ![<<i, n>>] =
                   [k |-> <<loc[t].sep>>, ch |-> <<tree_root[2], loc[t].ptr>>]]
      /\ loc' = [loc EXCEPT ![t].old_root = tree_root[2], ![t].ptr = n]
      /\ UNCHANGED nleaf
      /\ \/ root_level' = i /\ tree_root' = tree_root /\ Goto(t, "growroot")
         \/ /\ tree_root' = <<i, n>> /\ root_level' = root_level
            /\ Goto(t, "growlevel")
  BY DEF GrowRoot, leaf_layer
<1>3. /\ i \in Nat /\ i > 0 /\ i - 1 \in Level /\ i \in NodeLevel
      /\ i - 1 \in NodeLevel /\ i - 1 # -1 /\ i # -1
  BY <1>1, <1>2, Constants DEF PtrTypeOK, Level, NodeLevel
<1>4. Bears(t) /\ BornAt(t) = i - 1
  BY <1>2 DEF Bears, BornAt
<1>5. o = loc[t].path.parray[i - 1] /\ BornNodes(t)
  BY <1>3, <1>4, BornType DEF Origin
<1>6. tree_root = <<i - 1, o>> /\ root_level = i - 1
  BY <1>1, <1>2, <1>5 DEF RootState
<1>7. /\ tree_root[1] = i - 1 /\ tree_root[2] = o /\ o \in InodeNum
      /\ o < ninode[i - 1]
  BY <1>1, <1>6 DEF TypeOK, SearchTypeOK, Inode, Linked
<1>8. n = 0 /\ n \in InodeNum
  <2>1. i > tree_root[1] /\ i > root_level
    BY <1>3, <1>6, <1>7
  <2>2. n = 0
    BY <1>1, <1>2, <2>1 DEF TopEmpty
  <2> QED
    BY <2>2, Constants DEF InodeNum
<1>9. /\ Node(i - 1, loc[t].ptr) /\ loc[t].sep \in Int
      /\ loc[t].ptr \in InodeNum /\ loc[t].ptr < ninode[i - 1]
  BY <1>1, <1>2, <1>3, <1>4, <1>5 DEF BornNodes, PtrTypeOK, Node
<1>10. <<i, n>> \in Inode /\ DOMAIN ent = Inode /\ ninode \in [Level -> 0..MaxInode]
  BY <1>1, <1>2, <1>8 DEF Inode, TypeOK, SearchTypeOK
<1>11. /\ ent'[<<i, n>>] = [k |-> <<loc[t].sep>>, ch |-> <<o, loc[t].ptr>>]
       /\ \A a \in Level, y \in InodeNum :
            a # i \/ y # n => ent'[<<a, y>>] = ent[<<a, y>>]
  BY <1>2, <1>7, <1>10 DEF Inode
<1>12. /\ ent'[<<i, n>>].k = <<loc[t].sep>>
       /\ ent'[<<i, n>>].ch = <<o, loc[t].ptr>>
  BY <1>11
<1>13. /\ Size(i, n)' = 1 /\ Sep(i, n, 1)' = loc[t].sep
       /\ Kid(i, n, 1)' = o /\ Kid(i, n, 2)' = loc[t].ptr
  BY <1>12 DEF Size, num, Sep, Kid
<1>14. /\ ninode[i] = 0 /\ ninode'[i] = 1
       /\ \A a \in Level : a # i => ninode'[a] = ninode[a]
  BY <1>2, <1>8, <1>10
<1>15. /\ loc'[t].lev = i /\ loc'[t].ptr = n /\ loc'[t].old_root = o
       /\ pc'[t] \in {"growroot", "growlevel"}
       /\ \/ pc'[t] = "growroot" /\ root_level' = i /\ tree_root' = tree_root
          \/ /\ pc'[t] = "growlevel" /\ tree_root' = <<i, n>>
             /\ root_level' = root_level
  BY <1>1, <1>2, <1>7 DEF TypeOK, ThreadTypeOK, Local, Goto
<1>16. ~Bears(t)'
  BY <1>15 DEF Bears, Carries
<1> QED
  BY <1>1, <1>2, <1>3, <1>4, <1>6, <1>7, <1>8, <1>9, <1>11, <1>13, <1>14,
     <1>15, <1>16 DEF RootWrote

SecondWrote(t) ==
  /\ UNCHANGED <<ent, ninode, nleaf>> /\ OthersStay(t)
  /\ ~Bears(t) /\ ~Bears(t)' /\ pc'[t] = "unlockold" /\ loc'[t] = loc[t]
  /\ \/ /\ pc[t] = "growroot"
        /\ tree_root = <<loc[t].lev - 1, loc[t].old_root>>
        /\ root_level = loc[t].lev /\ root_level' = root_level
        /\ tree_root' = <<loc[t].lev, loc[t].ptr>>
     \/ /\ pc[t] = "growlevel" /\ tree_root' = tree_root
        /\ tree_root[1] = loc[t].lev /\ root_level' = loc[t].lev

LEMMA SecondWrites ==
  ASSUME IndInv, ShapeInv, NEW t \in Thread, GrowSecondStore(t)
  PROVE  SecondWrote(t)
<1>1. TypeOK /\ OthersStay(t) /\ RootState(t)
  BY Parts, StepStays DEF Step, NextStep, SplitStep
<1>2. /\ pc'[t] = "unlockold" /\ loc'[t] = loc[t]
      /\ UNCHANGED <<ent, ninode, nleaf>>
      /\ pc[t] \in {"growroot", "growlevel"}
      /\ \/ /\ pc[t] = "growroot" /\ tree_root' = <<loc[t].lev, loc[t].ptr>>
            /\ root_level' = root_level
         \/ /\ pc[t] = "growlevel" /\ tree_root' = tree_root
            /\ root_level' = loc[t].lev
  BY <1>1 DEF GrowSecondStore, Goto, leaf_layer, TypeOK, ThreadTypeOK
<1>3. ~Bears(t) /\ ~Bears(t)'
  BY <1>2 DEF Bears, Carries
<1> QED
  BY <1>1, <1>2, <1>3 DEF SecondWrote, RootState

\* A new leaf n is split from l at sk; the tree does not change.
BuildWrote(t, n, l, sk) ==
  /\ UNCHANGED <<tree_root, root_level, ent, ninode>> /\ OthersStay(t)
  /\ n = nleaf /\ n \in LnodeId /\ n \in Nat /\ nleaf' = n + 1
  /\ pc[t] = "build" /\ pc'[t] = "publish" /\ HoldsLeaf(t) /\ ~Carries(t)
  /\ l = loc[t].lp /\ loc'[t].lp = l /\ l \in LnodeId /\ l \in Nat /\ l < nleaf
  /\ sk \in meta[l].bitmap /\ sk \in Key /\ sk \in Int
  /\ IsSplitKey(sk, meta[l].bitmap)
  /\ loc'[t].sep = sk /\ loc'[t].ptr = n
  /\ ~Bears(t) /\ Bears(t)' /\ BornAt(t)' = -1 /\ Origin(t)' = l

-----------------------------------------------------------------------------
(* A new node: its bound, and what stays true of the others.               *)

\* Node n of level i is new.
AddsNode(i, n) ==
  /\ i \in NodeLevel /\ n \in Nat /\ ~Node(i, n)
  /\ \A j \in NodeLevel, y \in Nat : Node(j, y)' <=> Node(j, y) \/ (j = i /\ y = n)

\* nl gives it the bound k and the others theirs.
Grown(low, nl, i, n, k) ==
  /\ low \in Bounds /\ nl \in Bounds /\ k \in Int /\ nl[i][n] = k
  /\ \A j \in NodeLevel, y \in Nat : j # i \/ y # n => nl[j][y] = low[j][y]

\* The nodes of level i that start at k or before start no later than o.
NextNode(low, i, o, k) ==
  /\ o \in Nat
  /\ \A y \in Nat : Node(i, y) /\ low[i][y] <= k
                      => low[i][y] < k /\ low[i][y] <= low[i][o]

LEMMA GrownIs ==
  ASSUME NEW low \in Bounds, NEW i \in NodeLevel, NEW n \in Nat, NEW k \in Int
  PROVE  \E nl \in Bounds : Grown(low, nl, i, n, k)
<1> DEFINE nl == [low EXCEPT ![i] = [low[i] EXCEPT ![n] = k]]
<1>1. low \in [NodeLevel -> [Nat -> Int]] /\ low[i] \in [Nat -> Int]
  BY DEF Bounds
<1>2. nl \in Bounds /\ nl[i] = [low[i] EXCEPT ![n] = k]
  BY <1>1 DEF Bounds
<1>3. nl[i][n] = k
  BY <1>1, <1>2
<1>4. \A j \in NodeLevel, y \in Nat : j # i \/ y # n => nl[j][y] = low[j][y]
  BY <1>1, <1>2
<1>5. Grown(low, nl, i, n, k)
  BY <1>2, <1>3, <1>4 DEF Grown
<1> QED
  BY <1>2, <1>5

LEMMA AddsInode ==
  ASSUME TypeOK, NEW i \in Level, NEW n, n = ninode[i], ninode'[i] = n + 1,
         \A a \in Level : a # i => ninode'[a] = ninode[a], nleaf' = nleaf
  PROVE  AddsNode(i, n)
<1>1. i \in NodeLevel /\ i # -1 /\ n \in Nat
  BY Constants DEF TypeOK, SearchTypeOK, Level, NodeLevel
<1>2. ~Node(i, n)
  BY <1>1 DEF Node
<1>3. ASSUME NEW j \in NodeLevel, NEW y \in Nat
      PROVE  Node(j, y)' <=> Node(j, y) \/ (j = i /\ y = n)
  <2>1. j = -1 \/ j \in Level
    BY Constants DEF NodeLevel, Level
  <2>2. CASE j = i
    BY <1>1, <2>2 DEF Node
  <2>3. CASE j # i
    BY <2>1, <2>3 DEF Node
  <2> QED
    BY <2>2, <2>3
<1> QED
  BY <1>1, <1>2, <1>3 DEF AddsNode

LEMMA AddsLeaf ==
  ASSUME TypeOK, NEW n, n = nleaf, nleaf' = n + 1, ninode' = ninode
  PROVE  AddsNode(-1, n)
<1>1. -1 \in NodeLevel /\ n \in Nat
  BY Constants, LeafNumbers DEF NodeLevel
<1>2. ASSUME NEW j \in NodeLevel, NEW y \in Nat
      PROVE  Node(j, y)' <=> Node(j, y) \/ (j = -1 /\ y = n)
  BY <1>1 DEF Node
<1>3. ~Node(-1, n)
  BY <1>1 DEF Node
<1> QED
  BY <1>1, <1>2, <1>3 DEF AddsNode

\* An old node keeps its bound.
LEMMA OldBound ==
  ASSUME NEW i, NEW n, AddsNode(i, n), NEW low, NEW nl, NEW k,
         Grown(low, nl, i, n, k), NEW j \in NodeLevel, NEW y, Node(j, y)
  PROVE  /\ nl[j][y] = low[j][y] /\ low[j][y] \in Int /\ y \in Nat
         /\ Node(j, y)'
BY BoundType DEF AddsNode, Grown, Node

LEMMA AddDistinct ==
  ASSUME NEW i, NEW n, AddsNode(i, n), NEW low, NEW nl, NEW k,
         Grown(low, nl, i, n, k), NEW o, NextNode(low, i, o, k), Distinct(low)
  PROVE  Distinct(nl)'
<1> SUFFICES ASSUME NEW j \in NodeLevel, NEW x \in Nat, NEW y \in Nat,
                    Node(j, x)', Node(j, y)', nl[j][x] = nl[j][y]
             PROVE  x = y
  BY DEF Distinct
<1>1. /\ Node(j, x) \/ (j = i /\ x = n)
      /\ Node(j, y) \/ (j = i /\ y = n)
      /\ nl[i][n] = k /\ k \in Int
  BY DEF AddsNode, Grown
<1>2. CASE Node(j, x) /\ Node(j, y)
  BY <1>2, OldBound DEF Distinct
<1>3. ASSUME NEW z \in Nat, Node(i, z), nl[i][z] = k PROVE FALSE
  <2>1. i \in NodeLevel
    BY DEF AddsNode
  <2>2. low[i][z] = k
    BY <1>3, <2>1, OldBound
  <2> QED
    BY <1>1, <1>3, <2>2 DEF NextNode
<1> QED
  BY <1>1, <1>2, <1>3

\* A carried node that was not split from o has the same node before it.
LEMMA AddBorn ==
  ASSUME NEW i, NEW n, AddsNode(i, n), NEW low, NEW nl, NEW k,
         Grown(low, nl, i, n, k), NEW o, NextNode(low, i, o, k), Distinct(low),
         NEW u \in Thread, BornBound(low, u), Bears(u) => BornNodes(u),
         Bears(u)' <=> Bears(u), loc'[u] = loc[u],
         BornAt(u)' = BornAt(u), Origin(u)' = Origin(u),
         Bears(u) /\ BornAt(u) = i =>
           Node(i, o) /\ low[i][o] < k /\ Origin(u) # o
  PROVE  BornBound(nl, u)'
<1> SUFFICES ASSUME Bears(u) PROVE BornBound(nl, u)'
  BY DEF BornBound
<1>1. PICK b : b = BornAt(u)
  OBVIOUS
<1>2. PICK q : q = Origin(u)
  OBVIOUS
<1>3. /\ b \in NodeLevel /\ Node(b, loc[u].ptr) /\ Node(b, q)
      /\ loc[u].sep \in Int
  BY <1>1, <1>2 DEF BornNodes
<1>4. /\ low[b][loc[u].ptr] = loc[u].sep /\ low[b][q] < loc[u].sep
      /\ \A y \in Nat : Node(b, y) /\ low[b][y] < loc[u].sep =>
           low[b][y] <= low[b][q]
  BY <1>1, <1>2 DEF BornBound
<1>5. /\ nl[b][loc[u].ptr] = low[b][loc[u].ptr]
      /\ nl[b][q] = low[b][q] /\ low[b][q] \in Int
  BY <1>3, OldBound
<1>6. ASSUME NEW y \in Nat, Node(b, y)', nl[b][y] < loc[u].sep
      PROVE  nl[b][y] <= nl[b][q]
  <2>1. CASE Node(b, y)
    <3>1. nl[b][y] = low[b][y]
      BY <1>3, <2>1, OldBound
    <3> QED
      BY <1>4, <1>5, <1>6, <2>1, <3>1
  <2>2. CASE b = i /\ y = n
    <3>1. /\ Node(i, o) /\ low[i][o] < k /\ q # o /\ nl[b][y] = k /\ k \in Int
          /\ o \in Nat /\ q \in Nat /\ i \in NodeLevel
      BY <1>1, <1>2, <1>3, <2>2 DEF Grown, NextNode, Node
    <3>2. low[i][o] \in Int
      BY <3>1, OldBound
    <3> SUFFICES ASSUME low[i][q] < k PROVE FALSE
      BY <1>5, <2>2, <3>1
    <3>3. low[i][q] <= k
      BY <1>5, <2>2, <3>1
    <3>4. low[i][q] <= low[i][o]
      BY <1>3, <2>2, <3>1, <3>3 DEF NextNode
    <3>5. low[i][o] < loc[u].sep
      BY <1>3, <1>6, <3>1, <3>2
    <3>6. low[i][o] <= low[i][q]
      BY <1>4, <2>2, <3>1, <3>5
    <3>7. low[i][o] = low[i][q]
      BY <1>5, <2>2, <3>2, <3>4, <3>6
    <3> QED
      BY <1>3, <2>2, <3>1, <3>7 DEF Distinct
  <2> QED
    BY <1>3, <1>6, <2>1, <2>2 DEF AddsNode
<1>7. Bears(u)' /\ BornAt(u)' = b /\ Origin(u)' = q
  BY <1>1, <1>2
<1> QED
  BY <1>4, <1>5, <1>6, <1>7 DEF BornBound

\* A node other than o owns what it owned, and o what is below k.
LEMMA AddOwns ==
  ASSUME NEW i, NEW n, AddsNode(i, n), NEW low, NEW nl, NEW k,
         Grown(low, nl, i, n, k), NEW o, NextNode(low, i, o, k), Distinct(low),
         NEW j \in Level, NEW y, Node(j, y), NEW b \in Int, Owns(low, j, y, b),
         j = i => Node(i, o) /\ low[i][o] < k /\ (y # o \/ b < k)
  PROVE  Owns(nl, j, y, b)'
<1>1. j \in NodeLevel /\ j # -1
  BY Constants DEF Level, NodeLevel
<1>2. nl[j][y] = low[j][y] /\ low[j][y] \in Int /\ y \in Nat
  BY <1>1, OldBound
<1>3. /\ low[j][y] <= b
      /\ \A z \in Nat : Node(j, z) /\ low[j][z] <= b => low[j][z] <= low[j][y]
  BY <1>1 DEF Owns, Public
<1>4. ASSUME NEW z \in Nat, Node(j, z)', nl[j][z] <= b
      PROVE  nl[j][z] <= nl[j][y]
  <2>1. CASE Node(j, z)
    <3>1. nl[j][z] = low[j][z]
      BY <1>1, <2>1, OldBound
    <3> QED
      BY <1>2, <1>3, <1>4, <2>1, <3>1
  <2>2. CASE j = i /\ z = n
    <3>1. /\ Node(i, o) /\ low[i][o] < k /\ (y # o \/ b < k)
          /\ nl[j][z] = k /\ k \in Int /\ o \in Nat
      BY <2>2 DEF Grown, NextNode
    <3>2. low[i][o] \in Int /\ i \in NodeLevel
      BY <1>1, <2>2, <3>1, OldBound
    <3> SUFFICES ASSUME low[i][y] < k PROVE FALSE
      BY <1>2, <2>2, <3>1
    <3>3. low[i][y] <= k
      BY <1>2, <2>2, <3>1
    <3>4. low[i][y] <= low[i][o]
      BY <1>2, <2>2, <3>3 DEF NextNode
    <3>5. k <= b
      BY <1>4, <3>1
    <3>6. low[i][o] <= b
      BY <3>1, <3>2, <3>5
    <3>7. low[i][o] <= low[i][y]
      BY <1>3, <2>2, <3>1, <3>6
    <3>8. low[i][o] = low[i][y]
      BY <1>2, <2>2, <3>2, <3>4, <3>7
    <3>9. y = o
      BY <1>2, <2>2, <3>1, <3>2, <3>8 DEF Distinct
    <3> QED
      BY <3>1, <3>5, <3>9
  <2> QED
    BY <1>1, <1>4, <2>1, <2>2 DEF AddsNode
<1> QED
  BY <1>1, <1>2, <1>3, <1>4 DEF Owns, Public

\* What ChildBounds and SepsOwned say of one inode.
EntryRight(low, i, x) ==
  /\ \A j \in 1..(Size(i, x) + 1) :
       low[i - 1][Kid(i, x, j)] = IF j = 1 THEN low[i][x] ELSE Sep(i, x, j - 1)
  /\ \A j \in 1..Size(i, x) :
       /\ low[i][x] < Sep(i, x, j) /\ Owns(low, i, x, Sep(i, x, j))
       /\ \A m \in 1..Size(i, x) : j < m => Sep(i, x, j) < Sep(i, x, m)

LEMMA EachEntry ==
  ASSUME NEW low, ChildBounds(low), SepsOwned(low), NEW i \in Level,
         NEW x \in InodeNum, x < ninode[i]
  PROVE  EntryRight(low, i, x)
BY DEF ChildBounds, SepsOwned, EntryRight

LEMMA AllEntries ==
  ASSUME NEW low, \A i \in Level, x \in InodeNum :
                    x < ninode'[i] => EntryRight(low, i, x)'
  PROVE  ChildBounds(low)' /\ SepsOwned(low)'
BY DEF ChildBounds, SepsOwned, EntryRight

\* An inode that a step does not write stays right.
LEMMA EntryStays ==
  ASSUME TypeOK, Linked, NEW i, NEW n, AddsNode(i, n), NEW low, NEW nl, NEW k,
         Grown(low, nl, i, n, k), NEW o, NextNode(low, i, o, k), Distinct(low),
         NEW j \in Level, NEW y \in InodeNum, y < ninode[j],
         ent'[<<j, y>>] = ent[<<j, y>>], EntryRight(low, j, y),
         j = i => Node(i, o) /\ low[i][o] < k /\ y # o
  PROVE  EntryRight(nl, j, y)'
<1>1. /\ j \in NodeLevel /\ j - 1 \in NodeLevel /\ Size(j, y) \in Nat
      /\ j # -1 /\ y \in Nat
      /\ \A m \in 1..Size(j, y) : Sep(j, y, m) \in Int
      /\ \A m \in 1..(Size(j, y) + 1) : Node(j - 1, Kid(j, y, m))
  BY Entries
<1>2. Node(j, y)
  BY <1>1 DEF Node
<1>3. /\ Size(j, y)' = Size(j, y)
      /\ \A m : Sep(j, y, m)' = Sep(j, y, m) /\ Kid(j, y, m)' = Kid(j, y, m)
  BY DEF Size, num, Sep, Kid
<1>4. nl[j][y] = low[j][y]
  BY <1>1, <1>2, OldBound
<1>5. \A m \in 1..(Size(j, y) + 1) :
        nl[j - 1][Kid(j, y, m)] = low[j - 1][Kid(j, y, m)]
  BY <1>1, OldBound
<1>6. \A m \in 1..Size(j, y) : Owns(nl, j, y, Sep(j, y, m))'
  <2> SUFFICES ASSUME NEW m \in 1..Size(j, y)
               PROVE  Owns(nl, j, y, Sep(j, y, m))'
    OBVIOUS
  <2>1. PICK b : b = Sep(j, y, m)
    OBVIOUS
  <2>2. b \in Int /\ Owns(low, j, y, b)
    BY <1>1, <2>1 DEF EntryRight
  <2>3. Owns(nl, j, y, b)'
    BY <1>2, <2>2, AddOwns
  <2>4. Sep(j, y, m)' = b
    BY <1>3, <2>1
  <2> QED
    BY <2>3, <2>4 DEF Owns
<1>7. \A m \in 1..(Size(j, y) + 1) :
        nl[j - 1][Kid(j, y, m)] = IF m = 1 THEN nl[j][y] ELSE Sep(j, y, m - 1)
  BY <1>4, <1>5 DEF EntryRight
<1>8. \A m \in 1..Size(j, y) :
        /\ nl[j][y] < Sep(j, y, m)
        /\ \A q \in 1..Size(j, y) : m < q => Sep(j, y, m) < Sep(j, y, q)
  BY <1>4 DEF EntryRight
<1>9. /\ \A m \in 1..Size(j, y)' : nl[j][y] < Sep(j, y, m)'
      /\ \A m \in 1..Size(j, y)' :
           \A q \in 1..Size(j, y)' : m < q => Sep(j, y, m)' < Sep(j, y, q)'
      /\ \A m \in 1..Size(j, y)' : Owns(nl, j, y, Sep(j, y, m))'
  BY <1>3, <1>6, <1>8
<1>10. \A m \in 1..(Size(j, y)' + 1) :
         nl[j - 1][Kid(j, y, m)'] = IF m = 1 THEN nl[j][y] ELSE Sep(j, y, m - 1)'
  BY <1>3, <1>7
<1> QED
  BY <1>9, <1>10 DEF EntryRight

-----------------------------------------------------------------------------
(* The order of the search layer, step by step.                            *)

LEMMA OrderInsertInode ==
  ASSUME IndInv, ShapeInv, NEW low \in Bounds, TreeOrder(low),
         NEW t \in Thread, InsertInode(t)
  PROVE  TreeOrder(low)'
<1>1. TypeOK /\ Linked
  BY Parts
<1>2. PICK i : i = loc[t].lev
  OBVIOUS
<1>3. PICK x : x = loc[t].path.parray[i]
  OBVIOUS
<1>4. PICK pos : pos = loc[t].path.ppos[i]
  OBVIOUS
<1>5. Spot(t, i, x, pos) /\ MergedEntries(t, i, x, pos) /\ InsertWrote(t, i, x)
  BY <1>2, <1>3, <1>4, InsertWrites
<1>6. MergedRight(low, t, i, x)
  BY <1>1, <1>5, MergedOrder
<1>7. /\ UNCHANGED <<tree_root, root_level, ninode, nleaf>>
      /\ Entered(i, x, Size(i, x) + 1, MergedK(t), MergedCh(t), 0)
      /\ \A a \in Level, y \in InodeNum :
           a # i \/ y # x => ent'[<<a, y>>] = ent[<<a, y>>]
      /\ ~Bears(t)' /\ OthersStay(t)
      /\ i \in Level /\ x \in InodeNum /\ Size(i, x) \in Nat
  BY <1>5 DEF InsertWrote, Spot
<1>8. \A j, y : Node(j, y)' <=> Node(j, y)
  BY <1>7 DEF Node
<1>9. \A j \in Level : \A y, b : Owns(low, j, y, b) <=> Owns(low, j, y, b)'
  <2>1. \A j \in Level : j # -1
    BY Constants DEF Level
  <2> QED
    BY <1>8, <2>1 DEF Owns, Public
<1>10. ChildBounds(low)' /\ SepsOwned(low)'
  <2> SUFFICES ASSUME NEW j \in Level, NEW y \in InodeNum, y < ninode'[j]
               PROVE  EntryRight(low, j, y)'
    BY AllEntries
  <2>1. CASE j # i \/ y # x
    <3>1. EntryRight(low, j, y)
      BY <1>7, EachEntry DEF TreeOrder
    <3>2. /\ Size(j, y)' = Size(j, y)
          /\ \A m : /\ Sep(j, y, m)' = Sep(j, y, m)
                    /\ Kid(j, y, m)' = Kid(j, y, m)
      BY <1>7, <2>1 DEF Size, num, Sep, Kid
    <3> QED
      BY <1>9, <3>1, <3>2 DEF EntryRight
  <2>2. CASE j = i /\ y = x
    <3>1. \A m \in Nat : m + 0 = m
      OBVIOUS
    <3>2. PICK s : s = Size(i, x) + 1
      OBVIOUS
    <3>3. /\ s + 1 = Size(i, x) + 2 /\ s \in Nat
          /\ \A m \in 1..s : m \in Nat
          /\ \A m \in 1..(s + 1) : m \in Nat /\ (m # 1 => m - 1 \in 1..s)
      BY <1>7, <3>2
    <3>4. /\ Size(i, x)' = s
          /\ \A m \in 1..s : Sep(i, x, m)' = MergedK(t)[m]
          /\ \A m \in 1..(s + 1) : Kid(i, x, m)' = MergedCh(t)[m]
      BY <1>7, <3>1, <3>2, <3>3 DEF Entered
    <3>5. /\ \A m \in 1..(s + 1) :
               low[i - 1][MergedCh(t)[m]]
                 = IF m = 1 THEN low[i][x] ELSE MergedK(t)[m - 1]
          /\ \A m \in 1..s :
               /\ low[i][x] < MergedK(t)[m] /\ Owns(low, i, x, MergedK(t)[m])
               /\ \A q \in 1..s : m < q => MergedK(t)[m] < MergedK(t)[q]
      BY <1>6, <3>2, <3>3 DEF MergedRight
    <3>6. \A m \in 1..(s + 1) :
            low[i - 1][Kid(i, x, m)']
              = IF m = 1 THEN low[i][x] ELSE Sep(i, x, m - 1)'
      BY <3>3, <3>4, <3>5
    <3>7. \A m \in 1..s :
            /\ low[i][x] < Sep(i, x, m)'
            /\ \A q \in 1..s : m < q => Sep(i, x, m)' < Sep(i, x, q)'
      BY <3>4, <3>5
    <3>8. \A m \in 1..s : Owns(low, i, x, Sep(i, x, m))'
      <4> SUFFICES ASSUME NEW m \in 1..s PROVE Owns(low, i, x, Sep(i, x, m))'
        OBVIOUS
      <4>1. PICK b : b = MergedK(t)[m]
        OBVIOUS
      <4>2. Owns(low, i, x, b)'
        BY <1>7, <1>9, <3>5, <4>1
      <4>3. Sep(i, x, m)' = b
        BY <3>4, <4>1
      <4> QED
        BY <4>2, <4>3 DEF Owns
    <3> QED
      BY <2>2, <3>4, <3>6, <3>7, <3>8 DEF EntryRight
  <2> QED
    BY <2>1, <2>2
<1>11. Distinct(low)'
  BY <1>8 DEF TreeOrder, Distinct
<1>12. RootBound(low)'
  BY <1>7 DEF TreeOrder, RootBound
<1>13. \A u \in Thread : BornBound(low, u)'
  <2> SUFFICES ASSUME NEW u \in Thread, u # t PROVE BornBound(low, u)'
    BY <1>7 DEF BornBound
  <2>1. /\ loc'[u] = loc[u] /\ (Bears(u)' <=> Bears(u))
        /\ BornAt(u)' = BornAt(u) /\ Origin(u)' = Origin(u)
    BY <1>7, OthersBear
  <2>2. BornBound(low, u)
    BY DEF TreeOrder
  <2> QED
    BY <1>8, <2>1, <2>2 DEF BornBound
<1> QED
  BY <1>10, <1>11, <1>12, <1>13 DEF TreeOrder

\* A thread that holds an inode has it to itself: it is not an inode that
\* another thread has split and whose parent does not know the new one.
LEMMA NotOrigin ==
  ASSUME IndInv, ShapeInv, NEW t \in Thread, NEW u \in Thread, u # t,
         NEW i \in Level, NEW x \in InodeNum, Holds(t, i, x),
         Bears(u), BornAt(u) = i
  PROVE  Origin(u) # x
<1> SUFFICES ASSUME Origin(u) = x PROVE FALSE
  OBVIOUS
<1>1. TypeOK /\ InodeLocks /\ InodeAlone(u)
  BY Parts
<1>2. i \in Nat /\ i # -1 /\ loc[u].lev \in Nat
  BY <1>1, LocalFields, Constants DEF Level
<1>3. pc[u] \in {"inode", "grow"} /\ loc[u].lev - 1 = i /\ loc[u].lev > 0
  BY <1>2 DEF BornAt
<1>4. CASE pc[u] = "inode"
  <2>1. ~Holds(t, i, Origin(u))
    BY <1>1, <1>3, <1>4 DEF InodeAlone
  <2> QED
    BY <2>1
<1>5. CASE pc[u] = "grow"
  <2>1. x = loc[u].path.parray[i]
    BY <1>2 DEF Origin
  <2>2. Holds(u, i, x)
    BY <1>3, <1>5, <2>1 DEF Holds
  <2> QED
    BY <1>1, <2>2 DEF InodeLocks
<1> QED
  BY <1>3, <1>4, <1>5

\* The split key of an inode splits what it owns.
HalfKey(low, t, i, x, k) ==
  /\ k \in Int /\ low[i][x] < k /\ NextNode(low, i, x, k) /\ Owns(low, i, x, k)
  /\ \A j \in 1..LEFT_KEY_NUM : MergedK(t)[j] < k
  /\ \A j \in 1..(NON_LEAF_KEY_NUM - LEFT_KEY_NUM) :
       k < MergedK(t)[j + (LEFT_KEY_NUM + 1)]

LEMMA HalfKeyIs ==
  ASSUME TypeOK, NEW low \in Bounds, NEW t \in Thread, NEW i \in Level,
         NEW x \in InodeNum, x < ninode[i],
         Size(i, x) = NON_LEAF_KEY_NUM, MergedRight(low, t, i, x),
         NEW k, k = MergedK(t)[LEFT_KEY_NUM + 1]
  PROVE  HalfKey(low, t, i, x, k)
<1> DEFINE L == LEFT_KEY_NUM
           N == NON_LEAF_KEY_NUM
<1>1. L \in Nat /\ L >= 1 /\ N \in Nat /\ L < N
  BY Constants
<1> HIDE DEF L, N
<1>2. /\ L + 1 \in 1..(N + 1)
      /\ \A j \in 1..L : j \in 1..(N + 1) /\ j < L + 1
      /\ \A j \in 1..(N - L) : j + (L + 1) \in 1..(N + 1) /\ L + 1 < j + (L + 1)
  BY <1>1
<1>3. /\ \A j \in 1..(N + 1) :
           /\ MergedK(t)[j] \in Int
           /\ low[i][x] < MergedK(t)[j] /\ Owns(low, i, x, MergedK(t)[j])
           /\ \A m \in 1..(N + 1) : j < m => MergedK(t)[j] < MergedK(t)[m]
  BY DEF MergedRight, N
<1>4. k \in Int /\ low[i][x] < k /\ Owns(low, i, x, k)
  BY <1>2, <1>3 DEF L
<1>5. /\ \A j \in 1..L : MergedK(t)[j] < k
      /\ \A j \in 1..(N - L) : k < MergedK(t)[j + (L + 1)]
  BY <1>2, <1>3 DEF L
<1>6. NextNode(low, i, x, k)
  <2>1. i \in NodeLevel /\ x \in Nat
    BY Constants DEF Level, NodeLevel, InodeNum
  <2>2. low[i][x] \in Int
    BY <2>1, BoundType
  <2> SUFFICES ASSUME NEW y \in Nat, Node(i, y), low[i][y] <= k
               PROVE  low[i][y] < k /\ low[i][y] <= low[i][x]
    BY <2>1 DEF NextNode
  <2>3. Public(i, y) /\ low[i][y] \in Int
    BY <2>1, NodeType, BoundType
  <2>4. low[i][y] <= low[i][x]
    BY <1>4, <2>3 DEF Owns
  <2> QED
    BY <1>4, <2>2, <2>3, <2>4
<1> QED
  BY <1>4, <1>5, <1>6 DEF HalfKey, L, N

LEMMA SplitLower ==
  ASSUME TypeOK, Linked, NEW low, NEW nl, NEW t \in Thread, NEW i, NEW x,
         NEW n, NEW k, AddsNode(i, n), Grown(low, nl, i, n, k),
         HalfKey(low, t, i, x, k), MergedRight(low, t, i, x), Distinct(low),
         HalvesWrote(t, i, x, n), i \in Level, x \in InodeNum
  PROVE  EntryRight(nl, i, x)'
<1> DEFINE L == LEFT_KEY_NUM
           N == NON_LEAF_KEY_NUM
<1>1. L \in Nat /\ L >= 1 /\ N \in Nat /\ L < N
  BY Constants
<1>2. i \in NodeLevel /\ i - 1 \in NodeLevel /\ i # -1 /\ x \in Nat
      /\ i - 1 # i /\ Size(i, x) = N /\ x < ninode[i]
  <2>1. i \in NodeLevel /\ i - 1 \in NodeLevel /\ i # -1 /\ x \in Nat /\ i - 1 # i
    BY Constants DEF Level, NodeLevel, InodeNum
  <2> QED
    BY <2>1 DEF HalvesWrote
<1>3. /\ k \in Int /\ low[i][x] < k /\ NextNode(low, i, x, k)
      /\ \A j \in 1..L : MergedK(t)[j] < k
  BY DEF HalfKey
<1>4. /\ Size(i, x)' = L
      /\ \A j \in 1..L : Sep(i, x, j)' = MergedK(t)[j + 0]
      /\ \A j \in 1..(L + 1) : Kid(i, x, j)' = MergedCh(t)[j + 0]
  BY DEF HalvesWrote, Entered
<1>5. /\ \A j \in 1..(N + 2) :
           /\ Node(i - 1, MergedCh(t)[j])
           /\ low[i - 1][MergedCh(t)[j]]
                = IF j = 1 THEN low[i][x] ELSE MergedK(t)[j - 1]
      /\ \A j \in 1..(N + 1) :
           /\ MergedK(t)[j] \in Int
           /\ low[i][x] < MergedK(t)[j] /\ Owns(low, i, x, MergedK(t)[j])
           /\ \A m \in 1..(N + 1) : j < m => MergedK(t)[j] < MergedK(t)[m]
  BY <1>2 DEF MergedRight
<1> HIDE DEF L, N
<1>6. /\ \A j \in 1..L : j + 0 = j /\ j \in 1..(N + 1)
      /\ \A j \in 1..(L + 1) :
           j + 0 = j /\ j \in 1..(N + 2) /\ (j # 1 => j - 1 \in 1..L)
  BY <1>1
<1>7. Node(i, x)
  BY <1>2 DEF Node
<1>8. nl[i][x] = low[i][x]
  BY <1>2, <1>7, OldBound
<1>9. \A j \in 1..(L + 1) :
        nl[i - 1][Kid(i, x, j)'] = IF j = 1 THEN nl[i][x] ELSE Sep(i, x, j - 1)'
  <2> SUFFICES ASSUME NEW j \in 1..(L + 1)
               PROVE  nl[i - 1][Kid(i, x, j)']
                        = IF j = 1 THEN nl[i][x] ELSE Sep(i, x, j - 1)'
    OBVIOUS
  <2>1. PICK c : c = MergedCh(t)[j]
    OBVIOUS
  <2>2. Kid(i, x, j)' = c /\ Node(i - 1, c)
        /\ low[i - 1][c] = IF j = 1 THEN low[i][x] ELSE MergedK(t)[j - 1]
    BY <1>4, <1>5, <1>6, <2>1
  <2>3. nl[i - 1][c] = low[i - 1][c]
    BY <1>2, <2>2, OldBound
  <2>4. j # 1 => Sep(i, x, j - 1)' = MergedK(t)[j - 1]
    BY <1>4, <1>6
  <2> QED
    BY <1>8, <2>2, <2>3, <2>4
<1>10. \A j \in 1..L : Owns(nl, i, x, Sep(i, x, j))'
  <2> SUFFICES ASSUME NEW j \in 1..L PROVE Owns(nl, i, x, Sep(i, x, j))'
    OBVIOUS
  <2>1. PICK b : b = MergedK(t)[j]
    OBVIOUS
  <2>2. b \in Int /\ Owns(low, i, x, b) /\ b < k
    BY <1>3, <1>5, <1>6, <2>1
  <2>3. Owns(nl, i, x, b)'
    BY <1>3, <1>7, <2>2, AddOwns
  <2>4. Sep(i, x, j)' = b
    BY <1>4, <1>6, <2>1
  <2> QED
    BY <2>3, <2>4 DEF Owns
<1>11. \A j \in 1..L :
         /\ nl[i][x] < Sep(i, x, j)'
         /\ \A m \in 1..L : j < m => Sep(i, x, j)' < Sep(i, x, m)'
  BY <1>4, <1>5, <1>6, <1>8
<1> QED
  BY <1>4, <1>9, <1>10, <1>11 DEF EntryRight

LEMMA SplitUpper ==
  ASSUME TypeOK, Linked, NEW low, NEW nl, NEW t \in Thread, NEW i, NEW x,
         NEW n, NEW k, AddsNode(i, n), Grown(low, nl, i, n, k),
         HalfKey(low, t, i, x, k), MergedRight(low, t, i, x),
         k = MergedK(t)[LEFT_KEY_NUM + 1],
         HalvesWrote(t, i, x, n), i \in Level, x \in InodeNum
  PROVE  EntryRight(nl, i, n)'
<1> DEFINE L == LEFT_KEY_NUM
           N == NON_LEAF_KEY_NUM
<1>1. L \in Nat /\ L >= 1 /\ N \in Nat /\ L < N
  BY Constants
<1>2. i \in NodeLevel /\ i - 1 \in NodeLevel /\ i # -1 /\ x \in Nat /\ n \in Nat
      /\ i - 1 # i /\ Size(i, x) = N
  <2>1. i \in NodeLevel /\ i - 1 \in NodeLevel /\ i # -1 /\ x \in Nat /\ i - 1 # i
    BY Constants DEF Level, NodeLevel, InodeNum
  <2> QED
    BY <2>1 DEF HalvesWrote
<1>3. /\ k \in Int /\ low[i][x] < k /\ low[i][x] \in Int
      /\ \A j \in 1..(N - L) : k < MergedK(t)[j + (L + 1)]
  BY <1>2, BoundType DEF HalfKey, Grown
<1>4. /\ Size(i, n)' = N - L
      /\ \A j \in 1..(N - L) : Sep(i, n, j)' = MergedK(t)[j + (L + 1)]
      /\ \A j \in 1..((N - L) + 1) : Kid(i, n, j)' = MergedCh(t)[j + (L + 1)]
  BY DEF HalvesWrote, Entered
<1>5. /\ \A j \in 1..(N + 2) :
           /\ Node(i - 1, MergedCh(t)[j])
           /\ low[i - 1][MergedCh(t)[j]]
                = IF j = 1 THEN low[i][x] ELSE MergedK(t)[j - 1]
      /\ \A j \in 1..(N + 1) :
           /\ MergedK(t)[j] \in Int
           /\ low[i][x] < MergedK(t)[j] /\ Owns(low, i, x, MergedK(t)[j])
           /\ \A m \in 1..(N + 1) : j < m => MergedK(t)[j] < MergedK(t)[m]
  BY <1>2 DEF MergedRight
<1>6. k = MergedK(t)[L + 1]
  OBVIOUS
<1> HIDE DEF L, N
<1>7. /\ \A j \in 1..(N - L) : j + (L + 1) \in 1..(N + 1)
      /\ \A j \in 1..((N - L) + 1) :
           /\ j + (L + 1) \in 1..(N + 2) /\ j + (L + 1) # 1
           /\ j = 1 => (j + (L + 1)) - 1 = L + 1
           /\ j # 1 => /\ j - 1 \in 1..(N - L)
                       /\ (j + (L + 1)) - 1 = (j - 1) + (L + 1)
      /\ \A j, m \in 1..(N - L) : j < m => j + (L + 1) < m + (L + 1)
  BY <1>1
<1>8. nl[i][n] = k
  BY DEF Grown
<1>9. \A j \in 1..((N - L) + 1) :
        nl[i - 1][Kid(i, n, j)'] = IF j = 1 THEN nl[i][n] ELSE Sep(i, n, j - 1)'
  <2> SUFFICES ASSUME NEW j \in 1..((N - L) + 1)
               PROVE  nl[i - 1][Kid(i, n, j)']
                        = IF j = 1 THEN nl[i][n] ELSE Sep(i, n, j - 1)'
    OBVIOUS
  <2>1. PICK c : c = MergedCh(t)[j + (L + 1)]
    OBVIOUS
  <2>2. Kid(i, n, j)' = c /\ Node(i - 1, c)
        /\ low[i - 1][c] = MergedK(t)[(j + (L + 1)) - 1]
    BY <1>4, <1>5, <1>7, <2>1
  <2>3. nl[i - 1][c] = low[i - 1][c]
    BY <1>2, <2>2, OldBound
  <2>4. j # 1 => Sep(i, n, j - 1)' = MergedK(t)[(j + (L + 1)) - 1]
    BY <1>4, <1>7
  <2>5. j = 1 => MergedK(t)[(j + (L + 1)) - 1] = k
    BY <1>6, <1>7
  <2> QED
    BY <1>8, <2>2, <2>3, <2>4, <2>5
<1>10. \A j \in 1..(N - L) : Owns(nl, i, n, Sep(i, n, j))'
  <2> SUFFICES ASSUME NEW j \in 1..(N - L) PROVE Owns(nl, i, n, Sep(i, n, j))'
    OBVIOUS
  <2>1. PICK b : b = MergedK(t)[j + (L + 1)]
    OBVIOUS
  <2>2. b \in Int /\ Owns(low, i, x, b) /\ k < b
    BY <1>3, <1>5, <1>7, <2>1
  <2>3. ASSUME NEW z \in Nat, Node(i, z)', nl[i][z] <= b
        PROVE  nl[i][z] <= k
    <3>1. CASE Node(i, z)
      <4>1. nl[i][z] = low[i][z] /\ Public(i, z) /\ low[i][z] \in Int
        BY <1>2, <3>1, OldBound, NodeType
      <4>2. low[i][z] <= low[i][x]
        BY <2>2, <2>3, <4>1 DEF Owns
      <4> QED
        BY <1>3, <4>1, <4>2
    <3>2. CASE z = n
      BY <1>3, <1>8, <3>2
    <3> QED
      BY <1>2, <2>3, <3>1, <3>2 DEF AddsNode
  <2>4. Owns(nl, i, n, b)'
    BY <1>2, <1>3, <1>8, <2>2, <2>3 DEF Owns, Public
  <2>5. Sep(i, n, j)' = b
    BY <1>4, <2>1
  <2> QED
    BY <2>4, <2>5 DEF Owns
<1>11. \A j \in 1..(N - L) :
         /\ nl[i][n] < Sep(i, n, j)'
         /\ \A m \in 1..(N - L) : j < m => Sep(i, n, j)' < Sep(i, n, m)'
  BY <1>3, <1>4, <1>5, <1>7, <1>8
<1> QED
  BY <1>4, <1>9, <1>10, <1>11 DEF EntryRight

\* What the other threads carry keeps its place.
LEMMA OthersBorn ==
  ASSUME IndInv, ShapeInv, NEW low, TreeOrder(low), NEW i, NEW n,
         AddsNode(i, n), NEW nl, NEW k, Grown(low, nl, i, n, k), NEW o,
         NextNode(low, i, o, k), NEW t \in Thread, OthersStay(t),
         \A u \in Thread : u # t /\ Bears(u) /\ BornAt(u) = i =>
           Node(i, o) /\ low[i][o] < k /\ Origin(u) # o,
         BornBound(nl, t)'
  PROVE  \A u \in Thread : BornBound(nl, u)'
<1> SUFFICES ASSUME NEW u \in Thread, u # t PROVE BornBound(nl, u)'
  OBVIOUS
<1>1. /\ loc'[u] = loc[u] /\ (Bears(u)' <=> Bears(u))
      /\ BornAt(u)' = BornAt(u) /\ Origin(u)' = Origin(u)
  BY OthersBear
<1>2. BornBound(low, u) /\ Distinct(low)
  BY DEF TreeOrder
<1>3. Bears(u) => BornNodes(u)
  BY BornType
<1> QED
  BY <1>1, <1>2, <1>3, AddBorn

LEMMA OrderSplitInode ==
  ASSUME IndInv, ShapeInv, NEW low \in Bounds, TreeOrder(low),
         NEW t \in Thread, SplitInode(t)
  PROVE  \E nl \in Bounds : \E n, k :
           /\ Grown(low, nl, loc[t].lev, n, k) /\ TreeOrder(nl)'
<1>1. TypeOK /\ Linked /\ Distinct(low)
  BY Parts DEF TreeOrder
<1>2. PICK i : i = loc[t].lev
  OBVIOUS
<1>3. PICK x : x = loc[t].path.parray[i]
  OBVIOUS
<1>4. PICK pos : pos = loc[t].path.ppos[i]
  OBVIOUS
<1>5. PICK n : n = ninode[i]
  OBVIOUS
<1>6. PICK k : k = MergedK(t)[LEFT_KEY_NUM + 1]
  OBVIOUS
<1>7. Spot(t, i, x, pos) /\ MergedEntries(t, i, x, pos)
      /\ HalvesWrote(t, i, x, n)
  BY <1>2, <1>3, <1>4, <1>5, HalvesWrites
<1>8. MergedRight(low, t, i, x)
  BY <1>1, <1>7, MergedOrder
<1>9. /\ i \in Level /\ i \in NodeLevel /\ x \in InodeNum /\ x \in Nat
      /\ x < ninode[i] /\ Holds(t, i, x) /\ n \in Nat /\ n \in InodeNum
      /\ n = ninode[i] /\ x # n
      /\ UNCHANGED <<tree_root, nleaf>> /\ ninode'[i] = n + 1
      /\ \A a \in Level : a # i => ninode'[a] = ninode[a]
      /\ \A a \in Level, y \in InodeNum :
           a # i \/ (y # x /\ y # n) => ent'[<<a, y>>] = ent[<<a, y>>]
      /\ Size(i, x) = NON_LEAF_KEY_NUM /\ OthersStay(t)
      /\ loc'[t].ptr = n /\ loc'[t].sep = MergedK(t)[LEFT_KEY_NUM + 1]
      /\ Bears(t)' /\ BornAt(t)' = i /\ Origin(t)' = x
  BY <1>7 DEF Spot, HalvesWrote
<1>10. HalfKey(low, t, i, x, k)
  BY <1>1, <1>6, <1>8, <1>9, HalfKeyIs
<1>11. AddsNode(i, n)
  BY <1>1, <1>9, AddsInode
<1>12. k \in Int /\ low[i][x] < k /\ NextNode(low, i, x, k)
  BY <1>10 DEF HalfKey
<1>13. PICK nl \in Bounds : Grown(low, nl, i, n, k)
  BY <1>9, <1>12, GrownIs
<1>14. Node(i, x)
  <2>1. i # -1
    BY <1>9, Constants DEF Level
  <2> QED
    BY <1>9, <2>1 DEF Node
<1>15. Distinct(nl)'
  BY <1>1, <1>11, <1>12, <1>13, AddDistinct
<1>16. ChildBounds(nl)' /\ SepsOwned(nl)'
  <2> SUFFICES ASSUME NEW j \in Level, NEW y \in InodeNum, y < ninode'[j]
               PROVE  EntryRight(nl, j, y)'
    BY AllEntries
  <2>1. CASE j = i /\ y = x
    BY <1>1, <1>7, <1>8, <1>9, <1>10, <1>11, <1>13, <2>1, SplitLower
  <2>2. CASE j = i /\ y = n
    BY <1>1, <1>6, <1>7, <1>8, <1>9, <1>10, <1>11, <1>13, <2>2, SplitUpper
  <2>3. CASE j # i \/ (y # x /\ y # n)
    <3>1. y < ninode[j]
      <4>1. y \in Nat
        BY Constants DEF InodeNum
      <4>2. CASE j = i
        BY <1>9, <2>3, <4>1, <4>2
      <4>3. CASE j # i
        BY <1>9, <4>3
      <4> QED
        BY <4>2, <4>3
    <3>2. EntryRight(low, j, y)
      BY <3>1, EachEntry DEF TreeOrder
    <3>3. ent'[<<j, y>>] = ent[<<j, y>>]
      BY <1>9, <2>3
    <3>4. j = i => y # x
      BY <2>3
    <3> QED
      BY <1>1, <1>11, <1>12, <1>13, <1>14, <3>1, <3>2, <3>3, <3>4, EntryStays
  <2> QED
    BY <2>1, <2>2, <2>3
<1>17. RootBound(nl)'
  <2>1. /\ tree_root[1] \in Level /\ tree_root[2] \in Nat
        /\ tree_root[2] < ninode[tree_root[1]]
    BY <1>1, Constants DEF TypeOK, SearchTypeOK, Inode, InodeNum, Linked
  <2>2. tree_root[1] # -1 /\ tree_root[1] \in NodeLevel
    BY <2>1, Constants DEF Level, NodeLevel
  <2>3. nl[tree_root[1]][tree_root[2]] = low[tree_root[1]][tree_root[2]]
    BY <1>11, <1>13, <2>1, <2>2, OldBound DEF Node
  <2> QED
    BY <1>9, <2>3 DEF TreeOrder, RootBound
<1>18. BornBound(nl, t)'
  <2>1. nl[i][n] = k /\ nl[i][x] = low[i][x]
    BY <1>9, <1>11, <1>13, <1>14, OldBound DEF Grown
  <2>2. ASSUME NEW y \in Nat, Node(i, y)', nl[i][y] < k
        PROVE  nl[i][y] <= nl[i][x]
    <3>1. y # n
      BY <1>12, <2>1, <2>2
    <3>2. Node(i, y)
      BY <1>11, <2>2, <3>1 DEF AddsNode
    <3>3. nl[i][y] = low[i][y] /\ low[i][y] \in Int
      BY <1>9, <1>11, <1>13, <3>2, OldBound
    <3>4. low[i][y] <= k
      BY <1>12, <2>2, <3>3
    <3> QED
      BY <1>12, <2>1, <3>2, <3>3, <3>4 DEF NextNode
  <2> QED
    BY <1>6, <1>9, <1>12, <2>1, <2>2 DEF BornBound
<1>19. \A u \in Thread : BornBound(nl, u)'
  <2>1. \A u \in Thread : u # t /\ Bears(u) /\ BornAt(u) = i => Origin(u) # x
    BY <1>9, NotOrigin
  <2> QED
    BY <1>9, <1>11, <1>12, <1>13, <1>14, <1>18, <2>1, OthersBorn
<1> QED
  BY <1>2, <1>13, <1>15, <1>16, <1>17, <1>19 DEF TreeOrder

LEMMA OrderGrowRoot ==
  ASSUME IndInv, ShapeInv, NEW low \in Bounds, TreeOrder(low),
         NEW t \in Thread, GrowRoot(t)
  PROVE  \E nl \in Bounds : \E n, k :
           /\ Grown(low, nl, loc[t].lev, n, k) /\ TreeOrder(nl)'
<1>1. TypeOK /\ Linked /\ Distinct(low) /\ BornBound(low, t) /\ RootBound(low)
  BY Parts DEF TreeOrder
<1>2. PICK i : i = loc[t].lev
  OBVIOUS
<1>3. PICK n : n = ninode[i]
  OBVIOUS
<1>4. PICK o : o = Origin(t)
  OBVIOUS
<1>5. RootWrote(t, i, n, o)
  BY <1>2, <1>3, <1>4, RootWrites
<1>6. /\ i \in Level /\ i \in NodeLevel /\ i - 1 \in NodeLevel /\ i \in Nat
      /\ i - 1 \in Level
      /\ n = 0 /\ ninode[i] = 0 /\ ninode'[i] = 1 /\ n \in InodeNum
      /\ \A a \in Level : a # i => ninode'[a] = ninode[a]
      /\ nleaf' = nleaf /\ tree_root = <<i - 1, o>> /\ o \in InodeNum
      /\ o < ninode[i - 1]
      /\ Bears(t) /\ BornAt(t) = i - 1 /\ Origin(t) = o
      /\ Node(i - 1, loc[t].ptr) /\ loc[t].sep \in Int
      /\ Size(i, n)' = 1 /\ Sep(i, n, 1)' = loc[t].sep
      /\ Kid(i, n, 1)' = o /\ Kid(i, n, 2)' = loc[t].ptr
      /\ \A a \in Level, y \in InodeNum :
           a # i \/ y # n => ent'[<<a, y>>] = ent[<<a, y>>]
      /\ OthersStay(t) /\ ~Bears(t)'
      /\ tree_root' = tree_root \/ tree_root' = <<i, n>>
  BY <1>5 DEF RootWrote
<1>7. o \in Nat /\ i # -1 /\ i - 1 # -1 /\ n + 1 = 1 /\ n \in Nat
  BY <1>6, Constants DEF InodeNum, Level
<1>8. Node(i - 1, o)
  BY <1>6, <1>7 DEF Node
<1>9. PICK k : k = low[i - 1][o]
  OBVIOUS
<1>10. k \in Int
  BY <1>6, <1>7, <1>9, BoundType
<1>11. AddsNode(i, n)
  BY <1>1, <1>3, <1>6, <1>7, AddsInode
<1>12. PICK nl \in Bounds : Grown(low, nl, i, n, k)
  BY <1>6, <1>7, <1>10, GrownIs
<1>13. \A y \in Nat : ~Node(i, y)
  BY <1>6, <1>7 DEF Node
<1>14. NextNode(low, i, 0, k)
  BY <1>13 DEF NextNode
<1>15. Distinct(nl)'
  BY <1>1, <1>11, <1>12, <1>14, AddDistinct
<1>16. /\ nl[i][n] = k /\ nl[i - 1][o] = k
       /\ nl[i - 1][loc[t].ptr] = loc[t].sep /\ k < loc[t].sep
  <2>1. low[i - 1][loc[t].ptr] = loc[t].sep /\ low[i - 1][o] < loc[t].sep
    BY <1>1, <1>6 DEF BornBound
  <2>2. /\ nl[i - 1][o] = low[i - 1][o]
        /\ nl[i - 1][loc[t].ptr] = low[i - 1][loc[t].ptr]
    BY <1>6, <1>8, <1>11, <1>12, OldBound
  <2> QED
    BY <1>9, <1>12, <2>1, <2>2 DEF Grown
<1>17. EntryRight(nl, i, n)'
  <2>1. \A j \in 1..2 : j = 1 \/ j = 2
    OBVIOUS
  <2>2. \A j \in 1..(1 + 1) :
          nl[i - 1][Kid(i, n, j)'] = IF j = 1 THEN nl[i][n] ELSE Sep(i, n, j - 1)'
    BY <1>6, <1>16, <2>1
  <2>3. Owns(nl, i, n, Sep(i, n, 1))'
    <3>1. \A z \in Nat : Public(i, z)' => z = n
      BY <1>6, <1>11, <1>13 DEF AddsNode, Public
    <3>2. nl[i][n] <= loc[t].sep
      BY <1>6, <1>10, <1>16
    <3> QED
      BY <1>6, <1>10, <1>16, <3>1, <3>2 DEF Owns
  <2>4. \A j \in 1..1 : j = 1
    OBVIOUS
  <2>5. \A j \in 1..1 : Owns(nl, i, n, Sep(i, n, j))'
    BY <2>3, <2>4
  <2>6. \A j \in 1..1 : nl[i][n] < Sep(i, n, j)'
    BY <1>6, <1>16, <2>4
  <2>7. \A j, m \in 1..1 : ~(j < m)
    OBVIOUS
  <2> QED
    BY <1>6, <2>2, <2>5, <2>6, <2>7 DEF EntryRight
<1>18. ChildBounds(nl)' /\ SepsOwned(nl)'
  <2> SUFFICES ASSUME NEW j \in Level, NEW y \in InodeNum, y < ninode'[j]
               PROVE  EntryRight(nl, j, y)'
    BY AllEntries
  <2>1. CASE j = i
    <3>1. y \in Nat
      BY Constants DEF InodeNum
    <3>2. y = n
      BY <1>6, <2>1, <3>1
    <3> QED
      BY <1>17, <2>1, <3>2
  <2>2. CASE j # i
    <3>1. y < ninode[j] /\ ent'[<<j, y>>] = ent[<<j, y>>]
      BY <1>6, <2>2
    <3>2. EntryRight(low, j, y)
      BY <3>1, EachEntry DEF TreeOrder
    <3> QED
      BY <1>1, <1>11, <1>12, <1>14, <2>2, <3>1, <3>2, EntryStays
  <2> QED
    BY <2>1, <2>2
<1>19. RootBound(nl)'
  <2>1. \A key \in Key : k < key
    BY <1>1, <1>6, <1>9 DEF RootBound
  <2>2. nl[tree_root'[1]][tree_root'[2]] = k
    BY <1>6, <1>16
  <2> QED
    BY <2>1, <2>2 DEF RootBound
<1>20. BornBound(nl, t)'
  BY <1>6 DEF BornBound
<1>21. \A u \in Thread : BornBound(nl, u)'
  <2>1. ASSUME NEW u \in Thread, Bears(u), BornAt(u) = i PROVE FALSE
    <3>1. BornNodes(u)
      BY <2>1, BornType
    <3> QED
      BY <1>13, <2>1, <3>1 DEF BornNodes
  <2> QED
    BY <1>6, <1>11, <1>12, <1>14, <1>20, <2>1, OthersBorn
<1> QED
  BY <1>2, <1>12, <1>15, <1>18, <1>19, <1>21 DEF TreeOrder

LEMMA OrderSecondStore ==
  ASSUME IndInv, ShapeInv, NEW low \in Bounds, TreeOrder(low),
         NEW t \in Thread, GrowSecondStore(t)
  PROVE  TreeOrder(low)'
<1>1. TypeOK /\ Linked /\ SecondWrote(t) /\ RootMade(t)
  BY Parts, SecondWrites DEF ShapeInv
<1>2. /\ UNCHANGED <<ent, ninode, nleaf>> /\ OthersStay(t)
      /\ ~Bears(t) /\ ~Bears(t)'
  BY <1>1 DEF SecondWrote
<1>3. \A i, x : /\ (Node(i, x)' <=> Node(i, x))
                /\ Size(i, x)' = Size(i, x)
                /\ \A j : /\ Sep(i, x, j)' = Sep(i, x, j)
                          /\ Kid(i, x, j)' = Kid(i, x, j)
  BY <1>2 DEF Node, Size, num, Sep, Kid
<1>4. Distinct(low)'
  BY <1>3 DEF TreeOrder, Distinct
<1>5. ChildBounds(low)'
  BY <1>2, <1>3 DEF TreeOrder, ChildBounds
<1>6. SepsOwned(low)'
  <2>1. \A i \in Level : \A x, k : Owns(low, i, x, k)' <=> Owns(low, i, x, k)
    <3>1. \A i \in Level : i # -1
      BY Constants DEF Level
    <3> QED
      BY <1>3, <3>1 DEF Owns, Public
  <2> QED
    BY <1>2, <1>3, <2>1 DEF TreeOrder, SepsOwned
<1>7. RootBound(low)'
  <2>1. CASE pc[t] = "growlevel"
    BY <1>1, <2>1 DEF SecondWrote, TreeOrder, RootBound
  <2>2. CASE pc[t] = "growroot"
    <3>1. PICK i : i = loc[t].lev
      OBVIOUS
    <3>2. PICK n : n = loc[t].ptr
      OBVIOUS
    <3>3. PICK o : o = loc[t].old_root
      OBVIOUS
    <3>4. tree_root = <<i - 1, o>> /\ tree_root' = <<i, n>>
      BY <1>1, <2>2, <3>1, <3>2, <3>3 DEF SecondWrote
    <3>5. i \in Level /\ ChildAt(i, n, 1, o)
      BY <1>1, <2>2, <3>1, <3>2, <3>3 DEF RootMade
    <3>6. n \in InodeNum
      BY <1>1, <2>2, <3>2, LocalFields DEF PtrTypeOK
    <3>7. low[i - 1][o] = low[i][n]
      BY <1>1, <3>5, <3>6, Place DEF TreeOrder
    <3> QED
      BY <3>4, <3>7 DEF TreeOrder, RootBound
  <2> QED
    BY <1>1, <2>1, <2>2 DEF SecondWrote
<1>8. \A u \in Thread : BornBound(low, u)'
  <2> SUFFICES ASSUME NEW u \in Thread, u # t PROVE BornBound(low, u)'
    BY <1>2 DEF BornBound
  <2>1. /\ loc'[u] = loc[u] /\ (Bears(u)' <=> Bears(u))
        /\ BornAt(u)' = BornAt(u) /\ Origin(u)' = Origin(u)
    BY <1>2, OthersBear
  <2>2. BornBound(low, u)
    BY DEF TreeOrder
  <2> QED
    BY <1>3, <2>1, <2>2 DEF BornBound
<1> QED
  BY <1>4, <1>5, <1>6, <1>7, <1>8 DEF TreeOrder

\* A leaf that is split owns its split key, and starts below it.
LEMMA SplitKeyOwned ==
  ASSUME IndInv, NEW low \in Bounds, KeysOwned(low), NEW l \in LnodeId,
         l < nleaf, isFull(l), NEW sk \in meta[l].bitmap,
         IsSplitKey(sk, meta[l].bitmap)
  PROVE  /\ sk \in Int /\ low[-1][l] \in Int /\ Owns(low, -1, l, sk)
         /\ low[-1][l] < sk
<1>1. TypeOK
  BY DEF IndInv
<1>2. /\ meta[l].bitmap \subseteq Key /\ Key \subseteq Int /\ l \in Nat
      /\ -1 \in NodeLevel
  BY <1>1, LeafNumbers, Constants DEF TypeOK, LeafTypeOK, LnodeMeta, NodeLevel
<1>3. PICK b \in meta[l].bitmap : b < sk
  <2>1. SPLIT \in Nat /\ SPLIT # 0
    BY ConstantsOK DEF SPLIT
  <2>2. Cardinality({y \in meta[l].bitmap : y < sk}) = SPLIT
    BY DEF IsSplitKey
  <2>3. {y \in meta[l].bitmap : y < sk} # {}
    BY <2>1, <2>2, FS_EmptySet
  <2> QED
    BY <2>3
<1>4. Owns(low, -1, l, sk) /\ Owns(low, -1, l, b)
  BY DEF KeysOwned
<1>5. low[-1][l] \in Int
  BY <1>2, BoundType
<1>6. low[-1][l] <= b
  BY <1>4 DEF Owns
<1>7. b \in Int /\ sk \in Int
  BY <1>2
<1>8. low[-1][l] < sk
  BY <1>3, <1>5, <1>6, <1>7
<1> QED
  BY <1>4, <1>5, <1>7, <1>8

LEMMA OrderSplitBuild ==
  ASSUME IndInv, ShapeInv, NEW low \in Bounds, TreeOrder(low), KeysOwned(low),
         NEW t \in Thread, NEW l, NEW sk, BuildWrote(t, nleaf, l, sk)
  PROVE  \E nl \in Bounds :
           /\ Grown(low, nl, -1, nleaf, sk) /\ TreeOrder(nl)'
<1>1. TypeOK /\ Linked /\ Distinct(low) /\ LeafAlone /\ LeafLockOwner
      /\ LeafKnown(t)
  BY Parts DEF TreeOrder, IndInv, LeafInv
<1>2. PICK n : n = nleaf
  OBVIOUS
<1>3. /\ UNCHANGED <<tree_root, root_level, ent, ninode>> /\ OthersStay(t)
      /\ n \in Nat /\ nleaf' = n + 1 /\ pc[t] = "build" /\ HoldsLeaf(t)
      /\ l = loc[t].lp /\ l \in LnodeId /\ l \in Nat /\ l < nleaf
      /\ sk \in meta[l].bitmap /\ IsSplitKey(sk, meta[l].bitmap)
      /\ loc'[t].sep = sk /\ loc'[t].ptr = n
      /\ Bears(t)' /\ BornAt(t)' = -1 /\ Origin(t)' = l
  BY <1>2 DEF BuildWrote
<1>4. isFull(l)
  BY <1>1, <1>3 DEF LeafKnown
<1>5. /\ sk \in Int /\ low[-1][l] \in Int /\ Owns(low, -1, l, sk)
      /\ low[-1][l] < sk
  BY <1>3, <1>4, SplitKeyOwned
<1>6. -1 \in NodeLevel /\ Node(-1, l) /\ AddsNode(-1, n)
  BY <1>1, <1>2, <1>3, AddsLeaf, Constants DEF NodeLevel, Node
<1>7. \A u \in Thread : u # t /\ Carries(u) => loc[u].lp # l
  BY <1>1, <1>3 DEF LeafAlone, Uses
<1>8. ASSUME NEW y \in Nat, Node(-1, y), low[-1][y] <= sk
      PROVE  low[-1][y] <= low[-1][l]
  <2>1. CASE Public(-1, y)
    BY <1>5, <1>8, <2>1 DEF Owns
  <2>2. CASE ~Public(-1, y)
    <3>1. PICK u \in Thread : pc[u] = "publish" /\ loc[u].ptr = y
      BY <1>8, <2>2 DEF Public, Private
    <3>2. Carries(u) /\ Bears(u) /\ BornAt(u) = -1 /\ Origin(u) = loc[u].lp
          /\ u # t
      BY <1>3, <3>1 DEF Carries, Bears, BornAt, Origin
    <3>3. PICK q : q = loc[u].lp
      OBVIOUS
    <3>4. Node(-1, q) /\ q \in Nat /\ loc[u].sep \in Int
      BY <3>2, <3>3, BornType DEF BornNodes
    <3>5. /\ low[-1][y] = loc[u].sep /\ low[-1][q] < loc[u].sep
          /\ low[-1][l] < loc[u].sep => low[-1][l] <= low[-1][q]
      BY <1>3, <1>6, <3>1, <3>2, <3>3 DEF TreeOrder, BornBound
    <3>6. low[-1][q] \in Int
      BY <1>6, <3>4, BoundType
    <3>7. Public(-1, q)
      <4>1. ASSUME NEW v \in Thread, pc[v] = "publish", loc[v].ptr = q
            PROVE  FALSE
        <5>1. Carries(v) /\ Uses(u)
          BY <3>2, <4>1 DEF Carries, Uses
        <5> QED
          BY <1>1, <3>3, <4>1, <5>1 DEF LeafAlone
      <4> QED
        BY <3>4, <4>1 DEF Public, Private
    <3> SUFFICES ASSUME low[-1][l] < loc[u].sep PROVE FALSE
      BY <1>5, <3>4, <3>5
    <3>8. low[-1][q] <= sk
      BY <1>5, <1>8, <3>4, <3>5, <3>6
    <3>9. low[-1][q] <= low[-1][l]
      BY <1>5, <3>4, <3>7, <3>8 DEF Owns
    <3>10. low[-1][l] = low[-1][q]
      BY <1>5, <3>5, <3>6, <3>9
    <3>11. q = l
      BY <1>1, <1>3, <1>6, <3>4, <3>10 DEF Distinct
    <3> QED
      BY <1>7, <3>2, <3>3, <3>11
  <2> QED
    BY <2>1, <2>2
<1>9. NextNode(low, -1, l, sk)
  <2> SUFFICES ASSUME NEW y \in Nat, Node(-1, y), low[-1][y] <= sk
               PROVE  low[-1][y] < sk /\ low[-1][y] <= low[-1][l]
    BY <1>3 DEF NextNode
  <2>1. low[-1][y] <= low[-1][l]
    BY <1>8
  <2>2. low[-1][y] \in Int
    BY <1>6, BoundType
  <2> QED
    BY <1>5, <2>1, <2>2
<1>10. PICK nl \in Bounds : Grown(low, nl, -1, n, sk)
  BY <1>3, <1>5, <1>6, GrownIs
<1>11. Distinct(nl)'
  BY <1>1, <1>6, <1>9, <1>10, AddDistinct
<1>12. ChildBounds(nl)' /\ SepsOwned(nl)'
  <2> SUFFICES ASSUME NEW j \in Level, NEW y \in InodeNum, y < ninode'[j]
               PROVE  EntryRight(nl, j, y)'
    BY AllEntries
  <2>1. EntryRight(low, j, y)
    BY <1>3, EachEntry DEF TreeOrder
  <2>2. j # -1
    BY Constants DEF Level
  <2> QED
    BY <1>1, <1>3, <1>6, <1>9, <1>10, <2>1, <2>2, EntryStays
<1>13. RootBound(nl)'
  <2>1. /\ tree_root[1] \in Level /\ tree_root[2] \in Nat
        /\ tree_root[2] < ninode[tree_root[1]]
    BY <1>1, Constants DEF TypeOK, SearchTypeOK, Inode, InodeNum, Linked
  <2>2. tree_root[1] # -1 /\ tree_root[1] \in NodeLevel
    BY <2>1, Constants DEF Level, NodeLevel
  <2>3. nl[tree_root[1]][tree_root[2]] = low[tree_root[1]][tree_root[2]]
    BY <1>6, <1>10, <2>1, <2>2, OldBound DEF Node
  <2> QED
    BY <1>3, <2>3 DEF TreeOrder, RootBound
<1>14. BornBound(nl, t)'
  <2>1. nl[-1][n] = sk /\ nl[-1][l] = low[-1][l]
    BY <1>6, <1>10, OldBound DEF Grown
  <2>2. ASSUME NEW y \in Nat, Node(-1, y)', nl[-1][y] < sk
        PROVE  nl[-1][y] <= nl[-1][l]
    <3>1. y # n
      BY <1>5, <2>1, <2>2
    <3>2. Node(-1, y)
      BY <1>6, <2>2, <3>1 DEF AddsNode
    <3>3. nl[-1][y] = low[-1][y] /\ low[-1][y] \in Int
      BY <1>6, <1>10, <3>2, OldBound
    <3>4. low[-1][y] <= sk
      BY <1>5, <2>2, <3>3
    <3> QED
      BY <1>8, <2>1, <3>2, <3>3, <3>4
  <2> QED
    BY <1>3, <1>5, <2>1, <2>2 DEF BornBound
<1>15. \A u \in Thread : BornBound(nl, u)'
  <2>1. ASSUME NEW u \in Thread, u # t, Bears(u), BornAt(u) = -1
        PROVE  Origin(u) # l
    <3>1. Origin(u) = loc[u].lp
      BY <2>1 DEF Origin
    <3>2. Carries(u)
      <4>1. loc[u].lev \in Nat /\ PtrTypeOK(u)
        BY <1>1, LocalFields
      <4> QED
        BY <2>1, <4>1 DEF Bears, BornAt, Carries, PtrTypeOK
    <3> QED
      BY <1>7, <2>1, <3>1, <3>2
  <2> QED
    BY <1>3, <1>5, <1>6, <1>9, <1>10, <1>14, <2>1, OthersBorn
<1> QED
  BY <1>2, <1>10, <1>11, <1>12, <1>13, <1>15 DEF TreeOrder

-----------------------------------------------------------------------------
(* The shape of the search layer.                                          *)

\* c is a child of inode x of level i.
HasKid(i, x, c) == \E j \in 1..(Size(i, x) + 1) : Kid(i, x, j) = c

LEMMA ChildIsKid ==
  ASSUME TypeOK, Linked, NEW i \in Level, NEW c
  PROVE  IsChild(i, c) <=> \E y \in InodeNum : y < ninode[i] /\ HasKid(i, y, c)
<1>1. ASSUME NEW y \in InodeNum, NEW j, ChildAt(i, y, j, c)
      PROVE  y < ninode[i] /\ HasKid(i, y, c) /\ j \in ChildPlace
  <2>1. j \in 1..(Size(i, y) + 1) /\ y < ninode[i] /\ Kid(i, y, j) = c
    BY <1>1 DEF ChildAt
  <2>2. j \in ChildPlace
    BY <2>1, Entries
  <2> QED
    BY <2>1, <2>2 DEF HasKid
<1>2. ASSUME NEW y \in InodeNum, y < ninode[i], HasKid(i, y, c)
      PROVE  IsChild(i, c)
  <2>1. PICK j \in 1..(Size(i, y) + 1) : Kid(i, y, j) = c
    BY <1>2 DEF HasKid
  <2>2. ChildAt(i, y, j, c)
    BY <1>2, <2>1 DEF ChildAt
  <2>3. j \in ChildPlace
    BY <1>1, <2>2
  <2> QED
    BY <2>2, <2>3 DEF IsChild
<1> QED
  BY <1>1, <1>2 DEF IsChild

LEMMA ChildIsKidNext ==
  ASSUME TypeOK', NEW i \in Level, NEW c
  PROVE  IsChild(i, c)'
           <=> \E y \in InodeNum : y < ninode'[i] /\ HasKid(i, y, c)'
<1>1. ASSUME NEW y \in InodeNum, NEW j \in 1..(Size(i, y)' + 1)
      PROVE  j \in ChildPlace
  <2>1. <<i, y>> \in Inode
    BY DEF Inode
  <2>2. /\ ent'[<<i, y>>].k \in Seq(Key) /\ Size(i, y)' = Len(ent'[<<i, y>>].k)
        /\ Size(i, y)' <= NON_LEAF_KEY_NUM
    BY <2>1 DEF TypeOK, SearchTypeOK, Size, num
  <2>3. Size(i, y)' \in Nat
    BY <2>2, LenProperties
  <2>4. NON_LEAF_KEY_NUM \in Nat
    BY Constants
  <2> QED
    BY <2>2, <2>3, <2>4 DEF ChildPlace
<1>2. \A y, j : ChildAt(i, y, j, c)' <=> /\ y < ninode'[i]
                                        /\ j \in 1..(Size(i, y)' + 1)
                                        /\ Kid(i, y, j)' = c
  BY DEF ChildAt
<1> QED
  BY <1>1, <1>2 DEF IsChild, HasKid

\* Merging adds t's node to the children of the inode.
LEMMA MergedKids ==
  ASSUME NEW t \in Thread, NEW i, NEW x, NEW pos, Spot(t, i, x, pos),
         MergedEntries(t, i, x, pos), NEW c
  PROVE  (\E j \in 1..(Size(i, x) + 2) : MergedCh(t)[j] = c)
           <=> HasKid(i, x, c) \/ c = loc[t].ptr
<1>1. Size(i, x) \in Nat /\ pos \in Nat /\ pos <= Size(i, x)
  BY DEF Spot
<1>2. \A j \in 1..(Size(i, x) + 2) : MergedCh(t)[j] = MergedKid(t, i, x, pos, j)
  BY DEF MergedEntries
<1>3. ASSUME NEW j \in 1..(Size(i, x) + 2), MergedCh(t)[j] = c
      PROVE  HasKid(i, x, c) \/ c = loc[t].ptr
  <2>1. CASE j < pos + 2
    <3>1. j \in 1..(Size(i, x) + 1)
      BY <1>1, <2>1
    <3>2. Kid(i, x, j) = c
      BY <1>2, <1>3, <2>1 DEF MergedKid
    <3> QED
      BY <3>1, <3>2 DEF HasKid
  <2>2. CASE j = pos + 2
    <3>1. ~(j < pos + 2)
      BY <1>1, <2>2
    <3> QED
      BY <1>2, <1>3, <2>2, <3>1 DEF MergedKid
  <2>3. CASE j > pos + 2
    <3>1. j - 1 \in 1..(Size(i, x) + 1) /\ ~(j < pos + 2) /\ j # pos + 2
      BY <1>1, <2>3
    <3>2. Kid(i, x, j - 1) = c
      BY <1>2, <1>3, <3>1 DEF MergedKid
    <3> QED
      BY <3>1, <3>2 DEF HasKid
  <2> QED
    BY <1>1, <2>1, <2>2, <2>3
<1>4. ASSUME HasKid(i, x, c)
      PROVE  \E j \in 1..(Size(i, x) + 2) : MergedCh(t)[j] = c
  <2>1. PICK j \in 1..(Size(i, x) + 1) : Kid(i, x, j) = c
    BY <1>4 DEF HasKid
  <2>2. CASE j < pos + 2
    <3>1. j \in 1..(Size(i, x) + 2)
      BY <1>1
    <3>2. MergedCh(t)[j] = c
      BY <1>2, <2>1, <2>2, <3>1 DEF MergedKid
    <3> QED
      BY <3>1, <3>2
  <2>3. CASE ~(j < pos + 2)
    <3>1. /\ j + 1 \in 1..(Size(i, x) + 2) /\ (j + 1) - 1 = j
          /\ ~(j + 1 < pos + 2) /\ j + 1 # pos + 2
      BY <1>1, <2>3
    <3>2. MergedCh(t)[j + 1] = c
      BY <1>2, <2>1, <3>1 DEF MergedKid
    <3> QED
      BY <3>1, <3>2
  <2> QED
    BY <2>2, <2>3
<1>5. ASSUME c = loc[t].ptr
      PROVE  \E j \in 1..(Size(i, x) + 2) : MergedCh(t)[j] = c
  <2>1. pos + 2 \in 1..(Size(i, x) + 2) /\ ~(pos + 2 < pos + 2)
    BY <1>1
  <2>2. MergedCh(t)[pos + 2] = c
    BY <1>2, <1>5, <2>1 DEF MergedKid
  <2> QED
    BY <2>1, <2>2
<1> QED
  BY <1>3, <1>4, <1>5

\* The step makes p, and nothing else, a child at level i.
Adopts(i, p) ==
  \A a \in Level : \A c : IsChild(a, c)' <=> IsChild(a, c) \/ (a = i /\ c = p)

LEMMA InsertAdopts ==
  ASSUME TypeOK, Linked, TypeOK', Linked', NEW t \in Thread, NEW i, NEW x,
         NEW pos, Spot(t, i, x, pos), MergedEntries(t, i, x, pos),
         InsertWrote(t, i, x)
  PROVE  Adopts(i, loc[t].ptr)
<1>1. /\ i \in Level /\ x \in InodeNum /\ x < ninode[i] /\ ninode' = ninode
      /\ Size(i, x) \in Nat
      /\ \A a \in Level, y \in InodeNum :
           a # i \/ y # x => ent'[<<a, y>>] = ent[<<a, y>>]
  BY DEF Spot, InsertWrote
<1>2. \A a \in Level, y \in InodeNum : \A c :
        a # i \/ y # x => (HasKid(a, y, c)' <=> HasKid(a, y, c))
  BY <1>1 DEF HasKid, Size, num, Kid
<1>3. \A c : HasKid(i, x, c)' <=> HasKid(i, x, c) \/ c = loc[t].ptr
  <2>1. /\ Size(i, x)' = Size(i, x) + 1
        /\ \A j \in 1..((Size(i, x) + 1) + 1) : Kid(i, x, j)' = MergedCh(t)[j + 0]
    BY DEF InsertWrote, Entered
  <2>2. /\ (Size(i, x) + 1) + 1 = Size(i, x) + 2
        /\ \A j \in 1..(Size(i, x) + 2) : j + 0 = j
    BY <1>1
  <2>3. \A c : HasKid(i, x, c)'
                 <=> \E j \in 1..(Size(i, x) + 2) : MergedCh(t)[j] = c
    BY <2>1, <2>2 DEF HasKid
  <2> QED
    BY <2>3, MergedKids
<1> SUFFICES ASSUME NEW a \in Level, NEW c
             PROVE  IsChild(a, c)' <=> IsChild(a, c) \/ (a = i /\ c = loc[t].ptr)
  BY DEF Adopts
<1>4. /\ IsChild(a, c) <=>
           \E y \in InodeNum : y < ninode[a] /\ HasKid(a, y, c)
      /\ IsChild(a, c)' <=>
           \E y \in InodeNum : y < ninode'[a] /\ HasKid(a, y, c)'
  BY ChildIsKid, ChildIsKidNext
<1> QED
  BY <1>1, <1>2, <1>3, <1>4

LEMMA SplitAdopts ==
  ASSUME TypeOK, Linked, TypeOK', Linked', NEW t \in Thread, NEW i, NEW x,
         NEW pos, Spot(t, i, x, pos), MergedEntries(t, i, x, pos),
         NEW n, HalvesWrote(t, i, x, n)
  PROVE  Adopts(i, loc[t].ptr)
<1> DEFINE L == LEFT_KEY_NUM
           N == NON_LEAF_KEY_NUM
<1>1. /\ i \in Level /\ x \in InodeNum /\ x < ninode[i] /\ n = ninode[i]
      /\ ninode'[i] = n + 1 /\ n \in InodeNum /\ n \in Nat /\ x # n
      /\ \A a \in Level : a # i => ninode'[a] = ninode[a]
      /\ Size(i, x) = N
      /\ \A a \in Level, y \in InodeNum :
           a # i \/ (y # x /\ y # n) => ent'[<<a, y>>] = ent[<<a, y>>]
      /\ Size(i, x)' = L /\ Size(i, n)' = N - L
      /\ \A j \in 1..(L + 1) : Kid(i, x, j)' = MergedCh(t)[j + 0]
      /\ \A j \in 1..((N - L) + 1) : Kid(i, n, j)' = MergedCh(t)[j + (L + 1)]
  BY DEF Spot, HalvesWrote, Entered
<1>2. L \in Nat /\ L >= 1 /\ N \in Nat /\ L < N
  BY Constants
<1> HIDE DEF L, N
<1>3. \A a \in Level, y \in InodeNum : \A c :
        a # i \/ (y # x /\ y # n) => (HasKid(a, y, c)' <=> HasKid(a, y, c))
  BY <1>1 DEF HasKid, Size, num, Kid
<1>4. \A c : HasKid(i, x, c)' \/ HasKid(i, n, c)'
               <=> HasKid(i, x, c) \/ c = loc[t].ptr
  <2> SUFFICES ASSUME NEW c
               PROVE  HasKid(i, x, c)' \/ HasKid(i, n, c)'
                        <=> HasKid(i, x, c) \/ c = loc[t].ptr
    OBVIOUS
  <2>1. /\ \A j \in 1..(L + 1) : j + 0 = j /\ j \in 1..(N + 2)
        /\ \A j \in 1..((N - L) + 1) : j + (L + 1) \in 1..(N + 2)
        /\ \A j \in 1..(N + 2) :
             \/ j \in 1..(L + 1)
             \/ /\ j - (L + 1) \in 1..((N - L) + 1)
                /\ (j - (L + 1)) + (L + 1) = j
    BY <1>2
  <2>2. /\ HasKid(i, x, c)' <=> \E j \in 1..(L + 1) : MergedCh(t)[j] = c
        /\ HasKid(i, n, c)' <=>
             \E j \in 1..((N - L) + 1) : MergedCh(t)[j + (L + 1)] = c
    BY <1>1, <2>1 DEF HasKid
  <2>3. HasKid(i, x, c)' \/ HasKid(i, n, c)'
          <=> \E j \in 1..(N + 2) : MergedCh(t)[j] = c
    <3>1. ASSUME NEW j \in 1..(N + 2), MergedCh(t)[j] = c
          PROVE  HasKid(i, x, c)' \/ HasKid(i, n, c)'
      <4>1. CASE j \in 1..(L + 1)
        BY <2>2, <3>1, <4>1
      <4>2. CASE ~(j \in 1..(L + 1))
        <5>1. PICK m : m = j - (L + 1)
          OBVIOUS
        <5>2. m \in 1..((N - L) + 1) /\ m + (L + 1) = j
          BY <2>1, <4>2, <5>1
        <5> QED
          BY <2>2, <3>1, <5>2
      <4> QED
        BY <4>1, <4>2
    <3>2. ASSUME HasKid(i, x, c)' \/ HasKid(i, n, c)'
          PROVE  \E j \in 1..(N + 2) : MergedCh(t)[j] = c
      BY <2>1, <2>2, <3>2
    <3> QED
      BY <3>1, <3>2
  <2>4. (\E j \in 1..(N + 2) : MergedCh(t)[j] = c)
          <=> HasKid(i, x, c) \/ c = loc[t].ptr
    <3>1. (\E j \in 1..(Size(i, x) + 2) : MergedCh(t)[j] = c)
            <=> HasKid(i, x, c) \/ c = loc[t].ptr
      BY MergedKids
    <3> QED
      BY <1>1, <3>1
  <2> QED
    BY <2>3, <2>4
<1> SUFFICES ASSUME NEW a \in Level, NEW c
             PROVE  IsChild(a, c)' <=> IsChild(a, c) \/ (a = i /\ c = loc[t].ptr)
  BY DEF Adopts
<1>5. /\ IsChild(a, c) <=>
           \E y \in InodeNum : y < ninode[a] /\ HasKid(a, y, c)
      /\ IsChild(a, c)' <=>
           \E y \in InodeNum : y < ninode'[a] /\ HasKid(a, y, c)'
  BY ChildIsKid, ChildIsKidNext
<1>6. CASE a # i
  BY <1>1, <1>3, <1>5, <1>6
<1>7. CASE a = i
  <2>1. \A y \in InodeNum : y < ninode'[i] <=> y < ninode[i] \/ y = n
    <3>1. \A y \in InodeNum : y \in Nat
      BY Constants DEF InodeNum
    <3>2. \A y \in Nat : y < n + 1 <=> y < n \/ y = n
      BY <1>1
    <3> QED
      BY <1>1, <3>1, <3>2
  <2>2. n < n + 1 /\ x < n + 1 /\ ~(n < n)
    <3>1. x \in Nat
      BY <1>1, Constants DEF InodeNum
    <3> QED
      BY <1>1, <3>1
  <2>3. ASSUME IsChild(i, c)' PROVE IsChild(i, c) \/ c = loc[t].ptr
    <3>1. PICK y \in InodeNum : y < ninode'[i] /\ HasKid(i, y, c)'
      BY <1>5, <1>7, <2>3
    <3>2. CASE y = x \/ y = n
      BY <1>1, <1>4, <1>5, <1>7, <3>1, <3>2
    <3>3. CASE y # x /\ y # n
      BY <1>3, <1>1, <1>5, <1>7, <2>1, <3>1, <3>3
    <3> QED
      BY <3>2, <3>3
  <2>4. ASSUME HasKid(i, x, c) \/ c = loc[t].ptr PROVE IsChild(i, c)'
    BY <1>1, <1>4, <1>5, <1>7, <2>2, <2>4
  <2>5. ASSUME IsChild(i, c) PROVE IsChild(i, c)'
    <3>1. PICK y \in InodeNum : y < ninode[i] /\ HasKid(i, y, c)
      BY <1>5, <1>7, <2>5
    <3>2. CASE y = x
      BY <2>4, <3>1, <3>2
    <3>3. CASE y # x
      <4>1. y # n /\ y < ninode'[i]
        BY <1>1, <2>1, <2>2, <3>1
      <4> QED
        BY <1>1, <1>3, <1>5, <1>7, <3>1, <3>3, <4>1
    <3> QED
      BY <3>2, <3>3
  <2> QED
    BY <1>7, <2>3, <2>4, <2>5
<1> QED
  BY <1>6, <1>7

\* A step in which t's node gets its parent, and t has at most a new inode in
\* hand, keeps the shape.
LEMMA ShapeAdopts ==
  ASSUME IndInv, ShapeInv, TypeOK', NEW t \in Thread, OthersStay(t), NEW i, NEW x,
         NEW pos, Spot(t, i, x, pos), Adopts(i, loc[t].ptr),
         UNCHANGED <<tree_root, root_level>>,
         \A a \in Level : a # i => ninode'[a] = ninode[a],
         ninode[i] <= ninode'[i],
         \A y \in InodeNum : y < ninode'[i] =>
           \/ y < ninode[i]
           \/ y = ninode[i] /\ Bears(t)',
         Bears(t)' => BornAt(t)' = i /\ loc'[t].ptr = ninode[i],
         pc[t] # "growroot", pc'[t] # "growroot",
         \A a \in Level, y \in InodeNum :
           a # i \/ (y # x /\ y # ninode[i]) => ent'[<<a, y>>] = ent[<<a, y>>]
  PROVE  TreeShape'
<1>1. /\ TypeOK /\ Linked /\ CarriedApart /\ InodesRooted /\ TopEmpty
      /\ InodeLocks
  BY Parts
<1>2. /\ i \in Level /\ i \in Nat /\ x \in InodeNum /\ Holds(t, i, x)
      /\ Bears(t) /\ BornAt(t) = i - 1 /\ (i - 1) + 1 = i
      /\ x < ninode[i]
  BY DEF Spot
<1>3. \A u \in Thread : u # t =>
        /\ pc'[u] = pc[u] /\ loc'[u] = loc[u]
        /\ Bears(u)' <=> Bears(u)
        /\ BornAt(u)' = BornAt(u)
  BY OthersBear
<1>4. \A u \in Thread : Bears(u) /\ BornAt(u) = i => loc[u].ptr < ninode[i]
  <2> SUFFICES ASSUME NEW u \in Thread, Bears(u), BornAt(u) = i
               PROVE  loc[u].ptr < ninode[i]
    OBVIOUS
  <2>1. BornNodes(u)
    BY BornType
  <2>2. i # -1
    BY <1>2
  <2> QED
    BY <2>1, <2>2 DEF BornNodes, Node
<1>5. ninode[i] \in Nat
  BY <1>1, <1>2, Constants DEF TypeOK, SearchTypeOK
<1>6. CarriedApart'
  <2>1. ASSUME NEW u \in Thread, Bears(u)', NEW b, b = BornAt(u)', b >= 0,
               NEW c, c = loc'[u].ptr
        PROVE  /\ tree_root' # <<b, c>>
               /\ b + 1 \in Level => ~IsChild(b + 1, c)'
    <3>1. CASE u # t
      <4>1. Bears(u) /\ b = BornAt(u) /\ c = loc[u].ptr
        BY <1>3, <2>1, <3>1
      <4>2. /\ tree_root # <<b, c>>
            /\ b + 1 \in Level => ~IsChild(b + 1, c)
            /\ b = BornAt(t) => c # loc[t].ptr
        BY <1>1, <1>2, <2>1, <3>1, <4>1 DEF CarriedApart
      <4>3. b + 1 = i => b = BornAt(t)
        <5>1. b \in Int
          BY <4>1, BornType DEF BornNodes
        <5> QED
          BY <1>2, <5>1
      <4> QED
        BY <4>2, <4>3 DEF Adopts
    <3>2. CASE u = t
      <4>1. b = i /\ c = ninode[i]
        BY <2>1, <3>2
      <4>2. tree_root # <<i, ninode[i]>>
        <5>1. tree_root[2] < ninode[tree_root[1]]
          BY <1>1 DEF Linked
        <5> QED
          BY <1>5, <5>1
      <4>3. ASSUME i + 1 \in Level, IsChild(i + 1, ninode[i]) PROVE FALSE
        <5>1. PICK y \in InodeNum, j \in ChildPlace :
                ChildAt(i + 1, y, j, ninode[i])
          BY <4>3 DEF IsChild
        <5>2. Node((i + 1) - 1, ninode[i])
          BY <1>1, <4>3, <5>1, Entries DEF ChildAt
        <5>3. (i + 1) - 1 = i /\ i # -1
          BY <1>2
        <5> QED
          BY <1>5, <5>2, <5>3 DEF Node
      <4>4. i + 1 # i
        BY <1>2
      <4> QED
        BY <4>1, <4>2, <4>3, <4>4 DEF Adopts
    <3> QED
      BY <3>1, <3>2
  <2>2. ASSUME NEW u \in Thread, NEW v \in Thread, u # v, Bears(u)', Bears(v)',
               BornAt(u)' = BornAt(v)'
        PROVE  loc'[u].ptr # loc'[v].ptr
    <3>1. CASE u # t /\ v # t
      BY <1>1, <1>3, <2>2, <3>1 DEF CarriedApart
    <3>2. CASE u = t
      <4>1. v # t /\ Bears(v) /\ BornAt(v) = i /\ loc'[v].ptr = loc[v].ptr
            /\ loc'[u].ptr = ninode[i]
        BY <1>3, <2>2, <3>2
      <4> QED
        BY <1>4, <1>5, <4>1
    <3>3. CASE v = t
      <4>1. u # t /\ Bears(u) /\ BornAt(u) = i /\ loc'[u].ptr = loc[u].ptr
            /\ loc'[v].ptr = ninode[i]
        BY <1>3, <2>2, <3>3
      <4> QED
        BY <1>4, <1>5, <4>1
    <3> QED
      BY <3>1, <3>2, <3>3
  <2> QED
    BY <2>1, <2>2 DEF CarriedApart
<1>7. InodesRooted'
  <2> SUFFICES ASSUME NEW a \in Level, NEW y \in InodeNum, y < ninode'[a]
               PROVE  \/ tree_root' = <<a, y>>
                      \/ a + 1 \in Level /\ IsChild(a + 1, y)'
                      \/ \E u \in Thread :
                           /\ loc'[u].ptr = y
                           /\ \/ Bears(u)' /\ BornAt(u)' = a
                              \/ pc'[u] = "growroot" /\ loc'[u].lev = a
    BY DEF InodesRooted
  <2>1. CASE y < ninode[a]
    <3>1. \/ tree_root = <<a, y>>
          \/ a + 1 \in Level /\ IsChild(a + 1, y)
          \/ \E u \in Thread :
               /\ loc[u].ptr = y
               /\ \/ Bears(u) /\ BornAt(u) = a
                  \/ pc[u] = "growroot" /\ loc[u].lev = a
      BY <1>1, <2>1 DEF InodesRooted
    <3>2. ASSUME NEW u \in Thread, loc[u].ptr = y,
                 \/ Bears(u) /\ BornAt(u) = a
                 \/ pc[u] = "growroot" /\ loc[u].lev = a
          PROVE  \/ a + 1 \in Level /\ IsChild(a + 1, y)'
                 \/ \E v \in Thread :
                      /\ loc'[v].ptr = y
                      /\ \/ Bears(v)' /\ BornAt(v)' = a
                         \/ pc'[v] = "growroot" /\ loc'[v].lev = a
      <4>1. CASE u # t
        BY <1>3, <3>2, <4>1
      <4>2. CASE u = t
        <5>1. a = i - 1 /\ y = loc[t].ptr
          BY <1>2, <3>2, <4>2
        <5>2. a + 1 = i
          BY <1>2, <5>1
        <5> QED
          BY <1>2, <5>1, <5>2 DEF Adopts
      <4> QED
        BY <4>1, <4>2
    <3>3. a + 1 \in Level /\ IsChild(a + 1, y) => IsChild(a + 1, y)'
      BY DEF Adopts
    <3> QED
      BY <3>1, <3>2, <3>3
  <2>2. CASE ~(y < ninode[a])
    <3>1. a = i /\ y = ninode[i] /\ Bears(t)'
      BY <2>2
    <3> QED
      BY <3>1
  <2> QED
    BY <2>1, <2>2
<1>8. TopEmpty'
  <2>1. i <= root_level
    <3>1. (<<i, x>> = Here(t) /\ pc[t] = "inode") \/ pc[t] # "inode"
      BY DEF Spot
    <3>2. Holds(t, i, x) /\ ClimbOK(t) /\ Climb(t) /\ RootState(t)
      BY <1>2, Parts
    <3>3. root_level \in Nat /\ loc[t].path.rl \in Nat /\ loc[t].lev \in Nat
      <4>1. loc[t].path.rl \in Level /\ loc[t].lev \in 0..(MaxLevel + 1)
        BY <1>1, LocalFields DEF Path
      <4>2. root_level \in Level
        BY <1>1 DEF TypeOK, SearchTypeOK
      <4> QED
        BY <4>1, <4>2, Constants DEF Level
    <3>4. pc[t] \notin Growing \cup {"unlocknew"}
      BY <1>2 DEF Bears, Carries, Growing
    <3>5. CASE pc[t] = "grow"
      BY <1>2, <3>2, <3>3, <3>5 DEF Holds, HoldsPath, RootState, Growing
    <3>6. CASE pc[t] # "grow"
      <4>1. HoldsPath(t) /\ InReach(loc[t].path, i)
        BY <3>2, <3>4, <3>6 DEF Holds
      <4>2. loc[t].path.rl <= root_level
        BY <3>2, <4>1 DEF Climb
      <4> QED
        BY <1>2, <3>3, <4>1, <4>2 DEF InReach
    <3> QED
      BY <3>5, <3>6
  <2>2. root_level \in Nat
    BY <1>1, Constants DEF TypeOK, SearchTypeOK, Level
  <2>3. ASSUME NEW a \in Level, a > tree_root[1], a > root_level
        PROVE  ninode'[a] = 0
    <3>1. a # i
      BY <1>2, <2>1, <2>2, <2>3
    <3> QED
      BY <1>1, <2>3, <3>1 DEF TopEmpty
  <2> QED
    BY <2>3 DEF TopEmpty
<1>9. \A u \in Thread : RootMade(u)'
  <2> SUFFICES ASSUME NEW u \in Thread, pc'[u] = "growroot" PROVE RootMade(u)'
    BY DEF RootMade
  <2>1. u # t /\ pc[u] = "growroot" /\ loc'[u] = loc[u]
    BY <1>3
  <2>2. PICK a : a = loc[u].lev
    OBVIOUS
  <2>3. PICK y : y = loc[u].ptr
    OBVIOUS
  <2>4. PICK q : q = loc[u].old_root
    OBVIOUS
  <2>5. a \in Level /\ ChildAt(a, y, 1, q)
    BY <2>1, <2>2, <2>3, <2>4 DEF ShapeInv, RootMade
  <2>6. y \in InodeNum /\ Holds(u, a, y)
    BY <1>1, <2>1, <2>2, <2>3, LocalFields DEF PtrTypeOK, Holds, Growing
  <2>7. a # i \/ y # x
    BY <1>1, <1>2, <2>1, <2>6 DEF InodeLocks
  <2>8. y < ninode[a]
    BY <2>5 DEF ChildAt
  <2>9. a # i \/ y # ninode[i]
    BY <1>5, <2>8
  <2>10. ent'[<<a, y>>] = ent[<<a, y>>]
    BY <2>5, <2>6, <2>7, <2>9
  <2>11. y < ninode'[a]
    <3>1. CASE a # i
      BY <2>5, <2>8, <3>1
    <3>2. CASE a = i
      <4>1. y \in Nat /\ ninode'[i] \in Nat
        BY <1>2, <2>6, Constants DEF TypeOK, SearchTypeOK, InodeNum
      <4> QED
        BY <1>5, <2>8, <3>2, <4>1
    <3> QED
      BY <3>1, <3>2
  <2>12. ChildAt(a, y, 1, q)'
    BY <2>5, <2>10, <2>11 DEF ChildAt, Size, num, Kid
  <2> QED
    BY <2>1, <2>2, <2>3, <2>4, <2>5, <2>12 DEF RootMade
<1> QED
  BY <1>6, <1>7, <1>8, <1>9 DEF TreeShape

LEMMA ShapeInsertInode ==
  ASSUME IndInv, IndInv', ShapeInv, NEW t \in Thread, InsertInode(t)
  PROVE  TreeShape'
<1>1. TypeOK /\ Linked /\ TypeOK' /\ Linked'
  BY Parts DEF IndInv, TreeInv
<1>2. PICK i : i = loc[t].lev
  OBVIOUS
<1>3. PICK x : x = loc[t].path.parray[i]
  OBVIOUS
<1>4. PICK pos : pos = loc[t].path.ppos[i]
  OBVIOUS
<1>5. Spot(t, i, x, pos) /\ MergedEntries(t, i, x, pos) /\ InsertWrote(t, i, x)
  BY <1>2, <1>3, <1>4, InsertWrites
<1>6. Adopts(i, loc[t].ptr)
  BY <1>1, <1>5, InsertAdopts
<1>7. /\ OthersStay(t) /\ UNCHANGED <<tree_root, root_level, ninode>>
      /\ ~Bears(t)' /\ pc[t] # "growroot" /\ pc'[t] # "growroot"
      /\ \A a \in Level, y \in InodeNum :
           a # i \/ (y # x /\ y # ninode[i]) => ent'[<<a, y>>] = ent[<<a, y>>]
  BY <1>5 DEF InsertWrote
<1>8. ninode[i] <= ninode'[i]
  BY <1>1, <1>5, <1>7, Constants DEF Spot, TypeOK, SearchTypeOK
<1> QED
  BY <1>1, <1>5, <1>6, <1>7, <1>8, ShapeAdopts

LEMMA ShapeSplitInode ==
  ASSUME IndInv, IndInv', ShapeInv, NEW t \in Thread, SplitInode(t)
  PROVE  TreeShape'
<1>1. TypeOK /\ Linked /\ TypeOK' /\ Linked'
  BY Parts DEF IndInv, TreeInv
<1>2. PICK i : i = loc[t].lev
  OBVIOUS
<1>3. PICK x : x = loc[t].path.parray[i]
  OBVIOUS
<1>4. PICK pos : pos = loc[t].path.ppos[i]
  OBVIOUS
<1>5. PICK n : n = ninode[i]
  OBVIOUS
<1>6. Spot(t, i, x, pos) /\ MergedEntries(t, i, x, pos)
      /\ HalvesWrote(t, i, x, n)
  BY <1>2, <1>3, <1>4, <1>5, HalvesWrites
<1>7. Adopts(i, loc[t].ptr)
  BY <1>1, <1>6, SplitAdopts
<1>8. /\ OthersStay(t) /\ UNCHANGED <<tree_root, root_level>>
      /\ Bears(t)' /\ BornAt(t)' = i /\ loc'[t].ptr = n
      /\ pc[t] # "growroot" /\ pc'[t] # "growroot"
      /\ n \in Nat /\ ninode'[i] = n + 1
      /\ \A a \in Level : a # i => ninode'[a] = ninode[a]
      /\ \A a \in Level, y \in InodeNum :
           a # i \/ (y # x /\ y # n) => ent'[<<a, y>>] = ent[<<a, y>>]
  BY <1>6 DEF HalvesWrote
<1>9. /\ ninode[i] <= ninode'[i]
      /\ \A y \in InodeNum : y < ninode'[i] => y < ninode[i] \/ y = ninode[i]
  <2>1. \A y \in InodeNum : y \in Nat
    BY Constants DEF InodeNum
  <2>2. \A y \in Nat : y < n + 1 => y < n \/ y = n
    BY <1>8
  <2>3. n <= n + 1
    BY <1>8
  <2> QED
    BY <1>5, <1>8, <2>1, <2>2, <2>3
<1> QED
  BY <1>1, <1>5, <1>6, <1>7, <1>8, <1>9, ShapeAdopts

LEMMA ShapeGrowRoot ==
  ASSUME IndInv, IndInv', ShapeInv, NEW t \in Thread, GrowRoot(t)
  PROVE  TreeShape'
<1>1. /\ TypeOK /\ Linked /\ TypeOK' /\ Linked'
      /\ CarriedApart /\ InodesRooted /\ TopEmpty
      /\ \A u \in Thread : RootMade(u)
  BY Parts DEF IndInv, TreeInv, ShapeInv
<1>2. PICK i : i = loc[t].lev
  OBVIOUS
<1>3. PICK n : n = ninode[i]
  OBVIOUS
<1>4. PICK o : o = Origin(t)
  OBVIOUS
<1>5. RootWrote(t, i, n, o)
  BY <1>2, <1>3, <1>4, RootWrites
<1>6. /\ i \in Level /\ i \in Nat /\ i - 1 \in Level /\ i > 0
      /\ n = 0 /\ n \in InodeNum /\ ninode[i] = 0 /\ ninode'[i] = 1
      /\ \A a \in Level : a # i => ninode'[a] = ninode[a]
      /\ tree_root = <<i - 1, o>> /\ root_level = i - 1 /\ o \in InodeNum
      /\ Bears(t) /\ BornAt(t) = i - 1
      /\ Size(i, n)' = 1 /\ Kid(i, n, 1)' = o /\ Kid(i, n, 2)' = loc[t].ptr
      /\ \A a \in Level, y \in InodeNum :
           a # i \/ y # n => ent'[<<a, y>>] = ent[<<a, y>>]
      /\ OthersStay(t) /\ ~Bears(t)'
      /\ loc'[t].lev = i /\ loc'[t].ptr = n /\ loc'[t].old_root = o
      /\ \/ /\ pc'[t] = "growroot" /\ root_level' = i /\ tree_root' = tree_root
         \/ /\ pc'[t] = "growlevel" /\ tree_root' = <<i, n>>
            /\ root_level' = root_level
  BY <1>5 DEF RootWrote
<1>7. /\ i # -1 /\ (i - 1) + 1 = i /\ 1 + 1 = 2 /\ i - 1 # i
      /\ \A j \in 1..2 : j = 1 \/ j = 2
  BY <1>6
<1>8. \A u \in Thread : u # t =>
        /\ pc'[u] = pc[u] /\ loc'[u] = loc[u]
        /\ Bears(u)' <=> Bears(u)
        /\ BornAt(u)' = BornAt(u)
  BY <1>6, OthersBear
<1>9. \A c : IsChild(i, c)' <=> c = o \/ c = loc[t].ptr
  <2>1. \A c : HasKid(i, n, c)' <=> c = o \/ c = loc[t].ptr
    <3>1. 1 \in 1..2 /\ 2 \in 1..2
      OBVIOUS
    <3> QED
      BY <1>6, <1>7, <3>1 DEF HasKid
  <2>2. \A y \in InodeNum : y < 1 <=> y = 0
    BY Constants DEF InodeNum
  <2>3. \A c : IsChild(i, c)'
                 <=> \E y \in InodeNum : y < ninode'[i] /\ HasKid(i, y, c)'
    BY <1>1, <1>6, ChildIsKidNext
  <2> QED
    BY <1>6, <2>1, <2>2, <2>3
<1>10. \A a \in Level : \A c : a # i => (IsChild(a, c)' <=> IsChild(a, c))
  <2>1. ASSUME NEW a \in Level, a # i, NEW c, NEW y \in InodeNum,
               NEW j \in ChildPlace
        PROVE  ChildAt(a, y, j, c)' <=> ChildAt(a, y, j, c)
    <3>1. ninode'[a] = ninode[a] /\ ent'[<<a, y>>] = ent[<<a, y>>]
      BY <1>6, <2>1
    <3> QED
      BY <3>1 DEF ChildAt, Size, num, Kid
  <2> QED
    BY <2>1 DEF IsChild
<1>11. \A u \in Thread : Bears(u) => BornAt(u) # i /\ BornAt(u) \in Int
  <2> SUFFICES ASSUME NEW u \in Thread, Bears(u)
               PROVE  BornAt(u) # i /\ BornAt(u) \in Int
    OBVIOUS
  <2>1. BornNodes(u)
    BY BornType
  <2>2. ~Node(i, loc[u].ptr)
    BY <1>6, <1>7 DEF Node
  <2> QED
    BY <2>1, <2>2 DEF BornNodes
<1>12. CarriedApart'
  <2>1. ASSUME NEW u \in Thread, Bears(u)', NEW b, b = BornAt(u)', b >= 0,
               NEW c, c = loc'[u].ptr
        PROVE  /\ tree_root' # <<b, c>>
               /\ b + 1 \in Level => ~IsChild(b + 1, c)'
    <3>1. u # t /\ Bears(u) /\ b = BornAt(u) /\ c = loc[u].ptr
          /\ b # i /\ b \in Int
      BY <1>6, <1>8, <1>11, <2>1
    <3>2. /\ tree_root # <<b, c>>
          /\ b + 1 \in Level => ~IsChild(b + 1, c)
          /\ b = BornAt(t) => c # loc[t].ptr
      BY <1>1, <1>6, <2>1, <3>1 DEF CarriedApart
    <3>3. tree_root' # <<b, c>>
      BY <1>6, <3>1, <3>2
    <3>4. CASE b + 1 # i
      BY <1>10, <3>2, <3>3, <3>4
    <3>5. CASE b + 1 = i
      <4>1. b = i - 1
        BY <1>6, <3>1, <3>5
      <4>2. c # o /\ c # loc[t].ptr
        BY <1>6, <3>2, <4>1
      <4> QED
        BY <1>9, <3>3, <3>5, <4>2
    <3> QED
      BY <3>4, <3>5
  <2>2. \A u, v \in Thread :
          u # v /\ Bears(u)' /\ Bears(v)' /\ BornAt(u)' = BornAt(v)'
            => loc'[u].ptr # loc'[v].ptr
    BY <1>1, <1>6, <1>8 DEF CarriedApart
  <2> QED
    BY <2>1, <2>2 DEF CarriedApart
<1>13. InodesRooted'
  <2> SUFFICES ASSUME NEW a \in Level, NEW y \in InodeNum, y < ninode'[a]
               PROVE  \/ tree_root' = <<a, y>>
                      \/ a + 1 \in Level /\ IsChild(a + 1, y)'
                      \/ \E u \in Thread :
                           /\ loc'[u].ptr = y
                           /\ \/ Bears(u)' /\ BornAt(u)' = a
                              \/ pc'[u] = "growroot" /\ loc'[u].lev = a
    BY DEF InodesRooted
  <2>1. CASE a = i
    <3>1. y = n
      BY <1>6, <2>1, Constants DEF InodeNum
    <3> QED
      BY <1>6, <2>1, <3>1
  <2>2. CASE a # i
    <3>1. \/ tree_root = <<a, y>>
          \/ a + 1 \in Level /\ IsChild(a + 1, y)
          \/ \E u \in Thread :
               /\ loc[u].ptr = y
               /\ \/ Bears(u) /\ BornAt(u) = a
                  \/ pc[u] = "growroot" /\ loc[u].lev = a
      BY <1>1, <1>6, <2>2 DEF InodesRooted
    <3>2. CASE tree_root = <<a, y>>
      <4>1. a = i - 1 /\ y = o
        BY <1>6, <3>2
      <4> QED
        BY <1>6, <1>7, <1>9, <4>1
    <3>3. CASE a + 1 \in Level /\ IsChild(a + 1, y)
      <4>1. a + 1 # i
        <5>1. CASE a + 1 = i
          <6>1. ~IsChild(i, y)
            BY <1>6, Constants DEF IsChild, ChildAt, InodeNum
          <6> QED
            BY <3>3, <5>1, <6>1
        <5> QED
          BY <5>1
      <4> QED
        BY <1>10, <3>3, <4>1
    <3>4. ASSUME NEW u \in Thread, loc[u].ptr = y,
                 \/ Bears(u) /\ BornAt(u) = a
                 \/ pc[u] = "growroot" /\ loc[u].lev = a
          PROVE  \/ a + 1 \in Level /\ IsChild(a + 1, y)'
                 \/ \E v \in Thread :
                      /\ loc'[v].ptr = y
                      /\ \/ Bears(v)' /\ BornAt(v)' = a
                         \/ pc'[v] = "growroot" /\ loc'[v].lev = a
      <4>1. CASE u # t
        BY <1>8, <3>4, <4>1
      <4>2. CASE u = t
        <5>1. a = i - 1
          BY <1>5, <1>6, <3>4, <4>2 DEF RootWrote
        <5> QED
          BY <1>6, <1>7, <1>9, <3>4, <4>2, <5>1
      <4> QED
        BY <4>1, <4>2
    <3> QED
      BY <3>1, <3>2, <3>3, <3>4
  <2> QED
    BY <2>1, <2>2
<1>14. TopEmpty'
  <2> SUFFICES ASSUME NEW a \in Level, a > tree_root'[1], a > root_level'
               PROVE  ninode'[a] = 0
    BY DEF TopEmpty
  <2>1. a \in Nat
    BY Constants DEF Level
  <2>2. tree_root[1] = i - 1
    BY <1>6
  <2>3. a # i /\ a > i - 1
    <3>1. CASE root_level' = i
      BY <1>6, <2>1, <3>1
    <3>2. CASE tree_root' = <<i, n>>
      <4>1. a > i
        BY <3>2
      <4> QED
        BY <1>6, <2>1, <4>1
    <3> QED
      BY <1>6, <3>1, <3>2
  <2> QED
    BY <1>1, <1>6, <2>2, <2>3 DEF TopEmpty
<1>15. \A u \in Thread : RootMade(u)'
  <2> SUFFICES ASSUME NEW u \in Thread, pc'[u] = "growroot" PROVE RootMade(u)'
    BY DEF RootMade
  <2>1. CASE u = t
    <3>1. n < ninode'[i] /\ 1 \in 1..(Size(i, n)' + 1)
      BY <1>6, <1>7
    <3>2. ChildAt(i, n, 1, o)'
      BY <1>6, <3>1 DEF ChildAt
    <3> QED
      BY <1>6, <2>1, <3>2 DEF RootMade
  <2>2. CASE u # t
    <3>1. pc[u] = "growroot" /\ loc'[u] = loc[u]
      BY <1>8, <2>2
    <3>2. PICK a : a = loc[u].lev
      OBVIOUS
    <3>3. PICK y : y = loc[u].ptr
      OBVIOUS
    <3>4. PICK q : q = loc[u].old_root
      OBVIOUS
    <3>5. a \in Level /\ ChildAt(a, y, 1, q)
      BY <1>1, <3>1, <3>2, <3>3, <3>4 DEF RootMade
    <3>6. y \in InodeNum /\ y < ninode[a]
      BY <1>1, <3>1, <3>3, <3>5, LocalFields DEF PtrTypeOK, ChildAt
    <3>7. a # i
      BY <1>6, <3>6, Constants DEF InodeNum
    <3>8. ChildAt(a, y, 1, q)'
      BY <1>6, <3>5, <3>6, <3>7 DEF ChildAt, Size, num, Kid
    <3> QED
      BY <3>1, <3>2, <3>3, <3>4, <3>5, <3>8 DEF RootMade
  <2> QED
    BY <2>1, <2>2
<1> QED
  BY <1>12, <1>13, <1>14, <1>15 DEF TreeShape

LEMMA ShapeSecondStore ==
  ASSUME IndInv, ShapeInv, NEW t \in Thread, GrowSecondStore(t)
  PROVE  TreeShape'
<1>1. /\ TypeOK /\ CarriedApart /\ InodesRooted /\ TopEmpty /\ SecondWrote(t)
      /\ RootState(t) /\ \A u \in Thread : RootMade(u)
  BY Parts, SecondWrites DEF ShapeInv
<1>2. PICK i : i = loc[t].lev
  OBVIOUS
<1>3. /\ UNCHANGED <<ent, ninode, nleaf>> /\ OthersStay(t)
      /\ ~Bears(t) /\ ~Bears(t)' /\ pc'[t] # "growroot" /\ loc'[t] = loc[t]
      /\ pc[t] \in {"growroot", "growlevel"}
  BY <1>1 DEF SecondWrote
<1>4. i \in Nat /\ i > 0 /\ loc[t].ptr \in InodeNum /\ i \in Level
      /\ loc[t].old_root \in InodeNum
  BY <1>1, <1>2, <1>3, LocalFields, Constants DEF PtrTypeOK, Level
<1>5. \A u \in Thread :
        /\ Bears(u)' <=> Bears(u)
        /\ loc'[u] = loc[u] /\ (BornAt(u)' = BornAt(u) \/ ~Bears(u))
        /\ u # t => pc'[u] = pc[u] /\ loc'[u] = loc[u]
  BY <1>3, OthersBear
<1>6. \A a, c : IsChild(a, c)' <=> IsChild(a, c)
  BY <1>3 DEF IsChild, ChildAt, Size, num, Kid
<1>7. \A u \in Thread : RootMade(u)'
  BY <1>1, <1>3, <1>5 DEF RootMade, ChildAt, Size, num, Kid
<1>8. CASE pc[t] = "growlevel"
  <2>1. /\ tree_root' = tree_root /\ tree_root[1] = i /\ root_level = i - 1
        /\ root_level' = i
    BY <1>1, <1>2, <1>8 DEF SecondWrote, RootState
  <2>2. CarriedApart'
    BY <1>1, <1>5, <1>6, <2>1 DEF CarriedApart
  <2>3. InodesRooted'
    <3> SUFFICES ASSUME NEW a \in Level, NEW y \in InodeNum, y < ninode[a]
                 PROVE  \/ tree_root = <<a, y>>
                        \/ a + 1 \in Level /\ IsChild(a + 1, y)
                        \/ \E u \in Thread :
                             /\ loc'[u].ptr = y
                             /\ \/ Bears(u)' /\ BornAt(u)' = a
                                \/ pc'[u] = "growroot" /\ loc'[u].lev = a
      BY <1>3, <1>6, <2>1 DEF InodesRooted
    <3>1. \/ tree_root = <<a, y>>
          \/ a + 1 \in Level /\ IsChild(a + 1, y)
          \/ \E u \in Thread :
               /\ loc[u].ptr = y
               /\ \/ Bears(u) /\ BornAt(u) = a
                  \/ pc[u] = "growroot" /\ loc[u].lev = a
      BY <1>1 DEF InodesRooted
    <3> QED
      BY <1>3, <1>5, <1>8, <3>1
  <2>4. TopEmpty'
    <3> SUFFICES ASSUME NEW a \in Level, a > i PROVE ninode'[a] = 0
      BY <2>1 DEF TopEmpty
    <3>1. a > i - 1
      BY <1>4, Constants DEF Level
    <3> QED
      BY <1>1, <1>3, <2>1, <3>1 DEF TopEmpty
  <2> QED
    BY <1>7, <2>2, <2>3, <2>4 DEF TreeShape
<1>9. CASE pc[t] = "growroot"
  <2>1. /\ tree_root = <<i - 1, loc[t].old_root>> /\ root_level = i
        /\ root_level' = root_level /\ tree_root' = <<i, loc[t].ptr>>
    BY <1>1, <1>2, <1>9 DEF SecondWrote
  <2>2. \A u \in Thread : Bears(u) => BornAt(u) # i
    <3> SUFFICES ASSUME NEW u \in Thread, Bears(u), BornAt(u) = i PROVE FALSE
      OBVIOUS
    <3>1. /\ pc[u] \in {"inode", "grow"} /\ loc[u].lev - 1 = i
          /\ loc[u].lev \in Nat
      BY <1>1, <1>4, LocalFields DEF BornAt
    <3>2. Climb(u) /\ RootState(u)
      BY Parts
    <3>3. CASE pc[u] = "inode"
      <4>1. loc[u].path.rl <= root_level /\ loc[u].lev \in 0..loc[u].path.rl
        BY <3>2, <3>3 DEF Climb, HoldsPath, InReach
      <4>2. loc[u].path.rl \in Nat
        BY <1>1, LocalFields, Constants DEF Path, Level
      <4> QED
        BY <1>4, <2>1, <3>1, <4>1, <4>2
    <3>4. CASE pc[u] = "grow"
      <4>1. root_level = loc[u].lev - 1 /\ tree_root[1] = loc[u].lev - 1
        BY <3>2, <3>4 DEF RootState
      <4>2. tree_root[1] = i - 1
        BY <2>1
      <4> QED
        BY <1>4, <3>1, <4>1, <4>2
    <3> QED
      BY <3>1, <3>3, <3>4
  <2>3. CarriedApart'
    <3>1. \A u \in Thread : Bears(u) => tree_root' # <<BornAt(u), loc[u].ptr>>
      BY <2>1, <2>2
    <3> QED
      BY <1>1, <1>5, <1>6, <3>1 DEF CarriedApart
  <2>4. InodesRooted'
    <3> SUFFICES ASSUME NEW a \in Level, NEW y \in InodeNum, y < ninode[a]
                 PROVE  \/ tree_root' = <<a, y>>
                        \/ a + 1 \in Level /\ IsChild(a + 1, y)
                        \/ \E u \in Thread :
                             /\ loc'[u].ptr = y
                             /\ \/ Bears(u)' /\ BornAt(u)' = a
                                \/ pc'[u] = "growroot" /\ loc'[u].lev = a
      BY <1>3, <1>6 DEF InodesRooted
    <3>1. \/ tree_root = <<a, y>>
          \/ a + 1 \in Level /\ IsChild(a + 1, y)
          \/ \E u \in Thread :
               /\ loc[u].ptr = y
               /\ \/ Bears(u) /\ BornAt(u) = a
                  \/ pc[u] = "growroot" /\ loc[u].lev = a
      BY <1>1 DEF InodesRooted
    <3>2. CASE tree_root = <<a, y>>
      <4>1. a = i - 1 /\ y = loc[t].old_root /\ a + 1 = i
        BY <1>4, <2>1, <3>2
      <4>2. ChildAt(i, loc[t].ptr, 1, y)
        BY <1>1, <1>2, <1>9, <4>1 DEF RootMade
      <4>3. 1 \in ChildPlace
        BY Constants DEF ChildPlace
      <4>4. IsChild(i, y)
        BY <1>4, <4>2, <4>3 DEF IsChild
      <4> QED
        BY <1>4, <4>1, <4>4
    <3>3. ASSUME NEW u \in Thread, loc[u].ptr = y,
                 \/ Bears(u) /\ BornAt(u) = a
                 \/ pc[u] = "growroot" /\ loc[u].lev = a
          PROVE  \/ tree_root' = <<a, y>>
                 \/ \E v \in Thread :
                      /\ loc'[v].ptr = y
                      /\ \/ Bears(v)' /\ BornAt(v)' = a
                         \/ pc'[v] = "growroot" /\ loc'[v].lev = a
      BY <1>2, <1>3, <1>5, <2>1, <3>3
    <3> QED
      BY <3>1, <3>2, <3>3
  <2>5. TopEmpty'
    <3> SUFFICES ASSUME NEW a \in Level, a > i PROVE ninode'[a] = 0
      BY <2>1 DEF TopEmpty
    <3>1. a > i - 1
      BY <1>4, Constants DEF Level
    <3>2. tree_root[1] = i - 1
      BY <2>1
    <3> QED
      BY <1>1, <1>3, <2>1, <3>1, <3>2 DEF TopEmpty
  <2> QED
    BY <1>7, <2>3, <2>4, <2>5 DEF TreeShape
<1> QED
  BY <1>3, <1>8, <1>9

LEMMA ShapeSplitBuild ==
  ASSUME IndInv, ShapeInv, NEW t \in Thread, NEW l, NEW sk,
         BuildWrote(t, nleaf, l, sk)
  PROVE  TreeShape'
<1>1. /\ TypeOK /\ CarriedApart /\ InodesRooted /\ TopEmpty /\ CarriedLeaf
      /\ \A u \in Thread : RootMade(u)
  BY Parts DEF ShapeInv
<1>2. /\ UNCHANGED <<tree_root, root_level, ent, ninode>> /\ OthersStay(t)
      /\ nleaf \in Nat /\ pc[t] = "build" /\ pc'[t] = "publish"
      /\ loc'[t].ptr = nleaf /\ ~Bears(t) /\ Bears(t)' /\ BornAt(t)' = -1
  BY DEF BuildWrote
<1>3. \A u \in Thread : u # t =>
        /\ pc'[u] = pc[u] /\ loc'[u] = loc[u]
        /\ Bears(u)' <=> Bears(u)
        /\ BornAt(u)' = BornAt(u)
  BY <1>2, OthersBear
<1>4. \A a, c : IsChild(a, c)' <=> IsChild(a, c)
  BY <1>2 DEF IsChild, ChildAt, Size, num, Kid
<1>5. \A u \in Thread : Bears(u) /\ BornAt(u) = -1
                          => loc[u].ptr < nleaf /\ loc[u].ptr \in Nat
  <2> SUFFICES ASSUME NEW u \in Thread, Bears(u), BornAt(u) = -1
               PROVE  loc[u].ptr < nleaf /\ loc[u].ptr \in Nat
    OBVIOUS
  <2>1. BornNodes(u)
    BY BornType
  <2> QED
    BY <2>1 DEF BornNodes, Node
<1>6. CarriedApart'
  <2>1. ASSUME NEW u \in Thread, Bears(u)', NEW b, b = BornAt(u)', b >= 0,
               NEW c, c = loc'[u].ptr
        PROVE  /\ tree_root' # <<b, c>>
               /\ b + 1 \in Level => ~IsChild(b + 1, c)'
    <3>1. u # t /\ Bears(u) /\ b = BornAt(u) /\ c = loc[u].ptr
      BY <1>2, <1>3, <2>1
    <3> QED
      BY <1>1, <1>2, <1>4, <2>1, <3>1 DEF CarriedApart
  <2>2. ASSUME NEW u \in Thread, NEW v \in Thread, u # v, Bears(u)', Bears(v)',
               BornAt(u)' = BornAt(v)'
        PROVE  loc'[u].ptr # loc'[v].ptr
    <3>1. CASE u # t /\ v # t
      BY <1>1, <1>3, <2>2, <3>1 DEF CarriedApart
    <3>2. CASE u = t
      <4>1. v # t /\ Bears(v) /\ BornAt(v) = -1 /\ loc'[v].ptr = loc[v].ptr
            /\ loc'[u].ptr = nleaf
        BY <1>2, <1>3, <2>2, <3>2
      <4> QED
        BY <1>2, <1>5, <4>1
    <3>3. CASE v = t
      <4>1. u # t /\ Bears(u) /\ BornAt(u) = -1 /\ loc'[u].ptr = loc[u].ptr
            /\ loc'[v].ptr = nleaf
        BY <1>2, <1>3, <2>2, <3>3
      <4> QED
        BY <1>2, <1>5, <4>1
    <3> QED
      BY <3>1, <3>2, <3>3
  <2> QED
    BY <2>1, <2>2 DEF CarriedApart
<1>7. InodesRooted'
  <2> SUFFICES ASSUME NEW a \in Level, NEW y \in InodeNum, y < ninode[a]
               PROVE  \/ tree_root = <<a, y>>
                      \/ a + 1 \in Level /\ IsChild(a + 1, y)
                      \/ \E u \in Thread :
                           /\ loc'[u].ptr = y
                           /\ \/ Bears(u)' /\ BornAt(u)' = a
                              \/ pc'[u] = "growroot" /\ loc'[u].lev = a
    BY <1>2, <1>4 DEF InodesRooted
  <2>1. \/ tree_root = <<a, y>>
        \/ a + 1 \in Level /\ IsChild(a + 1, y)
        \/ \E u \in Thread :
             /\ loc[u].ptr = y
             /\ \/ Bears(u) /\ BornAt(u) = a
                \/ pc[u] = "growroot" /\ loc[u].lev = a
    BY <1>1 DEF InodesRooted
  <2>2. ASSUME NEW u \in Thread, loc[u].ptr = y,
               \/ Bears(u) /\ BornAt(u) = a
               \/ pc[u] = "growroot" /\ loc[u].lev = a
        PROVE  \E v \in Thread :
                 /\ loc'[v].ptr = y
                 /\ \/ Bears(v)' /\ BornAt(v)' = a
                    \/ pc'[v] = "growroot" /\ loc'[v].lev = a
    <3>1. u # t
      BY <1>2, <2>2
    <3> QED
      BY <1>3, <2>2, <3>1
  <2> QED
    BY <2>1, <2>2
<1>8. TopEmpty'
  BY <1>1, <1>2 DEF TopEmpty
<1>9. \A u \in Thread : RootMade(u)'
  BY <1>1, <1>2, <1>3 DEF RootMade, ChildAt, Size, num, Kid
<1> QED
  BY <1>6, <1>7, <1>8, <1>9 DEF TreeShape
=============================================================================
