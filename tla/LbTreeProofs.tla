---------------------------- MODULE LbTreeProofs ----------------------------
(***************************************************************************)
(* LbInv is an invariant of LbTree, and with it WritesOwnNodes and         *)
(* RootAgrees, in every behaviour in which two deletes do not lower the    *)
(* root at once; in programs in which one thread deletes, in all of them.  *)
(*                                                                         *)
(* Each action writes and frees only what nobody else holds (OwnStep), so  *)
(* the locks, and what every other thread knows of its nodes, stay         *)
(* (StepLocks).  The rest is one lemma per action: the root moves only     *)
(* under its lock, and the pointers in use remain a forest.                *)
(***************************************************************************)
EXTENDS LbTreeInv, FiniteSetTheorems, SequenceTheorems, WellFoundedInduction,
        TLAPS

-----------------------------------------------------------------------------
(* The operators the actions are built from.                               *)

\* The constants in the form the provers need.
LEMMA Constants ==
  /\ LEAF_KEY_NUM \in Nat /\ LEAF_KEY_NUM >= 2
  /\ NON_LEAF_KEY_NUM \in Nat /\ NON_LEAF_KEY_NUM >= 2
  /\ SPLIT \in Nat /\ SPLIT >= 1 /\ SPLIT < LEAF_KEY_NUM
  /\ LEFT_KEY_NUM \in Nat /\ LEFT_KEY_NUM >= 1 /\ LEFT_KEY_NUM < NON_LEAF_KEY_NUM
  /\ MaxLevel \in Nat /\ MaxLevel >= 1 /\ MaxNode \in Nat /\ MaxNode >= 1
  /\ Key \subseteq Nat /\ NoKey \notin Key
  /\ Null \notin Num /\ 0 \in Level /\ Level \subseteq Nat /\ Num \subseteq Nat
BY LbTreeConstants DEF LbTreeConstants, SPLIT, LEFT_KEY_NUM, NoKey, Null, Num, Level

\* A set of numbers that is not empty has a least element.
LEMMA LeastOf ==
  ASSUME NEW S, S \subseteq Nat, S # {}
  PROVE  \E x \in S : \A y \in S : x <= y
<1>1. PICK x \in S : \A y \in S : ~(<<y, x>> \in OpToRel(<, Nat))
  BY NatLessThanWellFounded, WFMin
<1>2. \A y \in S : ~(y < x)
  BY <1>1 DEF OpToRel
<1> QED
  BY <1>2

\* The pool gives a node that is not in use.
LEMMA FreeNodeType ==
  ASSUME NEW i \in Level, used # used \cup ({i} \X Num)
  PROVE  FreeNode(i) \in Num /\ <<i, FreeNode(i)>> \notin used
<1> DEFINE S == {n \in Num : <<i, n>> \notin used}
<1>1. S # {}
  <2>1. PICK n \in Num : <<i, n>> \notin used
    <3>1. PICK x : x \in {i} \X Num /\ x \notin used
      BY Zenon
    <3> QED
      BY <3>1
  <2> QED
    BY <2>1
<1>5. S \subseteq Nat
  BY Constants
<1>2. PICK x \in S : \A y \in S : x <= y
  BY <1>1, <1>5, LeastOf
<1>3. \A m \in 0..(x - 1) : m \in Num /\ ~(x <= m)
  BY <1>2, Constants DEF Num
<1>4. x \in Num /\ <<i, x>> \notin used /\ \A m \in 0..(x - 1) : <<i, m>> \in used
  BY <1>2, <1>3
<1> QED
  BY <1>4 DEF FreeNode

\* A leaf that is not full has a first empty slot.
LEMMA FirstEmptyType ==
  ASSUME NEW m, m \subseteq Slot, m # Slot
  PROVE  /\ FirstEmpty(m) \in Slot \ m
         /\ \A x \in Slot : x < FirstEmpty(m) => x \in m
<1> DEFINE S == Slot \ m
<1>1. S # {}
  <2>1. PICK x : x \in Slot /\ x \notin m
    BY Zenon
  <2> QED
    BY <2>1
<1>5. S \subseteq Nat /\ Slot \subseteq Nat
  BY Constants DEF Slot
<1>2. PICK x \in S : \A y \in S : x <= y
  BY <1>1, <1>5, LeastOf
<1>3. FirstEmpty(m) \in S /\ \A y \in S : FirstEmpty(m) <= y
  BY <1>2 DEF FirstEmpty
<1>4. ASSUME NEW z \in Slot, z < FirstEmpty(m) PROVE z \in m
  <2> SUFFICES ASSUME z \notin m PROVE FALSE
    OBVIOUS
  <2>1. z \in S /\ z \in Nat /\ FirstEmpty(m) \in Nat
    BY <1>3, <1>5
  <2>2. FirstEmpty(m) <= z
    BY <1>3, <2>1
  <2> QED
    BY <1>4, <2>1, <2>2
<1> QED
  BY <1>3, <1>4

\* The slot of a key the leaf has.
LEMMA PosOfType ==
  ASSUME NEW l, NEW key, key \in keys(l)
  PROVE  PosOf(l, key) \in leaf[l].bitmap /\ leaf[l].ent[PosOf(l, key)] = key
BY DEF PosOf, keys

-----------------------------------------------------------------------------
(* Ranks.                                                                  *)

\* The numbers of a finite set that are below one of them are fewer than all,
\* and fewer than those below a greater one.
LEMMA RankType ==
  ASSUME NEW S, IsFiniteSet(S), S \subseteq Nat, NEW s \in S
  PROVE  /\ Cardinality({x \in S : x < s}) \in Nat
         /\ Cardinality({x \in S : x < s}) < Cardinality(S)
         /\ \A u \in S : s < u => Cardinality({x \in S : x < s})
                                    < Cardinality({x \in S : x < u})
<1> DEFINE B(a) == {x \in S : x < a}
<1>0. \A a \in S : B(a) \subseteq S /\ a \notin B(a)
  OBVIOUS
<1>1. \A a \in S : IsFiniteSet(B(a)) /\ Cardinality(B(a)) \in Nat
  BY <1>0, FS_Subset, FS_CardinalityType
<1>2. Cardinality(S) \in Nat
  BY FS_CardinalityType
<1>3. Cardinality(B(s)) < Cardinality(S)
  <2>1. Cardinality(B(s)) <= Cardinality(S)
        /\ (Cardinality(S) = Cardinality(B(s)) => S = B(s))
    BY <1>0, FS_Subset
  <2> QED
    BY <2>1, <1>0, <1>1, <1>2
<1>4. ASSUME NEW u \in S, s < u PROVE Cardinality(B(s)) < Cardinality(B(u))
  <2>1. B(s) \subseteq B(u) /\ s \in B(u) /\ s \notin B(s)
    <3>1. \A x \in S : x \in Nat
      OBVIOUS
    <3>2. \A x \in S : x < s => x < u
      BY <3>1, <1>4
    <3>3. s < u /\ ~(s < s)
      BY <3>1, <1>4
    <3> QED
      BY <3>2, <3>3
  <2>2. Cardinality(B(s)) <= Cardinality(B(u))
        /\ (Cardinality(B(u)) = Cardinality(B(s)) => B(u) = B(s))
    BY <2>1, <1>1, FS_Subset
  <2> HIDE DEF B
  <2> QED
    BY <2>1, <2>2, <1>1
<1> QED
  BY <1>1, <1>3, <1>4

\* Among the slots of a full leaf without a key twice, one has i smaller ones.
LEMMA SortedPosType ==
  ASSUME NEW l, leaf[l].bitmap = Slot, DistinctKeys(leaf[l]), NEW i \in Slot
  PROVE  /\ SortedPos(l, i) \in Slot
         /\ Cardinality({x \in Slot : leaf[l].ent[x] < leaf[l].ent[SortedPos(l, i)]}) = i
<1> DEFINE e(s) == leaf[l].ent[s]
           B(s) == {x \in Slot : e(x) < e(s)}
           rank == [s \in Slot |-> Cardinality(B(s))]
<1>1. /\ IsFiniteSet(Slot) /\ Cardinality(Slot) = LEAF_KEY_NUM
      /\ \A s \in Slot : e(s) \in Nat
      /\ \A s, x \in Slot : e(s) = e(x) => s = x
  <2>1. IsFiniteSet(Slot) /\ Cardinality(Slot) = LEAF_KEY_NUM
    BY Constants, FS_Interval DEF Slot
  <2>2. \A s \in Slot : e(s) \in Key
    BY DEF DistinctKeys
  <2>3. \A s, x \in Slot : e(s) = e(x) => s = x
    BY DEF DistinctKeys
  <2> QED
    BY <2>1, <2>2, <2>3, Constants
<1> HIDE DEF e
<1>2. \A s \in Slot : IsFiniteSet(B(s)) /\ Cardinality(B(s)) \in Nat
                      /\ B(s) \subseteq Slot /\ s \notin B(s)
  <2>1. \A s \in Slot : B(s) \subseteq Slot /\ s \notin B(s)
    BY <1>1
  <2> QED
    BY <1>1, <2>1, FS_Subset, FS_CardinalityType
<1>3. ASSUME NEW s \in Slot, NEW x \in Slot, e(s) < e(x)
      PROVE  Cardinality(B(s)) < Cardinality(B(x))
  <2>1. B(s) \subseteq B(x) /\ s \in B(x) /\ s \notin B(s)
    BY <1>1, <1>3
  <2>2. Cardinality(B(s)) <= Cardinality(B(x))
        /\ (Cardinality(B(x)) = Cardinality(B(s)) => B(x) = B(s))
    BY <2>1, <1>2, FS_Subset
  <2> HIDE DEF B
  <2> QED
    BY <2>1, <2>2, <1>2
<1>4. rank \in [Slot -> Slot]
  <2> SUFFICES ASSUME NEW s \in Slot PROVE Cardinality(B(s)) \in Slot
    OBVIOUS
  <2>1. Cardinality(B(s)) <= Cardinality(Slot)
        /\ (Cardinality(Slot) = Cardinality(B(s)) => Slot = B(s))
    BY <1>1, <1>2, FS_Subset
  <2> HIDE DEF B
  <2> QED
    BY <2>1, <1>1, <1>2, Constants DEF Slot
<1>5. \A s, x \in Slot : rank[s] = rank[x] => s = x
  <2> SUFFICES ASSUME NEW s \in Slot, NEW x \in Slot, s # x PROVE rank[s] # rank[x]
    OBVIOUS
  <2>1. e(s) < e(x) \/ e(x) < e(s)
    BY <1>1
  <2> HIDE DEF B
  <2> QED
    BY <2>1, <1>3, <1>2
<1>6. rank \in Surjection(Slot, Slot)
  <2>1. rank \in Injection(Slot, Slot)
    BY <1>4, <1>5 DEF Injection, IsInjective
  <2> QED
    BY <2>1, <1>1, FS_Injection
<1>7. PICK s \in Slot : rank[s] = i
  BY <1>6 DEF Surjection
<1>8. s \in Slot /\ Cardinality({x \in Slot : leaf[l].ent[x] < leaf[l].ent[s]}) = i
  BY <1>7 DEF e
<1> QED
  BY <1>8 DEF SortedPos

\* A new entry leaves a leaf without a key twice, if the key was not there.
LEMMA WithEntryType ==
  ASSUME NEW m, m \subseteq Slot, m # Slot,
         NEW ent \in [Slot -> Key \cup {NoKey}], NEW k \in Key,
         \A s \in m : ent[s] \in Key /\ ent[s] # k,
         \A s, x \in m : ent[s] = ent[x] => s = x
  PROVE  LET e == WithEntry(m, ent, k) IN
         /\ e.bitmap \subseteq Slot /\ e.ent \in [Slot -> Key \cup {NoKey}]
         /\ \A s \in e.bitmap : e.ent[s] \in Key
         /\ \A s, x \in e.bitmap : e.ent[s] = e.ent[x] => s = x
<1> DEFINE slot == FirstEmpty(m)
           to == IF slot \in Line0 THEN {}
                 ELSE {s \in (slot + 1)..LastInLine[slot] : s \notin m}
           from(s) == Cardinality({x \in to : x < s})
           map == (m \cup {slot} \cup to) \ {from(s) : s \in to}
           en(s) == IF s = slot THEN k ELSE IF s \in to THEN ent[from(s)] ELSE ent[s]
<1>1. /\ slot \in Slot /\ slot \notin m /\ slot \in Nat
      /\ \A x \in Slot : x < slot => x \in m
  <2>1. slot \in Slot \ m /\ \A x \in Slot : x < slot => x \in m
    BY FirstEmptyType
  <2>2. Slot \subseteq Nat
    BY Constants DEF Slot
  <2> HIDE DEF slot
  <2> QED
    BY <2>1, <2>2
<1>2. WithEntry(m, ent, k) = [bitmap |-> map, ent |-> [s \in Slot |-> en(s)]]
  BY DEF WithEntry
<1> HIDE DEF slot
<1>3. /\ IsFiniteSet(to) /\ to \subseteq Slot /\ to \subseteq Nat
      /\ \A s \in to : s \notin m /\ s # slot
      /\ to # {} => Cardinality(to) <= slot
  <2>1. CASE slot \in Line0
    <3>1. to = {}
      BY <2>1
    <3> QED
      BY <3>1, FS_EmptySet
  <2>2. CASE slot \notin Line0
    <3>1. slot \in DOMAIN LastInLine
      BY <1>1, <2>2 DEF Line0
    <3>2. LastInLine[slot] \in Slot /\ LastInLine[slot] - slot <= slot
      BY <3>1, LbTreeConstants DEF LbTreeConstants
    <3>3. LastInLine[slot] \in Nat /\ LastInLine[slot] < LEAF_KEY_NUM
      BY <3>2, Constants DEF Slot
    <3> DEFINE I == (slot + 1)..LastInLine[slot]
    <3>4. to \subseteq I /\ \A s \in to : s \notin m
      BY <2>2
    <3>5. IsFiniteSet(I) /\ Cardinality(I) =
            IF slot + 1 > LastInLine[slot] THEN 0 ELSE LastInLine[slot] - (slot + 1) + 1
      <4>1. slot + 1 \in Int /\ LastInLine[slot] \in Int
        BY <1>1, <3>3
      <4> QED
        BY <4>1, FS_Interval
    <3>6. \A s \in I : s \in Slot /\ s \in Nat /\ s # slot
      BY <1>1, <3>3, Constants DEF Slot
    <3> HIDE DEF to, I
    <3>7. IsFiniteSet(to) /\ Cardinality(to) <= Cardinality(I)
      BY <3>4, <3>5, FS_Subset
    <3>8. Cardinality(to) \in Nat
      BY <3>7, FS_CardinalityType
    <3>9. Cardinality(to) <= slot
      BY <1>1, <3>2, <3>3, <3>5, <3>7, <3>8
    <3> QED
      BY <3>4, <3>6, <3>7, <3>9
  <2> QED
    BY <2>1, <2>2
<1> HIDE DEF to
<1>4. ASSUME NEW s \in to PROVE from(s) \in Slot /\ from(s) < slot /\ from(s) \in m
  <2>1. from(s) \in Nat /\ from(s) < Cardinality(to)
    BY <1>3, RankType
  <2>2. Cardinality(to) \in Nat /\ Cardinality(to) <= slot
    BY <1>3, FS_CardinalityType
  <2> HIDE DEF from
  <2>3. from(s) < slot
    BY <1>1, <2>1, <2>2
  <2>4. from(s) \in Slot
    BY <1>1, <2>1, <2>3, Constants DEF Slot
  <2> QED
    BY <1>1, <2>3, <2>4
<1>5. \A s, x \in to : from(s) = from(x) => s = x
  <2> SUFFICES ASSUME NEW s \in to, NEW x \in to, s # x PROVE from(s) # from(x)
    OBVIOUS
  <2>1. s \in Nat /\ x \in Nat
    BY <1>3
  <2>2. /\ from(s) \in Nat /\ from(x) \in Nat
        /\ s < x => from(s) < from(x)
        /\ x < s => from(x) < from(s)
    BY <1>3, RankType
  <2> HIDE DEF from
  <2> QED
    BY <2>1, <2>2
<1> HIDE DEF from
<1>6. map \subseteq Slot
  BY <1>1, <1>3
<1>7. [s \in Slot |-> en(s)] \in [Slot -> Key \cup {NoKey}]
  <2> SUFFICES ASSUME NEW s \in Slot PROVE en(s) \in Key \cup {NoKey}
    OBVIOUS
  <2> QED
    BY <1>4
<1>8. ASSUME NEW s \in map
      PROVE  \/ s = slot /\ en(s) = k
             \/ \E x \in m : /\ en(s) = ent[x] /\ s # slot
                             /\ IF s \in to THEN x = from(s)
                                ELSE x = s /\ \A y \in to : from(y) # s
  <2>1. CASE s = slot
    BY <2>1
  <2>2. CASE s # slot /\ s \in to
    BY <2>2, <1>4
  <2>3. CASE s # slot /\ s \notin to
    BY <2>3
  <2> QED
    BY <2>1, <2>2, <2>3
<1> HIDE DEF en, map
<1>9. \A s \in map : en(s) \in Key
  BY <1>8
<1>10. ASSUME NEW s \in map, NEW x \in map, en(s) = en(x) PROVE s = x
  <2>1. CASE s = slot \/ x = slot
    BY <2>1, <1>8, <1>10
  <2>2. CASE s # slot /\ x # slot
    <3>1. PICK a \in m : /\ en(s) = ent[a]
                         /\ IF s \in to THEN a = from(s)
                            ELSE a = s /\ \A y \in to : from(y) # s
      BY <2>2, <1>8
    <3>2. PICK b \in m : /\ en(x) = ent[b]
                         /\ IF x \in to THEN b = from(x)
                            ELSE b = x /\ \A y \in to : from(y) # x
      BY <2>2, <1>8
    <3>3. a = b
      BY <1>10, <3>1, <3>2
    <3> QED
      BY <3>1, <3>2, <3>3, <1>5
  <2> QED
    BY <2>1, <2>2
<1>11. \A s \in map : [x \in Slot |-> en(x)][s] = en(s)
  BY <1>6
<1> DEFINE e == WithEntry(m, ent, k)
<1>12. e.bitmap = map /\ e.ent = [s \in Slot |-> en(s)]
  BY <1>2
<1> HIDE DEF e
<1>13. /\ e.bitmap \subseteq Slot /\ e.ent \in [Slot -> Key \cup {NoKey}]
       /\ \A s \in e.bitmap : e.ent[s] \in Key
       /\ \A s, x \in e.bitmap : e.ent[s] = e.ent[x] => s = x
  BY <1>6, <1>7, <1>9, <1>10, <1>11, <1>12
<1> QED
  BY <1>13 DEF e

-----------------------------------------------------------------------------
(* Sequences.                                                              *)

\* r is s, a sequence over S, with e inserted at i.
Inserted(r, S, s, i, e) ==
  /\ r \in Seq(S) /\ Len(r) = Len(s) + 1
  /\ \A j \in 1..(Len(s) + 1) :
       r[j] = IF j < i THEN s[j] ELSE IF j = i THEN e ELSE s[j - 1]

\* An insertion moves what follows it by one.
LEMMA InsertAtType ==
  ASSUME NEW S, NEW s \in Seq(S), NEW i \in 1..(Len(s) + 1), NEW e \in S
  PROVE  Inserted(InsertAt(s, i, e), S, s, i, e)
<1>1. Len(s) \in Nat /\ \A j \in 1..Len(s) : s[j] \in S
  BY LenProperties
<1> DEFINE a == SubSeq(s, 1, i - 1)
           b == SubSeq(s, i, Len(s))
<1>2. /\ a \in Seq(S) /\ Len(a) = i - 1
      /\ \A j \in 1..(i - 1) : a[j] = s[j]
  BY <1>1, SubSeqProperties
<1>3. /\ b \in Seq(S) /\ Len(b) = Len(s) + 1 - i
      /\ \A j \in 1..(Len(s) + 1 - i) : b[j] = s[i + j - 1]
  BY <1>1, SubSeqProperties
<1>4. <<e>> \in Seq(S) /\ Len(<<e>>) = 1 /\ <<e>>[1] = e
  OBVIOUS
<1> DEFINE ae == a \o <<e>>
<1> HIDE DEF a, b
<1>5. /\ ae \in Seq(S) /\ Len(ae) = i
      /\ \A j \in 1..i : ae[j] = IF j < i THEN s[j] ELSE e
  <2>1. /\ ae \in Seq(S) /\ Len(ae) = Len(a) + 1
        /\ \A j \in 1..(Len(a) + 1) :
             ae[j] = IF j <= Len(a) THEN a[j] ELSE <<e>>[j - Len(a)]
    BY <1>2, <1>4, ConcatProperties
  <2> HIDE DEF ae
  <2> QED
    BY <2>1, <1>2, <1>4
<1> HIDE DEF ae
<1>6. /\ ae \o b \in Seq(S) /\ Len(ae \o b) = Len(ae) + Len(b)
      /\ \A j \in 1..(Len(ae) + Len(b)) :
           (ae \o b)[j] = IF j <= Len(ae) THEN ae[j] ELSE b[j - Len(ae)]
  BY <1>3, <1>5, ConcatProperties
<1>7. InsertAt(s, i, e) = ae \o b
  BY DEF InsertAt, ae, a, b
<1> QED
  BY <1>1, <1>3, <1>5, <1>6, <1>7 DEF Inserted

\* r is s, a sequence over S, without its element at i.
Removed(r, S, s, i) ==
  /\ r \in Seq(S) /\ Len(r) = Len(s) - 1
  /\ \A j \in 1..(Len(s) - 1) : r[j] = IF j < i THEN s[j] ELSE s[j + 1]

\* A removal moves what follows it back by one.
LEMMA RemoveAtType ==
  ASSUME NEW S, NEW s \in Seq(S), NEW i \in 1..Len(s)
  PROVE  Removed(RemoveAt(s, i), S, s, i)
<1>1. Len(s) \in Nat /\ \A j \in 1..Len(s) : s[j] \in S
  BY LenProperties
<1> DEFINE a == SubSeq(s, 1, i - 1)
           b == SubSeq(s, i + 1, Len(s))
<1>2. /\ a \in Seq(S) /\ Len(a) = i - 1
      /\ \A j \in 1..(i - 1) : a[j] = s[j]
  BY <1>1, SubSeqProperties
<1>3. /\ b \in Seq(S) /\ Len(b) = Len(s) - i
      /\ \A j \in 1..(Len(s) - i) : b[j] = s[i + 1 + j - 1]
  BY <1>1, SubSeqProperties
<1> HIDE DEF a, b
<1>6. /\ a \o b \in Seq(S) /\ Len(a \o b) = Len(a) + Len(b)
      /\ \A j \in 1..(Len(a) + Len(b)) :
           (a \o b)[j] = IF j <= Len(a) THEN a[j] ELSE b[j - Len(a)]
  BY <1>2, <1>3, ConcatProperties
<1>7. RemoveAt(s, i) = a \o b
  BY DEF RemoveAt, a, b
<1> DEFINE r == a \o b
<1>8. \A j \in 1..(Len(s) - 1) : r[j] = IF j < i THEN s[j] ELSE s[j + 1]
  <2> SUFFICES ASSUME NEW j \in 1..(Len(s) - 1)
               PROVE  r[j] = IF j < i THEN s[j] ELSE s[j + 1]
    OBVIOUS
  <2>1. r[j] = IF j <= i - 1 THEN a[j] ELSE b[j - (i - 1)]
    BY <1>1, <1>2, <1>3, <1>6
  <2> HIDE DEF r
  <2>2. CASE j < i
    BY <2>1, <2>2, <1>1, <1>2
  <2>3. CASE ~(j < i)
    <3>1. j - (i - 1) \in 1..(Len(s) - i) /\ i + 1 + (j - (i - 1)) - 1 = j + 1
      BY <2>3, <1>1
    <3>2. b[j - (i - 1)] = s[i + 1 + (j - (i - 1)) - 1]
      BY <3>1, <1>3
    <3> QED
      BY <2>1, <2>3, <3>1, <3>2, <1>1
  <2> QED
    BY <2>2, <2>3
<1>9. r \in Seq(S) /\ Len(r) = Len(s) - 1
  BY <1>1, <1>2, <1>3, <1>6
<1> QED
  BY <1>7, <1>8, <1>9 DEF Removed

\* Part of a sequence.
LEMMA PartType ==
  ASSUME NEW S, NEW s \in Seq(S), NEW a \in 1..Len(s), NEW b \in 0..Len(s),
         a <= b + 1
  PROVE  /\ SubSeq(s, a, b) \in Seq(S) /\ Len(SubSeq(s, a, b)) = b - a + 1
         /\ \A i \in 1..(b - a + 1) : SubSeq(s, a, b)[i] = s[a + i - 1]
<1>1. Len(s) \in Nat /\ \A i \in 1..Len(s) : s[i] \in S
  BY LenProperties
<1>2. \A i \in a..b : s[i] \in S
  BY <1>1
<1> QED
  BY <1>1, <1>2, SubSeqProperties

-----------------------------------------------------------------------------
(* What a step of one thread leaves of the others.                         *)

\* Only t takes the step.
OthersStay(t) ==
  \A u \in Thread \ {t} : pc'[u] = pc[u] /\ loc'[u] = loc[u]

\* The node is not written.
Kept(n) == IF n[1] = 0 THEN leaf'[n[2]] = leaf[n[2]] ELSE bnode'[n] = bnode[n]

\* Nobody but t holds n, and n is not a root that has been freed.
Mine(t, n) == Holds(t, n) \/ n \notin used \cup {tree_root} \/ ~IsLocked(n)

\* t writes and frees only what nobody else holds, and holds after its step
\* only such nodes, which it has locked.
OwnStep(t) ==
  /\ OthersStay(t)
  /\ \A n \in Level \X Num : Mine(t, n) \/ Kept(n)
  /\ \A n \in used \ used' : Holds(t, n)
  /\ \A n \in Level \X Num : Holds(t, n)' => n \in used' /\ IsLocked(n)' /\ Mine(t, n)

\* The parts of a path.
LEMMA PathParts ==
  ASSUME NEW path, PathOK(path)
  PROVE  /\ path.rl \in Level /\ path.rl \in Nat
         /\ \A i \in 0..path.rl : path.parray[i] \in Num /\ path.isfull[i] \in BOOLEAN
                                  /\ <<i, path.parray[i]>> \in Level \X Num
         /\ \A i \in 1..path.rl : path.ppos[i] \in Nat
<1>1. path.rl \in Level /\ path.rl \in Nat /\ \A i \in 0..path.rl : i \in Level
  BY Constants DEF PathOK, Level
<1>2. /\ path.parray \in [0..path.rl -> Num]
      /\ path.ppos \in [1..path.rl -> Nat]
      /\ path.isfull \in [0..path.rl -> BOOLEAN]
  BY DEF PathOK
<1> QED
  BY <1>1, <1>2

\* The nodes a thread may hold are nodes.
LEMMA HeldIsNode ==
  ASSUME NEW t \in Thread, TypeOK, ThreadOK(t), NEW n, Holds(t, n)
  PROVE  n \in Level \X Num
<1>1. loc[t].sib \in Num \cup {Null} /\ 0 \in Level
  BY Constants DEF TypeOK, LocalOK
<1>2. CASE pc[t] = "setval"
  BY <1>1, <1>2 DEF Holds, HoldsLeaf, HoldsBnode, ThreadOK, LeafOK, Climbing, Growing,
                    AtLeaf
<1>3. CASE pc[t] \in OnPath \cup Growing
  <2>1. PathOK(loc[t].path)
    BY <1>3 DEF ThreadOK, ClimbOK
  <2>2. \A i \in 0..loc[t].path.rl : At(t, i) \in Level \X Num
    BY <2>1, PathParts DEF At
  <2>3. loc[t].path.rl \in Nat
    BY <2>1, PathParts
  <2>4. <<0, lp(t)>> \in Level \X Num /\ RootOf(t) \in Level \X Num
    BY <2>2, <2>3 DEF lp, At, RootOf
  <2>5. \A m \in LockedFull(loc[t].path) : m \in Level \X Num
    BY <2>2, <2>3 DEF LockedFull, At
  <2>6. \A m \in Lone(t, 1) : m \in Level \X Num
    BY <2>2, <2>3 DEF Lone
  <2>7. pc[t] = "delnode" => \A m \in Lone(t, loc[t].lev) : m \in Level \X Num
    <3> SUFFICES ASSUME pc[t] = "delnode" PROVE \A m \in Lone(t, loc[t].lev) : m \in Level \X Num
      OBVIOUS
    <3>1. loc[t].lev \in Nat
      BY Constants DEF TypeOK, LocalOK
    <3> QED
      BY <2>2, <2>3, <3>1 DEF Lone
  <2>8. pc[t] \in Growing \ {"grow"} => NewRoot(t) \in Level \X Num
    BY DEF ThreadOK, ClimbOK, Growing
  <2>9. pc[t] # "setval" /\ pc[t] # "unlocknew" /\ pc[t] # "shrink" /\ pc[t] # "shrinkroot"
    BY <1>3 DEF OnPath, Growing, Climbing
  <2> QED
    BY <1>1, <2>4, <2>5, <2>6, <2>7, <2>8, <2>9 DEF Holds, HoldsLeaf, HoldsBnode
<1>4. CASE pc[t] = "unlocknew"
  BY <1>4 DEF Holds, HoldsLeaf, HoldsBnode, ThreadOK, ClimbOK, Climbing, Growing,
              AtLeaf
<1>5. CASE pc[t] \in {"shrink", "shrinkroot"}
  BY <1>5 DEF Holds, HoldsLeaf, HoldsBnode, ThreadOK, DeleteOK, Climbing, Growing,
              AtLeaf
<1> QED
  BY <1>2, <1>3, <1>4, <1>5 DEF Holds, HoldsLeaf, HoldsBnode, OnPath, AtLeaf, Climbing,
                                Growing

\* The bnodes of a delete stay its own as long as none of them changes.
LEMMA LoneKept ==
  ASSUME NEW t \in Thread, PathOK(loc[t].path), NEW i \in Nat \ {0},
         loc'[t] = loc[t], \A n \in Lone(t, i) : num(n)' = num(n)
  PROVE  Lone(t, i)' = Lone(t, i)
<1> DEFINE I == i..loc[t].path.rl
           Z(j) == \A m \in i..(j - 1) : num(At(t, m)) = 0
<1>1. loc[t].path.rl \in Nat
  BY PathParts
<1>2. \A j : At(t, j)' = At(t, j)
  BY DEF At
<1>3. Lone(t, i) = {At(t, j) : j \in {h \in I : Z(h)}}
  BY DEF Lone
<1>4. Lone(t, i)' = {At(t, j) : j \in {h \in I : \A m \in i..(h - 1) : num(At(t, m))' = 0}}
  BY <1>2 DEF Lone
<1>5. ASSUME NEW j \in I, Z(j), NEW m \in i..(j - 1) PROVE num(At(t, m))' = num(At(t, m))
  <2>1. m \in I /\ \A x \in i..(m - 1) : x \in i..(j - 1)
    BY <1>1
  <2>2. Z(m)
    BY <1>5, <2>1
  <2> HIDE DEF Z
  <2>3. At(t, m) \in Lone(t, i)
    BY <1>3, <2>1, <2>2
  <2> QED
    BY <2>3, <1>2
<1>6. ASSUME NEW j \in I, \A m \in i..(j - 1) : num(At(t, m))' = 0 PROVE Z(j)
  <2> DEFINE S == {m \in i..(j - 1) : num(At(t, m)) # 0}
  <2> SUFFICES ASSUME S # {} PROVE FALSE
    OBVIOUS
  <2>1. S \subseteq Nat
    BY <1>1
  <2>2. PICK m \in S : \A y \in S : m <= y
    <3> HIDE DEF S
    <3> QED
      BY <2>1, LeastOf
  <2>3. Z(m)
    BY <2>2, <1>1
  <2>4. m \in I
    BY <1>1, <2>2
  <2> HIDE DEF Z
  <2>5. At(t, m) \in Lone(t, i)
    BY <1>3, <2>3, <2>4
  <2>6. num(At(t, m))' = num(At(t, m))
    BY <2>5, <1>2
  <2> QED
    BY <2>2, <2>6, <1>6
<1>7. \A j \in I : Z(j) <=> \A m \in i..(j - 1) : num(At(t, m))' = 0
  BY <1>5, <1>6
<1> HIDE DEF Z, I
<1> QED
  BY <1>3, <1>4, <1>7

\* The nodes of a walk up are bnodes.
LEMMA HeldIsBnode ==
  ASSUME NEW t \in Thread, TypeOK, ThreadOK(t), NEW n, HoldsBnode(t, n),
         pc[t] \notin Growing
  PROVE  n \in (Level \ {0}) \X Num
<1>1. n \in Level \X Num
  BY HeldIsNode DEF Holds
<1>2. CASE pc[t] \in OnPath
  <2>1. loc[t].path.rl \in Nat
    BY <1>2, PathParts DEF ThreadOK, ClimbOK
  <2>2. \A m \in LockedFull(loc[t].path) : m[1] >= 1
    BY <2>1 DEF LockedFull
  <2>3. \A m \in Lone(t, 1) : m[1] >= 1
    BY <2>1 DEF Lone, At
  <2>4. pc[t] = "delnode" => \A m \in Lone(t, loc[t].lev) : m[1] >= 1
    <3> SUFFICES ASSUME pc[t] = "delnode" PROVE \A m \in Lone(t, loc[t].lev) : m[1] >= 1
      OBVIOUS
    <3>1. loc[t].lev \in Nat /\ loc[t].lev >= 1
      BY Constants DEF TypeOK, LocalOK, ThreadOK, DeleteOK
    <3> QED
      BY <2>1, <3>1 DEF Lone, At
  <2>5. n[1] >= 1
    BY <1>2, <2>2, <2>3, <2>4 DEF HoldsBnode, OnPath, Climbing, Growing
  <2> QED
    BY <1>1, <2>5
<1>3. CASE pc[t] \in {"unlocknew", "shrink", "shrinkroot"}
  BY <1>3 DEF HoldsBnode, ThreadOK, ClimbOK, DeleteOK, Climbing, Growing
<1> QED
  BY <1>2, <1>3 DEF HoldsBnode, OnPath, Climbing

\* What a thread holds and knows stays as it is if no node it holds changes.
LEMMA OtherKept ==
  ASSUME TypeOK, NEW u \in Thread, ThreadOK(u), pc'[u] = pc[u], loc'[u] = loc[u],
         \A n \in Level \X Num : Holds(u, n) => Kept(n)
  PROVE  /\ \A n : Holds(u, n)' <=> Holds(u, n)
         /\ ThreadOK(u)'
<1> DEFINE path == loc[u].path
<1>1. \A n : HoldsLeaf(u, n)' <=> HoldsLeaf(u, n)
  BY DEF HoldsLeaf, lp
<1>2. /\ lp(u)' = lp(u) /\ RootOf(u)' = RootOf(u) /\ Here(u)' = Here(u)
      /\ NewRoot(u)' = NewRoot(u) /\ PathOK(path)' = PathOK(path)
      /\ AllFull(path)' = AllFull(path) /\ Carries(u)' = Carries(u)
      /\ LockedFull(path)' = LockedFull(path)
  BY DEF lp, RootOf, At, Here, NewRoot, PathOK, AllFull, Carries, LockedFull
<1>3. ASSUME NEW n, HoldsBnode(u, n), pc[u] \notin Growing
      PROVE  bnode'[n] = bnode[n] /\ num(n)' = num(n)
  <2>1. n \in (Level \ {0}) \X Num
    BY <1>3, HeldIsBnode
  <2>2. bnode'[n] = bnode[n]
    BY <1>3, <2>1 DEF Kept, Holds
  <2> QED
    BY <2>2 DEF num
<1>4. pc[u] \in AtLeaf => leaf'[lp(u)] = leaf[lp(u)]
  <2> SUFFICES ASSUME pc[u] \in AtLeaf PROVE leaf'[lp(u)] = leaf[lp(u)]
    OBVIOUS
  <2>1. lp(u) \in Num
    <3>1. PathOK(loc[u].path)
      BY DEF AtLeaf, ThreadOK, ClimbOK, OnPath, Climbing
    <3>2. loc[u].path.rl \in Nat /\ \A i \in 0..loc[u].path.rl : loc[u].path.parray[i] \in Num
      BY <3>1, PathParts
    <3> QED
      BY <3>2 DEF lp
  <2>2. Holds(u, <<0, lp(u)>>)
    BY DEF Holds, HoldsLeaf
  <2> QED
    BY <2>1, <2>2, Constants DEF Kept
<1>5. pc[u] = "delleaf" => (LastKey(u)' <=> LastKey(u)) /\ (LastKey(u) => Lone(u, 1)' = Lone(u, 1))
  <2> SUFFICES ASSUME pc[u] = "delleaf"
               PROVE  (LastKey(u)' <=> LastKey(u)) /\ (LastKey(u) => Lone(u, 1)' = Lone(u, 1))
    OBVIOUS
  <2>1. LastKey(u)' <=> LastKey(u)
    BY <1>2, <1>4 DEF LastKey, AtLeaf
  <2>2. PathOK(path)
    BY DEF ThreadOK, ClimbOK, OnPath
  <2>3. LastKey(u) => \A n \in Lone(u, 1) : num(n)' = num(n)
    BY <1>3 DEF HoldsBnode, Growing
  <2> QED
    BY <2>1, <2>2, <2>3, LoneKept
<1>6. pc[u] = "delnode" => Lone(u, loc[u].lev)' = Lone(u, loc[u].lev)
  <2> SUFFICES ASSUME pc[u] = "delnode" PROVE Lone(u, loc[u].lev)' = Lone(u, loc[u].lev)
    OBVIOUS
  <2>1. loc[u].lev \in Nat \ {0}
    BY Constants DEF TypeOK, LocalOK, ThreadOK, DeleteOK
  <2>2. PathOK(path)
    BY DEF ThreadOK, ClimbOK, OnPath
  <2>3. \A n \in Lone(u, loc[u].lev) : num(n)' = num(n)
    BY <1>3 DEF HoldsBnode, Growing
  <2>4. PICK i : i = loc[u].lev
    OBVIOUS
  <2>5. Lone(u, i)' = Lone(u, i)
    BY <2>1, <2>2, <2>3, <2>4, LoneKept
  <2>6. loc'[u].lev = i
    BY <2>4
  <2>7. Lone(u, loc[u].lev)' = Lone(u, i)'
    BY <2>6, Zenon DEF Lone
  <2> QED
    BY <2>4, <2>5, <2>7
<1>7. \A n : HoldsBnode(u, n)' <=> HoldsBnode(u, n)
  BY <1>2, <1>5, <1>6 DEF HoldsBnode
<1>8. ClimbOK(u)'
  <2>1. ClimbOK(u)
    BY DEF ThreadOK
  <2>2. pc[u] \in Climbing => \A n \in Level \X Num : HoldsBnode(u, n)' =>
       /\ path.isfull[n[1]] <=> num(n)' = NON_LEAF_KEY_NUM
       /\ path.ppos[n[1]] <= num(n)'
    <3> SUFFICES ASSUME pc[u] \in Climbing, NEW n \in Level \X Num, HoldsBnode(u, n)
                 PROVE  /\ path.isfull[n[1]] <=> num(n)' = NON_LEAF_KEY_NUM
                        /\ path.ppos[n[1]] <= num(n)'
      BY <1>7
    <3>1. num(n)' = num(n)
      BY <1>3 DEF Climbing, Growing
    <3> QED
      BY <2>1, <3>1 DEF ClimbOK
  <2>3. PathOK(path)' = PathOK(path) /\ NON_LEAF_KEY_NUM' = NON_LEAF_KEY_NUM
    BY <1>2
  <2>4. pc[u] = "growlevel" => num(NewRoot(u))' = 1
    <3> SUFFICES ASSUME pc[u] = "growlevel" PROVE num(NewRoot(u))' = 1
      OBVIOUS
    <3>1. PICK n : n = NewRoot(u)
      OBVIOUS
    <3>2. HoldsBnode(u, n) /\ num(n) = 1
      BY <2>1, <3>1 DEF HoldsBnode, Growing, ClimbOK
    <3>3. n \in (Level \ {0}) \X Num
      BY <2>1, <3>1 DEF ClimbOK
    <3>4. n[1] # 0 /\ n \in Level \X Num
      BY <3>3
    <3>5. num(n)' = num(n)
      BY <3>2, <3>4 DEF Holds, Kept, num
    <3>6. NewRoot(u)' = n
      BY <1>2, <3>1 DEF NewRoot
    <3>7. num(NewRoot(u))' = num(n)'
      BY <3>6, Zenon DEF num
    <3> QED
      BY <3>2, <3>5, <3>7
  <2> QED
    BY <2>1, <2>2, <2>3, <2>4, <1>2 DEF ClimbOK
<1>9. DeleteOK(u)'
  <2>1. DeleteOK(u)
    BY DEF ThreadOK
  <2>2. pc[u] \in {"delleaf", "delnode"} => \A n \in Level \X Num :
       HoldsBnode(u, n)' =>
         /\ path.ppos[n[1]] <= num(n)'
         /\ Child(n, path.ppos[n[1]])' = path.parray[n[1] - 1]
    <3> SUFFICES ASSUME pc[u] \in {"delleaf", "delnode"}, NEW n \in Level \X Num,
                        HoldsBnode(u, n)
                 PROVE  /\ path.ppos[n[1]] <= num(n)'
                        /\ Child(n, path.ppos[n[1]])' = path.parray[n[1] - 1]
      BY <1>7
    <3>1. num(n)' = num(n) /\ bnode'[n] = bnode[n]
      BY <1>3 DEF Growing
    <3>2. Child(n, path.ppos[n[1]])' = Child(n, path.ppos[n[1]])
      BY <3>1 DEF Child
    <3> QED
      BY <2>1, <3>1, <3>2 DEF DeleteOK
  <2>3. pc[u] = "delleaf" => leaf'[lp(u)].bitmap = leaf[lp(u)].bitmap
    BY <1>4 DEF AtLeaf
  <2>4. pc[u] \in {"shrink", "shrinkroot"} => num(Here(u))' = num(Here(u))
    BY <1>3, <1>2 DEF HoldsBnode, Growing, num
  <2> QED
    BY <2>1, <2>2, <2>3, <2>4, <1>2 DEF DeleteOK
<1>10. LeafOK(u)'
  <2>1. pc[u] \in AtLeaf => (keys(lp(u))' = keys(lp(u)) /\ isFull(lp(u))' = isFull(lp(u)))
    BY <1>2, <1>4 DEF keys, isFull
  <2>2. pc[u] \in AtLeaf => leaf'[lp(u)].ent = leaf[lp(u)].ent
    BY <1>4
  <2> QED
    BY <2>1, <2>2, <1>2 DEF ThreadOK, LeafOK, AtLeaf
<1> QED
  BY <1>1, <1>7, <1>8, <1>9, <1>10 DEF Holds, ThreadOK

\* Such a step leaves everybody else with the locks they had, and knowing what
\* they knew.
LEMMA StepLocks ==
  ASSUME TypeOK, LocksOK, \A u \in Thread : ThreadOK(u), NEW t \in Thread, OwnStep(t)
  PROVE  /\ LocksOK'
         /\ \A u \in Thread \ {t} :
              ThreadOK(u)' /\ \A n : Holds(u, n)' <=> Holds(u, n)
<1>1. ASSUME NEW u \in Thread \ {t}, NEW n \in Level \X Num, Holds(u, n)
      PROVE  /\ ~Mine(t, n) /\ Kept(n) /\ n \in used /\ n \in used'
             /\ IsLocked(n) /\ IsLocked(n)'
  <2>1. n \in used /\ IsLocked(n) /\ ~Holds(t, n)
    BY <1>1 DEF LocksOK
  <2>2. ~Mine(t, n) /\ Kept(n) /\ n \in used'
    BY <2>1 DEF OwnStep, Mine
  <2>3. IsLocked(n)'
    BY <2>1, <2>2 DEF IsLocked, Kept
  <2> QED
    BY <2>1, <2>2, <2>3
<1>2. ASSUME NEW u \in Thread \ {t}
      PROVE  ThreadOK(u)' /\ \A n : Holds(u, n)' <=> Holds(u, n)
  <2>1. pc'[u] = pc[u] /\ loc'[u] = loc[u] /\ ThreadOK(u) /\ u \in Thread
    BY DEF OwnStep, OthersStay
  <2>2. \A n \in Level \X Num : Holds(u, n) => Kept(n)
    BY <1>1
  <2> QED
    BY <2>1, <2>2, OtherKept
<1>3. ASSUME NEW u \in Thread, NEW n \in Level \X Num, Holds(u, n)'
      PROVE  n \in used' /\ IsLocked(n)' /\ (u # t => Holds(u, n))
  <2>1. CASE u = t
    BY <2>1, <1>3 DEF OwnStep
  <2>2. CASE u # t
    BY <2>2, <1>1, <1>2, <1>3
  <2> QED
    BY <2>1, <2>2
<1>4. ASSUME NEW u \in Thread, NEW v \in Thread, NEW n \in Level \X Num,
             Holds(u, n)', Holds(v, n)', u # v
      PROVE  FALSE
  <2>1. CASE u = t
    <3>1. Holds(v, n) /\ v \in Thread \ {t}
      BY <2>1, <1>3, <1>4
    <3>2. Mine(t, n)
      BY <2>1, <1>4 DEF OwnStep
    <3> QED
      BY <3>1, <3>2, <1>1
  <2>2. CASE v = t
    <3>1. Holds(u, n) /\ u \in Thread \ {t}
      BY <2>2, <1>3, <1>4
    <3>2. Mine(t, n)
      BY <2>2, <1>4 DEF OwnStep
    <3> QED
      BY <3>1, <3>2, <1>1
  <2>3. CASE u # t /\ v # t
    BY <2>3, <1>3, <1>4 DEF LocksOK
  <2> QED
    BY <2>1, <2>2, <2>3
<1>5. LocksOK'
  BY <1>3, <1>4 DEF LocksOK
<1> QED
  BY <1>2, <1>5

\* A thread that does not hold tree_root is not about to change it.
AwayFromRoot(u) ==
  /\ pc[u] \notin Growing \cup {"unlocknew", "shrink", "shrinkroot"}
  /\ pc[u] \in OnPath => ~Holds(u, RootOf(u))

\* To change the root one must hold it.
LEMMA NotAtRoot ==
  ASSUME NEW u \in Thread, RootSeen(u), ~Holds(u, tree_root)
  PROVE  AwayFromRoot(u)
<1>1. pc[u] \in OnPath => ~Holds(u, RootOf(u))
  BY DEF RootSeen
<1>2. pc[u] \notin {"grow", "growroot"}
  BY DEF RootSeen, Holds, HoldsBnode, Growing
<1>3. pc[u] \notin {"growlevel", "unlockold", "unlocknew"}
  BY DEF RootSeen, Holds, HoldsBnode, Growing
<1>4. pc[u] \notin {"shrink", "shrinkroot"}
  BY DEF RootSeen, Holds, HoldsBnode
<1> QED
  BY <1>1, <1>2, <1>3, <1>4 DEF AwayFromRoot, Growing

\* As long as it does not move.
LEMMA AwayStays ==
  ASSUME NEW u, AwayFromRoot(u), pc'[u] = pc[u], loc'[u] = loc[u],
         \A n : Holds(u, n)' <=> Holds(u, n)
  PROVE  RootSeen(u)'
<1>1. RootOf(u)' = RootOf(u)
  BY DEF RootOf, At
<1> QED
  BY <1>1 DEF AwayFromRoot, RootSeen, Growing

\* As long as the root does not move.
LEMMA RootStays ==
  ASSUME NEW u, RootSeen(u), pc'[u] = pc[u], loc'[u] = loc[u],
         \A n : Holds(u, n)' <=> Holds(u, n),
         UNCHANGED <<tree_root, root_level>>
  PROVE  RootSeen(u)'
<1>1. RootOf(u)' = RootOf(u) /\ Here(u)' = Here(u) /\ NewRoot(u)' = NewRoot(u)
  BY DEF RootOf, At, Here, NewRoot
<1> QED
  BY <1>1 DEF RootSeen

\* A step that does not move the root.
LEMMA RootStep ==
  ASSUME TypeOK, LocksOK, RootOK, \A u \in Thread : ThreadOK(u),
         NEW t \in Thread, OwnStep(t), UNCHANGED <<tree_root, root_level>>,
         RootSeen(t)', IsLocked(tree_root)' \/ tree_root \in used',
         pc[t] \in {"growroot", "growlevel", "shrinkroot"} => pc'[t] = pc[t]
  PROVE  RootOK'
<1>1. \A u \in Thread : RootSeen(u)'
  <2> SUFFICES ASSUME NEW u \in Thread \ {t} PROVE RootSeen(u)'
    OBVIOUS
  <2>1. pc'[u] = pc[u] /\ loc'[u] = loc[u] /\ \A n : Holds(u, n)' <=> Holds(u, n)
    BY StepLocks DEF OwnStep, OthersStay
  <2>2. RootSeen(u)
    BY DEF RootOK
  <2> QED
    BY <2>1, <2>2, RootStays
<1>2. \/ tree_root'[1] = root_level'
      \/ \E u \in Thread : pc'[u] \in {"growroot", "growlevel", "shrinkroot"}
  <2>1. CASE tree_root[1] = root_level
    BY <2>1
  <2>2. CASE \E u \in Thread : pc[u] \in {"growroot", "growlevel", "shrinkroot"}
    <3>1. PICK u \in Thread : pc[u] \in {"growroot", "growlevel", "shrinkroot"}
      BY <2>2
    <3>2. pc'[u] = pc[u]
      BY <3>1 DEF OwnStep, OthersStay
    <3> QED
      BY <3>1, <3>2
  <2> QED
    BY <2>1, <2>2 DEF RootOK
<1>3. IsLocked(tree_root)' \/ tree_root' \in used'
  OBVIOUS
<1> QED
  BY <1>1, <1>2, <1>3 DEF RootOK

-----------------------------------------------------------------------------
(* The way down.                                                           *)

\* What hangs below an unlocked bnode counts.
LEMMA DanglesHeld ==
  ASSUME TypeOK, NEW t \in Thread, ThreadOK(t), NEW m, NEW p, Dangles(t, m, p)
  PROVE  HoldsBnode(t, m) /\ m \in Level \X Num
<1>1. loc[t].lev \in Nat /\ loc[t].lev >= 1 /\ PathOK(loc[t].path)
  BY Constants DEF TypeOK, LocalOK, ThreadOK, DeleteOK, ClimbOK, OnPath, Dangles
<1>2. loc[t].path.rl \in Nat
  BY <1>1, PathParts
<1>3. m \in Lone(t, loc[t].lev)
  <2>1. loc[t].lev \in loc[t].lev..loc[t].path.rl
    BY <1>1, <1>2 DEF Dangles
  <2>2. \A x \in (loc[t].lev)..(loc[t].lev - 1) : num(At(t, x)) = 0
    BY <1>1
  <2>3. m = At(t, loc[t].lev)
    BY DEF Dangles, Here, At
  <2> QED
    BY <2>1, <2>2, <2>3 DEF Lone
<1>4. HoldsBnode(t, m)
  BY <1>3 DEF HoldsBnode, Dangles
<1> QED
  BY <1>4, HeldIsNode DEF Holds

\* The types of a bnode's parts.
LEMMA BnodeParts ==
  ASSUME TypeOK, NEW n \in (Level \ {0}) \X Num
  PROVE  /\ bnode[n].k \in Seq(Key) /\ bnode[n].ch \in Seq(Num)
         /\ bnode[n].lock \in BOOLEAN
         /\ num(n) = Len(bnode[n].k) /\ num(n) \in Nat /\ num(n) <= NON_LEAF_KEY_NUM
         /\ Len(bnode[n].ch) = num(n) + 1
         /\ \A p \in 0..num(n) : Child(n, p) \in Num
<1>1. /\ bnode \in [(Level \ {0}) \X Num -> Bnode]
      /\ Len(bnode[n].ch) = Len(bnode[n].k) + 1
      /\ Len(bnode[n].k) <= NON_LEAF_KEY_NUM
  BY DEF TypeOK, Bnodes
<1>2. bnode[n] \in Bnode
  BY <1>1
<1>3. bnode[n].k \in Seq(Key) /\ bnode[n].ch \in Seq(Num) /\ bnode[n].lock \in BOOLEAN
  BY <1>2 DEF Bnode
<1>4. Len(bnode[n].k) \in Nat
  BY <1>3, LenProperties
<1>5. ASSUME NEW p \in 0..num(n) PROVE Child(n, p) \in Num
  <2>1. p + 1 \in 1..Len(bnode[n].ch)
    BY <1>1, <1>4 DEF num
  <2> QED
    BY <1>3, <2>1, ElementOfSeq DEF Child
<1> QED
  BY <1>1, <1>3, <1>4, <1>5 DEF num

\* A search in a bnode takes one of its children.
LEMMA ChildPosType ==
  ASSUME TypeOK, NEW n \in (Level \ {0}) \X Num, NEW key
  PROVE  ChildPos(n, key) \in 0..num(n)
<1> DEFINE B == {b \in 1..num(n) : bnode[n].k[b] <= key}
<1>1. num(n) \in Nat
  BY BnodeParts
<1>2. IsFiniteSet(1..num(n)) /\ Cardinality(1..num(n)) = num(n)
  BY <1>1, FS_Interval
<1>3. IsFiniteSet(B) /\ Cardinality(B) <= num(n) /\ Cardinality(B) \in Nat
  BY <1>2, FS_Subset, FS_CardinalityType
<1> QED
  BY <1>1, <1>3 DEF ChildPos

\* What hangs below an unlocked bnode in use is in use, and linked.
Reached(n) ==
  /\ n \in used
  /\ \A t \in Thread : Carries(t) => Carried(t) # n

\* So does what hangs below it.
LEMMA BelowReached ==
  ASSUME TypeOK, LocksOK, ChildUsed, \A u \in Thread : ThreadOK(u),
         NEW n \in used, n[1] >= 1, ~bnode[n].lock, NEW p \in 0..num(n)
  PROVE  Reached(Below(n, p))
<1>1. n \in Inner /\ n \in Level \X Num
  BY DEF Inner, TypeOK
<1>2. ASSUME NEW t \in Thread, Dangles(t, n, p) PROVE FALSE
  <2>1. Holds(t, n)
    BY <1>2, DanglesHeld DEF Holds
  <2> QED
    BY <1>1, <2>1 DEF LocksOK, IsLocked
<1>3. p \in Live(n)
  BY <1>2 DEF Live
<1> QED
  BY <1>1, <1>3 DEF ChildUsed, Reached

\* A transaction that ends at an unlocked leaf has come down through unlocked
\* nodes in use, while nobody was about to move the root.
LEMMA DescentFinds ==
  ASSUME LbInv, NEW key \in Key, NEW p \in Descents(key), ~leaf[p[0]].lock
  PROVE  /\ root_level \in Nat /\ tree_root = <<root_level, p[root_level]>>
         /\ p \in [0..root_level -> Num]
         /\ \A i \in 0..root_level :
              /\ <<i, p[i]>> \in Level \X Num
              /\ Reached(<<i, p[i]>>) /\ ~IsLocked(<<i, p[i]>>)
         /\ \A i \in 1..root_level :
              /\ ~bnode[<<i, p[i]>>].lock
              /\ ChildPos(<<i, p[i]>>, key) \in 0..num(<<i, p[i]>>)
              /\ p[i - 1] = Child(<<i, p[i]>>, ChildPos(<<i, p[i]>>, key))
         /\ \A u \in Thread : AwayFromRoot(u)
<1> DEFINE at(i) == <<i, p[i]>>
<1>1. /\ root_level \in Nat /\ 0..root_level \subseteq Level
      /\ p \in [0..root_level -> Num] /\ IsDescent(p, key)
  BY Constants DEF LbInv, TypeOK, Level, Descents
<1>2. /\ tree_root = at(root_level)
      /\ \A i \in 1..root_level :
           /\ ~bnode[at(i)].lock
           /\ p[i - 1] = Child(at(i), ChildPos(at(i), key))
  BY <1>1 DEF IsDescent
<1>3. ASSUME NEW i \in 0..root_level PROVE at(i) \in Level \X Num /\ ~IsLocked(at(i))
  <2>1. at(i) \in Level \X Num
    BY <1>1
  <2>2. CASE i = 0
    BY <2>1, <2>2 DEF IsLocked
  <2>3. CASE i # 0
    <3>1. i \in 1..root_level
      BY <1>1, <2>3
    <3> QED
      BY <2>1, <2>3, <3>1, <1>2 DEF IsLocked
  <2> QED
    BY <2>2, <2>3
<1>4. \A u \in Thread : AwayFromRoot(u)
  <2> SUFFICES ASSUME NEW u \in Thread PROVE AwayFromRoot(u)
    OBVIOUS
  <2>1. ~IsLocked(tree_root) /\ tree_root \in Level \X Num
    BY <1>1, <1>2, <1>3
  <2>2. ~Holds(u, tree_root) /\ RootSeen(u)
    BY <2>1 DEF LbInv, LocksOK, RootOK
  <2> QED
    BY <2>2, NotAtRoot
<1>5. Reached(at(root_level))
  <2>1. ~IsLocked(tree_root) /\ tree_root \in used
    BY <1>1, <1>2, <1>3 DEF LbInv, RootOK
  <2>2. IsApex(tree_root)
    BY <1>4 DEF IsApex, AwayFromRoot, Growing
  <2>3. \A t \in Thread : Carries(t) => Carried(t) # tree_root
    BY <2>2 DEF LbInv, Forest, CarriedApart
  <2> QED
    BY <2>1, <2>3, <1>2 DEF Reached
<1>6. ASSUME NEW i \in 1..root_level
      PROVE  /\ at(i) \in (Level \ {0}) \X Num
             /\ ChildPos(at(i), key) \in 0..num(at(i))
  <2>1. at(i) \in (Level \ {0}) \X Num
    BY <1>1
  <2> QED
    BY <2>1, ChildPosType DEF LbInv
<1>7. ASSUME NEW i \in 1..root_level, Reached(at(i)) PROVE Reached(at(i - 1))
  <2>1. at(i) \in used /\ at(i)[1] >= 1 /\ ~bnode[at(i)].lock
    BY <1>1, <1>2, <1>7 DEF Reached
  <2> DEFINE pp == ChildPos(at(i), key)
  <2>2. pp \in 0..num(at(i))
    BY <1>6
  <2>3. Reached(Below(at(i), pp))
    <3> HIDE DEF at, pp
    <3> QED
      BY <2>1, <2>2, BelowReached DEF LbInv, Forest
  <2>4. Below(at(i), pp) = at(i - 1)
    BY <1>2 DEF Below
  <2> QED
    BY <2>3, <2>4
<1> DEFINE T == {d \in Nat : d <= root_level /\ ~Reached(at(root_level - d))}
<1>8. T = {}
  <2> SUFFICES ASSUME T # {} PROVE FALSE
    OBVIOUS
  <2>1. PICK d \in T : \A e \in T : d <= e
    BY LeastOf
  <2> HIDE DEF at
  <2>2. d # 0
    BY <1>1, <1>5, <2>1
  <2>3. d - 1 \in Nat /\ ~(d <= d - 1) /\ d - 1 <= root_level
    BY <2>1, <2>2, <1>1
  <2> DEFINE i == root_level - (d - 1)
  <2>4. Reached(at(i)) /\ i \in 1..root_level /\ i - 1 = root_level - d
    BY <2>1, <2>2, <2>3, <1>1
  <2>5. Reached(at(i - 1))
    BY <2>4, <1>7
  <2> QED
    BY <2>1, <2>4, <2>5
<1>9. ASSUME NEW i \in 0..root_level PROVE Reached(at(i))
  <2>1. root_level - i \in Nat /\ root_level - i <= root_level
        /\ root_level - (root_level - i) = i
    BY <1>1
  <2> HIDE DEF at
  <2> QED
    BY <2>1, <1>8
<1> QED
  BY <1>1, <1>2, <1>3, <1>4, <1>6, <1>9

\* The path it records.
LEMMA PathTakenType ==
  ASSUME LbInv, NEW key \in Key, NEW p \in Descents(key), ~leaf[p[0]].lock
  PROVE  LET path == PathTaken(p, key) IN
         /\ PathOK(path) /\ path.rl = root_level /\ path.parray = p
         /\ \A i \in 1..root_level :
              /\ path.ppos[i] = ChildPos(<<i, p[i]>>, key)
              /\ path.isfull[i] <=> num(<<i, p[i]>>) = NON_LEAF_KEY_NUM
         /\ path.isfull[0] <=> isFull(p[0])
<1> DEFINE path == PathTaken(p, key)
           full(i) == IF i = 0 THEN isFull(p[0]) ELSE num(<<i, p[i]>>) = NON_LEAF_KEY_NUM
<1>1. /\ root_level \in Nat /\ p \in [0..root_level -> Num]
      /\ \A i \in 1..root_level : ChildPos(<<i, p[i]>>, key) \in 0..num(<<i, p[i]>>)
      /\ \A i \in 0..root_level : <<i, p[i]>> \in Level \X Num
  BY DescentFinds
<1>2. \A i \in 1..root_level : ChildPos(<<i, p[i]>>, key) \in Nat
  <2> SUFFICES ASSUME NEW i \in 1..root_level PROVE ChildPos(<<i, p[i]>>, key) \in Nat
    OBVIOUS
  <2>1. <<i, p[i]>> \in (Level \ {0}) \X Num
    BY <1>1
  <2>2. num(<<i, p[i]>>) \in Nat
    BY <2>1, BnodeParts DEF LbInv
  <2> QED
    BY <1>1, <2>2
<1>3. path = [parray |-> p, rl |-> root_level,
              ppos   |-> [i \in 1..root_level |-> ChildPos(<<i, p[i]>>, key)],
              isfull |-> [i \in 0..root_level |-> full(i)]]
  BY DEF PathTaken
<1>4. [i \in 1..root_level |-> ChildPos(<<i, p[i]>>, key)] \in [1..root_level -> Nat]
  BY <1>2
<1>5. \A i \in 0..root_level : full(i) \in BOOLEAN
  BY DEF isFull
<1>6. [i \in 0..root_level |-> full(i)] \in [0..root_level -> BOOLEAN]
  BY <1>5
<1> HIDE DEF full
<1>7. root_level \in Level
  BY DEF LbInv, TypeOK
<1>8. PathOK(path)
  <2> HIDE DEF path
  <2> QED
    BY <1>1, <1>3, <1>4, <1>6, <1>7 DEF PathOK
<1>9. path.rl = root_level /\ path.parray = p
  BY DEF PathTaken
<1>10. \A i \in 1..root_level :
              /\ path.ppos[i] = ChildPos(<<i, p[i]>>, key)
              /\ path.isfull[i] <=> num(<<i, p[i]>>) = NON_LEAF_KEY_NUM
  <2> SUFFICES ASSUME NEW i \in 1..root_level
               PROVE  /\ path.ppos[i] = ChildPos(<<i, p[i]>>, key)
                      /\ path.isfull[i] <=> num(<<i, p[i]>>) = NON_LEAF_KEY_NUM
    OBVIOUS
  <2>1. path.ppos[i] = ChildPos(<<i, p[i]>>, key)
    BY DEF PathTaken
  <2>2. i # 0 /\ i \in 0..root_level
    BY <1>1
  <2>3. path.isfull[i] = full(i)
    BY <2>2, <1>3
  <2>4. full(i) <=> num(<<i, p[i]>>) = NON_LEAF_KEY_NUM
    BY <2>2 DEF full
  <2> QED
    BY <2>1, <2>3, <2>4
<1>11. path.isfull[0] <=> isFull(p[0])
  <2>1. path.isfull[0] = full(0)
    BY <1>1, <1>3
  <2> QED
    BY <2>1 DEF full
<1> QED
  BY <1>8, <1>9, <1>10, <1>11

-----------------------------------------------------------------------------
(* Steps that leave the tree as it is.                                     *)

\* What the forest is told of the other threads.
LEMMA OthersForest ==
  ASSUME NEW t \in Thread, OthersStay(t), NEW u \in Thread \ {t}
  PROVE  /\ Carries(u)' <=> Carries(u)
         /\ Carried(u)' = Carried(u)
         /\ NewRoot(u)' = NewRoot(u)
         /\ \A m, p : Dangles(u, m, p)' <=> Dangles(u, m, p)
<1>1. pc'[u] = pc[u] /\ loc'[u] = loc[u]
  BY DEF OthersStay
<1>2. Here(u)' = Here(u) /\ pos(u)' = pos(u)
  BY <1>1 DEF Here, pos
<1> QED
  BY <1>1, <1>2 DEF Carries, Carried, NewRoot, Dangles

\* The top of the tree stays where it is.
LEMMA ApexSame ==
  ASSUME NEW t \in Thread, OthersStay(t), tree_root' = tree_root,
         pc[t] # "growroot", pc'[t] # "growroot", NEW n
  PROVE  IsApex(n)' <=> IsApex(n)
<1>1. \A u \in Thread : (pc'[u] = "growroot") <=> (pc[u] = "growroot")
  BY DEF OthersStay
<1>2. \A u \in Thread \ {t} : NewRoot(u)' = NewRoot(u)
  BY OthersForest
<1>3. (\E u \in Thread : pc'[u] = "growroot" /\ n = NewRoot(u)')
        <=> (\E u \in Thread : pc[u] = "growroot" /\ n = NewRoot(u))
  BY <1>1, <1>2
<1> QED
  BY <1>1, <1>3 DEF IsApex

\* Locks taken on the way down, and stores that move no pointer, leave the tree
\* as it is.
LEMMA ForestSame ==
  ASSUME LbInv, NEW t \in Thread, OwnStep(t), used' = used,
         \A m \in Inner : bnode'[m].k = bnode[m].k /\ bnode'[m].ch = bnode[m].ch,
         \A n : IsApex(n)' <=> IsApex(n),
         Carries(t)' <=> Carries(t), Carries(t) => Carried(t)' = Carried(t),
         \A m, p : Dangles(t, m, p)' <=> Dangles(t, m, p),
         pc'[t] # "growlevel",
         \A n : Holds(t, n)' =>
                  Holds(t, n) \/ (Reached(n) /\ \A u \in Thread : AwayFromRoot(u))
  PROVE  Forest'
<1>1. Inner' = Inner
  BY DEF Inner
<1>2. /\ \A u \in Thread : (Carries(u)' <=> Carries(u))
                           /\ (Carries(u) => Carried(u)' = Carried(u))
      /\ \A u \in Thread : \A m, p : Dangles(u, m, p)' <=> Dangles(u, m, p)
      /\ \A u \in Thread \ {t} : pc'[u] = pc[u] /\ NewRoot(u)' = NewRoot(u)
  BY OthersForest DEF OwnStep, OthersStay
<1>3. ASSUME NEW m \in Inner
      PROVE  num(m)' = num(m) /\ Live(m)' = Live(m) /\ \A p : Below(m, p)' = Below(m, p)
  <2>1. num(m)' = num(m)
    BY DEF num
  <2>2. \A p : Child(m, p)' = Child(m, p)
    BY DEF Child
  <2> QED
    BY <2>1, <2>2, <1>2 DEF Live, Below
<1>4. Forest /\ TypeOK /\ LocksOK /\ \A u \in Thread : ThreadOK(u)
  BY DEF LbInv
<1>5. ChildUsed'
  <2> SUFFICES ASSUME NEW m \in Inner, NEW p \in Live(m)
               PROVE  /\ Below(m, p)' \in used /\ ~IsApex(Below(m, p))'
                      /\ \A u \in Thread : Carries(u)' => Below(m, p)' # Carried(u)'
    BY <1>1, <1>3 DEF ChildUsed
  <2>1. PICK n : n = Below(m, p)
    OBVIOUS
  <2>2. Below(m, p)' = n
    BY <1>3, <2>1
  <2>3. IsApex(Below(m, p))' <=> IsApex(n)'
    BY <2>2 DEF IsApex
  <2> QED
    BY <2>1, <2>2, <2>3, <1>2, <1>4 DEF Forest, ChildUsed
<1>6. OneParent'
  BY <1>1, <1>3, <1>4 DEF Forest, OneParent
<1>7. HasParent'
  <2> SUFFICES ASSUME NEW n \in used
               PROVE  \/ IsApex(n)'
                      \/ \E u \in Thread : Carries(u)' /\ n = Carried(u)'
                      \/ \E m \in Inner : \E p \in Live(m) : Below(m, p)' = n
    BY <1>1, <1>3 DEF HasParent
  <2> QED
    BY <1>2, <1>3, <1>4 DEF Forest, HasParent
<1>8. TopOnly'
  <2> SUFFICES ASSUME NEW a \in Level \X Num, IsApex(a)', NEW n \in used
               PROVE  /\ n[1] <= a[1]
                      /\ n[1] = a[1] => \/ n = a
                                        \/ \E u \in Thread : Carries(u)' /\ n = Carried(u)'
    BY DEF TopOnly
  <2> QED
    BY <1>2, <1>4 DEF Forest, TopOnly
<1>9. ASSUME NEW u \in Thread, NEW n, Holds(u, n)'
      PROVE  \/ Holds(u, n)
             \/ Reached(n) /\ \A v \in Thread : AwayFromRoot(v)
  BY <1>4, <1>9, StepLocks
<1>10. CarriedApart'
  <2>1. ASSUME NEW u \in Thread, Carries(u)'
        PROVE  /\ Carried(u)' \in used' /\ ~IsApex(Carried(u))'
               /\ \A v \in Thread : /\ ~Holds(v, Carried(u))'
                                    /\ v # u /\ Carries(v)' => Carried(v)' # Carried(u)'
    <3>1. Carries(u)
      BY <1>2, <2>1
    <3>2. PICK n : n = Carried(u)
      OBVIOUS
    <3>3. Carried(u)' = n
      BY <1>2, <3>1, <3>2
    <3>4. n \in used /\ ~IsApex(n)
      BY <3>1, <3>2, <1>4 DEF Forest, CarriedApart
    <3>5. IsApex(Carried(u))' <=> IsApex(n)'
      BY <3>3 DEF IsApex
    <3>6. ASSUME NEW v \in Thread
          PROVE  /\ ~Holds(v, n)'
                 /\ v # u /\ Carries(v)' => Carried(v)' # n
      <4>1. ~Holds(v, n)
        BY <3>1, <3>2, <1>4 DEF Forest, CarriedApart
      <4>2. ~Reached(n)
        BY <3>1, <3>2 DEF Reached
      <4>3. ~Holds(v, n)'
        BY <4>1, <4>2, <1>9
      <4>4. v # u /\ Carries(v) => Carried(v) # n
        BY <3>1, <3>2, <1>4 DEF Forest, CarriedApart
      <4> QED
        BY <4>3, <4>4, <1>2
    <3>7. ASSUME NEW v \in Thread PROVE Holds(v, Carried(u))' <=> Holds(v, n)'
      BY <3>3, ZenonT(40) DEF Holds, HoldsLeaf, HoldsBnode
    <3> QED
      BY <3>3, <3>4, <3>5, <3>6, <3>7
  <2>2. ASSUME NEW u \in Thread, pc'[u] = "growlevel", NEW v \in Thread
        PROVE  ~Holds(v, Below(NewRoot(u), 1))'
    <3>1. u # t /\ pc[u] = "growlevel" /\ NewRoot(u)' = NewRoot(u)
      BY <1>2, <2>2
    <3>2. NewRoot(u) \in (Level \ {0}) \X Num /\ Holds(u, NewRoot(u))
      BY <3>1, <1>4 DEF ThreadOK, ClimbOK, Growing, Holds, HoldsBnode
    <3>3. NewRoot(u) \in Inner
      <4>1. NewRoot(u) \in used
        BY <3>2, <1>4 DEF LocksOK
      <4> QED
        BY <3>2, <4>1, Constants DEF Inner, Level
    <3>4. PICK r \in Inner : r = NewRoot(u)
      BY <3>3
    <3>5. PICK n : n = Below(r, 1)
      OBVIOUS
    <3>6. Below(NewRoot(u), 1)' = n
      <4>1. Below(NewRoot(u), 1)' = Below(r, 1)'
        BY <3>1, <3>4, Zenon DEF Below, Child
      <4> QED
        BY <4>1, <3>4, <3>5, <1>3
    <3>7. ~Holds(v, n)
      BY <3>1, <3>4, <3>5, <1>4 DEF Forest, CarriedApart
    <3>8. ~AwayFromRoot(u)
      BY <3>1 DEF AwayFromRoot, Growing
    <3>9. ~Holds(v, n)'
      BY <3>7, <3>8, <1>9
    <3>10. Holds(v, Below(NewRoot(u), 1))' <=> Holds(v, n)'
      BY <3>6, ZenonT(40) DEF Holds, HoldsLeaf, HoldsBnode
    <3> QED
      BY <3>9, <3>10
  <2> QED
    BY <2>1, <2>2 DEF CarriedApart
<1> QED
  BY <1>5, <1>6, <1>7, <1>8, <1>10 DEF Forest

-----------------------------------------------------------------------------
(* What each action is shown to keep.                                      *)

\* What is to be shown of each action.
StepKeeps(t) == /\ TypeOK' /\ LeavesOK' /\ OwnStep(t)
                /\ RootOK' /\ Forest' /\ ThreadOK(t)'

\* The root stays, and the tree.
LEMMA TreeStays ==
  ASSUME LbInv, NEW t \in Thread, OwnStep(t),
         UNCHANGED <<tree_root, root_level, used>>,
         \A m \in Inner : bnode'[m].k = bnode[m].k /\ bnode'[m].ch = bnode[m].ch,
         pc[t] \notin {"growroot", "growlevel", "shrinkroot"},
         pc'[t] \notin {"growroot", "growlevel"},
         Carries(t)' <=> Carries(t), Carries(t) => Carried(t)' = Carried(t),
         \A m, p : Dangles(t, m, p)' <=> Dangles(t, m, p),
         \A n : Holds(t, n)' =>
                  Holds(t, n) \/ (Reached(n) /\ \A u \in Thread : AwayFromRoot(u)),
         RootSeen(t)'
  PROVE  RootOK' /\ Forest'
<1>1. OthersStay(t)
  BY DEF OwnStep
<1>2. \A n : IsApex(n)' <=> IsApex(n)
  BY <1>1, ApexSame
<1>3. Forest'
  BY <1>2, ForestSame
<1>4. IsLocked(tree_root)' \/ tree_root \in used'
  <2>1. IsLocked(tree_root) \/ tree_root \in used
    BY DEF LbInv, RootOK
  <2>2. ASSUME IsLocked(tree_root), tree_root \notin used
        PROVE  IsLocked(tree_root)'
    <3>1. tree_root \in Level \X Num
      BY DEF LbInv, TypeOK
    <3>2. ~Mine(t, tree_root)
      BY <2>2, <3>1 DEF Mine, LbInv, LocksOK
    <3>3. Kept(tree_root)
      BY <3>1, <3>2 DEF OwnStep
    <3> QED
      BY <2>2, <3>3 DEF Kept, IsLocked
  <2> QED
    BY <2>1, <2>2
<1>5. RootOK'
  BY <1>4, RootStep DEF LbInv
<1> QED
  BY <1>3, <1>5

\* Control points at which a thread holds nothing.
Quiet == {"idle", "ret", "read", "scanned"} \cup OpKind

\* Between and outside operations a thread holds nothing.
LEMMA QuietHolds ==
  ASSUME NEW t, pc[t] \in Quiet
  PROVE  (\A n : ~Holds(t, n)) /\ ~Carries(t) /\ \A m, p : ~Dangles(t, m, p)
<1>1. \A n : ~Holds(t, n)
  BY DEF Quiet, OpKind, Holds, HoldsLeaf, HoldsBnode, Climbing, Growing, AtLeaf
<1> QED
  BY <1>1 DEF Quiet, OpKind, Carries, Dangles

\* The same after a step.
LEMMA QuietNext ==
  ASSUME NEW t, pc'[t] \in Quiet, pc'[t] # "idle" => loc'[t].key \in Key
  PROVE  /\ (\A n : ~Holds(t, n)') /\ ~Carries(t)' /\ (\A m, p : ~Dangles(t, m, p)')
         /\ RootSeen(t)' /\ ThreadOK(t)'
<1>1. \A n : ~Holds(t, n)'
  BY DEF Quiet, OpKind, Holds, HoldsLeaf, HoldsBnode, Climbing, Growing, AtLeaf
<1>2. ~Carries(t)' /\ \A m, p : ~Dangles(t, m, p)'
  BY DEF Quiet, OpKind, Carries, Dangles
<1>3. RootSeen(t)'
  BY DEF Quiet, OpKind, RootSeen, OnPath, Climbing
<1>4. ThreadOK(t)'
  BY DEF Quiet, OpKind, ThreadOK, ClimbOK, DeleteOK, LeafOK, OnPath, Climbing, Growing,
         Carries
<1> QED
  BY <1>1, <1>2, <1>3, <1>4

\* A step of a thread that holds nothing and writes nothing.
LEMMA QuietStep ==
  ASSUME LbInv, NEW t \in Thread, NEW label \in Quiet, NEW local,
         pc[t] \in Quiet, UNCHANGED <<upper, lower, used>>,
         pc' = [pc EXCEPT ![t] = label],
         loc' = [loc EXCEPT ![t] = local] \/ (loc' = loc /\ local = loc[t]),
         LocalOK(local), label # "idle" => local.key \in Key
  PROVE  StepKeeps(t)
<1>1. /\ TypeOK /\ UNCHANGED <<tree_root, root_level, bnode, first_leaf, leaf, work>>
      /\ label \in Label
  BY DEF LbInv, upper, lower, Label, Quiet
<1>2. /\ pc'[t] = label /\ loc'[t] = local
      /\ pc' \in [Thread -> Label] /\ DOMAIN loc' = Thread
      /\ \A u \in Thread : LocalOK(loc'[u])
      /\ OthersStay(t)
  BY <1>1 DEF TypeOK, OthersStay
<1>3. TypeOK'
  BY <1>1, <1>2 DEF TypeOK, LocalOK, PathOK
<1>4. LeavesOK'
  BY <1>1 DEF LbInv, LeavesOK, DistinctKeys
<1>5. /\ \A n : ~Holds(t, n)' /\ ~Holds(t, n)
      /\ ~Carries(t) /\ ~Carries(t)' /\ RootSeen(t)' /\ ThreadOK(t)'
      /\ \A m, p : ~Dangles(t, m, p) /\ ~Dangles(t, m, p)'
  BY <1>2, QuietHolds, QuietNext
<1>6. OwnStep(t)
  BY <1>1, <1>2, <1>5 DEF OwnStep, Kept
<1>7. RootOK' /\ Forest'
  <2>1. pc[t] \notin {"growroot", "growlevel", "shrinkroot"}
        /\ pc'[t] \notin {"growroot", "growlevel"}
    BY <1>2 DEF Quiet, OpKind
  <2> QED
    BY <1>1, <1>5, <1>6, <2>1, TreeStays
<1> QED
  BY <1>3, <1>4, <1>5, <1>6, <1>7 DEF StepKeeps

\* Locals are typed whichever way they have been filled in.
LocalSet(g, p) ==
  [n : Nat, key : Key \cup {NoKey}, pos : Slot \cup {-1}, got : {g}, path : {p},
   sib : Num \cup {Null}, sep : Key \cup {NoKey}, ptr : Num \cup {Null}, total : Level,
   lev : 0..(MaxLevel + 1), old_root : (Level \X Num) \cup {<<>>}]

\* The set and the type agree.
LEMMA LocalIs ==
  ASSUME NEW l, l \in LocalSet(l.got, l.path), l.path = <<>> \/ PathOK(l.path)
  PROVE  LocalOK(l)
BY DEF LocalSet, LocalOK

\* The locals at the start of a call.
LEMMA NoLocalOK == LocalOK(NoLocal)
<1>1. NoLocal.path = <<>> /\ NoLocal.got = {}
  BY DEF NoLocal
<1>2. 0 \in Level /\ 0 \in 0..(MaxLevel + 1)
  BY Constants DEF Level
<1>3. NoLocal \in LocalSet({}, <<>>)
  BY <1>2 DEF LocalSet, NoLocal
<1> QED
  BY <1>1, <1>3, LocalIs

\* A local variable is set.
LEMMA LocalEdit ==
  ASSUME NEW l, LocalOK(l)
  PROVE  /\ \A v : LocalOK([l EXCEPT !.got = v])
         /\ \A v : PathOK(v) => LocalOK([l EXCEPT !.path = v])
         /\ \A v \in Nat : LocalOK([l EXCEPT !.n = v])
         /\ \A v \in Key \cup {NoKey} : LocalOK([l EXCEPT !.key = v])
         /\ \A v \in Num \cup {Null} : LocalOK([l EXCEPT !.ptr = v])
         /\ \A v \in Slot \cup {-1} : LocalOK([l EXCEPT !.pos = v])
         /\ \A v \in Num \cup {Null} : LocalOK([l EXCEPT !.sib = v])
         /\ \A v \in Key \cup {NoKey} : LocalOK([l EXCEPT !.sep = v])
         /\ \A v \in Level : LocalOK([l EXCEPT !.total = v])
         /\ \A v \in 0..(MaxLevel + 1) : LocalOK([l EXCEPT !.lev = v])
         /\ \A v \in Level \X Num : LocalOK([l EXCEPT !.old_root = v])
<1>1. ASSUME NEW v PROVE LocalOK([l EXCEPT !.got = v])
  <2>1. PICK m : m = [l EXCEPT !.got = v]
    OBVIOUS
  <2>2. m.path = l.path /\ m.got = v
    BY <2>1 DEF LocalOK
  <2>3. m \in LocalSet(m.got, m.path)
    BY <2>1, <2>2 DEF LocalOK, LocalSet
  <2>4. m.path = <<>> \/ PathOK(m.path)
    BY <1>1, <2>2 DEF LocalOK
  <2> QED
    BY <2>1, <2>3, <2>4, LocalIs
<1>2. ASSUME NEW v, PathOK(v) PROVE LocalOK([l EXCEPT !.path = v])
  <2>1. PICK m : m = [l EXCEPT !.path = v]
    OBVIOUS
  <2>2. m.path = v /\ m.got = l.got
    BY <2>1 DEF LocalOK
  <2>3. m \in LocalSet(m.got, m.path)
    BY <2>1, <2>2 DEF LocalOK, LocalSet
  <2>4. m.path = <<>> \/ PathOK(m.path)
    BY <1>2, <2>2 DEF LocalOK
  <2> QED
    BY <2>1, <2>3, <2>4, LocalIs
<1>3. ASSUME NEW v \in Nat PROVE LocalOK([l EXCEPT !.n = v])
  <2>1. PICK m : m = [l EXCEPT !.n = v]
    OBVIOUS
  <2>2. m.path = l.path /\ m.got = l.got
    BY <2>1 DEF LocalOK
  <2>3. m \in LocalSet(m.got, m.path)
    BY <2>1, <2>2 DEF LocalOK, LocalSet
  <2>4. m.path = <<>> \/ PathOK(m.path)
    BY <1>3, <2>2 DEF LocalOK
  <2> QED
    BY <2>1, <2>3, <2>4, LocalIs
<1>4. ASSUME NEW v \in Key \cup {NoKey} PROVE LocalOK([l EXCEPT !.key = v])
  <2>1. PICK m : m = [l EXCEPT !.key = v]
    OBVIOUS
  <2>2. m.path = l.path /\ m.got = l.got
    BY <2>1 DEF LocalOK
  <2>3. m \in LocalSet(m.got, m.path)
    BY <2>1, <2>2 DEF LocalOK, LocalSet
  <2>4. m.path = <<>> \/ PathOK(m.path)
    BY <1>4, <2>2 DEF LocalOK
  <2> QED
    BY <2>1, <2>3, <2>4, LocalIs
<1>5. ASSUME NEW v \in Num \cup {Null} PROVE LocalOK([l EXCEPT !.ptr = v])
  <2>1. PICK m : m = [l EXCEPT !.ptr = v]
    OBVIOUS
  <2>2. m.path = l.path /\ m.got = l.got
    BY <2>1 DEF LocalOK
  <2>3. m \in LocalSet(m.got, m.path)
    BY <2>1, <2>2 DEF LocalOK, LocalSet
  <2>4. m.path = <<>> \/ PathOK(m.path)
    BY <1>5, <2>2 DEF LocalOK
  <2> QED
    BY <2>1, <2>3, <2>4, LocalIs
<1>6. ASSUME NEW v \in Slot \cup {-1} PROVE LocalOK([l EXCEPT !.pos = v])
  <2>1. PICK m : m = [l EXCEPT !.pos = v]
    OBVIOUS
  <2>2. m.path = l.path /\ m.got = l.got
    BY <2>1 DEF LocalOK
  <2>3. m \in LocalSet(m.got, m.path)
    BY <2>1, <2>2 DEF LocalOK, LocalSet
  <2>4. m.path = <<>> \/ PathOK(m.path)
    BY <1>6, <2>2 DEF LocalOK
  <2> QED
    BY <2>1, <2>3, <2>4, LocalIs
<1>7. ASSUME NEW v \in Num \cup {Null} PROVE LocalOK([l EXCEPT !.sib = v])
  <2>1. PICK m : m = [l EXCEPT !.sib = v]
    OBVIOUS
  <2>2. m.path = l.path /\ m.got = l.got
    BY <2>1 DEF LocalOK
  <2>3. m \in LocalSet(m.got, m.path)
    BY <2>1, <2>2 DEF LocalOK, LocalSet
  <2>4. m.path = <<>> \/ PathOK(m.path)
    BY <1>7, <2>2 DEF LocalOK
  <2> QED
    BY <2>1, <2>3, <2>4, LocalIs
<1>8. ASSUME NEW v \in Key \cup {NoKey} PROVE LocalOK([l EXCEPT !.sep = v])
  <2>1. PICK m : m = [l EXCEPT !.sep = v]
    OBVIOUS
  <2>2. m.path = l.path /\ m.got = l.got
    BY <2>1 DEF LocalOK
  <2>3. m \in LocalSet(m.got, m.path)
    BY <2>1, <2>2 DEF LocalOK, LocalSet
  <2>4. m.path = <<>> \/ PathOK(m.path)
    BY <1>8, <2>2 DEF LocalOK
  <2> QED
    BY <2>1, <2>3, <2>4, LocalIs
<1>9. ASSUME NEW v \in Level PROVE LocalOK([l EXCEPT !.total = v])
  <2>1. PICK m : m = [l EXCEPT !.total = v]
    OBVIOUS
  <2>2. m.path = l.path /\ m.got = l.got
    BY <2>1 DEF LocalOK
  <2>3. m \in LocalSet(m.got, m.path)
    BY <2>1, <2>2 DEF LocalOK, LocalSet
  <2>4. m.path = <<>> \/ PathOK(m.path)
    BY <1>9, <2>2 DEF LocalOK
  <2> QED
    BY <2>1, <2>3, <2>4, LocalIs
<1>10. ASSUME NEW v \in 0..(MaxLevel + 1) PROVE LocalOK([l EXCEPT !.lev = v])
  <2>1. PICK m : m = [l EXCEPT !.lev = v]
    OBVIOUS
  <2>2. m.path = l.path /\ m.got = l.got
    BY <2>1 DEF LocalOK
  <2>3. m \in LocalSet(m.got, m.path)
    BY <2>1, <2>2 DEF LocalOK, LocalSet
  <2>4. m.path = <<>> \/ PathOK(m.path)
    BY <1>10, <2>2 DEF LocalOK
  <2> QED
    BY <2>1, <2>3, <2>4, LocalIs
<1>11. ASSUME NEW v \in Level \X Num PROVE LocalOK([l EXCEPT !.old_root = v])
  <2>1. PICK m : m = [l EXCEPT !.old_root = v]
    OBVIOUS
  <2>2. m.path = l.path /\ m.got = l.got
    BY <2>1 DEF LocalOK
  <2>3. m \in LocalSet(m.got, m.path)
    BY <2>1, <2>2 DEF LocalOK, LocalSet
  <2>4. m.path = <<>> \/ PathOK(m.path)
    BY <1>11, <2>2 DEF LocalOK
  <2> QED
    BY <2>1, <2>3, <2>4, LocalIs
<1> QED
  BY <1>1, <1>2, <1>3, <1>4, <1>5, <1>6, <1>7, <1>8, <1>9, <1>10, <1>11

\* A leaf's parts.
LEMMA LeafParts ==
  ASSUME TypeOK, NEW l \in Num
  PROVE  /\ leaf[l] \in Leaf /\ leaf[l].bitmap \subseteq Slot
         /\ leaf[l].ent \in [Slot -> Key \cup {NoKey}]
         /\ leaf[l].lock \in BOOLEAN /\ leaf[l].alt \in {0, 1}
         /\ leaf[l].next \in [{0, 1} -> Num \cup {Null}]
         /\ nextSibling(l) \in Num \cup {Null}
BY DEF TypeOK, Leaves, Leaf, nextSibling

\* A call begins.
LEMMA CallKeeps ==
  ASSUME LbInv, NEW t \in Thread, Call(t)
  PROVE  StepKeeps(t)
<1> DEFINE o == work.prog[t][loc[t].n + 1]
           local == [NoLocal EXCEPT !.n = loc[t].n + 1, !.key = o.key]
<1>1. /\ pc[t] = "idle" /\ loc[t].n < Len(work.prog[t])
      /\ loc' = [loc EXCEPT ![t] = local] /\ pc' = [pc EXCEPT ![t] = o.op]
      /\ UNCHANGED <<upper, lower, used>>
  BY DEF Call, Goto
<1>2. work \in Workload /\ loc[t].n \in Nat
  BY DEF LbInv, TypeOK, LocalOK
<1>3. work.prog[t] \in Seq([op : OpKind, key : Key, len : Nat])
  BY <1>2, WorkloadOK
<1>4. Len(work.prog[t]) \in Nat
  BY <1>3, LenProperties
<1>5. loc[t].n + 1 \in 1..Len(work.prog[t])
  BY <1>1, <1>2, <1>4
<1>6. o \in [op : OpKind, key : Key, len : Nat]
  BY <1>3, <1>5, ElementOfSeq
<1>7. o.op \in OpKind /\ o.key \in Key
  BY <1>6
<1>8. LocalOK(local) /\ local.key \in Key
  <2>1. loc[t].n + 1 \in Nat
    BY <1>2
  <2>2. PICK m : m = [NoLocal EXCEPT !.n = loc[t].n + 1]
    OBVIOUS
  <2>3. LocalOK(m)
    BY <2>1, <2>2, NoLocalOK, LocalEdit
  <2>4. local = [m EXCEPT !.key = o.key]
    BY <2>2
  <2> HIDE DEF o, local
  <2>5. LocalOK(local)
    BY <1>7, <2>3, <2>4, LocalEdit
  <2>6. local.key = o.key
    BY <2>3, <2>4 DEF LocalOK
  <2> QED
    BY <1>7, <2>5, <2>6
<1> HIDE DEF o, local
<1> QED
  BY <1>1, <1>7, <1>8, QuietStep DEF Quiet

\* A call that returns.
LEMMA IdleKeeps ==
  ASSUME LbInv, NEW t \in Thread, pc[t] \in Quiet,
         loc' = [loc EXCEPT ![t] = [NoLocal EXCEPT !.n = loc[t].n]],
         pc' = [pc EXCEPT ![t] = "idle"], UNCHANGED <<upper, lower, used>>
  PROVE  StepKeeps(t)
<1>1. loc[t].n \in Nat
  BY DEF LbInv, TypeOK, LocalOK
<1>2. LocalOK([NoLocal EXCEPT !.n = loc[t].n])
  BY <1>1, NoLocalOK, LocalEdit
<1> QED
  BY <1>2, QuietStep DEF Quiet

\* A call ends.
LEMMA ReturnKeeps ==
  ASSUME LbInv, NEW t \in Thread, Return(t) \/ ReadPtr(t) \/ ScanReturn(t)
  PROVE  StepKeeps(t)
BY IdleKeeps DEF Return, ReadPtr, ScanReturn, Goto, Quiet

\* The key of the call that runs.
LEMMA KeyOf ==
  ASSUME LbInv, NEW t \in Thread, pc[t] # "idle"
  PROVE  loc[t].key \in Key
BY DEF LbInv, ThreadOK, LeafOK

\* A lookup is one transaction, which writes nothing.
LEMMA LookupKeeps ==
  ASSUME LbInv, NEW t \in Thread, Lookup(t)
  PROVE  StepKeeps(t)
<1>1. PICK p \in Descents(loc[t].key) :
        /\ ~leaf[p[0]].lock
        /\ loc' = [loc EXCEPT ![t].ptr = p[0], ![t].pos = PosOf(p[0], loc[t].key)]
  BY DEF Lookup
<1>2. /\ pc[t] = "lookup" /\ pc' = [pc EXCEPT ![t] = "read"]
      /\ UNCHANGED <<upper, lower, used>>
  BY DEF Lookup, Goto
<1>3. loc[t].key \in Key
  BY <1>2, KeyOf
<1>4. root_level \in Nat /\ p \in [0..root_level -> Num]
  BY <1>1, <1>3, DescentFinds
<1>5. p[0] \in Num
  BY <1>4
<1>6. PICK l, v : l = p[0] /\ v = PosOf(p[0], loc[t].key)
  OBVIOUS
<1>7. v \in Slot \cup {-1}
  BY <1>5, <1>6, PosOfType, LeafParts DEF LbInv, PosOf
<1> DEFINE local == [loc[t] EXCEPT !.ptr = l, !.pos = v]
<1>8. LocalOK(local) /\ local.key \in Key
  <2>1. LocalOK(loc[t])
    BY DEF LbInv, TypeOK
  <2>2. LocalOK([loc[t] EXCEPT !.ptr = l])
    BY <1>5, <1>6, <2>1, LocalEdit
  <2>3. LocalOK(local)
    BY <1>7, <2>2, LocalEdit
  <2>4. local.key = loc[t].key
    BY <2>1 DEF LocalOK
  <2> QED
    BY <1>3, <2>3, <2>4
<1>9. loc' = [loc EXCEPT ![t] = local]
  BY <1>1, <1>6
<1> HIDE DEF local
<1> QED
  BY <1>2, <1>8, <1>9, QuietStep DEF Quiet, OpKind

\* So is a scan.
LEMMA ScanKeeps ==
  ASSUME LbInv, NEW t \in Thread, Scan(t)
  PROVE  StepKeeps(t)
<1>1. PICK g : loc' = [loc EXCEPT ![t].got = g]
  BY DEF Scan
<1>2. /\ pc[t] = "scan" /\ pc' = [pc EXCEPT ![t] = "scanned"]
      /\ UNCHANGED <<upper, lower, used>>
  BY DEF Scan, Goto
<1>3. loc[t].key \in Key
  BY <1>2, KeyOf
<1> DEFINE local == [loc[t] EXCEPT !.got = g]
<1>4. LocalOK(local) /\ local.key \in Key
  <2>1. LocalOK(loc[t])
    BY DEF LbInv, TypeOK
  <2>2. local.key = loc[t].key
    BY <2>1 DEF LocalOK
  <2> QED
    BY <1>3, <2>1, <2>2, LocalEdit
<1>5. loc' = [loc EXCEPT ![t] = local]
  BY <1>1
<1> HIDE DEF local
<1> QED
  BY <1>2, <1>4, <1>5, QuietStep DEF Quiet, OpKind

\* A transaction that finds there is nothing to do.
LEMMA MissingKeeps ==
  ASSUME LbInv, NEW t \in Thread, pc[t] \in OpKind,
         pc' = [pc EXCEPT ![t] = "ret"], UNCHANGED <<upper, lower, used, loc>>
  PROVE  StepKeeps(t)
<1>1. loc[t].key \in Key
  BY KeyOf DEF OpKind
<1>2. LocalOK(loc[t]) /\ loc' = loc
  BY DEF LbInv, TypeOK
<1> QED
  BY <1>1, <1>2, QuietStep DEF Quiet

-----------------------------------------------------------------------------
(* Steps on leaves.                                                        *)

\* The types after a step, given those of what it stores.
LEMMA TypeStep ==
  ASSUME TypeOK, NEW t \in Thread, NEW label \in Label, NEW local, LocalOK(local),
         pc' = [pc EXCEPT ![t] = label],
         loc' = [loc EXCEPT ![t] = local] \/ (loc' = loc /\ local = loc[t]),
         work' = work, tree_root' \in Level \X Num, root_level' \in Level,
         first_leaf' \in Num \cup {Null}, bnode' \in Bnodes, leaf' \in Leaves,
         used' \subseteq Level \X Num
  PROVE  TypeOK' /\ OthersStay(t) /\ pc'[t] = label /\ loc'[t] = local
<1>1. /\ pc'[t] = label /\ pc' \in [Thread -> Label]
      /\ \A u \in Thread \ {t} : pc'[u] = pc[u]
  BY DEF TypeOK
<1>2. /\ loc'[t] = local /\ DOMAIN loc' = Thread
      /\ \A u \in Thread \ {t} : loc'[u] = loc[u]
  BY DEF TypeOK
<1>3. \A u \in Thread : LocalOK(loc'[u])
  BY <1>2 DEF TypeOK
<1>4. TypeOK'
  BY <1>1, <1>2, <1>3 DEF TypeOK, LocalOK, PathOK
<1> QED
  BY <1>1, <1>2, <1>4 DEF OthersStay

\* A leaf that changes.
LEMMA LeafChanges ==
  ASSUME TypeOK, LeavesOK, NEW l \in Num, NEW r \in Leaf,
         leaf' = [leaf EXCEPT ![l] = r], used' \subseteq used,
         <<0, l>> \in used => DistinctKeys(r)
  PROVE  /\ leaf' \in Leaves /\ leaf'[l] = r /\ LeavesOK'
         /\ \A x \in Num : x # l => leaf'[x] = leaf[x]
<1>1. leaf \in [Num -> Leaf]
  BY DEF TypeOK, Leaves
<1>2. leaf' \in Leaves /\ leaf'[l] = r /\ \A x \in Num : x # l => leaf'[x] = leaf[x]
  BY <1>1 DEF Leaves
<1>3. LeavesOK'
  BY <1>2 DEF LeavesOK, DistinctKeys
<1> QED
  BY <1>2, <1>3

\* A leaf is stored and unlocked, and the call is over.
LEMMA LeafReleased ==
  ASSUME LbInv, NEW t \in Thread, NEW l \in Num, NEW r \in Leaf,
         Holds(t, <<0, l>>), pc[t] \in {"setval", "fill", "delleaf"},
         leaf' = [leaf EXCEPT ![l] = r], DistinctKeys(r),
         pc' = [pc EXCEPT ![t] = "ret"], UNCHANGED <<upper, first_leaf, used, loc, work>>
  PROVE  StepKeeps(t)
<1>1. /\ TypeOK /\ LeavesOK /\ LocalOK(loc[t]) /\ "ret" \in Label
      /\ UNCHANGED <<tree_root, root_level, bnode, first_leaf, used, work>>
  BY DEF LbInv, TypeOK, upper, Label
<1>2. /\ leaf' \in Leaves /\ LeavesOK'
      /\ \A x \in Num : x # l => leaf'[x] = leaf[x]
  BY <1>1, LeafChanges
<1>3. TypeOK' /\ OthersStay(t) /\ pc'[t] = "ret" /\ loc'[t] = loc[t]
  <2>1. /\ tree_root' \in Level \X Num /\ root_level' \in Level
        /\ first_leaf' \in Num \cup {Null} /\ bnode' \in Bnodes
        /\ used' \subseteq Level \X Num
    BY <1>1 DEF TypeOK
  <2> QED
    BY <1>1, <1>2, <2>1, TypeStep
<1>4. /\ \A n : ~Holds(t, n)'
      /\ ~Carries(t)' /\ RootSeen(t)' /\ ThreadOK(t)'
      /\ \A m, p : ~Dangles(t, m, p)'
  BY <1>3, QuietNext, KeyOf DEF Quiet
<1>5. ~Carries(t) /\ \A m, p : ~Dangles(t, m, p)
  BY DEF Carries, Dangles
<1>6. OwnStep(t)
  <2>1. \A n \in Level \X Num : n # <<0, l>> => Kept(n)
    <3> SUFFICES ASSUME NEW n \in Level \X Num, n # <<0, l>> PROVE Kept(n)
      OBVIOUS
    <3>1. n[1] = 0 => n[2] \in Num /\ n[2] # l
      OBVIOUS
    <3> QED
      BY <3>1, <1>1, <1>2 DEF Kept
  <2> QED
    BY <2>1, <1>1, <1>3, <1>4 DEF OwnStep, Mine
<1>7. RootOK' /\ Forest'
  <2>1. pc'[t] \notin {"growroot", "growlevel"}
    BY <1>3
  <2> QED
    BY <1>1, <1>4, <1>5, <1>6, <2>1, TreeStays
<1> QED
  BY <1>2, <1>3, <1>4, <1>6, <1>7 DEF StepKeeps

\* The leaf of a thread that is at one.
LEMMA LeafHeld ==
  ASSUME LbInv, NEW t \in Thread, pc[t] \in AtLeaf
  PROVE  /\ lp(t) \in Num /\ Holds(t, <<0, lp(t)>>) /\ <<0, lp(t)>> \in used
         /\ <<0, lp(t)>> \in Level \X Num /\ leaf[lp(t)].lock
         /\ DistinctKeys(leaf[lp(t)]) /\ PathOK(loc[t].path)
<1>1. PathOK(loc[t].path)
  BY DEF LbInv, ThreadOK, ClimbOK, AtLeaf, OnPath, Climbing
<1>2. loc[t].path.rl \in Nat /\ \A i \in 0..loc[t].path.rl : loc[t].path.parray[i] \in Num
  BY <1>1, PathParts
<1>3. lp(t) \in Num
  BY <1>2 DEF lp
<1>4. Holds(t, <<0, lp(t)>>) /\ <<0, lp(t)>> \in Level \X Num
  BY <1>3, Constants DEF Holds, HoldsLeaf
<1>5. <<0, lp(t)>> \in used /\ IsLocked(<<0, lp(t)>>)
  BY <1>4 DEF LbInv, LocksOK
<1>6. leaf[lp(t)].lock
  BY <1>5 DEF IsLocked
<1> QED
  BY <1>1, <1>3, <1>4, <1>5, <1>6 DEF LbInv, LeavesOK

\* An update stores the value and unlocks the leaf.
LEMMA SetValueKeeps ==
  ASSUME LbInv, NEW t \in Thread, SetValue(t)
  PROVE  StepKeeps(t)
<1>1. pc[t] = "setval"
  BY DEF SetValue
<1>2. PICK l : l = loc[t].ptr
  OBVIOUS
<1>3. l \in Num /\ Holds(t, <<0, l>>)
  BY <1>1, <1>2 DEF LbInv, ThreadOK, LeafOK, Holds, HoldsLeaf
<1>4. PICK r : r = [leaf[l] EXCEPT !.lock = FALSE]
  OBVIOUS
<1>5. <<0, l>> \in used /\ leaf[l] \in Leaf /\ DistinctKeys(leaf[l])
  BY <1>3, Constants, LeafParts DEF LbInv, LocksOK, LeavesOK
<1>6. r \in Leaf /\ r.bitmap = leaf[l].bitmap /\ r.ent = leaf[l].ent
  BY <1>4, <1>5 DEF Leaf
<1>7. DistinctKeys(r)
  BY <1>5, <1>6 DEF DistinctKeys
<1>8. leaf' = [leaf EXCEPT ![l] = r]
  BY <1>2, <1>4 DEF SetValue
<1> QED
  BY <1>1, <1>3, <1>6, <1>7, <1>8, LeafReleased DEF SetValue, Goto

\* A delete frees a slot of a leaf that keeps others.
LEMMA DelSlotKeeps ==
  ASSUME LbInv, NEW t \in Thread, DelSlot(t)
  PROVE  StepKeeps(t)
<1>1. pc[t] = "delleaf"
  BY DEF DelSlot
<1>2. PICK l : l = lp(t)
  OBVIOUS
<1>3. /\ l \in Num /\ Holds(t, <<0, l>>) /\ <<0, l>> \in used
      /\ leaf[l] \in Leaf /\ DistinctKeys(leaf[l])
  BY <1>1, <1>2, LeafHeld, LeafParts DEF AtLeaf, LbInv
<1>4. PICK r : r = [leaf[l] EXCEPT !.bitmap = @ \ {loc[t].pos}, !.lock = FALSE]
  OBVIOUS
<1>5. r \in Leaf /\ r.bitmap \subseteq leaf[l].bitmap /\ r.ent = leaf[l].ent
  BY <1>3, <1>4 DEF Leaf
<1>6. DistinctKeys(r)
  BY <1>3, <1>5 DEF DistinctKeys
<1>7. leaf' = [leaf EXCEPT ![l] = r]
  BY <1>2, <1>4 DEF DelSlot
<1> QED
  BY <1>1, <1>3, <1>5, <1>6, <1>7, LeafReleased DEF DelSlot, Goto

\* An entry added to a leaf that has room and not this key.
LEMMA EntryAdded ==
  ASSUME LbInv, NEW l \in Num, DistinctKeys(leaf[l]), NEW k \in Key, k \notin keys(l),
         ~isFull(l), NEW b \in BOOLEAN
  PROVE  LET e == WithEntry(leaf[l].bitmap, leaf[l].ent, k)
             r == [leaf[l] EXCEPT !.bitmap = e.bitmap, !.ent = e.ent, !.lock = b]
         IN  r \in Leaf /\ DistinctKeys(r)
<1>1. PICK e : e = WithEntry(leaf[l].bitmap, leaf[l].ent, k)
  OBVIOUS
<1>2. /\ leaf[l] \in Leaf /\ leaf[l].bitmap \subseteq Slot /\ leaf[l].bitmap # Slot
      /\ leaf[l].ent \in [Slot -> Key \cup {NoKey}]
  BY LeafParts DEF LbInv, isFull
<1>3. /\ \A s \in leaf[l].bitmap : leaf[l].ent[s] \in Key /\ leaf[l].ent[s] # k
      /\ \A s, x \in leaf[l].bitmap : leaf[l].ent[s] = leaf[l].ent[x] => s = x
  BY DEF DistinctKeys, keys
<1>4. /\ e.bitmap \subseteq Slot /\ e.ent \in [Slot -> Key \cup {NoKey}]
      /\ \A s \in e.bitmap : e.ent[s] \in Key
      /\ \A s, x \in e.bitmap : e.ent[s] = e.ent[x] => s = x
  <2>1. PICK m, en : m = leaf[l].bitmap /\ en = leaf[l].ent
    OBVIOUS
  <2>2. /\ m \subseteq Slot /\ m # Slot /\ en \in [Slot -> Key \cup {NoKey}]
        /\ \A s \in m : en[s] \in Key /\ en[s] # k
        /\ \A s, x \in m : en[s] = en[x] => s = x
    BY <1>2, <1>3, <2>1
  <2>3. e = WithEntry(m, en, k)
    BY <1>1, <2>1
  <2> QED
    BY <2>2, <2>3, WithEntryType
<1>5. PICK r : r = [leaf[l] EXCEPT !.bitmap = e.bitmap, !.ent = e.ent, !.lock = b]
  OBVIOUS
<1>6. r \in Leaf /\ r.bitmap = e.bitmap /\ r.ent = e.ent
  BY <1>2, <1>4, <1>5 DEF Leaf
<1>7. DistinctKeys(r)
  BY <1>4, <1>6 DEF DistinctKeys
<1> QED
  BY <1>1, <1>5, <1>6, <1>7

\* An insert fills a slot of a leaf that has room.
LEMMA FillSlotKeeps ==
  ASSUME LbInv, NEW t \in Thread, FillSlot(t)
  PROVE  StepKeeps(t)
<1>1. pc[t] = "fill"
  BY DEF FillSlot
<1>2. PICK l : l = lp(t)
  OBVIOUS
<1>3. /\ l \in Num /\ Holds(t, <<0, l>>) /\ DistinctKeys(leaf[l])
      /\ loc[t].key \in Key /\ loc[t].key \notin keys(l) /\ ~isFull(l)
  BY <1>1, <1>2, LeafHeld, KeyOf DEF AtLeaf, LbInv, ThreadOK, LeafOK
<1>4. PICK e : e = WithEntry(leaf[l].bitmap, leaf[l].ent, loc[t].key)
  OBVIOUS
<1>5. PICK r : r = [leaf[l] EXCEPT !.bitmap = e.bitmap, !.ent = e.ent, !.lock = FALSE]
  OBVIOUS
<1>6. r \in Leaf /\ DistinctKeys(r)
  BY <1>3, <1>4, <1>5, EntryAdded
<1>7. leaf' = [leaf EXCEPT ![l] = r]
  BY <1>2, <1>4, <1>5 DEF FillSlot
<1> QED
  BY <1>1, <1>3, <1>6, <1>7, LeafReleased DEF FillSlot, Goto

-----------------------------------------------------------------------------
(* Transactions that lock.                                                 *)

\* The leaves a transaction locks.
TakeLeaves(L) ==
  leaf' = [x \in DOMAIN leaf |-> IF x \in L THEN [leaf[x] EXCEPT !.lock = TRUE]
                                            ELSE leaf[x]]

\* Locks taken change nothing else.
LEMMA LocksTaken ==
  ASSUME TypeOK, LeavesOK, NEW L, NEW B, used' = used, LockBnodes(B),
         TakeLeaves(L)
  PROVE  /\ leaf' \in Leaves /\ bnode' \in Bnodes /\ LeavesOK'
         /\ \A l \in Num : /\ leaf'[l].bitmap = leaf[l].bitmap
                           /\ leaf'[l].ent = leaf[l].ent
                           /\ l \in L => leaf'[l].lock
                           /\ l \notin L => leaf'[l] = leaf[l]
         /\ \A n \in (Level \ {0}) \X Num :
              /\ bnode'[n].k = bnode[n].k /\ bnode'[n].ch = bnode[n].ch
              /\ n \in B => bnode'[n].lock
              /\ n \notin B => bnode'[n] = bnode[n]
<1>1. ASSUME NEW l \in Num
      PROVE  /\ leaf'[l] \in Leaf /\ leaf'[l].bitmap = leaf[l].bitmap
             /\ leaf'[l].ent = leaf[l].ent
             /\ l \in L => leaf'[l].lock
             /\ l \notin L => leaf'[l] = leaf[l]
  <2>1. leaf[l] \in Leaf /\ DOMAIN leaf = Num
    BY DEF TypeOK, Leaves
  <2>2. leaf'[l] = IF l \in L THEN [leaf[l] EXCEPT !.lock = TRUE] ELSE leaf[l]
    BY <2>1 DEF TakeLeaves
  <2> QED
    BY <2>1, <2>2 DEF Leaf
<1>2. leaf' \in Leaves
  <2>1. DOMAIN leaf = Num
    BY DEF TypeOK, Leaves
  <2>2. leaf' = [x \in Num |-> leaf'[x]]
    BY <2>1 DEF TakeLeaves
  <2> QED
    BY <1>1, <2>2 DEF Leaves
<1>3. ASSUME NEW n \in (Level \ {0}) \X Num
      PROVE  /\ bnode'[n] \in Bnode
             /\ bnode'[n].k = bnode[n].k /\ bnode'[n].ch = bnode[n].ch
             /\ n \in B => bnode'[n].lock
             /\ n \notin B => bnode'[n] = bnode[n]
  <2>1. bnode[n] \in Bnode /\ DOMAIN bnode = (Level \ {0}) \X Num
    BY DEF TypeOK, Bnodes
  <2>2. bnode'[n] = IF n \in B THEN [bnode[n] EXCEPT !.lock = TRUE] ELSE bnode[n]
    BY <2>1 DEF LockBnodes
  <2> QED
    BY <2>1, <2>2 DEF Bnode
<1>4. bnode' \in Bnodes
  <2>1. DOMAIN bnode = (Level \ {0}) \X Num
    BY DEF TypeOK, Bnodes
  <2>2. bnode' = [n \in (Level \ {0}) \X Num |-> bnode'[n]]
    BY <2>1 DEF LockBnodes
  <2>3. bnode' \in [(Level \ {0}) \X Num -> Bnode]
    BY <1>3, <2>2
  <2>4. \A n \in (Level \ {0}) \X Num : /\ Len(bnode'[n].ch) = Len(bnode'[n].k) + 1
                                        /\ Len(bnode'[n].k) <= NON_LEAF_KEY_NUM
    BY <1>3 DEF TypeOK, Bnodes
  <2> QED
    BY <2>3, <2>4 DEF Bnodes
<1>5. LeavesOK'
  <2> SUFFICES ASSUME NEW l \in Num, <<0, l>> \in used PROVE DistinctKeys(leaf'[l])
    BY DEF LeavesOK, DistinctKeys
  <2>1. DistinctKeys(leaf[l])
    BY DEF LeavesOK
  <2>2. leaf'[l].bitmap = leaf[l].bitmap /\ leaf'[l].ent = leaf[l].ent
    BY <1>1
  <2> QED
    BY <2>1, <2>2 DEF DistinctKeys
<1> QED
  BY <1>1, <1>2, <1>3, <1>4, <1>5

\* A transaction that locks what it has come to.
LEMMA LockStep ==
  ASSUME LbInv, NEW t \in Thread, pc[t] \in OpKind,
         NEW L, NEW B, L \subseteq Num, LockBnodes(B),
         TakeLeaves(L),
         \A l \in L : Reached(<<0, l>>) /\ ~leaf[l].lock,
         \A n \in B : Reached(n) /\ n[1] >= 1 /\ ~bnode[n].lock,
         \A u \in Thread : AwayFromRoot(u),
         UNCHANGED <<tree_root, root_level, first_leaf, used, work>>,
         NEW label \in {"setval", "fill", "split", "delleaf"}, NEW local, LocalOK(local),
         pc' = [pc EXCEPT ![t] = label], loc' = [loc EXCEPT ![t] = local],
         \A n : Holds(t, n)' => n \in B \/ \E l \in L : n = <<0, l>>,
         RootSeen(t)', ThreadOK(t)'
  PROVE  StepKeeps(t)
<1>1. /\ leaf' \in Leaves /\ bnode' \in Bnodes /\ LeavesOK'
      /\ \A l \in Num : (l \in L => leaf'[l].lock) /\ (l \notin L => leaf'[l] = leaf[l])
      /\ \A n \in (Level \ {0}) \X Num :
           /\ bnode'[n].k = bnode[n].k /\ bnode'[n].ch = bnode[n].ch
           /\ n \in B => bnode'[n].lock
           /\ n \notin B => bnode'[n] = bnode[n]
  <2>1. TypeOK /\ LeavesOK /\ used' = used
    BY DEF LbInv
  <2> QED
    BY <2>1, LocksTaken
<1>2. TypeOK' /\ OthersStay(t) /\ pc'[t] = label /\ loc'[t] = local
  <2>1. label \in Label
    BY DEF Label
  <2>2. /\ TypeOK /\ tree_root' \in Level \X Num /\ root_level' \in Level
        /\ first_leaf' \in Num \cup {Null} /\ used' \subseteq Level \X Num
        /\ work' = work
    BY DEF LbInv, TypeOK
  <2>3. leaf' \in Leaves /\ bnode' \in Bnodes
    BY <1>1
  <2> QED
    BY <2>1, <2>2, <2>3, TypeStep, Zenon
<1>3. ASSUME NEW n \in Level \X Num PROVE Mine(t, n) \/ Kept(n)
  <2>1. CASE n[1] = 0
    <3>1. n[2] \in Num /\ n = <<0, n[2]>>
      BY <2>1
    <3>2. n[2] \in L => ~IsLocked(n)
      BY <2>1 DEF IsLocked
    <3> QED
      BY <1>1, <2>1, <3>1, <3>2 DEF Kept, Mine
  <2>2. CASE n[1] # 0
    <3>1. n \in (Level \ {0}) \X Num
      BY <2>2
    <3>2. n \in B => ~IsLocked(n)
      BY <2>2 DEF IsLocked
    <3> QED
      BY <1>1, <2>2, <3>1, <3>2 DEF Kept, Mine
  <2> QED
    BY <2>1, <2>2
<1>4. ASSUME NEW n, n \in B \/ \E l \in L : n = <<0, l>>
      PROVE  /\ n \in Level \X Num /\ n \in used /\ Reached(n)
             /\ IsLocked(n)' /\ ~IsLocked(n)
  <2>1. Reached(n) /\ ~IsLocked(n)
    <3>1. CASE n \in B
      BY <3>1, Constants DEF IsLocked
    <3>2. CASE \E l \in L : n = <<0, l>>
      BY <3>2 DEF IsLocked
    <3> QED
      BY <1>4, <3>1, <3>2
  <2>2. n \in used /\ n \in Level \X Num
    BY <2>1 DEF Reached, LbInv, TypeOK
  <2>3. IsLocked(n)'
    <3>1. CASE n \in B
      <4>1. n \in (Level \ {0}) \X Num /\ n[1] # 0
        BY <2>2, <3>1, Constants DEF Level
      <4> QED
        BY <1>1, <3>1, <4>1 DEF IsLocked
    <3>2. CASE \E l \in L : n = <<0, l>>
      <4>1. PICK l \in L : n = <<0, l>>
        BY <3>2
      <4>2. l \in Num /\ leaf'[l].lock
        BY <1>1
      <4> QED
        BY <4>1, <4>2 DEF IsLocked
    <3> QED
      BY <1>4, <3>1, <3>2
  <2> QED
    BY <2>1, <2>2, <2>3
<1>5. OwnStep(t)
  BY <1>2, <1>3, <1>4 DEF OwnStep, Mine
<1>6. RootOK' /\ Forest'
  <2>1. /\ ~Carries(t)' /\ ~Carries(t)
        /\ \A m, p : ~Dangles(t, m, p) /\ ~Dangles(t, m, p)'
    BY <1>2 DEF Carries, Dangles, OpKind
  <2>2. /\ pc[t] \notin {"growroot", "growlevel", "shrinkroot"}
        /\ pc'[t] \notin {"growroot", "growlevel"}
    BY <1>2 DEF OpKind
  <2>3. \A m \in Inner : bnode'[m].k = bnode[m].k /\ bnode'[m].ch = bnode[m].ch
    <3>1. \A m \in Inner : m \in (Level \ {0}) \X Num
      BY Constants DEF Inner, LbInv, TypeOK
    <3> QED
      BY <1>1, <3>1
  <2>4. \A n : Holds(t, n)' => Reached(n) /\ \A u \in Thread : AwayFromRoot(u)
    BY <1>4
  <2> QED
    BY <1>5, <2>1, <2>2, <2>3, <2>4, TreeStays
<1> QED
  BY <1>1, <1>2, <1>5, <1>6 DEF StepKeeps

\* An update locks the leaf; an insert of a key that is there returns.
LEMMA InsertFoundKeeps ==
  ASSUME LbInv, NEW t \in Thread, InsertFound(t)
  PROVE  StepKeeps(t)
<1>1. pc[t] \in OpKind
  BY DEF InsertFound, OpKind
<1>2. PICK p \in Descents(loc[t].key) :
        /\ ~leaf[p[0]].lock
        /\ IF pc[t] = "update"
             THEN /\ leaf' = [leaf EXCEPT ![p[0]].lock = TRUE]
                  /\ loc' = [loc EXCEPT ![t].ptr = p[0]]
                  /\ Goto(t, "setval")
             ELSE Goto(t, "ret") /\ UNCHANGED <<leaf, loc>>
  BY DEF InsertFound
<1>3. UNCHANGED <<upper, first_leaf, used, work>>
  BY DEF InsertFound
<1>4. CASE pc[t] # "update"
  BY <1>1, <1>2, <1>3, <1>4, MissingKeeps DEF Goto, lower
<1>5. CASE pc[t] = "update"
  <2>1. loc[t].key \in Key
    BY <1>5, KeyOf
  <2>2. PICK l : l = p[0]
    OBVIOUS
  <2>3. /\ l \in Num /\ Reached(<<0, l>>) /\ ~leaf[l].lock
        /\ \A u \in Thread : AwayFromRoot(u)
    <3>1. /\ root_level \in Nat /\ p \in [0..root_level -> Num]
          /\ \A i \in 0..root_level : Reached(<<i, p[i]>>)
          /\ \A u \in Thread : AwayFromRoot(u)
      BY <1>2, <2>1, DescentFinds
    <3>2. 0 \in 0..root_level
      BY <3>1
    <3> QED
      BY <1>2, <2>2, <3>1, <3>2
  <2>4. PICK L : L = {l}
    OBVIOUS
  <2>5. TakeLeaves(L)
    <3>1. leaf' = [leaf EXCEPT ![l].lock = TRUE]
      BY <1>2, <1>5, <2>2
    <3> QED
      BY <2>4, <3>1 DEF TakeLeaves
  <2>6. LockBnodes({})
    <3>1. bnode = [n \in DOMAIN bnode |-> bnode[n]] /\ bnode' = bnode
      BY <1>3 DEF upper, LbInv, TypeOK, Bnodes
    <3> QED
      BY <3>1 DEF LockBnodes
  <2> DEFINE local == [loc[t] EXCEPT !.ptr = l]
  <2>7. LocalOK(local) /\ local.ptr = l /\ local.key = loc[t].key
    <3>1. LocalOK(loc[t])
      BY DEF LbInv, TypeOK
    <3>2. local.ptr = l /\ local.key = loc[t].key
      BY <3>1 DEF LocalOK
    <3> QED
      BY <2>3, <3>1, <3>2, LocalEdit
  <2>8. loc' = [loc EXCEPT ![t] = local] /\ pc' = [pc EXCEPT ![t] = "setval"]
    BY <1>2, <1>5, <2>2 DEF Goto
  <2> HIDE DEF local
  <2>9. pc'[t] = "setval" /\ loc'[t] = local
    BY <2>8 DEF LbInv, TypeOK
  <2>10. \A n : Holds(t, n)' => n = <<0, l>>
    BY <2>7, <2>9 DEF Holds, HoldsLeaf, HoldsBnode, AtLeaf, Climbing, Growing
  <2>11. RootSeen(t)'
    BY <2>9 DEF RootSeen, OnPath, Climbing
  <2>12. ThreadOK(t)'
    BY <2>1, <2>3, <2>7, <2>9 DEF ThreadOK, ClimbOK, DeleteOK, LeafOK, OnPath, Climbing,
                                  Growing, Carries
  <2>13. /\ L \subseteq Num /\ \A x \in L : Reached(<<0, x>>) /\ ~leaf[x].lock
         /\ \A n : Holds(t, n)' => n \in {} \/ \E x \in L : n = <<0, x>>
    BY <2>3, <2>4, <2>10
  <2>14. UNCHANGED <<tree_root, root_level, first_leaf, used, work>>
    BY <1>3 DEF upper
  <2> QED
    BY <1>1, <2>3, <2>5, <2>6, <2>7, <2>8, <2>11, <2>12, <2>13, <2>14, LockStep
<1> QED
  BY <1>4, <1>5

\* An insert locks the leaf and the bnodes it will change.
LEMMA InsertFindKeeps ==
  ASSUME LbInv, NEW t \in Thread, InsertFind(t)
  PROVE  StepKeeps(t)
<1>1. pc[t] \in OpKind /\ pc[t] # "idle"
  BY DEF InsertFind, OpKind
<1>2. PICK p \in Descents(loc[t].key) :
        /\ ~leaf[p[0]].lock
        /\ loc[t].key \notin keys(p[0])
        /\ leaf' = [leaf EXCEPT ![p[0]].lock = TRUE]
        /\ LockBnodes(LockedFull(PathTaken(p, loc[t].key)))
        /\ loc' = [loc EXCEPT ![t].path = PathTaken(p, loc[t].key)]
        /\ Goto(t, IF isFull(p[0]) THEN "split" ELSE "fill")
  BY DEF InsertFind
<1>3. UNCHANGED <<tree_root, root_level, first_leaf, used, work>>
  BY DEF InsertFind
<1>4. PICK key : key = loc[t].key
  OBVIOUS
<1>5. key \in Key /\ p \in Descents(key)
  BY <1>1, <1>2, <1>4, KeyOf
<1>6. PICK path : path = PathTaken(p, key)
  OBVIOUS
<1>7. /\ root_level \in Nat /\ tree_root = <<root_level, p[root_level]>>
      /\ p \in [0..root_level -> Num]
      /\ \A i \in 0..root_level : <<i, p[i]>> \in Level \X Num /\ Reached(<<i, p[i]>>)
      /\ \A i \in 1..root_level : /\ ~bnode[<<i, p[i]>>].lock
                                  /\ ChildPos(<<i, p[i]>>, key) \in 0..num(<<i, p[i]>>)
      /\ \A u \in Thread : AwayFromRoot(u)
  BY <1>2, <1>5, DescentFinds
<1>8. /\ PathOK(path) /\ path.rl = root_level /\ path.parray = p
      /\ \A i \in 1..root_level :
              /\ path.ppos[i] = ChildPos(<<i, p[i]>>, key)
              /\ path.isfull[i] <=> num(<<i, p[i]>>) = NON_LEAF_KEY_NUM
      /\ path.isfull[0] <=> isFull(p[0])
  BY <1>2, <1>5, <1>6, PathTakenType
<1>9. PICK l : l = p[0]
  OBVIOUS
<1>10. l \in Num /\ Reached(<<0, l>>) /\ ~leaf[l].lock /\ key \notin keys(l)
  BY <1>2, <1>4, <1>7, <1>9
<1>11. PICK B : B = LockedFull(path)
  OBVIOUS
<1>12. ASSUME NEW n \in B
       PROVE  /\ n \in (Level \ {0}) \X Num /\ Reached(n) /\ n[1] >= 1 /\ ~bnode[n].lock
              /\ path.isfull[n[1]] <=> num(n) = NON_LEAF_KEY_NUM
              /\ path.ppos[n[1]] <= num(n)
  <2>1. PICK i \in 1..root_level : n = <<i, p[i]>>
    BY <1>8, <1>11 DEF LockedFull
  <2>2. n \in (Level \ {0}) \X Num /\ Reached(n) /\ n[1] >= 1 /\ ~bnode[n].lock
    BY <1>7, <2>1
  <2>3. num(n) \in Nat
    BY <2>2, BnodeParts DEF LbInv
  <2> QED
    BY <1>7, <1>8, <2>1, <2>2, <2>3
<1>13. LockBnodes(B)
  BY <1>2, <1>4, <1>6, <1>11
<1>14. PICK L : L = {l}
  OBVIOUS
<1>15. TakeLeaves(L)
  <2>1. leaf' = [leaf EXCEPT ![l].lock = TRUE]
    BY <1>2, <1>9
  <2> QED
    BY <1>14, <2>1 DEF TakeLeaves
<1> DEFINE local == [loc[t] EXCEPT !.path = path]
           label == IF isFull(l) THEN "split" ELSE "fill"
<1>16. LocalOK(local) /\ local.path = path /\ local.key = key
  <2>1. LocalOK(loc[t])
    BY DEF LbInv, TypeOK
  <2>2. local.path = path /\ local.key = key
    BY <1>4, <2>1 DEF LocalOK
  <2> QED
    BY <1>8, <2>1, <2>2, LocalEdit
<1>17. loc' = [loc EXCEPT ![t] = local] /\ pc' = [pc EXCEPT ![t] = label]
  BY <1>2, <1>4, <1>6, <1>9 DEF Goto
<1> HIDE DEF local
<1>18. pc'[t] = label /\ loc'[t] = local
  BY <1>17 DEF LbInv, TypeOK
<1>19. lp(t)' = l /\ loc'[t].path = path /\ loc'[t].key = key /\ RootOf(t)' = tree_root
       /\ LockedFull(loc[t].path)' = B
  BY <1>7, <1>8, <1>9, <1>11, <1>16, <1>18 DEF lp, RootOf, At, LockedFull
<1>20. /\ keys(l)' = keys(l) /\ isFull(l)' = isFull(l)
       /\ \A n \in (Level \ {0}) \X Num : num(n)' = num(n)
  <2>1. TypeOK /\ LeavesOK /\ used' = used
    BY <1>3 DEF LbInv
  <2>2. /\ leaf'[l].bitmap = leaf[l].bitmap /\ leaf'[l].ent = leaf[l].ent
        /\ \A n \in (Level \ {0}) \X Num : bnode'[n].k = bnode[n].k
    BY <1>10, <1>13, <1>15, <2>1, LocksTaken
  <2> QED
    BY <2>2 DEF keys, isFull, num
<1>21. \A n : Holds(t, n)' => n = <<0, l>> \/ (pc'[t] = "split" /\ n \in B)
  <2>1. \A n : HoldsLeaf(t, n)' => n = <<0, l>>
    BY <1>18, <1>19 DEF HoldsLeaf, AtLeaf
  <2>2. \A n : HoldsBnode(t, n)' => pc'[t] = "split" /\ n \in B
    BY <1>18, <1>19 DEF HoldsBnode, Climbing, Growing
  <2> QED
    BY <2>1, <2>2 DEF Holds
<1>22. RootSeen(t)'
  BY <1>3, <1>8, <1>18, <1>19 DEF RootSeen, OnPath, Climbing
<1>23. ThreadOK(t)'
  <2>1. ClimbOK(t)'
    <3>1. pc'[t] = "split" => path.isfull[0]
      BY <1>8, <1>9, <1>18
    <3>2. \A n : HoldsBnode(t, n)' => n \in B
      BY <1>18, <1>19 DEF HoldsBnode, Climbing, Growing
    <3>3. \A n : HoldsBnode(t, n)' =>
            /\ path.isfull[n[1]] <=> num(n)' = NON_LEAF_KEY_NUM
            /\ path.ppos[n[1]] <= num(n)'
      BY <3>2, <1>12, <1>20
    <3>4. PathOK(loc[t].path)'
      BY <1>8, <1>19 DEF PathOK
    <3> QED
      BY <1>18, <1>19, <3>1, <3>3, <3>4 DEF ClimbOK, OnPath, Climbing, Growing, Carries
  <2>2. DeleteOK(t)'
    BY <1>18 DEF DeleteOK
  <2>3. LeafOK(t)'
    <3>1. keys(lp(t))' = keys(l) /\ isFull(lp(t))' = isFull(l)
      BY <1>19, <1>20 DEF keys, isFull
    <3> QED
      BY <1>5, <1>10, <1>18, <1>19, <3>1 DEF LeafOK
  <2> QED
    BY <2>1, <2>2, <2>3 DEF ThreadOK
<1>24. /\ L \subseteq Num /\ \A x \in L : Reached(<<0, x>>) /\ ~leaf[x].lock
       /\ \A n : Holds(t, n)' => n \in B \/ \E x \in L : n = <<0, x>>
  BY <1>10, <1>14, <1>21
<1>25. label \in {"setval", "fill", "split", "delleaf"}
  OBVIOUS
<1>26. \A n \in B : Reached(n) /\ n[1] >= 1 /\ ~bnode[n].lock
  BY <1>12
<1>27. PICK lab, lo : lab = label /\ lo = local
  OBVIOUS
<1> HIDE DEF label
<1>28. /\ LocalOK(lo) /\ lab \in {"setval", "fill", "split", "delleaf"}
       /\ pc' = [pc EXCEPT ![t] = lab] /\ loc' = [loc EXCEPT ![t] = lo]
  BY <1>16, <1>17, <1>25, <1>27
<1>29. pc[t] \in OpKind /\ \A u \in Thread : AwayFromRoot(u)
  BY <1>1, <1>7
<1> QED
  BY <1>3, <1>13, <1>15, <1>22, <1>23, <1>24, <1>26, <1>28, <1>29, LockStep

\* The leaf on the left that a delete locks, if it can.
LEMMA LeftLeafReached ==
  ASSUME LbInv, NEW key \in Key, NEW p \in Descents(key), ~leaf[p[0]].lock,
         NEW sib \in LeftLeaves(PathTaken(p, key)), sib # Null
  PROVE  sib \in Num /\ Reached(<<0, sib>>) /\ ~leaf[sib].lock
<1>1. PICK path : path = PathTaken(p, key)
  OBVIOUS
<1>2. /\ root_level \in Nat
      /\ \A i \in 0..root_level : <<i, p[i]>> \in Level \X Num /\ Reached(<<i, p[i]>>)
      /\ \A i \in 1..root_level : /\ ~bnode[<<i, p[i]>>].lock
                                  /\ ChildPos(<<i, p[i]>>, key) \in 0..num(<<i, p[i]>>)
  BY DescentFinds
<1>3. /\ PathOK(path) /\ path.rl = root_level /\ path.parray = p
      /\ \A i \in 1..root_level : path.ppos[i] = ChildPos(<<i, p[i]>>, key)
  BY <1>1, PathTakenType
<1>4. PICK turn : turn = TurnLevel(path)
  OBVIOUS
<1>5. /\ ~(turn > path.rl)
      /\ sib \in Num /\ ~leaf[sib].lock
      /\ \E q \in [0..(turn - 1) -> Num] : q[0] = sib /\ IsLeftDescent(q, path, turn)
  BY <1>1, <1>4 DEF LeftLeaves
<1>6. turn \in 1..root_level /\ path.ppos[turn] >= 1
  <2> DEFINE S == {i \in 1..path.rl : path.ppos[i] >= 1}
  <2>1. S # {} /\ S \subseteq Nat
    BY <1>2, <1>3, <1>4, <1>5 DEF TurnLevel
  <2>2. turn = CHOOSE i \in S : \A j \in S : i <= j
    BY <2>1, <1>4 DEF TurnLevel
  <2> HIDE DEF S
  <2>3. \E i \in S : \A j \in S : i <= j
    BY <2>1, LeastOf
  <2>4. turn \in S
    BY <2>2, <2>3
  <2> QED
    BY <2>4, <1>3 DEF S
<1>7. PICK q \in [0..(turn - 1) -> Num] : q[0] = sib /\ IsLeftDescent(q, path, turn)
  BY <1>5
<1> DEFINE at(i) == <<i, q[i]>>
<1>8. \A i \in 0..(turn - 1) : at(i) \in Level \X Num
  <2> SUFFICES ASSUME NEW i \in 0..(turn - 1) PROVE at(i) \in Level \X Num
    OBVIOUS
  <2>1. i \in 0..root_level /\ root_level \in Level
    BY <1>2, <1>6 DEF LbInv, TypeOK
  <2>2. i \in Level
    BY <2>1, Constants DEF Level
  <2>3. q[i] \in Num
    BY <1>7
  <2> QED
    BY <2>2, <2>3
<1>9. Reached(at(turn - 1))
  <2>1. PICK m, c : m = <<turn, p[turn]>> /\ c = path.ppos[turn] - 1
    OBVIOUS
  <2>2. m \in Level \X Num /\ m[1] >= 1 /\ m \in used /\ ~bnode[m].lock
    BY <1>2, <1>6, <2>1 DEF Reached
  <2>3. m \in (Level \ {0}) \X Num
    BY <2>2
  <2>4. num(m) \in Nat
    BY <2>3, BnodeParts DEF LbInv
  <2>5. c \in 0..num(m)
    BY <1>2, <1>3, <1>6, <2>1, <2>4
  <2>6. Reached(Below(m, c))
    BY <2>2, <2>5, BelowReached DEF LbInv, Forest
  <2>7. at(turn - 1) = Below(m, c)
    BY <1>3, <1>7, <2>1 DEF IsLeftDescent, Below
  <2> QED
    BY <2>6, <2>7
<1>10. ASSUME NEW i \in 1..(turn - 1), Reached(at(i)) PROVE Reached(at(i - 1))
  <2>1. PICK m : m = at(i)
    OBVIOUS
  <2>2. m \in (Level \ {0}) \X Num /\ m[1] >= 1 /\ m \in used /\ m[1] = i
    BY <1>8, <1>10, <2>1, <1>6, <1>2 DEF Reached
  <2>3. ~bnode[m].lock /\ q[i - 1] = Last(bnode[m].ch)
    BY <1>7, <1>10, <2>1 DEF IsLeftDescent
  <2>4. num(m) \in Nat /\ Len(bnode[m].ch) = num(m) + 1
    BY <2>2, BnodeParts DEF LbInv
  <2>5. q[i - 1] = Child(m, num(m)) /\ num(m) \in 0..num(m)
    BY <2>3, <2>4 DEF Last, Child
  <2>6. Reached(Below(m, num(m)))
    BY <2>2, <2>3, <2>5, BelowReached DEF LbInv, Forest
  <2>7. at(i - 1) = Below(m, num(m))
    BY <2>2, <2>5 DEF Below
  <2> QED
    BY <2>6, <2>7
<1> DEFINE T == {d \in Nat : d <= turn - 1 /\ ~Reached(at(turn - 1 - d))}
<1>11. T = {}
  <2> SUFFICES ASSUME T # {} PROVE FALSE
    OBVIOUS
  <2>1. PICK d \in T : \A e \in T : d <= e
    BY LeastOf
  <2> HIDE DEF at
  <2>2. d # 0
    BY <1>2, <1>6, <1>9, <2>1
  <2>3. d - 1 \in Nat /\ ~(d <= d - 1) /\ d - 1 <= turn - 1
    BY <2>1, <2>2, <1>6
  <2> DEFINE i == turn - 1 - (d - 1)
  <2>4. Reached(at(i)) /\ i \in 1..(turn - 1) /\ i - 1 = turn - 1 - d
    BY <2>1, <2>2, <2>3, <1>2, <1>6
  <2>5. Reached(at(i - 1))
    BY <2>4, <1>10
  <2> QED
    BY <2>1, <2>4, <2>5
<1>12. Reached(at(0))
  <2>1. turn - 1 \in Nat /\ turn - 1 <= turn - 1 /\ turn - 1 - (turn - 1) = 0
    BY <1>2, <1>6
  <2> HIDE DEF at
  <2> QED
    BY <2>1, <1>11
<1> QED
  BY <1>5, <1>7, <1>12

\* A delete locks the leaf and, for its last key, what else it will change.
LEMMA DelFindKeeps ==
  ASSUME LbInv, NEW t \in Thread, DelFind(t)
  PROVE  StepKeeps(t)
<1>1. pc[t] \in OpKind /\ pc[t] # "idle"
  BY DEF DelFind, OpKind
<1>2. PICK key : key = loc[t].key
  OBVIOUS
<1>3. PICK p \in Descents(key) :
        LET path == PathTaken(p, key)
            lone == Cardinality(leaf[p[0]].bitmap) = 1
        IN
        /\ ~leaf[p[0]].lock
        /\ key \in keys(p[0])
        /\ \E sib \in (IF lone THEN LeftLeaves(path) ELSE {Null}) :
             /\ LockLeaves(p[0], sib)
             /\ LockBnodes(IF lone THEN LockedLone(path) ELSE {})
             /\ loc' = [loc EXCEPT ![t].path = path, ![t].sib = sib,
                                   ![t].pos = PosOf(p[0], key)]
  BY <1>2 DEF DelFind
<1>4. PICK path, l, lone : path = PathTaken(p, key) /\ l = p[0]
                           /\ lone = (Cardinality(leaf[l].bitmap) = 1)
  OBVIOUS
<1>5. ~leaf[l].lock /\ key \in keys(l)
  BY <1>3, <1>4
<1>6. PICK sib \in (IF lone THEN LeftLeaves(path) ELSE {Null}) :
             /\ LockLeaves(l, sib)
             /\ LockBnodes(IF lone THEN LockedLone(path) ELSE {})
             /\ loc' = [loc EXCEPT ![t].path = path, ![t].sib = sib,
                                   ![t].pos = PosOf(l, key)]
  BY <1>3, <1>4
<1>7. UNCHANGED <<tree_root, root_level, first_leaf, used, work>>
      /\ pc' = [pc EXCEPT ![t] = "delleaf"]
  BY DEF DelFind, Goto
<1>8. key \in Key
  BY <1>1, <1>2, KeyOf
<1>9. /\ root_level \in Nat /\ tree_root = <<root_level, p[root_level]>>
      /\ p \in [0..root_level -> Num]
      /\ \A i \in 0..root_level : <<i, p[i]>> \in Level \X Num /\ Reached(<<i, p[i]>>)
      /\ \A i \in 1..root_level :
           /\ ~bnode[<<i, p[i]>>].lock
           /\ ChildPos(<<i, p[i]>>, key) \in 0..num(<<i, p[i]>>)
           /\ p[i - 1] = Child(<<i, p[i]>>, ChildPos(<<i, p[i]>>, key))
      /\ \A u \in Thread : AwayFromRoot(u)
  BY <1>4, <1>5, <1>8, DescentFinds
<1>10. /\ PathOK(path) /\ path.rl = root_level /\ path.parray = p
       /\ \A i \in 1..root_level : path.ppos[i] = ChildPos(<<i, p[i]>>, key)
  BY <1>4, <1>5, <1>8, PathTakenType
<1>11. l \in Num /\ Reached(<<0, l>>)
  BY <1>4, <1>9
<1>12. /\ sib \in Num \cup {Null}
       /\ sib # Null => sib \in Num /\ Reached(<<0, sib>>) /\ ~leaf[sib].lock
  <2>1. sib # Null => sib \in LeftLeaves(path)
    BY <1>6
  <2> QED
    BY <1>4, <1>5, <1>8, <2>1, LeftLeafReached
<1>13. PICK B : B = IF lone THEN LockedLone(path) ELSE {}
  OBVIOUS
<1>14. ASSUME NEW n \in LockedLone(path)
       PROVE  /\ n \in (Level \ {0}) \X Num /\ Reached(n) /\ n[1] >= 1 /\ ~bnode[n].lock
              /\ path.ppos[n[1]] \in 0..num(n)
              /\ Child(n, path.ppos[n[1]]) = path.parray[n[1] - 1]
  <2>1. PICK i \in 1..root_level : n = <<i, p[i]>>
    BY <1>10 DEF LockedLone
  <2>2. n \in (Level \ {0}) \X Num /\ Reached(n) /\ n[1] >= 1 /\ ~bnode[n].lock
    BY <1>9, <2>1
  <2> QED
    BY <1>9, <1>10, <2>1, <2>2
<1>15. LockBnodes(B)
  BY <1>6, <1>13
<1>16. PICK L : L = {l, sib} \cap Num
  OBVIOUS
<1>17. TakeLeaves(L)
  <2>1. DOMAIN leaf = Num
    BY DEF LbInv, TypeOK, Leaves
  <2>2. leaf' = [x \in Num |-> IF x \in {l, sib} THEN [leaf[x] EXCEPT !.lock = TRUE]
                                                 ELSE leaf[x]]
    BY <1>6, <2>1 DEF LockLeaves
  <2>3. \A x \in Num : x \in {l, sib} <=> x \in L
    BY <1>16
  <2> QED
    BY <2>1, <2>2, <2>3 DEF TakeLeaves
<1>18. PICK v : v = PosOf(l, key)
  OBVIOUS
<1>19. v \in leaf[l].bitmap /\ v \in Slot
  BY <1>5, <1>11, <1>18, PosOfType, LeafParts DEF LbInv
<1>20. PICK a, b, local : a = [loc[t] EXCEPT !.path = path] /\ b = [a EXCEPT !.sib = sib]
                          /\ local = [b EXCEPT !.pos = v]
  OBVIOUS
<1>21. LocalOK(a) /\ LocalOK(b) /\ LocalOK(local)
  <2>1. LocalOK(loc[t])
    BY DEF LbInv, TypeOK
  <2>2. LocalOK(a)
    BY <1>10, <1>20, <2>1, LocalEdit
  <2>3. LocalOK(b)
    BY <1>12, <1>20, <2>2, LocalEdit
  <2>4. LocalOK(local)
    BY <1>19, <1>20, <2>3, LocalEdit
  <2> QED
    BY <2>2, <2>3, <2>4
<1>22. local.path = path /\ local.sib = sib /\ local.pos = v /\ local.key = key
  <2>1. LocalOK(loc[t])
    BY DEF LbInv, TypeOK
  <2>2. a.path = path /\ a.key = key
    BY <1>2, <1>20, <2>1 DEF LocalOK
  <2>3. b.path = path /\ b.key = key /\ b.sib = sib
    BY <1>20, <1>21, <2>2 DEF LocalOK
  <2> QED
    BY <1>20, <1>21, <2>3 DEF LocalOK
<1>23. loc' = [loc EXCEPT ![t] = local]
  BY <1>6, <1>18, <1>20
<1>24. pc'[t] = "delleaf" /\ loc'[t] = local
  BY <1>7, <1>23 DEF LbInv, TypeOK
<1>25. lp(t)' = l /\ loc'[t].path = path /\ loc'[t].key = key /\ RootOf(t)' = tree_root
       /\ loc'[t].sib = sib /\ loc'[t].pos = v
  BY <1>4, <1>9, <1>10, <1>22, <1>24 DEF lp, RootOf, At
<1>26. /\ leaf'[l].bitmap = leaf[l].bitmap
       /\ \A n \in (Level \ {0}) \X Num : num(n)' = num(n) /\ bnode'[n].ch = bnode[n].ch
  <2>1. TypeOK /\ LeavesOK /\ used' = used
    BY <1>7 DEF LbInv
  <2>2. /\ leaf'[l].bitmap = leaf[l].bitmap
        /\ \A n \in (Level \ {0}) \X Num : bnode'[n].k = bnode[n].k
                                            /\ bnode'[n].ch = bnode[n].ch
    BY <1>11, <1>15, <1>17, <2>1, LocksTaken
  <2> QED
    BY <2>2 DEF num
<1>27. Lone(t, 1)' = LockedLone(path)
  <2>1. \A j \in 1..root_level : At(t, j)' = <<j, path.parray[j]>>
                                 /\ num(At(t, j))' = num(<<j, path.parray[j]>>)
    <3> SUFFICES ASSUME NEW j \in 1..root_level
                 PROVE  At(t, j)' = <<j, path.parray[j]>>
                        /\ num(At(t, j))' = num(<<j, path.parray[j]>>)
      OBVIOUS
    <3>1. PICK n : n = <<j, path.parray[j]>>
      OBVIOUS
    <3>2. At(t, j)' = n
      BY <1>25, <3>1 DEF At
    <3>3. n \in (Level \ {0}) \X Num
      BY <1>9, <1>10, <3>1
    <3>4. num(At(t, j))' = num(n)'
      BY <3>2 DEF num
    <3> QED
      BY <1>26, <3>1, <3>2, <3>3, <3>4
  <2>2. \A j \in 1..root_level : \A m \in 1..(j - 1) : m \in 1..root_level
    BY <1>9
  <2>3. loc'[t].path.rl = root_level
    BY <1>10, <1>25
  <2>4. {h \in 1..root_level : \A m \in 1..(h - 1) : num(At(t, m))' = 0}
          = {h \in 1..root_level : \A m \in 1..(h - 1) : num(<<m, path.parray[m]>>) = 0}
    BY <2>1, <2>2
  <2>5. Lone(t, 1)' = {At(t, j)' : j \in {h \in 1..root_level :
                                    \A m \in 1..(h - 1) : num(At(t, m))' = 0}}
    BY <2>3 DEF Lone
  <2>6. LockedLone(path) = {<<j, path.parray[j]>> : j \in {h \in 1..root_level :
                               \A m \in 1..(h - 1) : num(<<m, path.parray[m]>>) = 0}}
    BY <1>10 DEF LockedLone
  <2> QED
    BY <2>1, <2>4, <2>5, <2>6
<1>28. LastKey(t)' => lone
  <2>1. LastKey(t)' => leaf[l].bitmap = {v}
    BY <1>25, <1>26 DEF LastKey
  <2>2. Cardinality({v}) = 1
    BY FS_Singleton
  <2> QED
    BY <1>4, <2>1, <2>2
<1>29. \A n : HoldsBnode(t, n)' => n \in B /\ n \in LockedLone(path)
  <2>1. \A n : HoldsBnode(t, n)' => LastKey(t)' /\ n \in Lone(t, 1)'
    BY <1>24 DEF HoldsBnode, Climbing, Growing
  <2> QED
    BY <2>1, <1>13, <1>27, <1>28
<1>30. \A n : HoldsLeaf(t, n)' =>
         n \in {<<0, l>>, <<0, sib>>} /\ (n = <<0, sib>> => n = <<0, l>> \/ sib # Null)
  BY <1>24, <1>25 DEF HoldsLeaf
<1>31. RootSeen(t)'
  BY <1>7, <1>10, <1>24, <1>25 DEF RootSeen, OnPath, Climbing, Growing
<1>32. ThreadOK(t)'
  <2>1. ClimbOK(t)'
    <3>1. PathOK(loc[t].path)'
      BY <1>10, <1>25 DEF PathOK
    <3> QED
      BY <1>24, <3>1 DEF ClimbOK, OnPath, Climbing, Growing, Carries
  <2>2. DeleteOK(t)'
    <3>1. \A n \in Level \X Num : HoldsBnode(t, n)' =>
            /\ path.ppos[n[1]] <= num(n)'
            /\ Child(n, path.ppos[n[1]])' = path.parray[n[1] - 1]
      <4> SUFFICES ASSUME NEW n \in LockedLone(path)
                   PROVE  /\ path.ppos[n[1]] <= num(n)'
                          /\ Child(n, path.ppos[n[1]])' = path.parray[n[1] - 1]
        BY <1>29
      <4>1. num(n)' = num(n) /\ bnode'[n].ch = bnode[n].ch /\ num(n) \in Nat
        BY <1>14, <1>26, BnodeParts DEF LbInv
      <4>2. Child(n, path.ppos[n[1]])' = Child(n, path.ppos[n[1]])
        BY <4>1, <1>10 DEF Child
      <4> QED
        BY <1>14, <4>1, <4>2
    <3>2. loc'[t].pos \in leaf'[lp(t)'].bitmap
      BY <1>19, <1>25, <1>26
    <3>3. \A n \in Level \X Num : HoldsBnode(t, n)' =>
            /\ (loc[t].path.ppos[n[1]])' <= num(n)'
            /\ Child(n, loc[t].path.ppos[n[1]])' = (loc[t].path.parray[n[1] - 1])'
      BY <3>1, <1>25 DEF Child
    <3> QED
      BY <1>24, <3>2, <3>3 DEF DeleteOK
  <2>3. LeafOK(t)'
    BY <1>8, <1>24, <1>25 DEF LeafOK
  <2> QED
    BY <2>1, <2>2, <2>3 DEF ThreadOK
<1>33. /\ L \subseteq Num /\ \A x \in L : Reached(<<0, x>>) /\ ~leaf[x].lock
       /\ \A n : Holds(t, n)' => n \in B \/ \E x \in L : n = <<0, x>>
  <2>1. L \subseteq Num /\ l \in L /\ (sib # Null => sib \in L)
    BY <1>11, <1>12, <1>16
  <2>2. \A x \in L : Reached(<<0, x>>) /\ ~leaf[x].lock
    BY <1>5, <1>11, <1>12, <1>16, Constants
  <2>3. \A n : Holds(t, n)' => n \in B \/ \E x \in L : n = <<0, x>>
    BY <2>1, <1>29, <1>30 DEF Holds
  <2> QED
    BY <2>1, <2>2, <2>3
<1>34. \A n \in B : Reached(n) /\ n[1] >= 1 /\ ~bnode[n].lock
  BY <1>13, <1>14
<1>35. pc[t] \in OpKind /\ (\A u \in Thread : AwayFromRoot(u)) /\ LocalOK(local)
       /\ pc' = [pc EXCEPT ![t] = "delleaf"]
  BY <1>1, <1>7, <1>9, <1>21
<1>36. UNCHANGED <<tree_root, root_level, first_leaf, used, work>>
  BY <1>7
<1> QED
  BY <1>15, <1>17, <1>23, <1>31, <1>32, <1>33, <1>34, <1>35, <1>36, LockStep

-----------------------------------------------------------------------------
(* The leaf of a split.                                                    *)

\* What is held of a leaf that is the root, until the tree has grown.
LEMMA RootLeaf ==
  ASSUME LbInv, NEW t \in Thread, pc[t] \in AtLeaf \cup {"level"}, loc[t].path.rl = 0
  PROVE  root_level = 0 /\ Holds(t, RootOf(t)) /\ RootOf(t) = <<0, lp(t)>>
<1>1. RootOf(t) = <<0, lp(t)>>
  BY DEF RootOf, At, lp
<1>2. Holds(t, RootOf(t))
  BY <1>1 DEF Holds, HoldsLeaf
<1>3. pc[t] \in OnPath
  BY DEF AtLeaf, OnPath, Climbing
<1> QED
  BY <1>1, <1>2, <1>3 DEF LbInv, RootOK, RootSeen

\* The old leaf of a split is stored.
LEMMA LeafStored ==
  ASSUME LbInv, NEW t \in Thread, pc[t] \in {"publish", "addleft"},
         NEW l, l = lp(t), NEW r \in Leaf, DistinctKeys(r), leaf' = [leaf EXCEPT ![l] = r],
         NEW label \in {"addleft", "level"}, pc' = [pc EXCEPT ![t] = label],
         UNCHANGED <<upper, first_leaf, used, loc, work>>,
         label = "level" => r.lock = ~UnlocksLeaf,
         label = "addleft" => /\ r.lock /\ r.bitmap # Slot
                              /\ loc[t].key \notin {r.ent[s] : s \in r.bitmap}
  PROVE  StepKeeps(t)
<1>1. /\ l \in Num /\ Holds(t, <<0, l>>) /\ <<0, l>> \in used /\ PathOK(loc[t].path)
  BY LeafHeld DEF AtLeaf
<1>2. /\ TypeOK /\ LeavesOK /\ LocalOK(loc[t]) /\ label \in Label
      /\ UNCHANGED <<tree_root, root_level, bnode, first_leaf, used, work>>
  BY DEF LbInv, TypeOK, upper, Label
<1>3. /\ leaf' \in Leaves /\ LeavesOK' /\ leaf'[l] = r
      /\ \A x \in Num : x # l => leaf'[x] = leaf[x]
  BY <1>1, <1>2, LeafChanges
<1>4. TypeOK' /\ OthersStay(t) /\ pc'[t] = label /\ loc'[t] = loc[t]
  <2>1. /\ tree_root' \in Level \X Num /\ root_level' \in Level
        /\ first_leaf' \in Num \cup {Null} /\ bnode' \in Bnodes
        /\ used' \subseteq Level \X Num
    BY <1>2 DEF TypeOK
  <2> QED
    BY <1>2, <1>3, <2>1, TypeStep
<1>5. /\ lp(t)' = l /\ RootOf(t)' = RootOf(t) /\ LockedFull(loc[t].path)' = LockedFull(loc[t].path)
      /\ PathOK(loc[t].path)'
  BY <1>1, <1>4 DEF lp, RootOf, At, LockedFull, PathOK
<1>6. \A n : HoldsBnode(t, n)' => HoldsBnode(t, n) /\ n \in LockedFull(loc[t].path)
  BY <1>4, <1>5 DEF HoldsBnode, Climbing, Growing
<1>7. ASSUME NEW n, HoldsLeaf(t, n)'
      PROVE  /\ n = <<0, l>> /\ Holds(t, n)
             /\ leaf'[l].lock
  <2>1. n = <<0, l>> /\ (label = "level" => loc[t].path.rl = 0)
    BY <1>4, <1>5, <1>7 DEF HoldsLeaf, AtLeaf
  <2>2. label = "level" => root_level = 0
    BY <2>1, RootLeaf DEF AtLeaf
  <2>3. label = "level" => leaf'[l].lock
    <3> SUFFICES ASSUME label = "level" PROVE leaf'[l].lock
      OBVIOUS
    <3>1. ~UnlocksLeaf
      BY <2>2 DEF UnlocksLeaf
    <3> QED
      BY <1>3, <3>1
  <2>4. label = "addleft" => leaf'[l].lock
    BY <1>3
  <2> QED
    BY <1>1, <2>1, <2>3, <2>4
<1>8. ASSUME NEW n \in Level \X Num PROVE Mine(t, n) \/ Kept(n)
  <2>1. CASE n = <<0, l>>
    BY <1>1, <2>1 DEF Mine
  <2>2. CASE n # <<0, l>>
    <3>1. n[1] = 0 => n[2] \in Num /\ n[2] # l
      BY <2>2
    <3> QED
      BY <1>2, <1>3, <3>1 DEF Kept
  <2> QED
    BY <2>1, <2>2
<1>9. ASSUME NEW n \in Level \X Num, Holds(t, n)'
      PROVE  n \in used' /\ IsLocked(n)' /\ Mine(t, n)
  <2>1. CASE HoldsLeaf(t, n)'
    <3>1. n = <<0, l>> /\ Holds(t, n) /\ leaf'[l].lock
      BY <2>1, <1>7
    <3> QED
      BY <3>1, <1>1, <1>2 DEF IsLocked, Mine
  <2>2. CASE HoldsBnode(t, n)'
    <3>1. HoldsBnode(t, n) /\ n[1] # 0
      BY <2>2, <1>1, <1>6, PathParts DEF LockedFull
    <3>2. n \in used /\ IsLocked(n)
      BY <3>1 DEF LbInv, LocksOK, Holds
    <3> QED
      BY <3>1, <3>2, <1>2 DEF IsLocked, Mine, Holds
  <2> QED
    BY <1>9, <2>1, <2>2 DEF Holds
<1>10. OwnStep(t)
  BY <1>2, <1>4, <1>8, <1>9 DEF OwnStep
<1>11. \A n : Holds(t, n)' => Holds(t, n)
  BY <1>6, <1>7 DEF Holds
<1>12. RootSeen(t)'
  <2>1. RootSeen(t)
    BY DEF LbInv, RootOK
  <2>2. pc[t] \in OnPath
    BY DEF OnPath, Climbing
  <2> QED
    BY <1>2, <1>4, <1>5, <1>11, <2>1, <2>2 DEF RootSeen
<1>13. RootOK' /\ Forest'
  <2>1. /\ Carries(t)' /\ Carries(t) /\ Carried(t)' = Carried(t)
        /\ \A m, p : ~Dangles(t, m, p) /\ ~Dangles(t, m, p)'
    BY <1>4 DEF Carries, Carried, Dangles
  <2>2. /\ pc[t] \notin {"growroot", "growlevel", "shrinkroot"}
        /\ pc'[t] \notin {"growroot", "growlevel"}
    BY <1>4
  <2> QED
    BY <1>2, <1>10, <1>11, <1>12, <2>1, <2>2, TreeStays
<1>14. ThreadOK(t)'
  <2>1. ThreadOK(t)
    BY DEF LbInv
  <2>2. ClimbOK(t)'
    <3>1. pc[t] \in Climbing /\ pc'[t] \in Climbing /\ pc'[t] # "bnode" /\ pc'[t] \notin Growing
      BY <1>4 DEF Climbing, Growing
    <3>2. \A n : num(n)' = num(n)
      BY <1>2 DEF num
    <3>3. \A n \in Level \X Num : HoldsBnode(t, n)' =>
            /\ (loc[t].path.isfull[n[1]])' <=> num(n)' = NON_LEAF_KEY_NUM
            /\ (loc[t].path.ppos[n[1]])' <= num(n)'
      BY <1>4, <1>6, <2>1, <3>1, <3>2 DEF ThreadOK, ClimbOK
    <3>4. loc[t].path.isfull[0] /\ loc[t].ptr \in Num /\ loc[t].sep \in Key
      BY <2>1, <3>1 DEF ThreadOK, ClimbOK, Carries
    <3> QED
      BY <1>4, <1>5, <3>1, <3>3, <3>4 DEF ClimbOK, Growing
  <2>3. DeleteOK(t)'
    BY <1>4 DEF DeleteOK
  <2>4. LeafOK(t)'
    <3>1. loc[t].key \in Key
      BY KeyOf
    <3>2. keys(lp(t))' = {r.ent[s] : s \in r.bitmap} /\ (isFull(lp(t))' <=> r.bitmap = Slot)
      BY <1>3, <1>5 DEF keys, isFull
    <3> QED
      BY <1>4, <3>1, <3>2 DEF LeafOK
  <2> QED
    BY <2>2, <2>3, <2>4 DEF ThreadOK
<1> QED
  BY <1>3, <1>4, <1>10, <1>13, <1>14 DEF StepKeeps

\* The new leaf is published, the moved slots are freed.
LEMMA SplitPublishKeeps ==
  ASSUME LbInv, NEW t \in Thread, SplitPublish(t)
  PROVE  StepKeeps(t)
<1>1. pc[t] = "publish"
  BY DEF SplitPublish
<1>2. PICK l, sep, above : l = lp(t) /\ sep = loc[t].sep /\ above = (loc[t].key > sep)
  OBVIOUS
<1>3. PICK bm : bm = {s \in Slot : leaf[l].ent[s] < sep}
  OBVIOUS
<1>4. PICK r : r = [leaf[l] EXCEPT !.bitmap = bm, !.alt = 1 - @, !.lock = ~(above /\ UnlocksLeaf)]
  OBVIOUS
<1>5. /\ l \in Num /\ DistinctKeys(leaf[l]) /\ leaf[l] \in Leaf /\ leaf[l].bitmap = Slot
      /\ loc[t].key \in Key /\ loc[t].key \notin keys(l)
      /\ \E s \in Slot : leaf[l].ent[s] = sep
      /\ sep \in Key
  BY <1>1, <1>2, LeafHeld, LeafParts, KeyOf
     DEF AtLeaf, LbInv, ThreadOK, LeafOK, ClimbOK, Carries, isFull
<1>6. /\ r \in Leaf /\ r.bitmap = bm /\ r.ent = leaf[l].ent
      /\ r.lock = ~(above /\ UnlocksLeaf)
  <2>1. PICK lk, al : lk = ~(above /\ UnlocksLeaf) /\ al = 1 - leaf[l].alt
    OBVIOUS
  <2>2. lk \in BOOLEAN /\ bm \subseteq Slot /\ al \in {0, 1}
    BY <1>3, <1>5, <2>1 DEF Leaf
  <2>3. r = [leaf[l] EXCEPT !.bitmap = bm, !.alt = al, !.lock = lk]
    BY <1>4, <2>1
  <2>4. r \in Leaf /\ r.bitmap = bm /\ r.ent = leaf[l].ent /\ r.lock = lk
    BY <1>5, <2>2, <2>3 DEF Leaf
  <2> QED
    BY <2>1, <2>4
<1>7. DistinctKeys(r)
  BY <1>3, <1>5, <1>6 DEF DistinctKeys
<1>8. bm # Slot
  <2>1. PICK s \in Slot : leaf[l].ent[s] = sep
    BY <1>5
  <2>2. sep \in Nat /\ ~(sep < sep)
    BY <1>5, Constants
  <2> QED
    BY <1>3, <2>1, <2>2
<1>9. loc[t].key \notin {r.ent[s] : s \in r.bitmap}
  BY <1>3, <1>5, <1>6 DEF keys
<1>10. leaf' = [leaf EXCEPT ![l] = r]
  BY <1>2, <1>3, <1>4 DEF SplitPublish
<1>11. PICK label : label = IF above THEN "level" ELSE "addleft"
  OBVIOUS
<1>12. label \in {"addleft", "level"} /\ pc' = [pc EXCEPT ![t] = label]
  BY <1>2, <1>11 DEF SplitPublish, Goto
<1>13. /\ label = "level" => r.lock = ~UnlocksLeaf
       /\ label = "addleft" => r.lock
  BY <1>2, <1>6, <1>11 DEF UnlocksLeaf
<1>14. UNCHANGED <<upper, first_leaf, used, loc, work>>
  BY DEF SplitPublish
<1> QED
  BY <1>1, <1>2, <1>6, <1>7, <1>8, <1>9, <1>10, <1>12, <1>13, <1>14, LeafStored

\* The key goes to the lower half.
LEMMA InsertLeftKeeps ==
  ASSUME LbInv, NEW t \in Thread, InsertLeft(t)
  PROVE  StepKeeps(t)
<1>1. pc[t] = "addleft"
  BY DEF InsertLeft
<1>2. PICK l : l = lp(t)
  OBVIOUS
<1>3. /\ l \in Num /\ DistinctKeys(leaf[l])
      /\ loc[t].key \in Key /\ loc[t].key \notin keys(l) /\ ~isFull(l)
  BY <1>1, <1>2, LeafHeld, KeyOf DEF AtLeaf, LbInv, ThreadOK, LeafOK
<1>4. PICK e, b : e = WithEntry(leaf[l].bitmap, leaf[l].ent, loc[t].key) /\ b = ~UnlocksLeaf
  OBVIOUS
<1>5. PICK r : r = [leaf[l] EXCEPT !.bitmap = e.bitmap, !.ent = e.ent, !.lock = b]
  OBVIOUS
<1>6. b \in BOOLEAN
  BY <1>4
<1>7. r \in Leaf /\ DistinctKeys(r)
  BY <1>3, <1>4, <1>5, <1>6, EntryAdded
<1>8. r.lock = b
  BY <1>3, <1>5, LeafParts DEF LbInv, Leaf
<1>9. leaf' = [leaf EXCEPT ![l] = r]
  BY <1>2, <1>4, <1>5 DEF InsertLeft
<1> QED
  BY <1>1, <1>2, <1>4, <1>7, <1>8, <1>9, LeafStored DEF InsertLeft, Goto

-----------------------------------------------------------------------------
(* The root's level.                                                       *)

\* What a walk up holds is not above the root level it reads.
LEMMA HeldBelow ==
  ASSUME LbInv, NEW t \in Thread, pc[t] \notin {"growroot", "growlevel", "shrinkroot"},
         NEW n \in Level \X Num, Holds(t, n)
  PROVE  n[1] <= root_level
<1>1. /\ n \in used /\ root_level \in Nat /\ n[1] \in Nat
      /\ \A u \in Thread : RootSeen(u) /\ ThreadOK(u)
      /\ \A u \in Thread : Carries(u) => n # Carried(u)
  BY Constants DEF LbInv, LocksOK, TypeOK, RootOK, Forest, CarriedApart
<1>2. TopOnly /\ tree_root \in Level \X Num
  BY DEF LbInv, Forest, TypeOK
<1>3. CASE \E u \in Thread : pc[u] = "growroot"
  <2>1. PICK u \in Thread : pc[u] = "growroot"
    BY <1>3
  <2>2. NewRoot(u) \in Level \X Num /\ IsApex(NewRoot(u))
    BY <1>1, <2>1 DEF ThreadOK, ClimbOK, IsApex
  <2>3. root_level = loc[u].lev
    BY <1>1, <2>1 DEF RootSeen
  <2>4. n[1] <= NewRoot(u)[1]
    BY <1>1, <1>2, <2>2 DEF TopOnly
  <2> QED
    BY <2>3, <2>4 DEF NewRoot
<1>4. CASE \A u \in Thread : pc[u] # "growroot"
  <2>1. IsApex(tree_root)
    BY <1>4 DEF IsApex
  <2>2. /\ n[1] <= tree_root[1]
        /\ n[1] = tree_root[1] => n = tree_root
    BY <1>1, <1>2, <2>1 DEF TopOnly
  <2>3. CASE tree_root[1] = root_level
    BY <2>2, <2>3
  <2>4. CASE \E u \in Thread : pc[u] \in {"growroot", "growlevel", "shrinkroot"}
    <3>1. PICK u \in Thread : pc[u] \in {"growlevel", "shrinkroot"}
      BY <1>4, <2>4
    <3>2. Holds(u, tree_root) /\ root_level = loc[u].lev - 1 /\ tree_root[1] = loc[u].lev
      BY <1>1, <3>1 DEF RootSeen, Holds, HoldsBnode, Growing, NewRoot, Here
    <3>3. n # tree_root
      BY <1>2, <3>1, <3>2 DEF LbInv, LocksOK
    <3>4. loc[u].lev \in Nat
      BY <1>2, <3>2, Constants
    <3> QED
      BY <1>1, <2>2, <3>2, <3>3, <3>4
  <2> QED
    BY <2>3, <2>4 DEF LbInv, RootOK
<1> QED
  BY <1>3, <1>4

\* A step of the thread that holds the root moves it.
LEMMA RootMoves ==
  ASSUME LbInv, NEW t \in Thread, OwnStep(t), Holds(t, tree_root), RootSeen(t)',
         IsLocked(tree_root)' \/ tree_root' \in used',
         \/ tree_root'[1] = root_level'
         \/ pc'[t] \in {"growroot", "growlevel", "shrinkroot"}
  PROVE  RootOK'
<1>1. ASSUME NEW u \in Thread \ {t} PROVE RootSeen(u)'
  <2>1. ~Holds(u, tree_root) /\ RootSeen(u)
    BY DEF LbInv, LocksOK, RootOK, TypeOK
  <2>2. AwayFromRoot(u)
    BY <2>1, NotAtRoot
  <2>3. pc'[u] = pc[u] /\ loc'[u] = loc[u] /\ \A n : Holds(u, n)' <=> Holds(u, n)
    BY StepLocks DEF OwnStep, OthersStay, LbInv
  <2> QED
    BY <2>2, <2>3, AwayStays
<1> QED
  BY <1>1 DEF RootOK

\* A bnode that changes.
LEMMA BnodeChanges ==
  ASSUME TypeOK, NEW n \in (Level \ {0}) \X Num, NEW r \in Bnode,
         Len(r.ch) = Len(r.k) + 1, Len(r.k) <= NON_LEAF_KEY_NUM,
         bnode' = [bnode EXCEPT ![n] = r]
  PROVE  /\ bnode' \in Bnodes /\ bnode'[n] = r
         /\ \A m : m # n => bnode'[m] = bnode[m]
<1>1. /\ bnode \in [(Level \ {0}) \X Num -> Bnode]
      /\ \A m \in (Level \ {0}) \X Num : /\ Len(bnode[m].ch) = Len(bnode[m].k) + 1
                                         /\ Len(bnode[m].k) <= NON_LEAF_KEY_NUM
  BY DEF TypeOK, Bnodes
<1>2. /\ bnode' \in [(Level \ {0}) \X Num -> Bnode] /\ bnode'[n] = r
      /\ \A m \in (Level \ {0}) \X Num : m # n => bnode'[m] = bnode[m]
  BY <1>1
<1>3. bnode' \in Bnodes
  BY <1>1, <1>2 DEF Bnodes
<1> QED
  BY <1>1, <1>2, <1>3

\* The root level is read again, and still is the one of the path as far as it
\* matters.
LEMMA ReadLevelKeeps ==
  ASSUME LbInv, NEW t \in Thread, ReadLevel(t)
  PROVE  StepKeeps(t)
<1>1. /\ pc[t] = "level" /\ UNCHANGED <<upper, lower, used>>
      /\ loc' = [loc EXCEPT ![t].total = root_level, ![t].lev = 1]
  BY DEF ReadLevel
<1>2. PICK label : label = IF root_level >= 1 THEN "bnode" ELSE "grow"
  OBVIOUS
<1>3. pc' = [pc EXCEPT ![t] = label]
  BY <1>2 DEF ReadLevel, Goto
<1>4. /\ UNCHANGED <<tree_root, root_level, bnode, first_leaf, leaf, used, work>>
      /\ TypeOK /\ label \in Label
  BY <1>1, <1>2 DEF upper, lower, LbInv, Label
<1>5. PICK a, local : a = [loc[t] EXCEPT !.total = root_level]
                      /\ local = [a EXCEPT !.lev = 1]
  OBVIOUS
<1>6. LocalOK(loc[t]) /\ LocalOK(a) /\ LocalOK(local)
  <2>1. LocalOK(loc[t]) /\ root_level \in Level
    BY <1>4 DEF TypeOK
  <2>2. LocalOK(a)
    BY <1>5, <2>1, LocalEdit
  <2>3. 1 \in 0..(MaxLevel + 1)
    BY Constants
  <2>4. LocalOK(local)
    BY <1>5, <2>2, <2>3, LocalEdit
  <2> QED
    BY <2>1, <2>2, <2>4
<1>7. /\ local.path = loc[t].path /\ local.key = loc[t].key /\ local.ptr = loc[t].ptr
      /\ local.sep = loc[t].sep /\ local.total = root_level /\ local.lev = 1
  <2>1. /\ a.path = loc[t].path /\ a.key = loc[t].key /\ a.ptr = loc[t].ptr
        /\ a.sep = loc[t].sep /\ a.total = root_level
    BY <1>5, <1>6 DEF LocalOK
  <2> QED
    BY <1>5, <1>6, <2>1 DEF LocalOK
<1>8. loc' = [loc EXCEPT ![t] = local]
  BY <1>1, <1>5
<1>9. TypeOK' /\ OthersStay(t) /\ pc'[t] = label /\ loc'[t] = local
  <2>1. /\ tree_root' \in Level \X Num /\ root_level' \in Level
        /\ first_leaf' \in Num \cup {Null} /\ bnode' \in Bnodes /\ leaf' \in Leaves
        /\ used' \subseteq Level \X Num /\ work' = work
    BY <1>4 DEF TypeOK
  <2> QED
    BY <1>3, <1>4, <1>6, <1>8, <2>1, TypeStep
<1>10. LeavesOK'
  BY <1>4 DEF LbInv, LeavesOK, DistinctKeys
<1>11. PICK path : path = loc[t].path
  OBVIOUS
<1>12. /\ PathOK(path) /\ path.isfull[0] /\ loc'[t].path = path /\ path.rl \in Nat
       /\ root_level \in Nat
  BY <1>1, <1>4, <1>7, <1>9, <1>11, PathParts, Constants
     DEF LbInv, ThreadOK, ClimbOK, OnPath, Climbing, TypeOK
<1>13. /\ RootOf(t)' = RootOf(t) /\ lp(t)' = lp(t)
       /\ LockedFull(path)' = LockedFull(path) /\ AllFull(path)' = AllFull(path)
  BY <1>11, <1>12 DEF RootOf, At, lp, LockedFull, AllFull
<1>14. ASSUME NEW n \in LockedFull(path)
       PROVE  /\ HoldsBnode(t, n) /\ n \in Level \X Num /\ n[1] >= 1 /\ n[1] <= root_level
  <2>1. HoldsBnode(t, n)
    BY <1>1, <1>11 DEF HoldsBnode, Climbing
  <2>2. n \in Level \X Num
    BY <2>1, HeldIsNode DEF LbInv, Holds
  <2>3. n[1] >= 1
    BY <1>12 DEF LockedFull
  <2> QED
    BY <1>1, <2>1, <2>2, <2>3, HeldBelow DEF Holds
<1>15. path.rl >= 1 => <<1, path.parray[1]>> \in LockedFull(path)
  BY <1>12 DEF LockedFull
<1>16. path.rl = 0 => root_level = 0 /\ Holds(t, RootOf(t))
  BY <1>1, <1>11, RootLeaf
<1>17. label = "grow" => path.rl = 0 /\ root_level = 0
  BY <1>2, <1>12, <1>14, <1>15
<1>18. label = "bnode" => path.rl >= 1 /\ root_level >= 1
  BY <1>2, <1>12, <1>16
<1>19. ASSUME NEW n, Holds(t, n)' PROVE Holds(t, n) /\ n \in Level \X Num
  <2>1. CASE label = "bnode"
    <3>1. n \in LockedFull(path)
      BY <1>9, <1>12, <1>13, <1>19, <2>1 DEF Holds, HoldsLeaf, HoldsBnode, AtLeaf, Growing, Climbing
    <3> QED
      BY <1>14, <3>1 DEF Holds
  <2>2. CASE label = "grow"
    <3>1. n = RootOf(t)
      BY <1>9, <1>13, <1>19, <2>2 DEF Holds, HoldsLeaf, HoldsBnode, AtLeaf, Growing, Climbing
    <3>2. Holds(t, n)
      BY <1>16, <1>17, <2>2, <3>1
    <3> QED
      BY <3>2, HeldIsNode DEF LbInv
  <2> QED
    BY <1>2, <2>1, <2>2
<1>20. OwnStep(t)
  <2>1. \A n \in Level \X Num : Holds(t, n)' => n \in used' /\ IsLocked(n)' /\ Mine(t, n)
    BY <1>4, <1>19 DEF LbInv, LocksOK, IsLocked, Mine
  <2> QED
    BY <1>4, <1>9, <2>1 DEF OwnStep, Kept
<1>21. RootSeen(t)'
  <2>1. RootSeen(t)
    BY DEF LbInv, RootOK
  <2>2. pc[t] \in OnPath
    BY <1>1 DEF OnPath, Climbing
  <2>3. CASE label = "bnode"
    BY <1>4, <1>7, <1>9, <1>11, <1>13, <1>19, <2>1, <2>2, <2>3 DEF RootSeen
  <2>4. CASE label = "grow"
    <3>1. tree_root = RootOf(t) /\ root_level = 0
      BY <1>16, <1>17, <2>1, <2>2, <2>4 DEF RootSeen
    <3> QED
      BY <1>4, <1>7, <1>9, <1>13, <2>4, <3>1 DEF RootSeen, OnPath, Climbing
  <2> QED
    BY <1>2, <2>3, <2>4
<1>22. RootOK' /\ Forest'
  <2>1. /\ Carries(t)' /\ Carries(t)
        /\ \A m, p : ~Dangles(t, m, p) /\ ~Dangles(t, m, p)'
    BY <1>1, <1>2, <1>9 DEF Carries, Dangles
  <2>2. Carried(t)' = Carried(t)
    BY <1>1, <1>2, <1>7, <1>9 DEF Carried
  <2>3. /\ pc[t] \notin {"growroot", "growlevel", "shrinkroot"}
        /\ pc'[t] \notin {"growroot", "growlevel"}
    BY <1>1, <1>2, <1>9
  <2>4. \A n : Holds(t, n)' => Holds(t, n)
    BY <1>19
  <2> QED
    BY <1>4, <1>20, <1>21, <2>1, <2>2, <2>3, <2>4, TreeStays
<1>23. ThreadOK(t)'
  <2>1. ThreadOK(t)
    BY DEF LbInv
  <2>2. ClimbOK(t)'
    <3>1. PathOK(loc[t].path)'
      BY <1>12 DEF PathOK
    <3>2. label = "bnode" => \A n \in Level \X Num : HoldsBnode(t, n)' =>
            /\ (loc[t].path.isfull[n[1]])' <=> num(n)' = NON_LEAF_KEY_NUM
            /\ (loc[t].path.ppos[n[1]])' <= num(n)'
      <4> SUFFICES ASSUME label = "bnode", NEW n \in Level \X Num, HoldsBnode(t, n)'
                   PROVE  /\ path.isfull[n[1]] <=> num(n) = NON_LEAF_KEY_NUM
                          /\ path.ppos[n[1]] <= num(n)
        BY <1>4, <1>12 DEF num
      <4>1. n \in LockedFull(path)
        BY <1>9, <1>12, <1>13 DEF HoldsBnode, Growing, Climbing
      <4>2. HoldsBnode(t, n)
        BY <1>14, <4>1
      <4> QED
        BY <1>1, <1>11, <2>1, <4>2 DEF ThreadOK, ClimbOK, Climbing
    <3>3. label = "bnode" =>
            /\ Here(t)' \in LockedFull(path) /\ loc'[t].lev \in 1..path.rl
            /\ \A n \in LockedFull(path) : n[1] <= loc'[t].total
      BY <1>7, <1>9, <1>12, <1>14, <1>15, <1>18 DEF Here
    <3>4. AllFull(path) /\ path.rl >= 1 => root_level = path.rl
      <4> SUFFICES ASSUME AllFull(path), path.rl >= 1 PROVE root_level = path.rl
        OBVIOUS
      <4>1. RootOf(t) \in LockedFull(path)
        BY <1>11, <1>12 DEF AllFull, LockedFull, RootOf, At
      <4>2. Holds(t, RootOf(t))
        BY <1>14, <4>1 DEF Holds
      <4> QED
        BY <1>1, <1>11, <4>2 DEF LbInv, RootOK, RootSeen, OnPath, Climbing
    <3>5. label = "grow" => AllFull(path)
      BY <1>12, <1>17 DEF AllFull
    <3>6. loc'[t].ptr \in Num /\ loc'[t].sep \in Key
      BY <1>1, <1>7, <1>9, <2>1 DEF ThreadOK, ClimbOK, Carries
    <3>7. CASE label = "bnode"
      BY <1>7, <1>9, <1>12, <1>13, <1>18, <3>1, <3>2, <3>3, <3>4, <3>6, <3>7
         DEF ClimbOK, Growing, Climbing
    <3>8. CASE label = "grow"
      BY <1>7, <1>9, <1>12, <1>13, <1>17, <3>1, <3>5, <3>6, <3>8
         DEF ClimbOK, Growing, Climbing
    <3> QED
      BY <1>2, <3>7, <3>8
  <2>3. DeleteOK(t)'
    BY <1>2, <1>9 DEF DeleteOK
  <2>4. LeafOK(t)'
    <3>1. loc[t].key \in Key
      BY <1>1, KeyOf
    <3> QED
      BY <1>2, <1>7, <1>9, <3>1 DEF LeafOK
  <2> QED
    BY <2>2, <2>3, <2>4 DEF ThreadOK
<1> QED
  BY <1>9, <1>10, <1>20, <1>22, <1>23 DEF StepKeeps

-----------------------------------------------------------------------------
(* The root moves up.                                                      *)

\* What a thread that grows the tree knows.
LEMMA GrowParts ==
  ASSUME LbInv, NEW t \in Thread, pc[t] \in Growing
  PROVE  /\ PathOK(loc[t].path) /\ RootOf(t) \in Level \X Num
         /\ Holds(t, RootOf(t)) /\ RootOf(t) \in used
         /\ AllFull(loc[t].path) /\ loc[t].total = loc[t].path.rl
         /\ loc[t].path.rl \in Nat /\ loc[t].lev = loc[t].path.rl + 1
         /\ RootOf(t)[1] = loc[t].path.rl
<1>1. /\ PathOK(loc[t].path) /\ AllFull(loc[t].path)
      /\ loc[t].total = loc[t].path.rl /\ loc[t].lev = loc[t].path.rl + 1
  BY DEF LbInv, ThreadOK, ClimbOK
<1>2. loc[t].path.rl \in Nat /\ RootOf(t)[1] = loc[t].path.rl
  BY <1>1, PathParts DEF RootOf, At
<1>3. Holds(t, RootOf(t))
  BY DEF Holds, HoldsBnode
<1>4. RootOf(t) \in Level \X Num
  BY <1>3, HeldIsNode DEF LbInv
<1>5. RootOf(t) \in used
  BY <1>3, <1>4 DEF LbInv, LocksOK
<1> QED
  BY <1>1, <1>2, <1>3, <1>4, <1>5

\* A bnode is unlocked.
LEMMA BnodeUnlocked ==
  ASSUME TypeOK, NEW n \in (Level \ {0}) \X Num,
         bnode' = [bnode EXCEPT ![n].lock = FALSE]
  PROVE  /\ bnode' \in Bnodes /\ ~bnode'[n].lock
         /\ \A m : m # n => bnode'[m] = bnode[m]
         /\ \A m : bnode'[m].k = bnode[m].k /\ bnode'[m].ch = bnode[m].ch
<1>1. PICK r : r = [bnode[n] EXCEPT !.lock = FALSE]
  OBVIOUS
<1>2. bnode[n] \in Bnode /\ Len(bnode[n].ch) = Len(bnode[n].k) + 1
      /\ Len(bnode[n].k) <= NON_LEAF_KEY_NUM
  BY DEF TypeOK, Bnodes
<1>3. r \in Bnode /\ r.k = bnode[n].k /\ r.ch = bnode[n].ch /\ ~r.lock
  BY <1>1, <1>2 DEF Bnode
<1>4. bnode' = [bnode EXCEPT ![n] = r]
  BY <1>1
<1>5. bnode' \in Bnodes /\ bnode'[n] = r /\ \A m : m # n => bnode'[m] = bnode[m]
  <2>1. Len(r.ch) = Len(r.k) + 1 /\ Len(r.k) <= NON_LEAF_KEY_NUM
    BY <1>2, <1>3
  <2> QED
    BY <1>3, <1>4, <2>1, BnodeChanges
<1> QED
  BY <1>3, <1>5

\* Stores to what nobody else has: nothing but the locks change.
LEMMA UnlockOldRootKeeps ==
  ASSUME LbInv, NEW t \in Thread, UnlockOldRoot(t)
  PROVE  StepKeeps(t)
<1>1. /\ pc[t] = "unlockold" /\ pc' = [pc EXCEPT ![t] = "unlocknew"]
      /\ UNCHANGED <<tree_root, root_level, first_leaf, used, loc, work>>
  BY DEF UnlockOldRoot, Goto
<1>2. PICK r : r = RootOf(t)
  OBVIOUS
<1>3. /\ r \in Level \X Num /\ Holds(t, r) /\ r \in used /\ loc[t].old_root = r
      /\ loc[t].total \in Nat /\ r[1] = loc[t].total /\ loc[t].lev = r[1] + 1
  BY <1>1, <1>2, GrowParts DEF Growing, LbInv, ThreadOK, ClimbOK
<1>4. NewRoot(t) \in (Level \ {0}) \X Num /\ Holds(t, NewRoot(t)) /\ NewRoot(t)[1] = r[1] + 1
  BY <1>1, <1>3 DEF LbInv, ThreadOK, ClimbOK, Holds, HoldsBnode, Growing, NewRoot
<1>5. NewRoot(t) \in used /\ bnode[NewRoot(t)].lock /\ NewRoot(t) # r
  BY <1>3, <1>4, Constants DEF LbInv, LocksOK, IsLocked, Level
<1>6. /\ TypeOK /\ LeavesOK /\ "unlocknew" \in Label /\ LocalOK(loc[t])
  BY DEF LbInv, TypeOK, Label
<1>7. /\ bnode' \in Bnodes /\ leaf' \in Leaves /\ LeavesOK'
      /\ \A n \in Level \X Num : n # r => Kept(n)
      /\ \A m : bnode'[m].k = bnode[m].k /\ bnode'[m].ch = bnode[m].ch
  <2>1. CASE loc[t].total > 0
    <3>1. bnode' = [bnode EXCEPT ![r].lock = FALSE] /\ leaf' = leaf
      BY <1>3, <2>1 DEF UnlockOldRoot
    <3>2. r \in (Level \ {0}) \X Num
      BY <1>3, <2>1
    <3>3. /\ bnode' \in Bnodes /\ \A m : m # r => bnode'[m] = bnode[m]
          /\ \A m : bnode'[m].k = bnode[m].k /\ bnode'[m].ch = bnode[m].ch
      BY <1>6, <3>1, <3>2, BnodeUnlocked
    <3>4. LeavesOK'
      BY <1>1, <1>6, <3>1 DEF LeavesOK, DistinctKeys
    <3> QED
      BY <1>6, <3>1, <3>3, <3>4 DEF Kept, TypeOK
  <2>2. CASE ~(loc[t].total > 0)
    <3>1. /\ leaf' = [leaf EXCEPT ![r[2]].lock = FALSE] /\ bnode' = bnode
          /\ r = <<0, r[2]>> /\ r[2] \in Num
      BY <1>3, <2>2 DEF UnlockOldRoot
    <3>2. PICK l, x : l = r[2] /\ x = [leaf[l] EXCEPT !.lock = FALSE]
      OBVIOUS
    <3>3. leaf[l] \in Leaf
      BY <1>6, <3>1, <3>2, LeafParts
    <3>4. x \in Leaf /\ x.bitmap = leaf[l].bitmap /\ x.ent = leaf[l].ent
      BY <3>2, <3>3 DEF Leaf
    <3>5. <<0, l>> \in used => DistinctKeys(x)
      BY <1>6, <3>1, <3>2, <3>4 DEF LeavesOK, DistinctKeys
    <3>6. leaf' = [leaf EXCEPT ![l] = x]
      BY <3>1, <3>2
    <3>7. l \in Num /\ used' \subseteq used
      BY <1>1, <3>1, <3>2
    <3>8. /\ leaf' \in Leaves /\ LeavesOK' /\ \A y \in Num : y # l => leaf'[y] = leaf[y]
      BY <1>6, <3>4, <3>5, <3>6, <3>7, LeafChanges
    <3>9. \A n \in Level \X Num : n # r => Kept(n)
      <4> SUFFICES ASSUME NEW n \in Level \X Num, n # r PROVE Kept(n)
        OBVIOUS
      <4>1. n[1] = 0 => n[2] \in Num /\ n[2] # l
        BY <3>1, <3>2
      <4> QED
        BY <3>1, <3>8, <4>1 DEF Kept
    <3> QED
      BY <1>6, <3>1, <3>8, <3>9 DEF TypeOK
  <2> QED
    BY <2>1, <2>2
<1>8. TypeOK' /\ OthersStay(t) /\ pc'[t] = "unlocknew" /\ loc'[t] = loc[t]
  <2>1. /\ tree_root' \in Level \X Num /\ root_level' \in Level
        /\ first_leaf' \in Num \cup {Null} /\ used' \subseteq Level \X Num /\ work' = work
        /\ loc' = loc
    BY <1>1, <1>6 DEF TypeOK
  <2> QED
    BY <1>1, <1>6, <1>7, <2>1, TypeStep
<1>9. NewRoot(t)' = NewRoot(t)
  BY <1>8 DEF NewRoot
<1>10. \A n : Holds(t, n)' => n = NewRoot(t)
  BY <1>8, <1>9 DEF Holds, HoldsLeaf, HoldsBnode, AtLeaf, Climbing, Growing
<1>11. IsLocked(NewRoot(t))'
  <2>1. NewRoot(t)[1] # 0 /\ bnode'[NewRoot(t)] = bnode[NewRoot(t)]
    BY <1>4, <1>5, <1>7 DEF Kept
  <2>2. PICK n : n = NewRoot(t)
    OBVIOUS
  <2>3. NewRoot(t)' = n
    BY <1>9, <2>2
  <2> QED
    BY <1>5, <2>1, <2>2, <2>3 DEF IsLocked
<1>12. OwnStep(t)
  <2>1. \A n \in Level \X Num : Mine(t, n) \/ Kept(n)
    BY <1>3, <1>7 DEF Mine
  <2>2. PICK x : x = NewRoot(t)
    OBVIOUS
  <2>3. x \in used' /\ Mine(t, x) /\ IsLocked(x)'
    <3>1. NewRoot(t)' = x
      BY <1>9, <2>2
    <3>2. IsLocked(x)'
      BY <1>11, <2>2, <3>1 DEF IsLocked
    <3> QED
      BY <1>1, <1>4, <1>5, <2>2, <3>2 DEF Mine
  <2>4. \A n \in Level \X Num : Holds(t, n)' => n \in used' /\ IsLocked(n)' /\ Mine(t, n)
    BY <1>10, <2>2, <2>3
  <2> QED
    BY <1>1, <1>8, <2>1, <2>4 DEF OwnStep
<1>13. RootSeen(t)'
  <2>1. RootSeen(t)
    BY DEF LbInv, RootOK
  <2> QED
    BY <1>1, <1>8, <1>9, <2>1 DEF RootSeen, OnPath, Climbing
<1>14. RootOK' /\ Forest'
  <2>1. /\ ~Carries(t)' /\ ~Carries(t)
        /\ \A m, p : ~Dangles(t, m, p) /\ ~Dangles(t, m, p)'
    BY <1>1, <1>8 DEF Carries, Dangles
  <2>2. /\ pc[t] \notin {"growroot", "growlevel", "shrinkroot"}
        /\ pc'[t] \notin {"growroot", "growlevel"}
    BY <1>1, <1>8
  <2>3. \A n : Holds(t, n)' => Holds(t, n)
    BY <1>4, <1>10
  <2>4. UNCHANGED <<tree_root, root_level, used>>
    BY <1>1
  <2> QED
    BY <1>7, <1>12, <1>13, <2>1, <2>2, <2>3, <2>4, TreeStays
<1>15. ThreadOK(t)'
  <2>1. loc[t].key \in Key
    BY <1>1, KeyOf
  <2>2. NewRoot(t)' \in (Level \ {0}) \X Num
    BY <1>4, <1>9
  <2> QED
    BY <1>8, <2>1, <2>2 DEF ThreadOK, ClimbOK, DeleteOK, LeafOK, OnPath, Climbing, Growing,
                            Carries
<1> QED
  BY <1>7, <1>8, <1>12, <1>14, <1>15 DEF StepKeeps

\* The new root is unlocked.
LEMMA UnlockNewRootKeeps ==
  ASSUME LbInv, NEW t \in Thread, UnlockNewRoot(t)
  PROVE  StepKeeps(t)
<1>1. /\ pc[t] = "unlocknew" /\ pc' = [pc EXCEPT ![t] = "ret"]
      /\ UNCHANGED <<tree_root, root_level, lower, used, loc>>
  BY DEF UnlockNewRoot, Goto
<1>2. PICK r : r = NewRoot(t)
  OBVIOUS
<1>3. r \in (Level \ {0}) \X Num /\ Holds(t, r)
  BY <1>1, <1>2 DEF LbInv, ThreadOK, ClimbOK, Holds, HoldsBnode, Growing
<1>4. /\ TypeOK /\ LeavesOK /\ "ret" \in Label /\ LocalOK(loc[t])
      /\ UNCHANGED <<first_leaf, leaf, work>>
  BY <1>1 DEF LbInv, TypeOK, Label, lower
<1>5. bnode' = [bnode EXCEPT ![r].lock = FALSE]
  BY <1>2 DEF UnlockNewRoot, NewRoot
<1>6. /\ bnode' \in Bnodes /\ \A m : m # r => bnode'[m] = bnode[m]
      /\ \A m : bnode'[m].k = bnode[m].k /\ bnode'[m].ch = bnode[m].ch
  BY <1>3, <1>4, <1>5, BnodeUnlocked
<1>7. TypeOK' /\ OthersStay(t) /\ pc'[t] = "ret" /\ loc'[t] = loc[t]
  <2>1. /\ tree_root' \in Level \X Num /\ root_level' \in Level
        /\ first_leaf' \in Num \cup {Null} /\ used' \subseteq Level \X Num /\ work' = work
        /\ loc' = loc /\ leaf' \in Leaves
    BY <1>1, <1>4 DEF TypeOK
  <2> QED
    BY <1>1, <1>4, <1>6, <2>1, TypeStep
<1>8. LeavesOK'
  BY <1>1, <1>4 DEF LeavesOK, DistinctKeys
<1>9. /\ \A n : ~Holds(t, n)'
      /\ ~Carries(t)' /\ RootSeen(t)' /\ ThreadOK(t)'
      /\ \A m, p : ~Dangles(t, m, p)'
  BY <1>1, <1>7, QuietNext, KeyOf DEF Quiet
<1>10. OwnStep(t)
  <2>1. \A n \in Level \X Num : Mine(t, n) \/ Kept(n)
    BY <1>3, <1>4, <1>6 DEF Mine, Kept
  <2> QED
    BY <1>1, <1>7, <1>9, <2>1 DEF OwnStep
<1>11. RootOK' /\ Forest'
  <2>1. ~Carries(t) /\ \A m, p : ~Dangles(t, m, p)
    BY <1>1 DEF Carries, Dangles
  <2>2. /\ pc[t] \notin {"growroot", "growlevel", "shrinkroot"}
        /\ pc'[t] \notin {"growroot", "growlevel"}
    BY <1>1, <1>7
  <2> QED
    BY <1>1, <1>6, <1>9, <1>10, <2>1, <2>2, TreeStays
<1> QED
  BY <1>7, <1>8, <1>9, <1>10, <1>11 DEF StepKeeps

\* The second of the two stores that move the root up.
LEMMA GrowSecondStoreKeeps ==
  ASSUME LbInv, NEW t \in Thread, GrowSecondStore(t)
  PROVE  StepKeeps(t)
<1>1. /\ pc[t] \in {"growroot", "growlevel"} /\ pc' = [pc EXCEPT ![t] = "unlockold"]
      /\ UNCHANGED <<bnode, lower, used, loc>>
  BY DEF GrowSecondStore, Goto
<1>2. /\ TypeOK /\ LeavesOK /\ "unlockold" \in Label /\ LocalOK(loc[t])
      /\ UNCHANGED <<first_leaf, leaf, work>>
      /\ RootSeen(t) /\ ThreadOK(t) /\ LocksOK
  BY <1>1 DEF LbInv, TypeOK, Label, lower, RootOK
<1>3. /\ NewRoot(t) \in (Level \ {0}) \X Num /\ Holds(t, NewRoot(t))
      /\ NewRoot(t) \in used /\ IsLocked(NewRoot(t))
  BY <1>1, <1>2, Constants DEF ThreadOK, ClimbOK, Holds, HoldsBnode, Growing, LocksOK
<1>4. tree_root' = NewRoot(t) /\ root_level' = loc[t].lev
  BY <1>1, <1>2 DEF GrowSecondStore, RootSeen, NewRoot
<1>5. TypeOK' /\ OthersStay(t) /\ pc'[t] = "unlockold" /\ loc'[t] = loc[t]
  <2>1. /\ tree_root' \in Level \X Num /\ root_level' \in Level
        /\ first_leaf' \in Num \cup {Null} /\ used' \subseteq Level \X Num /\ work' = work
        /\ loc' = loc /\ leaf' \in Leaves /\ bnode' \in Bnodes
    BY <1>1, <1>2, <1>3, <1>4 DEF TypeOK, NewRoot
  <2> QED
    BY <1>1, <1>2, <2>1, TypeStep
<1>6. LeavesOK'
  BY <1>1, <1>2 DEF LeavesOK, DistinctKeys
<1>7. NewRoot(t)' = NewRoot(t) /\ RootOf(t)' = RootOf(t)
  BY <1>5 DEF NewRoot, RootOf, At
<1>8. \A n : Holds(t, n)' => Holds(t, n)
  BY <1>1, <1>5, <1>7 DEF Holds, HoldsLeaf, HoldsBnode, AtLeaf, Climbing, Growing
<1>9. OwnStep(t)
  BY <1>1, <1>2, <1>5, <1>8 DEF OwnStep, Kept, Mine, LocksOK, IsLocked
<1>10. Holds(t, tree_root)
  BY <1>1, <1>2, <1>3, GrowParts DEF RootSeen, Growing
<1>11. RootSeen(t)'
  BY <1>4, <1>5, <1>7 DEF RootSeen, OnPath, Climbing
<1>12. RootOK'
  <2>1. tree_root' \in used' /\ tree_root'[1] = root_level'
    BY <1>1, <1>3, <1>4 DEF NewRoot
  <2> QED
    BY <1>9, <1>10, <1>11, <2>1, RootMoves
<1>13. ASSUME NEW u \in Thread \ {t} PROVE pc[u] # "growroot" /\ pc'[u] # "growroot"
  <2>1. ~Holds(u, tree_root) /\ RootSeen(u) /\ pc'[u] = pc[u]
    BY <1>2, <1>5, <1>10 DEF LocksOK, LbInv, RootOK, TypeOK, OthersStay
  <2> QED
    BY <2>1, NotAtRoot DEF AwayFromRoot, Growing
<1>14. \A n : IsApex(n)' <=> IsApex(n)
  <2>1. \A n : IsApex(n) <=> n = NewRoot(t)
    <3>1. CASE pc[t] = "growroot"
      BY <1>13, <3>1 DEF IsApex
    <3>2. CASE pc[t] = "growlevel"
      BY <1>2, <1>13, <3>2 DEF IsApex, RootSeen
    <3> QED
      BY <1>1, <3>1, <3>2
  <2>2. \A n : IsApex(n)' <=> n = NewRoot(t)
    BY <1>4, <1>5, <1>13 DEF IsApex
  <2> QED
    BY <2>1, <2>2
<1>15. Forest'
  <2>1. /\ ~Carries(t)' /\ ~Carries(t)
        /\ \A m, p : ~Dangles(t, m, p) /\ ~Dangles(t, m, p)'
    BY <1>1, <1>5 DEF Carries, Dangles
  <2>2. pc'[t] # "growlevel"
    BY <1>5
  <2> QED
    BY <1>1, <1>8, <1>9, <1>14, <2>1, <2>2, ForestSame
<1>16. ThreadOK(t)'
  <2>1. loc[t].key \in Key
    BY <1>1, KeyOf
  <2>2. PathOK(loc[t].path)' /\ AllFull(loc[t].path)'
    <3>1. PathOK(loc[t].path) /\ AllFull(loc[t].path)
      BY <1>1, GrowParts DEF Growing
    <3> QED
      BY <1>5, <3>1 DEF PathOK, AllFull
  <2> QED
    BY <1>1, <1>2, <1>3, <1>5, <1>7, <2>1, <2>2
       DEF ThreadOK, ClimbOK, DeleteOK, LeafOK, OnPath, Climbing, Growing, Carries
<1> QED
  BY <1>5, <1>6, <1>9, <1>12, <1>15, <1>16 DEF StepKeeps

-----------------------------------------------------------------------------
(* The root moves down.                                                    *)

\* The first of the two stores that move the root down.
LEMMA ShrinkLevelKeeps ==
  ASSUME LbInv, NEW t \in Thread, ShrinkLevel(t)
  PROVE  StepKeeps(t)
<1>1. /\ pc[t] = "shrink" /\ pc' = [pc EXCEPT ![t] = "shrinkroot"]
      /\ root_level' = root_level - 1 /\ UNCHANGED <<tree_root, bnode, lower, used, loc>>
  BY DEF ShrinkLevel, Goto
<1>2. /\ TypeOK /\ LeavesOK /\ "shrinkroot" \in Label /\ LocalOK(loc[t])
      /\ UNCHANGED <<first_leaf, leaf, work>>
      /\ RootSeen(t) /\ ThreadOK(t) /\ LocksOK
  BY <1>1 DEF LbInv, TypeOK, Label, lower, RootOK
<1>3. /\ Here(t) \in (Level \ {0}) \X Num /\ num(Here(t)) = 0 /\ Holds(t, Here(t))
      /\ tree_root = Here(t) /\ root_level = loc[t].lev
  BY <1>1, <1>2 DEF ThreadOK, DeleteOK, Holds, HoldsBnode, RootSeen
<1>4. /\ root_level' \in Level /\ IsLocked(tree_root)
  <2>1. loc[t].lev \in Level \ {0}
    BY <1>3 DEF Here
  <2>2. loc[t].lev - 1 \in Level
    BY <2>1, Constants DEF Level
  <2>3. IsLocked(Here(t))
    BY <1>2, <1>3, Constants DEF LocksOK
  <2>4. root_level' = loc[t].lev - 1
    BY <1>1, <1>3
  <2> QED
    BY <1>3, <2>2, <2>3, <2>4
<1>5. TypeOK' /\ OthersStay(t) /\ pc'[t] = "shrinkroot" /\ loc'[t] = loc[t]
  <2>1. /\ tree_root' \in Level \X Num
        /\ first_leaf' \in Num \cup {Null} /\ used' \subseteq Level \X Num /\ work' = work
        /\ loc' = loc /\ leaf' \in Leaves /\ bnode' \in Bnodes
    BY <1>1, <1>2 DEF TypeOK
  <2> QED
    BY <1>1, <1>2, <1>4, <2>1, TypeStep
<1>6. LeavesOK'
  BY <1>1, <1>2 DEF LeavesOK, DistinctKeys
<1>7. Here(t)' = Here(t) /\ num(Here(t))' = num(Here(t))
  BY <1>1, <1>5 DEF Here, num
<1>8. \A n : Holds(t, n)' => Holds(t, n)
  BY <1>1, <1>5, <1>7 DEF Holds, HoldsLeaf, HoldsBnode, AtLeaf, Climbing, Growing
<1>9. OwnStep(t)
  BY <1>1, <1>2, <1>5, <1>8 DEF OwnStep, Kept, Mine, LocksOK, IsLocked
<1>10. RootSeen(t)'
  BY <1>1, <1>3, <1>5, <1>7 DEF RootSeen, OnPath, Climbing
<1>11. RootOK'
  <2>1. IsLocked(tree_root)'
    BY <1>1, <1>2, <1>4 DEF IsLocked
  <2>2. Holds(t, tree_root)
    BY <1>3
  <2> QED
    BY <1>5, <1>9, <1>10, <2>1, <2>2, RootMoves
<1>12. Forest'
  <2>1. /\ ~Carries(t)' /\ ~Carries(t)
        /\ \A m, p : ~Dangles(t, m, p) /\ ~Dangles(t, m, p)'
    BY <1>1, <1>5 DEF Carries, Dangles
  <2>2. pc'[t] # "growlevel" /\ pc[t] # "growroot" /\ pc'[t] # "growroot"
    BY <1>1, <1>5
  <2>3. \A n : IsApex(n)' <=> IsApex(n)
    BY <1>1, <1>5, <2>2, ApexSame
  <2> QED
    BY <1>1, <1>8, <1>9, <2>1, <2>2, <2>3, ForestSame
<1>13. ThreadOK(t)'
  <2>1. loc[t].key \in Key
    BY <1>1, KeyOf
  <2> QED
    BY <1>3, <1>5, <1>7, <2>1
       DEF ThreadOK, ClimbOK, DeleteOK, LeafOK, OnPath, Climbing, Growing, Carries
<1> QED
  BY <1>5, <1>6, <1>9, <1>11, <1>12, <1>13 DEF StepKeeps

-----------------------------------------------------------------------------
(* Nodes that are new.                                                     *)

\* A free node beside one that is held is not the root.
LEMMA FreshNotTop ==
  ASSUME LbInv, NEW t \in Thread, NEW m \in Level \X Num, Holds(t, m),
         NEW n \in Level \X Num, n[1] = m[1], n \notin used
  PROVE  ~IsApex(n) /\ n # tree_root
<1>1. m \in used /\ \A u \in Thread : Carries(u) => m # Carried(u)
  BY DEF LbInv, LocksOK, Forest, CarriedApart
<1>2. ~IsApex(n)
  BY <1>1 DEF LbInv, Forest, TopOnly
<1>3. n # tree_root
  <2>1. CASE \E u \in Thread : pc[u] = "growroot"
    <3>1. PICK u \in Thread : pc[u] = "growroot"
      BY <2>1
    <3>2. tree_root = RootOf(u) /\ RootOf(u) \in used
      BY <3>1, GrowParts DEF Growing, LbInv, RootOK, RootSeen
    <3> QED
      BY <3>2
  <2>2. CASE \A u \in Thread : pc[u] # "growroot"
    BY <1>2, <2>2 DEF IsApex
  <2> QED
    BY <2>1, <2>2
<1> QED
  BY <1>2, <1>3

\* A root that is not freed by this step is locked or in use after it.
LEMMA RootThere ==
  ASSUME LbInv, NEW t \in Thread, OwnStep(t), tree_root' = tree_root,
         tree_root \in used => tree_root \in used'
  PROVE  IsLocked(tree_root)' \/ tree_root' \in used'
<1>1. IsLocked(tree_root) \/ tree_root \in used
  BY DEF LbInv, RootOK
<1>2. ASSUME IsLocked(tree_root), tree_root \notin used
      PROVE  IsLocked(tree_root)'
  <2>1. tree_root \in Level \X Num
    BY DEF LbInv, TypeOK
  <2>2. ~Mine(t, tree_root)
    BY <1>2, <2>1 DEF Mine, LbInv, LocksOK
  <2>3. Kept(tree_root)
    BY <2>1, <2>2 DEF OwnStep
  <2> QED
    BY <1>2, <2>3 DEF Kept, IsLocked
<1> QED
  BY <1>1, <1>2

\* The upper half of a full leaf.
LEMMA UpperHalf ==
  ASSUME NEW l, leaf[l].bitmap = Slot, DistinctKeys(leaf[l])
  PROVE  /\ \A s \in Slot : SortedPos(l, s) \in Slot /\ leaf[l].ent[SortedPos(l, s)] \in Key
         /\ \A s, x \in Slot :
              leaf[l].ent[SortedPos(l, s)] = leaf[l].ent[SortedPos(l, x)] => s = x
<1>1. \A s \in Slot :
        /\ SortedPos(l, s) \in Slot
        /\ Cardinality({x \in Slot : leaf[l].ent[x] < leaf[l].ent[SortedPos(l, s)]}) = s
  BY SortedPosType
<1>2. ASSUME NEW s \in Slot, NEW x \in Slot,
             leaf[l].ent[SortedPos(l, s)] = leaf[l].ent[SortedPos(l, x)]
      PROVE  s = x
  BY <1>1, <1>2
<1> QED
  BY <1>1, <1>2 DEF DistinctKeys

\* A new leaf takes the upper half.
LEMMA SplitBuildKeeps ==
  ASSUME LbInv, NEW t \in Thread, SplitBuild(t)
  PROVE  StepKeeps(t)
<1>1. PICK l, newp, sk, above, upperSlots :
        /\ l = lp(t) /\ newp = FreeNode(0)
        /\ sk = leaf[l].ent[SortedPos(l, SPLIT)] /\ above = (loc[t].key > sk)
        /\ upperSlots = SPLIT..(LEAF_KEY_NUM - 1)
  OBVIOUS
<1>2. PICK ent : ent = [s \in Slot |->
                  CASE s \in upperSlots -> leaf[l].ent[SortedPos(l, s)]
                    [] s = SPLIT - 1 /\ above -> loc[t].key
                    [] OTHER -> leaf[newp].ent[s]]
  OBVIOUS
<1>3. PICK bm, nx : /\ bm = upperSlots \cup (IF above THEN {SPLIT - 1} ELSE {})
                    /\ nx = [a \in {0, 1} |-> IF a = 0 THEN nextSibling(l)
                                              ELSE leaf[newp].next[1]]
  OBVIOUS
<1>4. PICK r : r = [bitmap |-> bm, lock |-> FALSE, alt |-> 0, ent |-> ent, next |-> nx]
  OBVIOUS
<1>5. /\ pc[t] = "split" /\ used # used \cup ({0} \X Num)
      /\ leaf' = [leaf EXCEPT ![newp] = r, ![l].next[1 - leaf[l].alt] = newp]
      /\ used' = used \cup {<<0, newp>>}
      /\ loc' = [loc EXCEPT ![t].sep = sk, ![t].ptr = newp]
      /\ pc' = [pc EXCEPT ![t] = "publish"]
      /\ UNCHANGED <<tree_root, root_level, bnode, first_leaf, work>>
  <2>1. PICK ent0, nx0 :
          /\ ent0 = [s \in Slot |->
                CASE s \in SPLIT..(LEAF_KEY_NUM - 1) -> leaf[lp(t)].ent[SortedPos(lp(t), s)]
                  [] s = SPLIT - 1 /\ loc[t].key > leaf[lp(t)].ent[SortedPos(lp(t), SPLIT)]
                       -> loc[t].key
                  [] OTHER -> leaf[FreeNode(0)].ent[s]]
          /\ nx0 = [a \in {0, 1} |-> IF a = 0 THEN nextSibling(lp(t))
                                     ELSE leaf[FreeNode(0)].next[1]]
    OBVIOUS
  <2>2. PICK r0 :
          r0 = [bitmap |-> (SPLIT..(LEAF_KEY_NUM - 1)) \cup
                  (IF loc[t].key > leaf[lp(t)].ent[SortedPos(lp(t), SPLIT)]
                     THEN {SPLIT - 1} ELSE {}),
                lock |-> FALSE, alt |-> 0, ent |-> ent0, next |-> nx0]
    OBVIOUS
  <2>3. leaf' = [leaf EXCEPT ![FreeNode(0)] = r0,
                             ![lp(t)].next[1 - leaf[lp(t)].alt] = FreeNode(0)]
    BY <2>1, <2>2, Zenon DEF SplitBuild
  <2>4. ent0 = ent
    <3>1. \A s \in Slot : ent0[s] = ent[s]
      BY <1>1, <1>2, <2>1
    <3> QED
      BY <1>2, <2>1, <3>1
  <2>5. nx0 = nx
    BY <1>1, <1>3, <2>1
  <2>6. r0 = r
    BY <1>1, <1>3, <1>4, <2>2, <2>4, <2>5
  <2>7. leaf' = [leaf EXCEPT ![newp] = r, ![l].next[1 - leaf[l].alt] = newp]
    BY <1>1, <2>3, <2>6
  <2>8. /\ pc[t] = "split" /\ used # used \cup ({0} \X Num)
        /\ used' = used \cup {<<0, newp>>}
    BY <1>1 DEF SplitBuild
  <2>9. loc' = [loc EXCEPT ![t].sep = sk, ![t].ptr = newp]
    BY <1>1 DEF SplitBuild
  <2>10. /\ pc' = [pc EXCEPT ![t] = "publish"]
         /\ UNCHANGED <<tree_root, root_level, bnode, first_leaf, work>>
    BY DEF SplitBuild, Goto, upper
  <2> QED
    BY <2>7, <2>8, <2>9, <2>10
<1>6. newp \in Num /\ <<0, newp>> \notin used /\ <<0, newp>> \in Level \X Num
  BY <1>1, <1>5, FreeNodeType, Constants
<1>7. /\ l \in Num /\ Holds(t, <<0, l>>) /\ <<0, l>> \in used /\ leaf[l].lock
      /\ <<0, l>> \in Level \X Num
      /\ DistinctKeys(leaf[l]) /\ PathOK(loc[t].path) /\ leaf[l].bitmap = Slot
      /\ loc[t].key \in Key /\ loc[t].key \notin keys(l)
      /\ TypeOK /\ LeavesOK /\ LocalOK(loc[t]) /\ "publish" \in Label
  BY <1>1, <1>5, LeafHeld, KeyOf DEF AtLeaf, LbInv, ThreadOK, LeafOK, isFull, TypeOK, Label
<1>8. l # newp
  BY <1>6, <1>7
<1>9. /\ \A s \in Slot : leaf[l].ent[SortedPos(l, s)] \in Key
      /\ \A s, x \in Slot :
           leaf[l].ent[SortedPos(l, s)] = leaf[l].ent[SortedPos(l, x)] => s = x
      /\ \A s \in Slot : SortedPos(l, s) \in Slot
      /\ \A s \in Slot : leaf[l].ent[SortedPos(l, s)] # loc[t].key
  <2>1. \A s \in Slot : SortedPos(l, s) \in Slot
    BY <1>7, UpperHalf
  <2>2. \A s \in Slot : leaf[l].ent[SortedPos(l, s)] # loc[t].key
    BY <1>7, <2>1 DEF keys
  <2> QED
    BY <1>7, <2>1, <2>2, UpperHalf
<1>10. /\ upperSlots \subseteq Slot /\ SPLIT \in Slot
       /\ SPLIT - 1 \in Slot /\ SPLIT - 1 \notin upperSlots
  BY <1>1, Constants DEF Slot
<1>11. sk \in Key /\ \E s \in Slot : leaf[l].ent[s] = sk
  BY <1>1, <1>9, <1>10
<1>12. /\ bm \subseteq Slot
       /\ \A s \in upperSlots : ent[s] = leaf[l].ent[SortedPos(l, s)]
       /\ above => ent[SPLIT - 1] = loc[t].key
  BY <1>2, <1>3, <1>10
<1>13. ent \in [Slot -> Key \cup {NoKey}]
  <2>1. \A s \in Slot : leaf[newp].ent[s] \in Key \cup {NoKey}
    BY <1>6, <1>7, LeafParts
  <2> QED
    BY <1>2, <1>7, <1>9, <1>10, <2>1
<1>14. nx \in [{0, 1} -> Num \cup {Null}]
  <2>1. nextSibling(l) \in Num \cup {Null} /\ leaf[newp].next[1] \in Num \cup {Null}
    BY <1>6, <1>7, LeafParts
  <2> QED
    BY <1>3, <2>1
<1>15. r \in Leaf /\ r.bitmap = bm /\ r.ent = ent
  BY <1>4, <1>12, <1>13, <1>14 DEF Leaf
<1>16. DistinctKeys(r)
  <2>1. \A s \in bm : ent[s] \in Key
    BY <1>3, <1>7, <1>9, <1>10, <1>12
  <2>2. ASSUME NEW s \in bm, NEW x \in bm, ent[s] = ent[x] PROVE s = x
    <3>1. CASE s \in upperSlots /\ x \in upperSlots
      BY <1>9, <1>10, <1>12, <2>2, <3>1
    <3>2. CASE s \in upperSlots /\ x \notin upperSlots
      <4>1. above /\ x = SPLIT - 1
        BY <1>3, <3>2
      <4> QED
        BY <1>9, <1>10, <1>12, <2>2, <3>2, <4>1
    <3>3. CASE s \notin upperSlots /\ x \in upperSlots
      <4>1. above /\ s = SPLIT - 1
        BY <1>3, <3>3
      <4> QED
        BY <1>9, <1>10, <1>12, <2>2, <3>3, <4>1
    <3>4. CASE s \notin upperSlots /\ x \notin upperSlots
      BY <1>3, <3>4
    <3> QED
      BY <3>1, <3>2, <3>3, <3>4
  <2> QED
    BY <1>15, <2>1, <2>2 DEF DistinctKeys
<1>17. PICK q : q = [leaf[l] EXCEPT !.next[1 - leaf[l].alt] = newp]
  OBVIOUS
<1>18. /\ q \in Leaf /\ q.bitmap = leaf[l].bitmap /\ q.ent = leaf[l].ent /\ q.lock
  <2>1. PICK a : a = 1 - leaf[l].alt
    OBVIOUS
  <2>2. leaf[l] \in Leaf /\ a \in {0, 1}
    BY <1>7, <2>1, LeafParts
  <2>3. PICK y : y = [leaf[l].next EXCEPT ![a] = newp]
    OBVIOUS
  <2>4. y \in [{0, 1} -> Num \cup {Null}]
    BY <1>6, <2>2, <2>3 DEF Leaf
  <2>5. q = [leaf[l] EXCEPT !.next = y]
    BY <1>17, <2>1, <2>3
  <2> QED
    BY <1>7, <2>2, <2>4, <2>5 DEF Leaf
<1>19. leaf' = [leaf EXCEPT ![newp] = r, ![l] = q]
  BY <1>5, <1>8, <1>17
<1>20. /\ leaf' \in Leaves /\ leaf'[newp] = r /\ leaf'[l] = q
       /\ \A x \in Num : x # l /\ x # newp => leaf'[x] = leaf[x]
  BY <1>6, <1>7, <1>8, <1>15, <1>18, <1>19 DEF TypeOK, Leaves
<1>21. LeavesOK'
  <2> SUFFICES ASSUME NEW x \in Num, <<0, x>> \in used' PROVE DistinctKeys(leaf'[x])
    BY DEF LeavesOK, DistinctKeys
  <2>1. CASE x = newp
    BY <1>16, <1>20, <2>1
  <2>2. CASE x = l
    BY <1>7, <1>18, <1>20, <2>2 DEF DistinctKeys
  <2>3. CASE x # l /\ x # newp
    BY <1>5, <1>7, <1>20, <2>3 DEF LeavesOK
  <2> QED
    BY <2>1, <2>2, <2>3
<1>22. PICK a, local : a = [loc[t] EXCEPT !.sep = sk] /\ local = [a EXCEPT !.ptr = newp]
  OBVIOUS
<1>23. LocalOK(a) /\ LocalOK(local)
  <2>1. LocalOK(a)
    BY <1>7, <1>11, <1>22, LocalEdit
  <2> QED
    BY <1>6, <1>22, <2>1, LocalEdit
<1>24. /\ local.path = loc[t].path /\ local.key = loc[t].key /\ local.ptr = newp
       /\ local.sep = sk
  <2>1. a.path = loc[t].path /\ a.key = loc[t].key /\ a.sep = sk
    BY <1>7, <1>22 DEF LocalOK
  <2> QED
    BY <1>22, <1>23, <2>1 DEF LocalOK
<1>25. loc' = [loc EXCEPT ![t] = local]
  BY <1>5, <1>22
<1>26. TypeOK' /\ OthersStay(t) /\ pc'[t] = "publish" /\ loc'[t] = local
  <2>1. /\ tree_root' \in Level \X Num /\ root_level' \in Level
        /\ first_leaf' \in Num \cup {Null} /\ bnode' \in Bnodes
        /\ used' \subseteq Level \X Num /\ work' = work
    BY <1>5, <1>6, <1>7 DEF TypeOK
  <2>2. leaf' \in Leaves /\ pc' = [pc EXCEPT ![t] = "publish"] /\ LocalOK(local)
    BY <1>5, <1>20, <1>23
  <2> QED
    BY <1>7, <1>25, <2>1, <2>2, TypeStep
<1>27. /\ lp(t)' = l /\ RootOf(t)' = RootOf(t) /\ Carried(t)' = <<0, newp>> /\ Carries(t)'
       /\ LockedFull(loc[t].path)' = LockedFull(loc[t].path) /\ ~Carries(t)
       /\ \A m, p : ~Dangles(t, m, p) /\ ~Dangles(t, m, p)'
  BY <1>1, <1>5, <1>24, <1>26 DEF lp, RootOf, At, Carried, Carries, LockedFull, Dangles
<1>28. \A n : /\ Holds(t, n)' => Holds(t, n)
              /\ HoldsBnode(t, n)' => HoldsBnode(t, n)
  <2>1. \A n : HoldsLeaf(t, n)' => n = <<0, l>>
    BY <1>26, <1>27 DEF HoldsLeaf, AtLeaf
  <2>2. \A n : HoldsBnode(t, n)' => n \in LockedFull(loc[t].path)
    BY <1>26, <1>27 DEF HoldsBnode, Climbing, Growing
  <2>3. \A n \in LockedFull(loc[t].path) : HoldsBnode(t, n)
    BY <1>5 DEF HoldsBnode, Climbing
  <2> QED
    BY <1>7, <2>1, <2>2, <2>3 DEF Holds
<1>29. ~IsApex(<<0, newp>>) /\ <<0, newp>> # tree_root
  <2>1. PICK m, n : m = <<0, l>> /\ n = <<0, newp>>
    OBVIOUS
  <2> QED
    BY <1>6, <1>7, <2>1, FreshNotTop
<1>30. OwnStep(t)
  <2>1. ASSUME NEW n \in Level \X Num PROVE Mine(t, n) \/ Kept(n)
    <3>1. CASE n = <<0, newp>>
      BY <1>6, <1>29, <3>1 DEF Mine
    <3>2. CASE n = <<0, l>>
      BY <1>7, <3>2 DEF Mine
    <3>3. CASE n # <<0, newp>> /\ n # <<0, l>>
      <4>1. n[1] = 0 => n[2] \in Num /\ n[2] # l /\ n[2] # newp
        BY <3>3
      <4> QED
        BY <1>5, <1>20, <4>1 DEF Kept
    <3> QED
      BY <3>1, <3>2, <3>3
  <2>2. ASSUME NEW n \in Level \X Num, Holds(t, n)'
        PROVE  n \in used' /\ IsLocked(n)' /\ Mine(t, n)
    <3>1. Holds(t, n) /\ n \in used /\ IsLocked(n)
      BY <1>28, <2>2 DEF LbInv, LocksOK
    <3>2. IsLocked(n)'
      <4>1. CASE n = <<0, l>>
        BY <1>18, <1>20, <4>1 DEF IsLocked
      <4>2. CASE n # <<0, l>>
        <5>1. n # <<0, newp>>
          BY <1>6, <3>1
        <5>2. n[1] = 0 => n[2] \in Num /\ n[2] # l /\ n[2] # newp
          BY <4>2, <5>1
        <5> QED
          BY <1>5, <1>20, <3>1, <5>2 DEF IsLocked
      <4> QED
        BY <4>1, <4>2
    <3> QED
      BY <1>5, <3>1, <3>2 DEF Mine
  <2>3. used \ used' = {}
    BY <1>5
  <2> QED
    BY <1>26, <2>1, <2>2, <2>3 DEF OwnStep
<1>31. RootSeen(t)'
  <2>1. RootSeen(t)
    BY DEF LbInv, RootOK
  <2>2. pc[t] \in OnPath
    BY <1>5 DEF OnPath, Climbing
  <2> QED
    BY <1>5, <1>24, <1>26, <1>27, <1>28, <2>1, <2>2 DEF RootSeen
<1>32. RootOK'
  <2>1. IsLocked(tree_root)' \/ tree_root' \in used'
    BY <1>5, <1>30, RootThere
  <2> QED
    BY <1>5, <1>30, <1>31, <2>1, RootStep DEF LbInv
<1>33. Forest'
  <2>1. Inner' = Inner
    BY <1>5 DEF Inner
  <2>2. \A n : IsApex(n)' <=> IsApex(n)
    BY <1>5, <1>26, ApexSame
  <2>3. \A u \in Thread \ {t} : /\ Carries(u)' <=> Carries(u)
                                /\ Carried(u)' = Carried(u)
                                /\ pc'[u] = pc[u] /\ NewRoot(u)' = NewRoot(u)
    BY <1>26, OthersForest DEF OthersStay
  <2>4. \A u \in Thread : \A m, p : Dangles(u, m, p)' <=> Dangles(u, m, p)
    BY <1>26, <1>27, OthersForest
  <2>5. /\ \A m : num(m)' = num(m) /\ Live(m)' = Live(m)
        /\ \A m, p : Below(m, p)' = Below(m, p)
    BY <1>5, <2>4 DEF num, Live, Below, Child
  <2>6. Forest /\ LocksOK
    BY DEF LbInv
  <2>7. ChildUsed'
    <3> SUFFICES ASSUME NEW m \in Inner, NEW p \in Live(m)
                 PROVE  /\ Below(m, p)' \in used' /\ ~IsApex(Below(m, p))'
                        /\ \A u \in Thread : Carries(u)' => Below(m, p)' # Carried(u)'
      BY <2>1, <2>5 DEF ChildUsed
    <3>1. PICK n : n = Below(m, p)
      OBVIOUS
    <3>2. Below(m, p)' = n
      BY <2>5, <3>1
    <3>3. IsApex(Below(m, p))' <=> IsApex(n)'
      BY <3>2 DEF IsApex
    <3>4. n \in used /\ ~IsApex(n) /\ \A u \in Thread : Carries(u) => n # Carried(u)
      BY <2>6, <3>1 DEF Forest, ChildUsed
    <3> QED
      BY <1>5, <1>6, <1>27, <2>2, <2>3, <3>2, <3>3, <3>4
  <2>8. OneParent'
    BY <2>1, <2>5, <2>6 DEF Forest, OneParent
  <2>9. HasParent'
    <3> SUFFICES ASSUME NEW n \in used'
                 PROVE  \/ IsApex(n)'
                        \/ \E u \in Thread : Carries(u)' /\ n = Carried(u)'
                        \/ \E m \in Inner : \E p \in Live(m) : Below(m, p)' = n
      BY <2>1, <2>5 DEF HasParent
    <3>1. CASE n = <<0, newp>>
      BY <1>27, <3>1
    <3>2. CASE n \in used
      <4>1. \/ IsApex(n)
            \/ \E u \in Thread \ {t} : Carries(u) /\ n = Carried(u)
            \/ \E m \in Inner : \E p \in Live(m) : Below(m, p) = n
        BY <1>27, <2>6, <3>2 DEF Forest, HasParent
      <4> QED
        BY <2>2, <2>3, <2>5, <4>1
    <3> QED
      BY <1>5, <3>1, <3>2
  <2>10. TopOnly'
    <3> SUFFICES ASSUME NEW x \in Level \X Num, IsApex(x)', NEW n \in used'
                 PROVE  /\ n[1] <= x[1]
                        /\ n[1] = x[1] => \/ n = x
                                          \/ \E u \in Thread : Carries(u)' /\ n = Carried(u)'
      BY DEF TopOnly
    <3>1. IsApex(x) /\ x[1] \in Nat
      BY <2>2, Constants
    <3>2. CASE n = <<0, newp>>
      BY <1>27, <3>1, <3>2
    <3>3. CASE n \in used
      <4>1. /\ n[1] <= x[1]
            /\ n[1] = x[1] => \/ n = x
                              \/ \E u \in Thread \ {t} : Carries(u) /\ n = Carried(u)
        BY <1>27, <2>6, <3>1, <3>3 DEF Forest, TopOnly
      <4> QED
        BY <2>3, <4>1
    <3> QED
      BY <1>5, <3>2, <3>3
  <2>11. \A u \in Thread : \A n : Holds(u, n)' => Holds(u, n)
    BY <1>28, <1>30, StepLocks DEF LbInv
  <2>12. \A u \in Thread : ~Holds(u, <<0, newp>>)
    BY <1>6, <2>6 DEF LocksOK
  <2>13. CarriedApart'
    <3>1. ASSUME NEW u \in Thread, Carries(u)'
          PROVE  /\ Carried(u)' \in used' /\ ~IsApex(Carried(u))'
                 /\ \A v \in Thread : /\ ~Holds(v, Carried(u))'
                                      /\ v # u /\ Carries(v)' => Carried(v)' # Carried(u)'
      <4>1. PICK n : n = IF u = t THEN <<0, newp>> ELSE Carried(u)
        OBVIOUS
      <4>2. Carried(u)' = n
        BY <1>27, <2>3, <4>1
      <4>3. n \in used' /\ ~IsApex(n) /\ \A v \in Thread : ~Holds(v, n)
        <5>1. CASE u = t
          BY <1>5, <1>29, <2>12, <4>1, <5>1
        <5>2. CASE u # t
          <6>1. Carries(u)
            BY <2>3, <3>1, <5>2
          <6> QED
            BY <1>5, <2>6, <4>1, <5>2, <6>1 DEF Forest, CarriedApart
        <5> QED
          BY <5>1, <5>2
      <4>4. ASSUME NEW v \in Thread, v # u, Carries(v)' PROVE Carried(v)' # n
        <5>1. CASE u = t
          <6>1. Carries(v) /\ Carried(v)' = Carried(v) /\ Carried(v) \in used
            BY <2>3, <2>6, <4>4, <5>1 DEF Forest, CarriedApart
          <6> QED
            BY <1>6, <4>1, <5>1, <6>1
        <5>2. CASE u # t /\ v = t
          <6>1. Carries(u) /\ Carried(u) \in used
            BY <2>3, <2>6, <3>1, <5>2 DEF Forest, CarriedApart
          <6> QED
            BY <1>6, <1>27, <4>1, <5>2, <6>1
        <5>3. CASE u # t /\ v # t
          BY <2>3, <2>6, <3>1, <4>1, <4>4, <5>3 DEF Forest, CarriedApart
        <5> QED
          BY <5>1, <5>2, <5>3
      <4>5. IsApex(Carried(u))' <=> IsApex(n)'
        BY <4>2 DEF IsApex
      <4>6. ASSUME NEW v \in Thread PROVE Holds(v, Carried(u))' <=> Holds(v, n)'
        BY <4>2, ZenonT(40) DEF Holds, HoldsLeaf, HoldsBnode
      <4> QED
        BY <2>2, <2>11, <4>2, <4>3, <4>4, <4>5, <4>6
    <3>2. ASSUME NEW u \in Thread, pc'[u] = "growlevel", NEW v \in Thread
          PROVE  ~Holds(v, Below(NewRoot(u), 1))'
      <4>1. u # t /\ pc[u] = "growlevel" /\ NewRoot(u)' = NewRoot(u)
        BY <1>26, <2>3, <3>2
      <4>2. PICK n : n = Below(NewRoot(u), 1)
        OBVIOUS
      <4>3. Below(NewRoot(u), 1)' = n
        <5>1. PICK y : y = NewRoot(u)
          OBVIOUS
        <5>2. Below(NewRoot(u), 1)' = Below(y, 1)'
          BY <4>1, <5>1, Zenon DEF Below, Child
        <5> QED
          BY <2>5, <4>2, <5>1, <5>2
      <4>4. ~Holds(v, n)
        BY <2>6, <4>1, <4>2 DEF Forest, CarriedApart
      <4>5. Holds(v, Below(NewRoot(u), 1))' <=> Holds(v, n)'
        BY <4>3, ZenonT(40) DEF Holds, HoldsLeaf, HoldsBnode
      <4> QED
        BY <2>11, <4>4, <4>5
    <3> QED
      BY <3>1, <3>2 DEF CarriedApart
  <2> QED
    BY <2>7, <2>8, <2>9, <2>10, <2>13 DEF Forest
<1>34. ThreadOK(t)'
  <2>1. ThreadOK(t)
    BY DEF LbInv
  <2>2. ClimbOK(t)'
    <3>1. \A n : num(n)' = num(n)
      BY <1>5 DEF num
    <3>2. \A n \in Level \X Num : HoldsBnode(t, n)' =>
            /\ (loc[t].path.isfull[n[1]])' <=> num(n)' = NON_LEAF_KEY_NUM
            /\ (loc[t].path.ppos[n[1]])' <= num(n)'
      BY <1>5, <1>24, <1>26, <1>28, <2>1, <3>1 DEF ThreadOK, ClimbOK, Climbing
    <3>3. loc[t].path.isfull[0] /\ PathOK(loc[t].path)'
      BY <1>5, <1>7, <1>24, <1>26, <2>1 DEF ThreadOK, ClimbOK, Climbing, PathOK
    <3> QED
      BY <1>6, <1>11, <1>24, <1>26, <3>2, <3>3 DEF ClimbOK, Growing, Climbing
  <2>3. DeleteOK(t)'
    BY <1>26 DEF DeleteOK
  <2>4. LeafOK(t)'
    <3>1. keys(lp(t))' = keys(l) /\ isFull(lp(t))'
      BY <1>7, <1>18, <1>20, <1>27 DEF keys, isFull
    <3>2. \E s \in Slot : leaf'[l].ent[s] = sk
      BY <1>11, <1>18, <1>20
    <3> QED
      BY <1>7, <1>24, <1>26, <1>27, <3>1, <3>2 DEF LeafOK
  <2> QED
    BY <2>2, <2>3, <2>4 DEF ThreadOK
<1> QED
  BY <1>21, <1>26, <1>30, <1>32, <1>33, <1>34 DEF StepKeeps

-----------------------------------------------------------------------------
(* A split is linked into the bnode above.                                 *)

\* A bnode that a thread holds has no dangling pointer but its own.
LEMMA OthersDangle ==
  ASSUME LbInv, NEW t \in Thread, NEW m \in Level \X Num,
         Holds(t, m) \/ m \notin used, NEW u \in Thread, u # t, NEW p
  PROVE  ~Dangles(u, m, p)
<1> SUFFICES ASSUME Dangles(u, m, p) PROVE FALSE
  OBVIOUS
<1>1. Holds(u, m)
  BY DanglesHeld DEF LbInv, Holds
<1> QED
  BY <1>1 DEF LbInv, LocksOK

\* The bnode that is about to take the new node.
LEMMA ClimbParts ==
  ASSUME LbInv, NEW t \in Thread, pc[t] = "bnode", NEW h, h = Here(t)
  PROVE  /\ h \in (Level \ {0}) \X Num /\ h \in Inner /\ Holds(t, h) /\ HoldsBnode(t, h)
         /\ h[1] = loc[t].lev /\ loc[t].lev \in 1..loc[t].path.rl
         /\ PathOK(loc[t].path) /\ loc[t].path.rl \in Nat
         /\ pos(t) \in 0..num(h) /\ num(h) \in Nat
         /\ loc[t].ptr \in Num /\ loc[t].sep \in Key
         /\ Carries(t) /\ Carried(t) = <<loc[t].lev - 1, loc[t].ptr>>
         /\ Live(h) = 0..num(h) /\ \A p : ~Dangles(t, h, p)
<1>1. ClimbOK(t) /\ TypeOK /\ ThreadOK(t)
  BY DEF LbInv, ThreadOK
<1>2. /\ h \in LockedFull(loc[t].path) /\ loc[t].lev \in 1..loc[t].path.rl
      /\ loc[t].ptr \in Num /\ loc[t].sep \in Key /\ Carries(t)
  BY <1>1 DEF ClimbOK, Carries
<1>3. PathOK(loc[t].path) /\ loc[t].path.rl \in Nat
  BY <1>1, PathParts DEF ClimbOK, OnPath, Climbing
<1>4. h[1] = loc[t].lev /\ loc[t].lev >= 1
  BY <1>2, <1>3 DEF Here
<1>5. HoldsBnode(t, h)
  BY <1>2, <1>4 DEF HoldsBnode
<1>6. h \in (Level \ {0}) \X Num
  BY <1>1, <1>5, HeldIsBnode DEF Growing
<1>7. num(h) \in Nat
  BY <1>1, <1>6, BnodeParts
<1>8. pos(t) \in 0..num(h)
  <2>1. loc[t].path.ppos[h[1]] <= num(h)
    BY <1>1, <1>5, <1>6 DEF ClimbOK, Climbing
  <2>2. loc[t].path.ppos[h[1]] \in Nat
    BY <1>2, <1>3, <1>4, PathParts
  <2> QED
    BY <1>4, <1>7, <2>1, <2>2 DEF pos
<1>9. Holds(t, h) /\ h \in Level \X Num /\ h \in Inner
  <2>1. Holds(t, h) /\ h \in Level \X Num
    BY <1>5, <1>6 DEF Holds
  <2>2. h \in used
    BY <2>1 DEF LbInv, LocksOK
  <2> QED
    BY <1>4, <2>1, <2>2 DEF Inner
<1>10. \A p : ~Dangles(t, h, p)
  BY DEF Dangles
<1>11. Live(h) = 0..num(h)
  BY <1>9, <1>10, OthersDangle DEF Live
<1> QED
  BY <1>2, <1>3, <1>4, <1>5, <1>6, <1>7, <1>8, <1>9, <1>10, <1>11 DEF Carried

\* The merged separators and children: the new child to the right of the one
\* that was split.
Kids(t) == {Below(Here(t), p) : p \in 0..num(Here(t))} \cup {Carried(t)}
\* The q-th of them.
Kid(t, q) == <<loc[t].lev - 1, MergedCh(t)[q + 1]>>

\* The merged sequences.
LEMMA MergedType ==
  ASSUME LbInv, NEW t \in Thread, pc[t] = "bnode", NEW h, h = Here(t)
  PROVE  /\ MergedK(t) \in Seq(Key) /\ Len(MergedK(t)) = num(h) + 1
         /\ MergedCh(t) \in Seq(Num) /\ Len(MergedCh(t)) = num(h) + 2
         /\ \A q \in 0..(num(h) + 1) :
              MergedCh(t)[q + 1] = IF q <= pos(t) THEN Child(h, q)
                                   ELSE IF q = pos(t) + 1 THEN loc[t].ptr
                                   ELSE Child(h, q - 1)
<1>1. /\ h \in (Level \ {0}) \X Num /\ pos(t) \in 0..num(h) /\ num(h) \in Nat
      /\ loc[t].ptr \in Num /\ loc[t].sep \in Key /\ TypeOK
  BY ClimbParts DEF LbInv
<1>2. /\ bnode[h].k \in Seq(Key) /\ bnode[h].ch \in Seq(Num)
      /\ num(h) = Len(bnode[h].k) /\ Len(bnode[h].ch) = num(h) + 1
  BY <1>1, BnodeParts
<1>3. PICK a, b : a = pos(t) + 1 /\ b = pos(t) + 2
  OBVIOUS
<1>4. a \in 1..(Len(bnode[h].k) + 1) /\ b \in 1..(Len(bnode[h].ch) + 1)
  BY <1>1, <1>2, <1>3
<1>5. Inserted(MergedK(t), Key, bnode[h].k, a, loc[t].sep)
  BY <1>1, <1>2, <1>3, <1>4, InsertAtType DEF MergedK
<1>6. Inserted(MergedCh(t), Num, bnode[h].ch, b, loc[t].ptr)
  BY <1>1, <1>2, <1>3, <1>4, InsertAtType DEF MergedCh
<1>7. ASSUME NEW q \in 0..(num(h) + 1)
      PROVE  MergedCh(t)[q + 1] = IF q <= pos(t) THEN Child(h, q)
                                   ELSE IF q = pos(t) + 1 THEN loc[t].ptr
                                   ELSE Child(h, q - 1)
  <2>1. PICK j : j = q + 1
    OBVIOUS
  <2>2. j \in 1..(Len(bnode[h].ch) + 1)
    BY <1>1, <1>2, <2>1
  <2>3. MergedCh(t)[j] = IF j < b THEN bnode[h].ch[j] ELSE IF j = b THEN loc[t].ptr
                         ELSE bnode[h].ch[j - 1]
    BY <1>6, <2>2 DEF Inserted
  <2>4. Child(h, q) = bnode[h].ch[j] /\ Child(h, q - 1) = bnode[h].ch[j - 1]
    <3>1. q - 1 + 1 = j - 1
      BY <2>1
    <3> QED
      BY <2>1, <3>1 DEF Child
  <2>5. (j < b <=> q <= pos(t)) /\ (j = b <=> q = pos(t) + 1)
    BY <1>1, <1>3, <2>1
  <2> QED
    BY <2>1, <2>3, <2>4, <2>5
<1> QED
  BY <1>2, <1>5, <1>6, <1>7 DEF Inserted

\* What the kids of a split bnode are to the rest of the tree.
LEMMA KidsApart ==
  ASSUME LbInv, NEW t \in Thread, pc[t] = "bnode", NEW h, h = Here(t), NEW c \in Kids(t)
  PROVE  /\ c \in used /\ ~IsApex(c) /\ c[1] = h[1] - 1
         /\ \A u \in Thread \ {t} : Carries(u) => c # Carried(u)
         /\ \A m \in Inner \ {h} : \A p \in Live(m) : Below(m, p) # c
<1>1. /\ h \in Inner /\ Live(h) = 0..num(h) /\ h[1] = loc[t].lev
      /\ Carries(t) /\ Carried(t) = <<loc[t].lev - 1, loc[t].ptr>>
  BY ClimbParts
<1>2. ChildUsed /\ OneParent /\ CarriedApart
  BY DEF LbInv, Forest
<1>3. CASE c = Carried(t)
  BY <1>1, <1>2, <1>3 DEF ChildUsed, CarriedApart
<1>4. CASE c # Carried(t)
  <2>1. PICK p \in Live(h) : c = Below(h, p)
    BY <1>1, <1>4 DEF Kids
  <2>2. c[1] = h[1] - 1
    BY <2>1 DEF Below
  <2>3. c \in used /\ ~IsApex(c) /\ \A u \in Thread : Carries(u) => c # Carried(u)
    BY <1>1, <1>2, <2>1 DEF ChildUsed
  <2> QED
    BY <1>1, <1>2, <2>1, <2>2, <2>3 DEF OneParent
<1> QED
  BY <1>3, <1>4

\* The merged children are the kids, each once.
LEMMA MergedKids ==
  ASSUME LbInv, NEW t \in Thread, pc[t] = "bnode", NEW h, h = Here(t)
  PROVE  /\ \A q \in 0..(num(h) + 1) : Kid(t, q) \in Kids(t)
         /\ \A q, r \in 0..(num(h) + 1) : Kid(t, q) = Kid(t, r) => q = r
         /\ \A c \in Kids(t) : \E q \in 0..(num(h) + 1) : Kid(t, q) = c
<1>1. /\ h \in Inner /\ Live(h) = 0..num(h) /\ h[1] = loc[t].lev
      /\ Carried(t) = <<loc[t].lev - 1, loc[t].ptr>> /\ Carries(t)
      /\ pos(t) \in 0..num(h) /\ num(h) \in Nat
  BY ClimbParts
<1>2. \A q \in 0..(num(h) + 1) :
        Kid(t, q) = IF q <= pos(t) THEN Below(h, q)
                    ELSE IF q = pos(t) + 1 THEN Carried(t) ELSE Below(h, q - 1)
  BY <1>1, MergedType DEF Kid, Below
<1>3. \A p, q \in 0..num(h) : Below(h, p) = Below(h, q) => p = q
  BY <1>1 DEF LbInv, Forest, OneParent
<1>4. \A p \in 0..num(h) : Below(h, p) # Carried(t)
  BY <1>1 DEF LbInv, Forest, ChildUsed
<1>5. ASSUME NEW q \in 0..(num(h) + 1) PROVE Kid(t, q) \in Kids(t)
  <2>1. CASE q <= pos(t)
    <3>1. q \in 0..num(h) /\ Kid(t, q) = Below(h, q)
      BY <1>1, <1>2, <2>1
    <3> QED
      BY <3>1 DEF Kids
  <2>2. CASE q = pos(t) + 1
    <3>1. Kid(t, q) = Carried(t)
      BY <1>1, <1>2, <2>2
    <3> QED
      BY <3>1 DEF Kids
  <2>3. CASE q > pos(t) + 1
    <3>1. q - 1 \in 0..num(h) /\ Kid(t, q) = Below(h, q - 1)
      BY <1>1, <1>2, <2>3
    <3> QED
      BY <3>1 DEF Kids
  <2> QED
    BY <1>1, <2>1, <2>2, <2>3
<1>6. ASSUME NEW q \in 0..(num(h) + 1), NEW r \in 0..(num(h) + 1), Kid(t, q) = Kid(t, r)
      PROVE  q = r
  <2>1. PICK x, y : x = (IF q <= pos(t) THEN q ELSE q - 1)
                    /\ y = (IF r <= pos(t) THEN r ELSE r - 1)
    OBVIOUS
  <2>2. /\ q # pos(t) + 1 => x \in 0..num(h) /\ Kid(t, q) = Below(h, x)
        /\ r # pos(t) + 1 => y \in 0..num(h) /\ Kid(t, r) = Below(h, y)
        /\ q = pos(t) + 1 => Kid(t, q) = Carried(t)
        /\ r = pos(t) + 1 => Kid(t, r) = Carried(t)
    BY <1>1, <1>2, <2>1
  <2>3. CASE q = pos(t) + 1 \/ r = pos(t) + 1
    BY <1>4, <1>6, <2>2, <2>3
  <2>4. CASE q # pos(t) + 1 /\ r # pos(t) + 1
    <3>1. x = y
      BY <1>3, <1>6, <2>2, <2>4
    <3> QED
      BY <1>1, <2>1, <2>4, <3>1
  <2> QED
    BY <2>3, <2>4
<1>7. ASSUME NEW c \in Kids(t) PROVE \E q \in 0..(num(h) + 1) : Kid(t, q) = c
  <2>1. CASE c = Carried(t)
    <3>1. pos(t) + 1 \in 0..(num(h) + 1)
      BY <1>1
    <3>2. Kid(t, pos(t) + 1) = Carried(t)
      BY <1>1, <1>2, <3>1
    <3> QED
      BY <2>1, <3>1, <3>2
  <2>2. CASE c # Carried(t)
    <3>1. PICK p \in 0..num(h) : c = Below(h, p)
      BY <2>2 DEF Kids
    <3>2. CASE p <= pos(t)
      <4>1. p \in 0..(num(h) + 1) /\ Kid(t, p) = Below(h, p)
        BY <1>1, <1>2, <3>2
      <4> QED
        BY <3>1, <4>1
    <3>3. CASE p > pos(t)
      <4>1. PICK q : q = p + 1
        OBVIOUS
      <4>2. q \in 0..(num(h) + 1) /\ q > pos(t) + 1 /\ q - 1 = p
        BY <1>1, <3>3, <4>1
      <4>3. Kid(t, q) = Below(h, p)
        BY <1>1, <1>2, <4>2
      <4> QED
        BY <3>1, <4>2, <4>3
    <3> QED
      BY <1>1, <3>2, <3>3
  <2> QED
    BY <2>1, <2>2
<1> QED
  BY <1>5, <1>6, <1>7

\* The kids of Here(t), hung below it and the new node, are again a forest.
LEMMA Relinked ==
  ASSUME LbInv, NEW t \in Thread, pc[t] = "bnode", OthersStay(t), LocksOK',
         pc'[t] \notin {"growroot", "growlevel", "delnode"}, tree_root' = tree_root,
         NEW h, h = Here(t),
         NEW N, N \subseteq Level \X Num, N \cap used = {}, used' = used \cup N,
         \A n \in N : n[1] = h[1] /\ ~IsApex(n),
         Carries(t)' <=> N # {}, Carries(t)' => N = {Carried(t)'},
         \A m \in Inner \ {h} : bnode'[m] = bnode[m],
         NEW W, W = {h} \cup N,
         \A m \in W : \A p \in 0..num(m)' : Below(m, p)' \in Kids(t),
         \A m, n \in W : \A p \in 0..num(m)', q \in 0..num(n)' :
           Below(m, p)' = Below(n, q)' => m = n /\ p = q,
         \A c \in Kids(t) : \E m \in W : \E p \in 0..num(m)' : Below(m, p)' = c,
         \A u \in Thread : \A n : Holds(u, n)' => Holds(u, n)
  PROVE  Forest'
<1>1. /\ h \in Inner /\ h \in Level \X Num /\ Holds(t, h) /\ h[1] >= 1 /\ h[1] \in Nat
      /\ \A p : ~Dangles(t, h, p)
  BY ClimbParts, Constants DEF Inner
<1>2. Inner' = Inner \cup N
  BY <1>1 DEF Inner
<1>3. \A n : IsApex(n)' <=> IsApex(n)
  BY ApexSame
<1>4. \A u \in Thread \ {t} : /\ Carries(u)' <=> Carries(u)
                              /\ Carried(u)' = Carried(u)
                              /\ pc'[u] = pc[u] /\ NewRoot(u)' = NewRoot(u)
  BY OthersForest DEF OthersStay
<1>5. \A u \in Thread : \A m, p : Dangles(u, m, p)' <=> Dangles(u, m, p)
  <2>1. \A m, p : ~Dangles(t, m, p) /\ ~Dangles(t, m, p)'
    BY DEF Dangles
  <2> QED
    BY <2>1, OthersForest
<1>6. ASSUME NEW m \in W PROVE Live(m)' = 0..num(m)'
  <2>1. m \in Level \X Num /\ (Holds(t, m) \/ m \notin used)
    BY <1>1
  <2>2. \A u \in Thread : \A p : ~Dangles(u, m, p)
    <3>1. \A p : ~Dangles(t, m, p)
      BY DEF Dangles
    <3> QED
      BY <2>1, <3>1, OthersDangle
  <2> QED
    BY <1>5, <2>2 DEF Live
<1>16. ASSUME NEW m \in W, NEW p \in Live(m)' PROVE Below(m, p)' \in Kids(t)
  <2>1. p \in 0..num(m)'
    BY <1>6
  <2> QED
    BY <2>1, Zenon
<1>17. ASSUME NEW m \in W, NEW n \in W, NEW p \in Live(m)', NEW q \in Live(n)',
             Below(m, p)' = Below(n, q)'
       PROVE  m = n /\ p = q
  <2>1. p \in 0..num(m)' /\ q \in 0..num(n)'
    BY <1>6
  <2>2. \A x \in 0..num(m)', y \in 0..num(n)' :
          Below(m, x)' = Below(n, y)' => m = n /\ x = y
    OBVIOUS
  <2> QED
    BY <1>17, <2>1, <2>2
<1>18. ASSUME NEW c \in Kids(t) PROVE \E m \in W : \E p \in Live(m)' : Below(m, p)' = c
  <2>1. PICK m \in W : \E p \in 0..num(m)' : Below(m, p)' = c
    OBVIOUS
  <2>2. PICK p \in 0..num(m)' : Below(m, p)' = c
    BY <2>1
  <2>3. p \in Live(m)'
    BY <1>6
  <2> QED
    BY <2>2, <2>3
<1>7. ASSUME NEW m \in Inner \ {h}
      PROVE  Live(m)' = Live(m) /\ \A p : Below(m, p)' = Below(m, p)
  <2>1. bnode'[m] = bnode[m]
    OBVIOUS
  <2>2. num(m)' = num(m) /\ \A p : Below(m, p)' = Below(m, p)
    BY <2>1 DEF num, Below, Child
  <2> QED
    BY <1>5, <2>2 DEF Live
<1>8. \A c \in Kids(t) :
        /\ c \in used /\ ~IsApex(c) /\ c[1] = h[1] - 1
        /\ \A u \in Thread \ {t} : Carries(u) => c # Carried(u)
        /\ \A m \in Inner \ {h} : \A p \in Live(m) : Below(m, p) # c
  BY KidsApart
<1>9. Inner' = (Inner \ {h}) \cup W
  BY <1>1, <1>2
<1>10. Forest /\ LocksOK
  BY DEF LbInv
<1>11. ChildUsed'
  <2> SUFFICES ASSUME NEW m \in Inner', NEW p \in Live(m)'
               PROVE  /\ Below(m, p)' \in used' /\ ~IsApex(Below(m, p))'
                      /\ \A u \in Thread : Carries(u)' => Below(m, p)' # Carried(u)'
    BY DEF ChildUsed
  <2>1. PICK c : c = Below(m, p)'
    OBVIOUS
  <2>2. IsApex(Below(m, p))' <=> IsApex(c)'
    BY <2>1 DEF IsApex
  <2>3. c \in used /\ ~IsApex(c) /\ \A u \in Thread \ {t} : Carries(u) => c # Carried(u)
    <3>1. CASE m \in W
      BY <1>8, <1>16, <2>1, <3>1
    <3>2. CASE m \in Inner \ {h}
      BY <1>7, <1>10, <2>1, <3>2 DEF Forest, ChildUsed
    <3> QED
      BY <1>9, <3>1, <3>2
  <2>4. Carries(t)' => c # Carried(t)'
    BY <2>3
  <2> QED
    BY <1>3, <1>4, <2>1, <2>2, <2>3, <2>4
<1>12. OneParent'
  <2> SUFFICES ASSUME NEW m \in Inner', NEW n \in Inner', NEW p \in Live(m)',
                      NEW q \in Live(n)', Below(m, p)' = Below(n, q)'
               PROVE  m = n /\ p = q
    BY DEF OneParent
  <2>1. CASE m \in W /\ n \in W
    BY <1>17, <2>1
  <2>2. CASE m \in W /\ n \in Inner \ {h}
    BY <1>7, <1>8, <1>16, <2>2
  <2>3. CASE m \in Inner \ {h} /\ n \in W
    BY <1>7, <1>8, <1>16, <2>3
  <2>4. CASE m \in Inner \ {h} /\ n \in Inner \ {h}
    BY <1>7, <1>10, <2>4 DEF Forest, OneParent
  <2> QED
    BY <1>9, <2>1, <2>2, <2>3, <2>4
<1>13. HasParent'
  <2> SUFFICES ASSUME NEW n \in used'
               PROVE  \/ IsApex(n)'
                      \/ \E u \in Thread : Carries(u)' /\ n = Carried(u)'
                      \/ \E m \in Inner' : \E p \in Live(m)' : Below(m, p)' = n
    BY DEF HasParent
  <2>1. CASE n \in N
    <3>1. Carries(t)' /\ n = Carried(t)'
      BY <2>1
    <3> QED
      BY <3>1
  <2>2. CASE n \in Kids(t)
    <3>1. PICK m \in W : \E p \in Live(m)' : Below(m, p)' = n
      BY <1>18, <2>2
    <3> QED
      BY <1>9, <3>1
  <2>3. CASE n \in used /\ n \notin Kids(t)
    <3>1. \/ IsApex(n)
          \/ \E u \in Thread \ {t} : Carries(u) /\ n = Carried(u)
          \/ \E m \in Inner \ {h} : \E p \in Live(m) : Below(m, p) = n
      <4>1. \/ IsApex(n)
            \/ \E u \in Thread : Carries(u) /\ n = Carried(u)
            \/ \E m \in Inner : \E p \in Live(m) : Below(m, p) = n
        BY <1>10, <2>3 DEF Forest, HasParent
      <4>2. n # Carried(t)
        BY <2>3 DEF Kids
      <4>3. \A p \in Live(h) : Below(h, p) # n
        BY <2>3 DEF Kids, Live
      <4> QED
        BY <4>1, <4>2, <4>3
    <3> QED
      BY <1>3, <1>4, <1>7, <1>9, <3>1
  <2> QED
    BY <2>1, <2>2, <2>3
<1>14. TopOnly'
  <2> SUFFICES ASSUME NEW x \in Level \X Num, IsApex(x)', NEW n \in used'
               PROVE  /\ n[1] <= x[1]
                      /\ n[1] = x[1] => \/ n = x
                                        \/ \E u \in Thread : Carries(u)' /\ n = Carried(u)'
    BY DEF TopOnly
  <2>1. IsApex(x) /\ x[1] \in Nat
    BY <1>3, Constants
  <2>2. h[1] <= x[1]
    BY <1>1, <1>10, <2>1 DEF Forest, TopOnly, Inner
  <2>3. CASE n \in N
    <3>1. Carries(t)' /\ n = Carried(t)' /\ n[1] = h[1]
      BY <2>3
    <3> QED
      BY <2>2, <3>1
  <2>4. CASE n \in used
    <3>1. /\ n[1] <= x[1]
          /\ n[1] = x[1] => \/ n = x
                            \/ \E u \in Thread : Carries(u) /\ n = Carried(u)
      BY <1>10, <2>1, <2>4 DEF Forest, TopOnly
    <3>2. Carried(t)[1] = h[1] - 1
      BY <1>8 DEF Kids
    <3>3. n = Carried(t) => n[1] # x[1]
      BY <1>1, <2>1, <2>2, <3>2
    <3> QED
      BY <1>4, <3>1, <3>3
  <2> QED
    BY <2>3, <2>4
<1>15. CarriedApart'
  <2>1. ASSUME NEW u \in Thread, Carries(u)'
        PROVE  /\ Carried(u)' \in used' /\ ~IsApex(Carried(u))'
               /\ \A v \in Thread : /\ ~Holds(v, Carried(u))'
                                    /\ v # u /\ Carries(v)' => Carried(v)' # Carried(u)'
    <3>1. PICK n : n = Carried(u)'
      OBVIOUS
    <3>2. /\ n \in used' /\ ~IsApex(n) /\ \A v \in Thread : ~Holds(v, n)
          /\ u = t <=> n \in N
      <4>1. CASE u = t
        <5>1. n \in N
          BY <2>1, <3>1, <4>1
        <5>2. \A v \in Thread : ~Holds(v, n)
          BY <1>10, <5>1 DEF LocksOK
        <5> QED
          BY <4>1, <5>1, <5>2
      <4>2. CASE u # t
        <5>1. Carries(u) /\ n = Carried(u)
          BY <1>4, <2>1, <3>1, <4>2
        <5> QED
          BY <1>10, <4>2, <5>1 DEF Forest, CarriedApart
      <4> QED
        BY <4>1, <4>2
    <3>3. ASSUME NEW v \in Thread, v # u, Carries(v)' PROVE Carried(v)' # n
      <4>1. CASE u = t
        <5>1. Carries(v) /\ Carried(v)' = Carried(v)
          BY <1>4, <3>3, <4>1
        <5>2. Carried(v) \in used
          BY <1>10, <5>1 DEF Forest, CarriedApart
        <5> QED
          BY <3>2, <4>1, <5>1, <5>2
      <4>2. CASE u # t /\ v = t
        <5>1. Carried(v)' \in N
          BY <3>3, <4>2
        <5> QED
          BY <3>2, <4>2, <5>1
      <4>3. CASE u # t /\ v # t
        BY <1>4, <1>10, <2>1, <3>1, <3>3, <4>3 DEF Forest, CarriedApart
      <4> QED
        BY <4>1, <4>2, <4>3
    <3>4. IsApex(Carried(u))' <=> IsApex(n)'
      BY <3>1 DEF IsApex
    <3>5. ASSUME NEW v \in Thread PROVE Holds(v, Carried(u))' <=> Holds(v, n)'
      BY <3>1, ZenonT(40) DEF Holds, HoldsLeaf, HoldsBnode
    <3> QED
      BY <1>3, <3>1, <3>2, <3>3, <3>4, <3>5
  <2>2. ASSUME NEW u \in Thread, pc'[u] = "growlevel", NEW v \in Thread
        PROVE  ~Holds(v, Below(NewRoot(u), 1))'
    <3>1. u # t /\ pc[u] = "growlevel" /\ NewRoot(u)' = NewRoot(u)
      BY <1>4, <2>2
    <3>2. PICK y, n : y = NewRoot(u) /\ n = Below(y, 1)
      OBVIOUS
    <3>3. y # h /\ y \in Inner
      <4>1. Holds(u, y)
        BY <3>1, <3>2 DEF Holds, HoldsBnode, Growing
      <4>2. y \in (Level \ {0}) \X Num
        BY <3>1, <3>2 DEF LbInv, ThreadOK, ClimbOK
      <4>3. y \in Level \X Num /\ y[1] >= 1
        <5>1. y[1] \in Nat /\ y[1] # 0
          BY <4>2, Constants
        <5> QED
          BY <4>2, <5>1
      <4> QED
        BY <1>1, <1>10, <3>1, <4>1, <4>3 DEF LocksOK, Inner
    <3>4. Below(NewRoot(u), 1)' = n
      <4>1. Below(NewRoot(u), 1)' = Below(y, 1)'
        BY <3>1, <3>2, Zenon DEF Below, Child
      <4> QED
        BY <1>7, <3>2, <3>3, <4>1
    <3>5. ~Holds(v, n)
      BY <1>10, <3>1, <3>2 DEF Forest, CarriedApart
    <3>6. Holds(v, Below(NewRoot(u), 1))' <=> Holds(v, n)'
      BY <3>4, ZenonT(40) DEF Holds, HoldsLeaf, HoldsBnode
    <3> QED
      BY <3>5, <3>6
  <2> QED
    BY <2>1, <2>2 DEF CarriedApart
<1> QED
  BY <1>11, <1>12, <1>13, <1>14, <1>15 DEF Forest

\* A bnode that has room takes the new node, and the walk up ends.
LEMMA InsertBnodeKeeps ==
  ASSUME LbInv, NEW t \in Thread, InsertBnode(t)
  PROVE  StepKeeps(t)
<1>1. PICK h, r : h = Here(t) /\ r = [k |-> MergedK(t), ch |-> MergedCh(t), lock |-> FALSE]
  OBVIOUS
<1>2. /\ pc[t] = "bnode" /\ num(h) < NON_LEAF_KEY_NUM /\ bnode' = [bnode EXCEPT ![h] = r]
      /\ pc' = [pc EXCEPT ![t] = "ret"] /\ loc' = loc
      /\ UNCHANGED <<tree_root, root_level, first_leaf, leaf, used, work>>
  BY <1>1 DEF InsertBnode, RoomInBnode, Goto, lower
<1>3. /\ h \in (Level \ {0}) \X Num /\ h \in Inner /\ Holds(t, h) /\ num(h) \in Nat
      /\ h[1] = loc[t].lev
  BY <1>1, <1>2, ClimbParts
<1>4. /\ MergedK(t) \in Seq(Key) /\ Len(MergedK(t)) = num(h) + 1
      /\ MergedCh(t) \in Seq(Num) /\ Len(MergedCh(t)) = num(h) + 2
  BY <1>1, <1>2, MergedType
<1>5. /\ TypeOK /\ LeavesOK /\ LocalOK(loc[t]) /\ "ret" \in Label
  BY DEF LbInv, TypeOK, Label
<1>6. bnode' \in Bnodes /\ bnode'[h] = r /\ \A m : m # h => bnode'[m] = bnode[m]
  <2>1. r \in Bnode /\ r.k = MergedK(t) /\ r.ch = MergedCh(t)
    BY <1>1, <1>4 DEF Bnode
  <2>2. Len(r.ch) = Len(r.k) + 1 /\ Len(r.k) <= NON_LEAF_KEY_NUM
    BY <1>2, <1>3, <1>4, <2>1, Constants
  <2> QED
    BY <1>2, <1>3, <1>5, <2>1, <2>2, BnodeChanges
<1>7. TypeOK' /\ OthersStay(t) /\ pc'[t] = "ret" /\ loc'[t] = loc[t]
  <2>1. /\ tree_root' \in Level \X Num /\ root_level' \in Level
        /\ first_leaf' \in Num \cup {Null} /\ leaf' \in Leaves
        /\ used' \subseteq Level \X Num /\ work' = work
    BY <1>2, <1>5 DEF TypeOK
  <2> QED
    BY <1>2, <1>5, <1>6, <2>1, TypeStep
<1>8. LeavesOK'
  BY <1>2, <1>5 DEF LeavesOK, DistinctKeys
<1>9. /\ (\A n : ~Holds(t, n)') /\ ~Carries(t)' /\ RootSeen(t)' /\ ThreadOK(t)'
  <2>1. loc'[t].key \in Key
    BY <1>2, <1>7, KeyOf
  <2> QED
    BY <1>7, <2>1, QuietNext DEF Quiet
<1>10. OwnStep(t)
  <2>1. ASSUME NEW n \in Level \X Num PROVE Mine(t, n) \/ Kept(n)
    BY <1>2, <1>3, <1>6 DEF Mine, Kept
  <2> QED
    BY <1>2, <1>7, <1>9, <2>1 DEF OwnStep
<1>11. LocksOK' /\ \A u \in Thread : \A n : Holds(u, n)' => Holds(u, n)
  BY <1>9, <1>10, StepLocks DEF LbInv
<1>12. RootOK'
  <2>1. IsLocked(tree_root)' \/ tree_root' \in used'
    BY <1>2, <1>10, RootThere
  <2> QED
    BY <1>2, <1>9, <1>10, <2>1, RootStep DEF LbInv
<1>13. Forest'
  <2>1. num(h)' = num(h) + 1
    BY <1>1, <1>4, <1>6 DEF num
  <2>2. ASSUME NEW p \in 0..(num(h) + 1) PROVE Below(h, p)' = Kid(t, p)
    BY <1>1, <1>3, <1>6 DEF Below, Child, Kid
  <2>3. /\ \A q \in 0..(num(h) + 1) : Kid(t, q) \in Kids(t)
        /\ \A q, x \in 0..(num(h) + 1) : Kid(t, q) = Kid(t, x) => q = x
        /\ \A c \in Kids(t) : \E q \in 0..(num(h) + 1) : Kid(t, q) = c
    BY <1>1, <1>2, MergedKids
  <2>4. PICK N, W : N = {} /\ W = {h} \cup N
    OBVIOUS
  <2>5. \A m \in W : \A p \in 0..num(m)' : Below(m, p)' \in Kids(t)
    BY <2>1, <2>2, <2>3, <2>4
  <2>6. \A m, n \in W : \A p \in 0..num(m)', q \in 0..num(n)' :
          Below(m, p)' = Below(n, q)' => m = n /\ p = q
    <3> SUFFICES ASSUME NEW p \in 0..num(h)', NEW q \in 0..num(h)',
                        Below(h, p)' = Below(h, q)'
                 PROVE  p = q
      BY <2>4
    <3> QED
      BY <2>1, <2>2, <2>3
  <2>7. \A c \in Kids(t) : \E m \in W : \E p \in 0..num(m)' : Below(m, p)' = c
    BY <2>1, <2>2, <2>3, <2>4
  <2>8. /\ N \subseteq Level \X Num /\ N \cap used = {} /\ used' = used \cup N
        /\ \A n \in N : n[1] = h[1] /\ ~IsApex(n)
        /\ (Carries(t)' <=> N # {}) /\ (Carries(t)' => N = {Carried(t)'})
        /\ pc'[t] \notin {"growroot", "growlevel", "delnode"}
        /\ \A m \in Inner \ {h} : bnode'[m] = bnode[m]
    BY <1>2, <1>6, <1>7, <1>9, <2>4
  <2> QED
    BY <1>1, <1>2, <1>7, <1>11, <2>4, <2>5, <2>6, <2>7, <2>8, Relinked
<1> QED
  BY <1>7, <1>8, <1>9, <1>10, <1>12, <1>13 DEF StepKeeps

\* A full bnode splits, and its new half goes up.
LEMMA SplitBnodeKeeps ==
  ASSUME LbInv, NEW t \in Thread, SplitBnode(t)
  PROVE  StepKeeps(t)
<1>1. PICK lev, newp, mk, mch, h : /\ lev = loc[t].lev /\ newp = FreeNode(loc[t].lev)
                                   /\ mk = MergedK(t) /\ mch = MergedCh(t) /\ h = Here(t)
  OBVIOUS
<1>2. PICK r, s : /\ r = [k  |-> SubSeq(mk, 1, LEFT_KEY_NUM),
                          ch |-> SubSeq(mch, 1, LEFT_KEY_NUM + 1),
                          lock |-> ~(lev < loc[t].total)]
                  /\ s = [k  |-> SubSeq(mk, LEFT_KEY_NUM + 2, Len(mk)),
                          ch |-> SubSeq(mch, LEFT_KEY_NUM + 2, Len(mch)),
                          lock |-> FALSE]
  OBVIOUS
<1>3. PICK new, label : /\ new = <<lev, newp>>
                        /\ label = IF lev + 1 <= loc[t].total THEN "bnode" ELSE "grow"
  OBVIOUS
<1>4. /\ pc[t] = "bnode" /\ ~(num(h) < NON_LEAF_KEY_NUM)
      /\ used # used \cup ({lev} \X Num) /\ used' = used \cup {new}
      /\ bnode' = [bnode EXCEPT ![h] = r, ![new] = s]
      /\ loc' = [loc EXCEPT ![t].sep = mk[LEFT_KEY_NUM + 1], ![t].ptr = newp,
                            ![t].lev = lev + 1]
      /\ pc' = [pc EXCEPT ![t] = label]
      /\ UNCHANGED <<tree_root, root_level, first_leaf, leaf, work>>
  <2>1. bnode' = [bnode EXCEPT ![h] = r, ![new] = s]
    BY <1>1, <1>2, <1>3, Zenon DEF SplitBnode
  <2>2. /\ pc[t] = "bnode" /\ ~(num(h) < NON_LEAF_KEY_NUM)
        /\ used # used \cup ({lev} \X Num) /\ used' = used \cup {new}
    BY <1>1, <1>3 DEF SplitBnode, RoomInBnode
  <2>3. loc' = [loc EXCEPT ![t].sep = mk[LEFT_KEY_NUM + 1], ![t].ptr = newp,
                           ![t].lev = lev + 1]
    BY <1>1 DEF SplitBnode
  <2>4. pc' = [pc EXCEPT ![t] = label]
    BY <1>1, <1>3 DEF SplitBnode, Goto
  <2>5. UNCHANGED <<tree_root, root_level, first_leaf, leaf, work>>
    BY DEF SplitBnode, lower
  <2> QED
    BY <2>1, <2>2, <2>3, <2>4, <2>5
<1>5. /\ h \in (Level \ {0}) \X Num /\ h \in Inner /\ Holds(t, h) /\ HoldsBnode(t, h)
      /\ num(h) \in Nat /\ h[1] = lev /\ lev \in 1..loc[t].path.rl
      /\ PathOK(loc[t].path) /\ loc[t].path.rl \in Nat
  BY <1>1, <1>4, ClimbParts
<1>6. /\ TypeOK /\ LeavesOK /\ LocalOK(loc[t]) /\ label \in Label
  BY <1>3 DEF LbInv, TypeOK, Label
<1>7. num(h) = NON_LEAF_KEY_NUM /\ lev \in Level /\ lev >= 1 /\ lev \in Nat
  BY <1>4, <1>5, <1>6, BnodeParts, Constants
<1>8. /\ newp \in Num /\ new \notin used /\ new \in (Level \ {0}) \X Num
      /\ new[1] = lev /\ new \in Level \X Num /\ h # new
  BY <1>1, <1>3, <1>4, <1>5, <1>7, FreeNodeType DEF Inner
<1>9. /\ mk \in Seq(Key) /\ Len(mk) = NON_LEAF_KEY_NUM + 1
      /\ mch \in Seq(Num) /\ Len(mch) = NON_LEAF_KEY_NUM + 2
  BY <1>1, <1>4, <1>7, MergedType
<1>10. /\ LEFT_KEY_NUM \in Nat /\ LEFT_KEY_NUM >= 1 /\ LEFT_KEY_NUM < NON_LEAF_KEY_NUM
       /\ NON_LEAF_KEY_NUM \in Nat
  BY Constants
<1>11. /\ r \in Bnode /\ Len(r.k) = LEFT_KEY_NUM /\ Len(r.ch) = LEFT_KEY_NUM + 1
       /\ \A p \in 0..LEFT_KEY_NUM : r.ch[p + 1] = mch[p + 1]
       /\ ~(lev < loc[t].total) => r.lock
  <2>1. /\ SubSeq(mk, 1, LEFT_KEY_NUM) \in Seq(Key)
        /\ Len(SubSeq(mk, 1, LEFT_KEY_NUM)) = LEFT_KEY_NUM
    <3>1. 1 \in 1..Len(mk) /\ LEFT_KEY_NUM \in 0..Len(mk) /\ 1 <= LEFT_KEY_NUM + 1
      BY <1>9, <1>10
    <3> QED
      BY <1>9, <1>10, <3>1, PartType
  <2>2. PICK b : b = LEFT_KEY_NUM + 1
    OBVIOUS
  <2>3. /\ SubSeq(mch, 1, b) \in Seq(Num) /\ Len(SubSeq(mch, 1, b)) = b
        /\ \A i \in 1..b : SubSeq(mch, 1, b)[i] = mch[i]
    <3>1. 1 \in 1..Len(mch) /\ b \in 0..Len(mch) /\ 1 <= b + 1 /\ b - 1 + 1 = b
      BY <1>9, <1>10, <2>2
    <3>2. /\ SubSeq(mch, 1, b) \in Seq(Num) /\ Len(SubSeq(mch, 1, b)) = b
          /\ \A i \in 1..b : SubSeq(mch, 1, b)[i] = mch[1 + i - 1]
      BY <1>9, <3>1, PartType
    <3> QED
      BY <1>10, <2>2, <3>2
  <2>4. (lev < loc[t].total) \in BOOLEAN
    OBVIOUS
  <2>5. r.k = SubSeq(mk, 1, LEFT_KEY_NUM) /\ r.ch = SubSeq(mch, 1, b)
    BY <1>2, <2>2
  <2>6. \A p \in 0..LEFT_KEY_NUM : r.ch[p + 1] = mch[p + 1]
    BY <1>10, <2>2, <2>3, <2>5
  <2> QED
    BY <1>2, <2>1, <2>2, <2>3, <2>4, <2>5, <2>6 DEF Bnode
<1>12. /\ s \in Bnode /\ Len(s.k) = NON_LEAF_KEY_NUM - LEFT_KEY_NUM
       /\ Len(s.ch) = NON_LEAF_KEY_NUM - LEFT_KEY_NUM + 1 /\ ~s.lock
       /\ \A p \in 0..(NON_LEAF_KEY_NUM - LEFT_KEY_NUM) :
            s.ch[p + 1] = mch[p + 1 + LEFT_KEY_NUM + 1]
  <2>1. PICK a : a = LEFT_KEY_NUM + 2
    OBVIOUS
  <2>2. a \in 1..Len(mk) /\ Len(mk) \in 0..Len(mk) /\ a <= Len(mk) + 1
    BY <1>9, <1>10, <2>1
  <2>3. /\ SubSeq(mk, a, Len(mk)) \in Seq(Key)
        /\ Len(SubSeq(mk, a, Len(mk))) = Len(mk) - a + 1
    BY <1>9, <2>2, PartType
  <2>4. a \in 1..Len(mch) /\ Len(mch) \in 0..Len(mch) /\ a <= Len(mch) + 1
    BY <1>9, <1>10, <2>1
  <2>5. /\ SubSeq(mch, a, Len(mch)) \in Seq(Num)
        /\ Len(SubSeq(mch, a, Len(mch))) = Len(mch) - a + 1
        /\ \A i \in 1..(Len(mch) - a + 1) : SubSeq(mch, a, Len(mch))[i] = mch[a + i - 1]
    BY <1>9, <2>4, PartType
  <2>6. s.k = SubSeq(mk, a, Len(mk)) /\ s.ch = SubSeq(mch, a, Len(mch)) /\ ~s.lock
    BY <1>2, <2>1
  <2>7. /\ Len(mk) - a + 1 = NON_LEAF_KEY_NUM - LEFT_KEY_NUM
        /\ Len(mch) - a + 1 = NON_LEAF_KEY_NUM - LEFT_KEY_NUM + 1
    BY <1>9, <1>10, <2>1
  <2>8. ASSUME NEW p \in 0..(NON_LEAF_KEY_NUM - LEFT_KEY_NUM)
        PROVE  s.ch[p + 1] = mch[p + 1 + LEFT_KEY_NUM + 1]
    <3>1. p + 1 \in 1..(Len(mch) - a + 1)
      BY <1>10, <2>7
    <3>2. a + (p + 1) - 1 = p + 1 + LEFT_KEY_NUM + 1
      BY <1>10, <2>1
    <3>3. s.ch[p + 1] = mch[a + (p + 1) - 1]
      BY <2>5, <2>6, <3>1
    <3> QED
      BY <3>2, <3>3
  <2>9. s \in Bnode
    BY <1>2, <2>1, <2>3, <2>5 DEF Bnode
  <2> QED
    BY <2>3, <2>5, <2>6, <2>7, <2>8, <2>9
<1>13. /\ bnode' \in Bnodes /\ bnode'[h] = r /\ bnode'[new] = s
       /\ \A m \in (Level \ {0}) \X Num : m # h /\ m # new => bnode'[m] = bnode[m]
  <2>1. /\ Len(r.ch) = Len(r.k) + 1 /\ Len(r.k) <= NON_LEAF_KEY_NUM
        /\ Len(s.ch) = Len(s.k) + 1 /\ Len(s.k) <= NON_LEAF_KEY_NUM
    BY <1>10, <1>11, <1>12
  <2>2. PICK b : b = [bnode EXCEPT ![h] = r]
    OBVIOUS
  <2>3. bnode' = [b EXCEPT ![new] = s]
    BY <1>4, <2>2
  <2>4. /\ bnode \in [(Level \ {0}) \X Num -> Bnode]
        /\ \A m \in (Level \ {0}) \X Num : /\ Len(bnode[m].ch) = Len(bnode[m].k) + 1
                                           /\ Len(bnode[m].k) <= NON_LEAF_KEY_NUM
    BY <1>6 DEF TypeOK, Bnodes
  <2>5. /\ b \in [(Level \ {0}) \X Num -> Bnode] /\ b[h] = r
        /\ \A m \in (Level \ {0}) \X Num : m # h => b[m] = bnode[m]
    BY <1>5, <1>11, <2>2, <2>4
  <2>6. /\ bnode' \in [(Level \ {0}) \X Num -> Bnode] /\ bnode'[new] = s
        /\ \A m \in (Level \ {0}) \X Num : m # new => bnode'[m] = b[m]
    BY <1>8, <1>12, <2>3, <2>5
  <2>7. /\ bnode'[h] = r
        /\ \A m \in (Level \ {0}) \X Num : m # h /\ m # new => bnode'[m] = bnode[m]
    BY <1>5, <1>8, <2>5, <2>6
  <2>8. ASSUME NEW m \in (Level \ {0}) \X Num
        PROVE  /\ Len(bnode'[m].ch) = Len(bnode'[m].k) + 1
               /\ Len(bnode'[m].k) <= NON_LEAF_KEY_NUM
    <3>1. CASE m = h
      BY <2>1, <2>7, <3>1
    <3>2. CASE m = new
      BY <2>1, <2>6, <3>2
    <3>3. CASE m # h /\ m # new
      <4>1. bnode'[m] = bnode[m]
        BY <2>7, <3>3
      <4> QED
        BY <2>4, <4>1
    <3> QED
      BY <3>1, <3>2, <3>3
  <2>9. bnode' \in Bnodes
    BY <2>6, <2>8 DEF Bnodes
  <2> QED
    BY <2>6, <2>7, <2>9
<1>14. PICK a, b, local : /\ a = [loc[t] EXCEPT !.sep = mk[LEFT_KEY_NUM + 1]]
                          /\ b = [a EXCEPT !.ptr = newp]
                          /\ local = [b EXCEPT !.lev = lev + 1]
  OBVIOUS
<1>15. LocalOK(a) /\ LocalOK(b) /\ LocalOK(local) /\ mk[LEFT_KEY_NUM + 1] \in Key
  <2>1. mk[LEFT_KEY_NUM + 1] \in Key
    BY <1>9, <1>10
  <2>2. LocalOK(a)
    BY <1>6, <1>14, <2>1, LocalEdit
  <2>3. LocalOK(b)
    BY <1>8, <1>14, <2>2, LocalEdit
  <2>4. lev + 1 \in 0..(MaxLevel + 1)
    BY <1>7, Constants DEF Level
  <2>5. LocalOK(local)
    BY <1>14, <2>3, <2>4, LocalEdit
  <2> QED
    BY <2>1, <2>2, <2>3, <2>5
<1>16. /\ local.path = loc[t].path /\ local.key = loc[t].key /\ local.ptr = newp
       /\ local.sep \in Key /\ local.total = loc[t].total /\ local.lev = lev + 1
  <2>1. /\ a.path = loc[t].path /\ a.key = loc[t].key /\ a.sep \in Key
        /\ a.total = loc[t].total
    BY <1>6, <1>14, <1>15 DEF LocalOK
  <2>2. /\ b.path = loc[t].path /\ b.key = loc[t].key /\ b.sep \in Key
        /\ b.total = loc[t].total /\ b.ptr = newp
    BY <1>14, <1>15, <2>1 DEF LocalOK
  <2> QED
    BY <1>14, <1>15, <2>2 DEF LocalOK
<1>17. loc' = [loc EXCEPT ![t] = local]
  BY <1>4, <1>14
<1>18. TypeOK' /\ OthersStay(t) /\ pc'[t] = label /\ loc'[t] = local
  <2>1. /\ tree_root' \in Level \X Num /\ root_level' \in Level
        /\ first_leaf' \in Num \cup {Null} /\ leaf' \in Leaves
        /\ work' = work
    BY <1>4, <1>6 DEF TypeOK
  <2>2. used' \subseteq Level \X Num
    BY <1>4, <1>6, <1>8 DEF TypeOK
  <2>3. bnode' \in Bnodes /\ pc' = [pc EXCEPT ![t] = label] /\ LocalOK(local)
    BY <1>4, <1>13, <1>15
  <2> QED
    BY <1>6, <1>17, <2>1, <2>2, <2>3, TypeStep
<1>19. LeavesOK'
  <2>1. \A x \in Num : <<0, x>> \in used' => <<0, x>> \in used
    BY <1>4, <1>7, <1>8
  <2> QED
    BY <1>4, <1>6, <2>1 DEF LeavesOK, DistinctKeys
<1>20. PICK path : path = loc[t].path
  OBVIOUS
<1>21. /\ PathOK(path) /\ loc'[t].path = path /\ path.rl \in Nat
       /\ RootOf(t)' = RootOf(t) /\ lp(t)' = lp(t) /\ ThreadOK(t)
       /\ LockedFull(path)' = LockedFull(path) /\ AllFull(path)' = AllFull(path)
  BY <1>5, <1>16, <1>18, <1>20 DEF RootOf, At, lp, LockedFull, AllFull, LbInv
<1>22. /\ h \in LockedFull(path) /\ \A n \in LockedFull(path) : n[1] <= loc[t].total
       /\ AllFull(path) => loc[t].total = path.rl
       /\ h = At(t, lev) /\ path.isfull[lev]
       /\ loc[t].total \in Nat
  <2>1. path.isfull[h[1]] <=> num(h) = NON_LEAF_KEY_NUM
    BY <1>4, <1>5, <1>20, <1>21 DEF ThreadOK, ClimbOK, Climbing
  <2>2. loc[t].total \in Nat
    BY <1>6, Constants DEF LocalOK
  <2> QED
    BY <1>1, <1>4, <1>5, <1>7, <1>20, <1>21, <2>1, <2>2 DEF ThreadOK, ClimbOK, Here, At
<1>23. \A i \in 0..lev : path.isfull[i]
  <2>1. PICK j \in 1..path.rl : /\ h = <<j, path.parray[j]>>
                                /\ \A i \in 0..(j - 1) : path.isfull[i]
    BY <1>22 DEF LockedFull
  <2>2. j = lev
    BY <1>5, <2>1
  <2> QED
    BY <1>7, <1>22, <2>1, <2>2
<1>24. lev + 1 <= path.rl => At(t, lev + 1) \in LockedFull(path)
  <2> SUFFICES ASSUME lev + 1 <= path.rl PROVE At(t, lev + 1) \in LockedFull(path)
    OBVIOUS
  <2>1. PICK j : j = lev + 1
    OBVIOUS
  <2>2. j \in 1..path.rl /\ \A i \in 0..(j - 1) : path.isfull[i]
    BY <1>7, <1>21, <1>23, <2>1
  <2>3. <<j, path.parray[j]>> \in LockedFull(path)
    BY <2>2 DEF LockedFull
  <2> QED
    BY <1>20, <2>1, <2>3 DEF At
<1>25. lev = path.rl => AllFull(path) /\ loc[t].total = lev
  BY <1>22, <1>23 DEF AllFull
<1>26. label = "bnode" => lev + 1 <= path.rl /\ lev < loc[t].total
  <2> SUFFICES ASSUME lev + 1 <= loc[t].total PROVE lev + 1 <= path.rl /\ lev < loc[t].total
    BY <1>3
  <2>1. lev # path.rl
    BY <1>7, <1>22, <1>25
  <2> QED
    BY <1>5, <1>7, <1>20, <1>21, <1>22, <2>1
<1>27. label = "grow" => lev = path.rl /\ loc[t].total = lev /\ AllFull(path) /\ h = RootOf(t)
  <2> SUFFICES ASSUME ~(lev + 1 <= loc[t].total)
               PROVE  lev = path.rl /\ loc[t].total = lev /\ AllFull(path) /\ h = RootOf(t)
    BY <1>3
  <2>1. ~(lev + 1 <= path.rl)
    <3> SUFFICES ASSUME lev + 1 <= path.rl PROVE FALSE
      OBVIOUS
    <3>1. At(t, lev + 1)[1] <= loc[t].total
      BY <1>22, <1>24
    <3> QED
      BY <3>1 DEF At
  <2>2. lev = path.rl
    BY <1>5, <1>7, <1>20, <1>21, <2>1
  <2> QED
    BY <1>20, <1>22, <1>25, <2>2 DEF RootOf
<1>28. ASSUME NEW n, Holds(t, n)'
       PROVE  /\ Holds(t, n) /\ n \in Level \X Num /\ n \in used /\ IsLocked(n) /\ n # new
              /\ label = "bnode" => HoldsBnode(t, n) /\ n \in LockedFull(path) /\ n # h
              /\ label = "grow" => n = h
  <2>1. CASE label = "bnode"
    <3>1. n \in LockedFull(path) /\ n[1] >= lev + 1
      BY <1>16, <1>18, <1>21, <1>28, <2>1
         DEF Holds, HoldsLeaf, HoldsBnode, AtLeaf, Growing, Climbing
    <3>2. n[1] >= lev /\ n # h
      <4>1. n[1] \in Nat
        BY <1>21, <3>1 DEF LockedFull
      <4> QED
        BY <1>5, <1>7, <3>1, <4>1
    <3>3. HoldsBnode(t, n)
      BY <1>1, <1>4, <1>20, <3>1, <3>2 DEF HoldsBnode
    <3>4. Holds(t, n) /\ n \in Level \X Num
      BY <1>6, <1>21, <3>3, HeldIsNode DEF Holds
    <3>5. n \in used /\ IsLocked(n)
      BY <3>4 DEF LbInv, LocksOK
    <3> QED
      BY <1>8, <2>1, <3>1, <3>2, <3>3, <3>4, <3>5
  <2>2. CASE label = "grow"
    <3>1. n = RootOf(t)
      BY <1>18, <1>21, <1>28, <2>2
         DEF Holds, HoldsLeaf, HoldsBnode, AtLeaf, Growing, Climbing
    <3>2. n = h
      BY <1>27, <2>2, <3>1
    <3>3. n \in Level \X Num /\ Holds(t, n)
      BY <1>5, <3>2
    <3>4. n \in used /\ IsLocked(n)
      BY <3>3 DEF LbInv, LocksOK
    <3> QED
      BY <1>8, <2>2, <3>2, <3>3, <3>4
  <2> QED
    BY <1>3, <2>1, <2>2
<1>29. ~IsApex(new) /\ new # tree_root
  <2>1. h \in Level \X Num
    BY <1>5
  <2> QED
    BY <1>5, <1>8, <2>1, FreshNotTop
<1>30. OwnStep(t)
  <2>1. ASSUME NEW n \in Level \X Num PROVE Mine(t, n) \/ Kept(n)
    <3>1. CASE n = new
      BY <1>8, <1>29, <3>1 DEF Mine
    <3>2. CASE n = h
      BY <1>5, <3>2 DEF Mine
    <3>3. CASE n # new /\ n # h
      <4>1. n[1] # 0 => n \in (Level \ {0}) \X Num
        OBVIOUS
      <4> QED
        BY <1>4, <1>13, <3>3, <4>1 DEF Kept
    <3> QED
      BY <3>1, <3>2, <3>3
  <2>2. ASSUME NEW n \in Level \X Num, Holds(t, n)'
        PROVE  n \in used' /\ IsLocked(n)' /\ Mine(t, n)
    <3>1. Holds(t, n) /\ n \in used /\ IsLocked(n) /\ n # new
      BY <1>28, <2>2
    <3>2. CASE n = h
      <4>1. label = "grow"
        BY <1>3, <1>28, <2>2, <3>2
      <4>2. bnode'[n].lock
        BY <1>7, <1>11, <1>13, <1>27, <3>2, <4>1
      <4>3. n[1] # 0
        BY <1>5, <1>7, <3>2
      <4> QED
        BY <1>4, <3>1, <4>2, <4>3 DEF IsLocked, Mine
    <3>3. CASE n # h
      <4>1. n[1] # 0 => n \in (Level \ {0}) \X Num
        OBVIOUS
      <4> QED
        BY <1>4, <1>13, <3>1, <3>3, <4>1 DEF IsLocked, Mine
    <3> QED
      BY <3>2, <3>3
  <2>3. used \ used' = {}
    BY <1>4
  <2> QED
    BY <1>18, <2>1, <2>2, <2>3 DEF OwnStep
<1>31. LocksOK' /\ \A u \in Thread : \A n : Holds(u, n)' => Holds(u, n)
  BY <1>28, <1>30, StepLocks DEF LbInv
<1>32. RootSeen(t)'
  <2>1. RootSeen(t)
    BY DEF LbInv, RootOK
  <2>2. pc[t] \in OnPath
    BY <1>4 DEF OnPath, Climbing
  <2>3. CASE label = "bnode"
    BY <1>4, <1>16, <1>18, <1>20, <1>21, <1>28, <2>1, <2>2, <2>3 DEF RootSeen
  <2>4. CASE label = "grow"
    <3>1. tree_root = RootOf(t) /\ root_level = lev
      BY <1>5, <1>20, <1>27, <2>1, <2>2, <2>4 DEF RootSeen
    <3>2. tree_root' = RootOf(t)' /\ root_level' = loc'[t].lev - 1
      BY <1>4, <1>7, <1>16, <1>18, <1>21, <3>1
    <3> QED
      BY <1>18, <2>4, <3>2 DEF RootSeen, OnPath, Climbing
  <2> QED
    BY <1>3, <2>3, <2>4
<1>33. RootOK'
  <2>1. IsLocked(tree_root)' \/ tree_root' \in used'
    BY <1>4, <1>30, RootThere
  <2> QED
    BY <1>4, <1>30, <1>32, <2>1, RootStep DEF LbInv
<1>34. Carries(t)' /\ Carried(t)' = new
  <2>1. loc'[t].lev - 1 = lev /\ loc'[t].ptr = newp
    BY <1>7, <1>16, <1>18
  <2>2. pc'[t] \in {"bnode", "grow"}
    BY <1>3, <1>18
  <2> QED
    BY <1>3, <2>1, <2>2 DEF Carries, Carried
<1>35. Forest'
  <2>1. PICK N, W : N = {new} /\ W = {h} \cup N
    OBVIOUS
  <2>2. num(h)' = LEFT_KEY_NUM /\ num(new)' = NON_LEAF_KEY_NUM - LEFT_KEY_NUM
    BY <1>11, <1>12, <1>13 DEF num
  <2>3. \A p \in 0..LEFT_KEY_NUM :
          Below(h, p)' = Kid(t, p) /\ p \in 0..(NON_LEAF_KEY_NUM + 1)
    BY <1>1, <1>5, <1>10, <1>11, <1>13 DEF Below, Child, Kid
  <2>4. ASSUME NEW p \in 0..(NON_LEAF_KEY_NUM - LEFT_KEY_NUM)
        PROVE  /\ Below(new, p)' = Kid(t, p + LEFT_KEY_NUM + 1)
               /\ p + LEFT_KEY_NUM + 1 \in 0..(NON_LEAF_KEY_NUM + 1)
    <3>1. s.ch[p + 1] = mch[p + 1 + LEFT_KEY_NUM + 1]
      BY <1>12
    <3>2. p + 1 + LEFT_KEY_NUM + 1 = (p + LEFT_KEY_NUM + 1) + 1
      BY <1>10
    <3>3. s.ch[p + 1] = mch[(p + LEFT_KEY_NUM + 1) + 1]
      BY <3>1, <3>2
    <3>4. Below(new, p)' = <<lev - 1, s.ch[p + 1]>>
      BY <1>8, <1>13 DEF Below, Child
    <3>5. Kid(t, p + LEFT_KEY_NUM + 1) = <<lev - 1, mch[(p + LEFT_KEY_NUM + 1) + 1]>>
      BY <1>1 DEF Kid
    <3> QED
      BY <1>10, <3>3, <3>4, <3>5
  <2>5. /\ \A q \in 0..(NON_LEAF_KEY_NUM + 1) : Kid(t, q) \in Kids(t)
        /\ \A q, x \in 0..(NON_LEAF_KEY_NUM + 1) : Kid(t, q) = Kid(t, x) => q = x
        /\ \A c \in Kids(t) : \E q \in 0..(NON_LEAF_KEY_NUM + 1) : Kid(t, q) = c
    BY <1>1, <1>4, <1>7, MergedKids
  <2>6. \A m \in W : \A p \in 0..num(m)' : Below(m, p)' \in Kids(t)
    <3>1. \A p \in 0..num(h)' : Below(h, p)' \in Kids(t)
      BY <2>2, <2>3, <2>5
    <3>2. \A p \in 0..num(new)' : Below(new, p)' \in Kids(t)
      BY <2>2, <2>4, <2>5
    <3> QED
      BY <2>1, <3>1, <3>2
  <2>7. ASSUME NEW p \in 0..LEFT_KEY_NUM, NEW q \in 0..LEFT_KEY_NUM,
               Below(h, p)' = Below(h, q)'
        PROVE  p = q
    BY <2>3, <2>5, <2>7
  <2>8. ASSUME NEW p \in 0..(NON_LEAF_KEY_NUM - LEFT_KEY_NUM),
               NEW q \in 0..(NON_LEAF_KEY_NUM - LEFT_KEY_NUM),
               Below(new, p)' = Below(new, q)'
        PROVE  p = q
    <3>1. p + LEFT_KEY_NUM + 1 = q + LEFT_KEY_NUM + 1
      BY <2>4, <2>5, <2>8
    <3> QED
      BY <1>10, <3>1
  <2>9. ASSUME NEW p \in 0..LEFT_KEY_NUM,
               NEW q \in 0..(NON_LEAF_KEY_NUM - LEFT_KEY_NUM),
               Below(h, p)' = Below(new, q)'
        PROVE  FALSE
    <3>1. p = q + LEFT_KEY_NUM + 1
      BY <2>3, <2>4, <2>5, <2>9
    <3> QED
      BY <1>10, <3>1
  <2>10. \A m, n \in W : \A p \in 0..num(m)', q \in 0..num(n)' :
           Below(m, p)' = Below(n, q)' => m = n /\ p = q
    <3> SUFFICES ASSUME NEW m \in W, NEW n \in W, NEW p \in 0..num(m)',
                        NEW q \in 0..num(n)', Below(m, p)' = Below(n, q)'
                 PROVE  m = n /\ p = q
      OBVIOUS
    <3>1. CASE m = h /\ n = h
      BY <2>2, <2>7, <3>1
    <3>2. CASE m = h /\ n = new
      BY <2>2, <2>9, <3>2
    <3>3. CASE m = new /\ n = h
      BY <2>2, <2>9, <3>3
    <3>4. CASE m = new /\ n = new
      BY <2>2, <2>8, <3>4
    <3> QED
      BY <2>1, <3>1, <3>2, <3>3, <3>4
  <2>11. \A c \in Kids(t) : \E m \in W : \E p \in 0..num(m)' : Below(m, p)' = c
    <3> SUFFICES ASSUME NEW c \in Kids(t)
                 PROVE  \E m \in W : \E p \in 0..num(m)' : Below(m, p)' = c
      OBVIOUS
    <3>1. PICK q \in 0..(NON_LEAF_KEY_NUM + 1) : Kid(t, q) = c
      BY <2>5
    <3>2. CASE q <= LEFT_KEY_NUM
      <4>1. q \in 0..num(h)' /\ Below(h, q)' = c
        BY <1>10, <2>2, <2>3, <3>1, <3>2
      <4> QED
        BY <2>1, <4>1
    <3>3. CASE q > LEFT_KEY_NUM
      <4>1. PICK p : p = q - LEFT_KEY_NUM - 1
        OBVIOUS
      <4>2. p \in 0..(NON_LEAF_KEY_NUM - LEFT_KEY_NUM) /\ p + LEFT_KEY_NUM + 1 = q
        BY <1>10, <3>3, <4>1
      <4>3. p \in 0..num(new)' /\ Below(new, p)' = c
        BY <2>2, <2>4, <3>1, <4>2
      <4> QED
        BY <2>1, <4>3
    <3> QED
      BY <1>10, <3>2, <3>3
  <2>12. /\ N \subseteq Level \X Num /\ N \cap used = {} /\ used' = used \cup N
         /\ \A n \in N : n[1] = h[1] /\ ~IsApex(n)
         /\ (Carries(t)' <=> N # {}) /\ (Carries(t)' => N = {Carried(t)'})
         /\ pc'[t] \notin {"growroot", "growlevel", "delnode"}
    BY <1>3, <1>4, <1>5, <1>8, <1>18, <1>29, <1>34, <2>1
  <2>13. ASSUME NEW m \in Inner \ {h} PROVE bnode'[m] = bnode[m]
    <3>1. m \in Level \X Num /\ m[1] # 0
      BY <1>6 DEF Inner, TypeOK
    <3>2. m \in (Level \ {0}) \X Num /\ m # new
      BY <1>8, <3>1 DEF Inner
    <3> QED
      BY <1>13, <3>2
  <2>14. /\ pc[t] = "bnode" /\ OthersStay(t) /\ LocksOK' /\ tree_root' = tree_root
         /\ h = Here(t) /\ \A u \in Thread : \A n : Holds(u, n)' => Holds(u, n)
    BY <1>1, <1>4, <1>18, <1>31
  <2> QED
    BY <2>1, <2>6, <2>10, <2>11, <2>12, <2>13, <2>14, Relinked
<1>36. ThreadOK(t)'
  <2>1. ClimbOK(t)'
    <3>1. PathOK(loc[t].path)'
      BY <1>21 DEF PathOK
    <3>2. label = "bnode" => \A n \in Level \X Num : HoldsBnode(t, n)' =>
            /\ (loc[t].path.isfull[n[1]])' <=> num(n)' = NON_LEAF_KEY_NUM
            /\ (loc[t].path.ppos[n[1]])' <= num(n)'
      <4> SUFFICES ASSUME label = "bnode", NEW n \in Level \X Num, HoldsBnode(t, n)'
                   PROVE  /\ path.isfull[n[1]] <=> num(n)' = NON_LEAF_KEY_NUM
                          /\ path.ppos[n[1]] <= num(n)'
        BY <1>21
      <4>1. HoldsBnode(t, n) /\ n # h /\ n # new
        BY <1>28 DEF Holds
      <4>2. n \in (Level \ {0}) \X Num
        BY <1>4, <1>6, <1>21, <4>1, HeldIsBnode DEF Growing
      <4>3. num(n)' = num(n)
        BY <1>13, <4>1, <4>2 DEF num
      <4> QED
        BY <1>4, <1>20, <1>21, <4>1, <4>3 DEF ThreadOK, ClimbOK, Climbing
    <3>3. CASE label = "bnode"
      <4>1. PICK j : j = lev + 1
        OBVIOUS
      <4>2. loc'[t].lev = j /\ Here(t)' = <<j, path.parray[j]>>
        BY <1>16, <1>18, <1>20, <4>1 DEF Here
      <4>3. Here(t)' \in LockedFull(path) /\ j \in 1..path.rl
        BY <1>7, <1>20, <1>21, <1>24, <1>26, <3>3, <4>1, <4>2 DEF At
      <4>4. /\ \A n \in LockedFull(path) : n[1] <= loc'[t].total
            /\ AllFull(path) => loc'[t].total = path.rl
        BY <1>16, <1>18, <1>22
      <4>5. path.isfull[0]
        BY <1>7, <1>23
      <4> QED
        BY <1>8, <1>16, <1>18, <1>21, <3>1, <3>2, <3>3, <4>2, <4>3, <4>4, <4>5
           DEF ClimbOK, Growing, Climbing
    <3>4. CASE label = "grow"
      BY <1>8, <1>16, <1>18, <1>21, <1>27, <3>1, <3>4 DEF ClimbOK, Growing, Climbing
    <3> QED
      BY <1>3, <3>3, <3>4
  <2>2. DeleteOK(t)'
    BY <1>3, <1>18 DEF DeleteOK
  <2>3. LeafOK(t)'
    <3>1. loc[t].key \in Key
      BY <1>4, KeyOf
    <3> QED
      BY <1>3, <1>16, <1>18, <3>1 DEF LeafOK
  <2> QED
    BY <2>1, <2>2, <2>3 DEF ThreadOK
<1> QED
  BY <1>18, <1>19, <1>30, <1>33, <1>35, <1>36 DEF StepKeeps

\* The root has split: a new root gets both halves, and one of the two stores
\* that move the root is done.
LEMMA GrowRootKeeps ==
  ASSUME LbInv, NEW t \in Thread, GrowRoot(t)
  PROVE  StepKeeps(t)
<1>1. PICK lev, newp, new, r :
        /\ lev = loc[t].lev /\ newp = FreeNode(loc[t].lev) /\ new = <<lev, newp>>
        /\ r = [k |-> <<loc[t].sep>>, ch |-> <<tree_root[2], loc[t].ptr>>, lock |-> TRUE]
  OBVIOUS
<1>2. PICK label \in {"growroot", "growlevel"} :
        /\ pc' = [pc EXCEPT ![t] = label]
        /\ label = "growroot" => root_level' = lev /\ tree_root' = tree_root
        /\ label = "growlevel" => tree_root' = new /\ root_level' = root_level
  BY <1>1 DEF GrowRoot, Goto
<1>3. /\ pc[t] = "grow" /\ lev \in Level /\ used # used \cup ({lev} \X Num)
      /\ used' = used \cup {new} /\ bnode' = [bnode EXCEPT ![new] = r]
      /\ loc' = [loc EXCEPT ![t].old_root = tree_root, ![t].ptr = newp]
      /\ UNCHANGED <<first_leaf, leaf, work>>
  BY <1>1 DEF GrowRoot, lower
<1>4. /\ TypeOK /\ LeavesOK /\ LocalOK(loc[t]) /\ label \in Label /\ ThreadOK(t) /\ RootSeen(t)
      /\ Forest /\ LocksOK
  BY DEF LbInv, TypeOK, Label, RootOK
<1>5. /\ PathOK(loc[t].path) /\ RootOf(t) \in Level \X Num
      /\ Holds(t, RootOf(t)) /\ RootOf(t) \in used
      /\ AllFull(loc[t].path) /\ loc[t].total = loc[t].path.rl
      /\ loc[t].path.rl \in Nat /\ lev = loc[t].path.rl + 1
      /\ RootOf(t)[1] = loc[t].path.rl
  BY <1>1, <1>3, GrowParts DEF Growing
<1>6. /\ tree_root = RootOf(t) /\ root_level = lev - 1 /\ tree_root[1] = lev - 1
      /\ lev \in Nat /\ lev >= 1 /\ tree_root \in Level \X Num
  <2>1. tree_root = RootOf(t) /\ root_level = lev - 1
    BY <1>1, <1>3, <1>4 DEF RootSeen
  <2>2. lev - 1 = loc[t].path.rl /\ lev \in Nat /\ lev >= 1
    BY <1>5
  <2> QED
    BY <1>5, <2>1, <2>2
<1>7. /\ newp \in Num /\ new \notin used /\ new \in (Level \ {0}) \X Num
      /\ new \in Level \X Num /\ new[1] = lev /\ new # tree_root
  <2>1. newp \in Num /\ new \notin used
    BY <1>1, <1>3, FreeNodeType
  <2>2. new[1] = lev /\ new \in (Level \ {0}) \X Num
    BY <1>1, <1>3, <1>6, <2>1
  <2> QED
    BY <1>6, <2>1, <2>2
<1>8. /\ loc[t].ptr \in Num /\ loc[t].sep \in Key /\ tree_root[2] \in Num
      /\ Carries(t) /\ Carried(t) = <<lev - 1, loc[t].ptr>>
      /\ tree_root = <<lev - 1, tree_root[2]>>
  <2>1. Carries(t) /\ Carried(t) = <<lev - 1, loc[t].ptr>>
    BY <1>1, <1>3 DEF Carries, Carried
  <2>2. loc[t].ptr \in Num /\ loc[t].sep \in Key
    BY <1>4, <2>1 DEF ThreadOK, ClimbOK
  <2> QED
    BY <1>6, <2>1, <2>2
<1>9. /\ bnode' \in Bnodes /\ bnode'[new] = r /\ \A m : m # new => bnode'[m] = bnode[m]
  <2>1. /\ <<loc[t].sep>> \in Seq(Key) /\ <<tree_root[2], loc[t].ptr>> \in Seq(Num)
        /\ Len(<<loc[t].sep>>) = 1 /\ Len(<<tree_root[2], loc[t].ptr>>) = 2
    BY <1>8
  <2>2. r \in Bnode /\ Len(r.k) = 1 /\ Len(r.ch) = 2
    BY <1>1, <2>1 DEF Bnode
  <2>3. Len(r.ch) = Len(r.k) + 1 /\ Len(r.k) <= NON_LEAF_KEY_NUM
    BY <2>2, Constants
  <2> QED
    BY <1>3, <1>4, <1>7, <2>2, <2>3, BnodeChanges
<1>10. PICK a, local : a = [loc[t] EXCEPT !.old_root = tree_root]
                       /\ local = [a EXCEPT !.ptr = newp]
  OBVIOUS
<1>11. LocalOK(a) /\ LocalOK(local)
  <2>1. LocalOK(a)
    BY <1>4, <1>6, <1>10, LocalEdit
  <2> QED
    BY <1>7, <1>10, <2>1, LocalEdit
<1>12. /\ local.path = loc[t].path /\ local.key = loc[t].key /\ local.ptr = newp
       /\ local.old_root = tree_root /\ local.total = loc[t].total /\ local.lev = lev
  <2>1. /\ a.path = loc[t].path /\ a.key = loc[t].key /\ a.old_root = tree_root
        /\ a.total = loc[t].total /\ a.lev = lev
    BY <1>1, <1>4, <1>10 DEF LocalOK
  <2> QED
    BY <1>10, <1>11, <2>1 DEF LocalOK
<1>13. loc' = [loc EXCEPT ![t] = local]
  BY <1>3, <1>10
<1>14. TypeOK' /\ OthersStay(t) /\ pc'[t] = label /\ loc'[t] = local
  <2>1. /\ tree_root' \in Level \X Num /\ root_level' \in Level
    BY <1>2, <1>3, <1>4, <1>7 DEF TypeOK
  <2>2. /\ first_leaf' \in Num \cup {Null} /\ leaf' \in Leaves /\ work' = work
    BY <1>3, <1>4 DEF TypeOK
  <2>3. used' \subseteq Level \X Num
    BY <1>3, <1>4, <1>7 DEF TypeOK
  <2>4. bnode' \in Bnodes /\ pc' = [pc EXCEPT ![t] = label] /\ LocalOK(local)
    BY <1>2, <1>9, <1>11
  <2> QED
    BY <1>4, <1>13, <2>1, <2>2, <2>3, <2>4, TypeStep
<1>15. LeavesOK'
  <2>1. \A x \in Num : <<0, x>> \in used' => <<0, x>> \in used
    BY <1>3, <1>6, <1>7
  <2> QED
    BY <1>3, <1>4, <2>1 DEF LeavesOK, DistinctKeys
<1>16. RootOf(t)' = RootOf(t) /\ NewRoot(t)' = new /\ AllFull(loc[t].path)'
  BY <1>1, <1>5, <1>12, <1>14 DEF RootOf, At, NewRoot, AllFull
<1>17. ASSUME NEW n, Holds(t, n)' PROVE n = tree_root \/ n = new
  BY <1>2, <1>6, <1>14, <1>16, <1>17
     DEF Holds, HoldsLeaf, HoldsBnode, AtLeaf, Growing, Climbing
<1>18. OwnStep(t)
  <2>1. ASSUME NEW n \in Level \X Num PROVE Mine(t, n) \/ Kept(n)
    <3>1. CASE n = new
      BY <1>7, <3>1 DEF Mine
    <3>2. CASE n # new
      BY <1>3, <1>9, <3>2 DEF Kept
    <3> QED
      BY <3>1, <3>2
  <2>2. ASSUME NEW n \in Level \X Num, Holds(t, n)'
        PROVE  n \in used' /\ IsLocked(n)' /\ Mine(t, n)
    <3>1. CASE n = new
      <4>1. bnode'[n].lock /\ n[1] # 0
        BY <1>1, <1>6, <1>7, <1>9, <3>1
      <4> QED
        BY <1>3, <1>7, <3>1, <4>1 DEF IsLocked, Mine
    <3>2. CASE n = tree_root
      <4>1. Holds(t, n) /\ n \in used /\ IsLocked(n) /\ n # new
        BY <1>4, <1>5, <1>6, <1>7, <3>2 DEF LocksOK
      <4> QED
        BY <1>3, <1>9, <4>1 DEF IsLocked, Mine
    <3> QED
      BY <1>17, <2>2, <3>1, <3>2
  <2>3. used \ used' = {}
    BY <1>3
  <2> QED
    BY <1>14, <2>1, <2>2, <2>3 DEF OwnStep
<1>19. LocksOK' /\ \A u \in Thread \ {t} : \A n : Holds(u, n)' <=> Holds(u, n)
  BY <1>18, StepLocks DEF LbInv
<1>20. RootSeen(t)'
  <2>1. CASE label = "growroot"
    BY <1>2, <1>6, <1>12, <1>14, <1>16, <2>1 DEF RootSeen, OnPath, Climbing
  <2>2. CASE label = "growlevel"
    <3>1. root_level' = loc'[t].lev - 1 /\ tree_root' = NewRoot(t)'
      BY <1>2, <1>6, <1>12, <1>14, <1>16, <2>2
    <3> QED
      BY <1>14, <2>2, <3>1 DEF RootSeen, OnPath, Climbing
  <2> QED
    BY <2>1, <2>2
<1>21. RootOK'
  <2>1. tree_root' \in used'
    BY <1>2, <1>3, <1>5, <1>6
  <2>2. pc'[t] \in {"growroot", "growlevel", "shrinkroot"}
    BY <1>14
  <2> QED
    BY <1>5, <1>6, <1>18, <1>20, <2>1, <2>2, RootMoves
<1>22. \A u \in Thread : pc[u] # "growroot"
  <2> SUFFICES ASSUME NEW u \in Thread, pc[u] = "growroot" PROVE FALSE
    OBVIOUS
  <2>1. tree_root = RootOf(u) /\ Holds(u, RootOf(u))
    BY GrowParts DEF Growing, LbInv, RootOK, RootSeen
  <2> QED
    BY <1>3, <1>4, <1>5, <1>6, <2>1 DEF LocksOK
<1>23. ASSUME NEW n PROVE (IsApex(n) <=> n = tree_root) /\ (IsApex(n)' <=> n = new)
  <2>1. IsApex(n) <=> n = tree_root
    BY <1>22 DEF IsApex
  <2>2. \A u \in Thread \ {t} : pc'[u] # "growroot"
    BY <1>14, <1>22 DEF OthersStay
  <2>3. CASE label = "growroot"
    BY <1>14, <1>16, <2>1, <2>2, <2>3 DEF IsApex
  <2>4. CASE label = "growlevel"
    BY <1>2, <1>14, <2>1, <2>2, <2>4 DEF IsApex
  <2> QED
    BY <2>1, <2>3, <2>4
<1>24. ~Carries(t)' /\ \A m, p : ~Dangles(t, m, p) /\ ~Dangles(t, m, p)'
  BY <1>3, <1>14 DEF Carries, Dangles
<1>25. Forest'
  <2>1. Inner' = Inner \cup {new}
    BY <1>3, <1>6, <1>7 DEF Inner
  <2>2. \A u \in Thread \ {t} : /\ Carries(u)' <=> Carries(u)
                                /\ Carried(u)' = Carried(u)
                                /\ pc'[u] = pc[u] /\ NewRoot(u)' = NewRoot(u)
    BY <1>14, OthersForest DEF OthersStay
  <2>3. \A u \in Thread : \A m, p : Dangles(u, m, p)' <=> Dangles(u, m, p)
    BY <1>14, <1>24, OthersForest
  <2>4. /\ num(new)' = 1 /\ Below(new, 0)' = tree_root /\ Below(new, 1)' = Carried(t)
    <3>1. Len(r.k) = 1 /\ r.ch[0 + 1] = tree_root[2] /\ r.ch[1 + 1] = loc[t].ptr
      BY <1>1
    <3>2. num(new)' = Len(bnode'[new].k)
      BY DEF num
    <3>3. /\ Below(new, 0)' = <<new[1] - 1, bnode'[new].ch[0 + 1]>>
          /\ Below(new, 1)' = <<new[1] - 1, bnode'[new].ch[1 + 1]>>
      BY DEF Below, Child
    <3> QED
      BY <1>7, <1>8, <1>9, <3>1, <3>2, <3>3
  <2>5. Live(new)' = {0, 1}
    <3>1. \A u \in Thread : \A p : ~Dangles(u, new, p)
      BY <1>7, <1>24, OthersDangle
    <3>2. Live(new)' = 0..num(new)'
      BY <2>3, <3>1 DEF Live
    <3> QED
      BY <2>4, <3>2
  <2>6. ASSUME NEW m \in Inner
        PROVE  Live(m)' = Live(m) /\ \A p : Below(m, p)' = Below(m, p)
    <3>1. bnode'[m] = bnode[m]
      BY <1>7, <1>9 DEF Inner
    <3>2. num(m)' = num(m) /\ \A p : Below(m, p)' = Below(m, p)
      BY <3>1 DEF num, Below, Child
    <3> QED
      BY <2>3, <3>2 DEF Live
  <2>7. ASSUME NEW m \in Inner, NEW p \in Live(m)
        PROVE  /\ Below(m, p) \in used /\ Below(m, p) # tree_root
               /\ \A u \in Thread : Carries(u) => Below(m, p) # Carried(u)
    BY <1>4, <1>23 DEF Forest, ChildUsed
  <2>8. /\ Carried(t) \in used /\ Carried(t) # tree_root
        /\ \A u \in Thread : /\ ~Holds(u, Carried(t))
                             /\ u # t /\ Carries(u) => Carried(u) # Carried(t)
    BY <1>4, <1>8, <1>23 DEF Forest, CarriedApart
  <2>9. \A u \in Thread : Carries(u) => Carried(u) # tree_root /\ Carried(u) \in used
    BY <1>4, <1>23 DEF Forest, CarriedApart
  <2>10. ChildUsed'
    <3> SUFFICES ASSUME NEW m \in Inner', NEW p \in Live(m)'
                 PROVE  /\ Below(m, p)' \in used' /\ ~IsApex(Below(m, p))'
                        /\ \A u \in Thread : Carries(u)' => Below(m, p)' # Carried(u)'
      BY DEF ChildUsed
    <3>1. PICK c : c = Below(m, p)'
      OBVIOUS
    <3>2. IsApex(Below(m, p))' <=> IsApex(c)'
      BY <3>1 DEF IsApex
    <3>3. c \in used /\ \A u \in Thread \ {t} : Carries(u) => c # Carried(u)
      <4>1. CASE m = new
        BY <1>5, <1>6, <2>4, <2>5, <2>8, <2>9, <3>1, <4>1
      <4>2. CASE m \in Inner
        BY <2>6, <2>7, <3>1, <4>2
      <4> QED
        BY <2>1, <4>1, <4>2
    <3> QED
      BY <1>3, <1>7, <1>23, <1>24, <2>2, <3>1, <3>2, <3>3
  <2>11. OneParent'
    <3> SUFFICES ASSUME NEW m \in Inner', NEW n \in Inner', NEW p \in Live(m)',
                        NEW q \in Live(n)', Below(m, p)' = Below(n, q)'
                 PROVE  m = n /\ p = q
      BY DEF OneParent
    <3>1. CASE m = new /\ n = new
      BY <2>4, <2>5, <2>8, <3>1
    <3>2. CASE m = new /\ n \in Inner
      BY <1>8, <2>4, <2>5, <2>6, <2>7, <3>2
    <3>3. CASE m \in Inner /\ n = new
      BY <1>8, <2>4, <2>5, <2>6, <2>7, <3>3
    <3>4. CASE m \in Inner /\ n \in Inner
      BY <1>4, <2>6, <3>4 DEF Forest, OneParent
    <3> QED
      BY <2>1, <3>1, <3>2, <3>3, <3>4
  <2>12. HasParent'
    <3> SUFFICES ASSUME NEW n \in used', n # new
                 PROVE  \/ \E u \in Thread : Carries(u)' /\ n = Carried(u)'
                        \/ \E m \in Inner' : \E p \in Live(m)' : Below(m, p)' = n
      BY <1>23 DEF HasParent
    <3>1. CASE n = tree_root \/ n = Carried(t)
      BY <2>1, <2>4, <2>5, <3>1
    <3>2. CASE n # tree_root /\ n # Carried(t)
      <4>1. \/ \E u \in Thread \ {t} : Carries(u) /\ n = Carried(u)
            \/ \E m \in Inner : \E p \in Live(m) : Below(m, p) = n
        BY <1>3, <1>4, <1>23, <3>2 DEF Forest, HasParent
      <4> QED
        BY <2>1, <2>2, <2>6, <4>1
    <3> QED
      BY <3>1, <3>2
  <2>13. TopOnly'
    <3> SUFFICES ASSUME NEW n \in used' PROVE n[1] <= lev /\ (n[1] = lev => n = new)
      BY <1>7, <1>23 DEF TopOnly
    <3>1. CASE n = new
      BY <1>6, <1>7, <3>1
    <3>2. CASE n \in used
      <4>1. n[1] <= lev - 1
        BY <1>4, <1>6, <1>23, <3>2 DEF Forest, TopOnly
      <4>2. n[1] \in Nat
        BY <1>4, <3>2, Constants DEF TypeOK
      <4> QED
        BY <1>6, <4>1, <4>2
    <3> QED
      BY <1>3, <3>1, <3>2
  <2>14. \A u \in Thread : \A n : Holds(u, n)' => Holds(u, n) \/ n = new
    BY <1>5, <1>6, <1>17, <1>19
  <2>15. CarriedApart'
    <3>1. ASSUME NEW u \in Thread, Carries(u)'
          PROVE  /\ Carried(u)' \in used' /\ ~IsApex(Carried(u))'
                 /\ \A v \in Thread : /\ ~Holds(v, Carried(u))'
                                      /\ v # u /\ Carries(v)' => Carried(v)' # Carried(u)'
      <4>1. u # t /\ Carries(u) /\ Carried(u)' = Carried(u)
        BY <1>24, <2>2, <3>1
      <4>2. PICK n : n = Carried(u)
        OBVIOUS
      <4>3. /\ n \in used /\ n # new
            /\ \A v \in Thread : /\ ~Holds(v, n)
                                 /\ v # u /\ Carries(v) => Carried(v) # n
        BY <1>4, <1>7, <4>1, <4>2 DEF Forest, CarriedApart
      <4>4. IsApex(Carried(u))' <=> IsApex(n)'
        BY <4>1, <4>2 DEF IsApex
      <4>5. ASSUME NEW v \in Thread PROVE Holds(v, Carried(u))' <=> Holds(v, n)'
        BY <4>1, <4>2, ZenonT(40) DEF Holds, HoldsLeaf, HoldsBnode
      <4>6. ASSUME NEW v \in Thread, v # u, Carries(v)' PROVE Carried(v)' # n
        BY <1>24, <2>2, <4>3, <4>6
      <4> QED
        BY <1>3, <1>23, <2>14, <4>1, <4>2, <4>3, <4>4, <4>5, <4>6
    <3>2. ASSUME NEW u \in Thread, pc'[u] = "growlevel", NEW v \in Thread
          PROVE  ~Holds(v, Below(NewRoot(u), 1))'
      <4>1. CASE u = t
        <5>1. PICK n : n = Carried(t)
          OBVIOUS
        <5>2. Below(NewRoot(u), 1)' = n
          <6>1. Below(NewRoot(u), 1)' = Below(new, 1)'
            BY <1>16, <4>1, Zenon DEF Below, Child
          <6> QED
            BY <2>4, <5>1, <6>1
        <5>3. Holds(v, Below(NewRoot(u), 1))' <=> Holds(v, n)'
          BY <5>2, ZenonT(40) DEF Holds, HoldsLeaf, HoldsBnode
        <5> QED
          BY <1>7, <2>8, <2>14, <5>1, <5>3
      <4>2. CASE u # t
        <5>1. pc[u] = "growlevel"
          BY <2>2, <3>2, <4>2
        <5>2. tree_root = NewRoot(u) /\ Holds(u, NewRoot(u))
          BY <5>1 DEF LbInv, RootOK, RootSeen, Holds, HoldsBnode, Growing
        <5> QED
          BY <1>4, <1>5, <1>6, <4>2, <5>2 DEF LocksOK
      <4> QED
        BY <4>1, <4>2
    <3> QED
      BY <3>1, <3>2 DEF CarriedApart
  <2> QED
    BY <2>10, <2>11, <2>12, <2>13, <2>15 DEF Forest
<1>26. ThreadOK(t)'
  <2>1. ClimbOK(t)'
    <3>1. PathOK(loc[t].path)'
      BY <1>5, <1>12, <1>14 DEF PathOK
    <3>2. num(NewRoot(t))' = 1
      <4>1. num(NewRoot(t))' = num(new)'
        BY <1>16, Zenon DEF num
      <4>2. num(new)' = 1
        BY <1>1, <1>9 DEF num
      <4> QED
        BY <4>1, <4>2
    <3>3. loc'[t].total = loc'[t].path.rl /\ loc'[t].lev = loc'[t].path.rl + 1
      BY <1>1, <1>5, <1>12, <1>14
    <3>4. AllFull(loc[t].path)'
      BY <1>16
    <3>5. loc'[t].old_root = RootOf(t)' /\ NewRoot(t)' \in (Level \ {0}) \X Num
      BY <1>6, <1>7, <1>12, <1>14, <1>16
    <3> QED
      BY <1>14, <1>24, <3>1, <3>2, <3>3, <3>4, <3>5 DEF ClimbOK, Climbing
  <2>2. DeleteOK(t)'
    BY <1>14 DEF DeleteOK
  <2>3. LeafOK(t)'
    <3>1. loc[t].key \in Key
      BY <1>3, KeyOf
    <3> QED
      BY <1>12, <1>14, <3>1 DEF LeafOK
  <2> QED
    BY <2>1, <2>2, <2>3 DEF ThreadOK
<1> QED
  BY <1>14, <1>15, <1>18, <1>21, <1>25, <1>26 DEF StepKeeps

-----------------------------------------------------------------------------
(* The walk up of a delete.                                                *)

\* The bnode whose child a delete has freed.
LEMMA WalkParts ==
  ASSUME LbInv, NEW t \in Thread, pc[t] = "delnode", loc[t].lev <= loc[t].path.rl,
         NEW h, h = Here(t)
  PROVE  /\ h \in (Level \ {0}) \X Num /\ h \in Inner /\ Holds(t, h) /\ HoldsBnode(t, h)
         /\ h[1] = loc[t].lev /\ loc[t].lev \in 1..loc[t].path.rl
         /\ PathOK(loc[t].path) /\ loc[t].path.rl \in Nat
         /\ pos(t) \in 0..num(h) /\ num(h) \in Nat
         /\ Live(h) = (0..num(h)) \ {pos(t)}
         /\ \A m, p : Dangles(t, m, p) <=> m = h /\ p = pos(t)
<1>1. DeleteOK(t) /\ ClimbOK(t) /\ TypeOK /\ ThreadOK(t)
  BY DEF LbInv, ThreadOK
<1>2. PathOK(loc[t].path) /\ loc[t].path.rl \in Nat
  BY <1>1, PathParts DEF ClimbOK, OnPath
<1>3. loc[t].lev \in 1..loc[t].path.rl
  <2>1. loc[t].lev >= 1 /\ loc[t].lev \in Nat
    BY <1>1, Constants DEF DeleteOK, TypeOK, LocalOK
  <2> QED
    BY <1>2, <2>1
<1>4. PICK i : i = loc[t].lev
  OBVIOUS
<1>5. h = At(t, i) /\ h[1] = i /\ i \in 1..loc[t].path.rl
  BY <1>3, <1>4 DEF Here, At
<1>6. h \in Lone(t, i)
  <2>1. i \in i..loc[t].path.rl /\ \A m \in i..(i - 1) : num(At(t, m)) = 0
    BY <1>2, <1>5
  <2> QED
    BY <1>5, <2>1 DEF Lone
<1>7. HoldsBnode(t, h)
  BY <1>4, <1>6 DEF HoldsBnode
<1>8. h \in (Level \ {0}) \X Num
  BY <1>1, <1>7, HeldIsBnode DEF Growing
<1>9. num(h) \in Nat
  BY <1>1, <1>8, BnodeParts
<1>10. Holds(t, h) /\ h \in Level \X Num /\ h \in Inner
  <2>1. Holds(t, h) /\ h \in Level \X Num
    BY <1>7, <1>8 DEF Holds
  <2>2. h \in used
    BY <2>1 DEF LbInv, LocksOK
  <2> QED
    BY <1>5, <2>1, <2>2 DEF Inner
<1>11. pos(t) \in 0..num(h)
  <2>1. loc[t].path.ppos[i] <= num(h)
    BY <1>1, <1>5, <1>7, <1>10 DEF DeleteOK
  <2>2. loc[t].path.ppos[i] \in Nat
    BY <1>2, <1>5, PathParts
  <2> QED
    BY <1>4, <1>9, <2>1, <2>2 DEF pos
<1>12. \A m, p : Dangles(t, m, p) <=> m = h /\ p = pos(t)
  BY DEF Dangles
<1>13. Live(h) = (0..num(h)) \ {pos(t)}
  BY <1>10, <1>12, OthersDangle DEF Live
<1> QED
  BY <1>2, <1>3, <1>4, <1>5, <1>7, <1>8, <1>9, <1>10, <1>11, <1>12, <1>13

\* A node that leaves the tree, once no pointer to it counts.
LEMMA Unhooked ==
  ASSUME LbInv, NEW t \in Thread, OthersStay(t),
         NEW c \in used, Holds(t, c), used' = used \ {c}, tree_root' = tree_root,
         pc[t] # "growroot", pc'[t] \notin {"growroot", "growlevel"},
         \A m \in Inner : bnode'[m] = bnode[m],
         ~Carries(t), ~Carries(t)',
         c \in Inner => Live(c) = {},
         \A m \in Inner \ {c} : Live(m)' = {p \in Live(m) : Below(m, p) # c},
         \A u \in Thread : \A n : Holds(u, n)' => Holds(u, n)
  PROVE  Forest'
<1>1. Inner' = Inner \ {c}
  BY DEF Inner
<1>2. \A n : IsApex(n)' <=> IsApex(n)
  BY ApexSame
<1>3. \A u \in Thread \ {t} : /\ Carries(u)' <=> Carries(u)
                              /\ Carried(u)' = Carried(u)
                              /\ pc'[u] = pc[u] /\ NewRoot(u)' = NewRoot(u)
  BY OthersForest DEF OthersStay
<1>4. ASSUME NEW m \in Inner PROVE \A p : Below(m, p)' = Below(m, p)
  BY DEF Below, Child
<1>5. Forest /\ LocksOK /\ TypeOK
  BY DEF LbInv
<1>6. ChildUsed'
  <2> SUFFICES ASSUME NEW m \in Inner', NEW p \in Live(m)'
               PROVE  /\ Below(m, p)' \in used' /\ ~IsApex(Below(m, p))'
                      /\ \A u \in Thread : Carries(u)' => Below(m, p)' # Carried(u)'
    BY DEF ChildUsed
  <2>1. PICK b : b = Below(m, p)'
    OBVIOUS
  <2>2. IsApex(Below(m, p))' <=> IsApex(b)'
    BY <2>1 DEF IsApex
  <2>3. m \in Inner \ {c} /\ p \in Live(m) /\ b = Below(m, p) /\ b # c
    BY <1>1, <1>4, <2>1
  <2>4. b \in used /\ ~IsApex(b) /\ \A u \in Thread : Carries(u) => b # Carried(u)
    BY <1>5, <2>3 DEF Forest, ChildUsed
  <2> QED
    BY <1>2, <1>3, <2>1, <2>2, <2>3, <2>4
<1>7. OneParent'
  <2> SUFFICES ASSUME NEW m \in Inner', NEW n \in Inner', NEW p \in Live(m)',
                      NEW q \in Live(n)', Below(m, p)' = Below(n, q)'
               PROVE  m = n /\ p = q
    BY DEF OneParent
  <2>1. m \in Inner /\ n \in Inner /\ p \in Live(m) /\ q \in Live(n)
    BY <1>1
  <2> QED
    BY <1>4, <1>5, <2>1 DEF Forest, OneParent
<1>8. HasParent'
  <2> SUFFICES ASSUME NEW n \in used'
               PROVE  \/ IsApex(n)'
                      \/ \E u \in Thread : Carries(u)' /\ n = Carried(u)'
                      \/ \E m \in Inner' : \E p \in Live(m)' : Below(m, p)' = n
    BY DEF HasParent
  <2>1. \/ IsApex(n)
        \/ \E u \in Thread \ {t} : Carries(u) /\ n = Carried(u)
        \/ \E m \in Inner \ {c} : \E p \in Live(m) : Below(m, p) = n
    BY <1>5 DEF Forest, HasParent
  <2>2. CASE \E m \in Inner \ {c} : \E p \in Live(m) : Below(m, p) = n
    <3>1. PICK m \in Inner \ {c} : \E p \in Live(m) : Below(m, p) = n
      BY <2>2
    <3>2. PICK p \in Live(m) : Below(m, p) = n
      BY <3>1
    <3>3. p \in Live(m)' /\ Below(m, p)' = n
      BY <1>4, <3>2
    <3> QED
      BY <1>1, <3>3
  <2> QED
    BY <1>2, <1>3, <2>1, <2>2
<1>9. TopOnly'
  <2> SUFFICES ASSUME NEW x \in Level \X Num, IsApex(x)', NEW n \in used'
               PROVE  /\ n[1] <= x[1]
                      /\ n[1] = x[1] => \/ n = x
                                        \/ \E u \in Thread : Carries(u)' /\ n = Carried(u)'
    BY DEF TopOnly
  <2>1. /\ n[1] <= x[1]
        /\ n[1] = x[1] => \/ n = x
                          \/ \E u \in Thread \ {t} : Carries(u) /\ n = Carried(u)
    BY <1>2, <1>5 DEF Forest, TopOnly
  <2> QED
    BY <1>3, <2>1
<1>10. CarriedApart'
  <2>1. ASSUME NEW u \in Thread, Carries(u)'
        PROVE  /\ Carried(u)' \in used' /\ ~IsApex(Carried(u))'
               /\ \A v \in Thread : /\ ~Holds(v, Carried(u))'
                                    /\ v # u /\ Carries(v)' => Carried(v)' # Carried(u)'
    <3>1. u # t /\ Carries(u) /\ Carried(u)' = Carried(u)
      BY <1>3, <2>1
    <3>2. PICK n : n = Carried(u)
      OBVIOUS
    <3>3. /\ n \in used /\ n # c /\ ~IsApex(n)
          /\ \A v \in Thread : /\ ~Holds(v, n)
                               /\ v # u /\ Carries(v) => Carried(v) # n
      BY <1>5, <3>1, <3>2 DEF Forest, CarriedApart
    <3>4. IsApex(Carried(u))' <=> IsApex(n)'
      BY <3>1, <3>2 DEF IsApex
    <3>5. ASSUME NEW v \in Thread PROVE Holds(v, Carried(u))' <=> Holds(v, n)'
      BY <3>1, <3>2, ZenonT(40) DEF Holds, HoldsLeaf, HoldsBnode
    <3>6. ASSUME NEW v \in Thread, v # u, Carries(v)' PROVE Carried(v)' # n
      BY <1>3, <3>3, <3>6
    <3> QED
      BY <1>2, <3>1, <3>2, <3>3, <3>4, <3>5, <3>6
  <2>2. ASSUME NEW u \in Thread, pc'[u] = "growlevel", NEW v \in Thread
        PROVE  ~Holds(v, Below(NewRoot(u), 1))'
    <3>1. u # t /\ pc[u] = "growlevel" /\ NewRoot(u)' = NewRoot(u)
      BY <1>3, <2>2
    <3>2. PICK y, n : y = NewRoot(u) /\ n = Below(y, 1)
      OBVIOUS
    <3>3. y \in Inner
      <4>1. Holds(u, y)
        BY <3>1, <3>2 DEF Holds, HoldsBnode, Growing
      <4>2. y \in (Level \ {0}) \X Num
        BY <3>1, <3>2 DEF LbInv, ThreadOK, ClimbOK
      <4>3. y \in Level \X Num /\ y[1] >= 1
        <5>1. y[1] \in Nat /\ y[1] # 0
          BY <4>2, Constants
        <5> QED
          BY <4>2, <5>1
      <4> QED
        BY <1>5, <4>1, <4>3 DEF LocksOK, Inner
    <3>4. Below(NewRoot(u), 1)' = n
      <4>1. Below(NewRoot(u), 1)' = Below(y, 1)'
        BY <3>1, <3>2, Zenon DEF Below, Child
      <4> QED
        BY <1>4, <3>2, <3>3, <4>1
    <3>5. ~Holds(v, n)
      BY <1>5, <3>1, <3>2 DEF Forest, CarriedApart
    <3>6. Holds(v, Below(NewRoot(u), 1))' <=> Holds(v, n)'
      BY <3>4, ZenonT(40) DEF Holds, HoldsLeaf, HoldsBnode
    <3> QED
      BY <3>5, <3>6
  <2> QED
    BY <2>1, <2>2 DEF CarriedApart
<1> QED
  BY <1>6, <1>7, <1>8, <1>9, <1>10 DEF Forest

\* A pointer begins to dangle: to a node that has it for its only parent.
LEMMA Dangling ==
  ASSUME LbInv, NEW t \in Thread, OthersStay(t), NEW c,
         \A m \in Inner : bnode'[m] = bnode[m],
         NEW h \in Inner, Holds(t, h), NEW i \in 0..num(h), Below(h, i) = c,
         \A p : ~Dangles(t, h, p),
         \A m, p : Dangles(t, m, p) => m = c,
         \A m, p : Dangles(t, m, p)' <=> m = h /\ p = i
  PROVE  \A m \in Inner \ {c} : Live(m)' = {p \in Live(m) : Below(m, p) # c}
<1>1. h \in Level \X Num
  BY DEF LbInv, TypeOK, Inner
<1>2. i \in Live(h)
  BY <1>1, OthersDangle DEF Live
<1>3. \A u \in Thread \ {t} : \A m, p : Dangles(u, m, p)' <=> Dangles(u, m, p)
  BY OthersForest
<1>4. ASSUME NEW m \in Inner \ {c}, NEW p
      PROVE  p \in Live(m)' <=> p \in Live(m) /\ ~(m = h /\ p = i)
  <2>1. num(m)' = num(m)
    BY DEF num
  <2> QED
    BY <1>3, <2>1 DEF Live
<1>5. \A m \in Inner : \A p \in Live(m) : Below(m, p) = c => m = h /\ p = i
  BY <1>2 DEF LbInv, Forest, OneParent
<1> QED
  BY <1>4, <1>5

\* A bnode without a child left is freed, and its own pointer dangles.
LEMMA FreeBnodeKeeps ==
  ASSUME LbInv, NEW t \in Thread, FreeBnode(t)
  PROVE  StepKeeps(t)
<1>1. PICK h, i, j, path : h = Here(t) /\ i = loc[t].lev /\ j = i + 1 /\ path = loc[t].path
  OBVIOUS
<1>2. /\ pc[t] = "delnode" /\ i <= path.rl /\ num(h) = 0 /\ used' = used \ {h}
      /\ loc' = [loc EXCEPT ![t].lev = j] /\ pc' = pc
      /\ UNCHANGED <<tree_root, root_level, bnode, first_leaf, leaf, work>>
  BY <1>1 DEF FreeBnode, upper, lower
<1>3. /\ h \in (Level \ {0}) \X Num /\ h \in Inner /\ Holds(t, h) /\ HoldsBnode(t, h)
      /\ h[1] = i /\ i \in 1..path.rl /\ PathOK(path) /\ path.rl \in Nat
      /\ pos(t) = 0 /\ Live(h) = {}
      /\ \A m, p : Dangles(t, m, p) <=> m = h /\ p = 0
  <2>1. /\ h \in (Level \ {0}) \X Num /\ h \in Inner /\ Holds(t, h) /\ HoldsBnode(t, h)
        /\ h[1] = i /\ i \in 1..path.rl /\ PathOK(path) /\ path.rl \in Nat
    BY <1>1, <1>2, WalkParts
  <2>2. /\ pos(t) \in 0..num(h) /\ Live(h) = (0..num(h)) \ {pos(t)}
        /\ \A m, p : Dangles(t, m, p) <=> m = h /\ p = pos(t)
    BY <1>1, <1>2, WalkParts
  <2>3. pos(t) = 0
    BY <1>2, <2>2
  <2>4. Live(h) = {}
    BY <1>2, <2>2, <2>3
  <2> QED
    BY <2>1, <2>2, <2>3, <2>4
<1>4. /\ TypeOK /\ LeavesOK /\ LocalOK(loc[t]) /\ ThreadOK(t) /\ Forest /\ LocksOK
      /\ RootSeen(t) /\ "delnode" \in Label
  BY DEF LbInv, TypeOK, RootOK, Label
<1>5. h = At(t, i) /\ h \in used /\ h \in Level \X Num /\ IsLocked(h) /\ bnode[h].lock
  <2>1. h \in used /\ h \in Level \X Num /\ IsLocked(h) /\ h[1] # 0
    BY <1>3, <1>4 DEF Inner, LocksOK
  <2> QED
    BY <1>1, <2>1 DEF Here, At, IsLocked
<1>6. PICK local : local = [loc[t] EXCEPT !.lev = j]
  OBVIOUS
<1>7. LocalOK(local)
  <2>1. path.rl <= MaxLevel
    BY <1>3, Constants DEF PathOK, Level
  <2>2. j \in 0..(MaxLevel + 1)
    BY <1>1, <1>3, <2>1, Constants
  <2> QED
    BY <1>4, <1>6, <2>2, LocalEdit
<1>8. local.path = path /\ local.key = loc[t].key /\ local.lev = j
  BY <1>1, <1>4, <1>6 DEF LocalOK
<1>9. loc' = [loc EXCEPT ![t] = local] /\ pc' = [pc EXCEPT ![t] = "delnode"]
  <2>1. loc' = [loc EXCEPT ![t] = local]
    BY <1>2, <1>6
  <2>2. pc' = [pc EXCEPT ![t] = "delnode"]
    BY <1>2, <1>4 DEF TypeOK
  <2> QED
    BY <2>1, <2>2
<1>10. TypeOK' /\ OthersStay(t) /\ pc'[t] = "delnode" /\ loc'[t] = local
  <2>1. /\ tree_root' \in Level \X Num /\ root_level' \in Level
        /\ first_leaf' \in Num \cup {Null} /\ bnode' \in Bnodes /\ leaf' \in Leaves
        /\ used' \subseteq Level \X Num /\ work' = work
    BY <1>2, <1>4 DEF TypeOK
  <2> QED
    BY <1>4, <1>7, <1>9, <2>1, TypeStep
<1>11. LeavesOK'
  BY <1>2, <1>4 DEF LeavesOK, DistinctKeys
<1>12. /\ \A m : num(m)' = num(m) /\ \A p : Child(m, p)' = Child(m, p)
       /\ \A k : At(t, k)' = At(t, k)
       /\ RootOf(t)' = RootOf(t) /\ lp(t)' = lp(t)
  BY <1>1, <1>2, <1>8, <1>10 DEF num, Child, At, RootOf, lp
<1>13. ASSUME NEW n, n \in Lone(t, j) PROVE HoldsBnode(t, n) /\ n # h
  <2>1. PICK x \in j..path.rl : n = At(t, x) /\ \A m \in j..(x - 1) : num(At(t, m)) = 0
    BY <1>1, <1>13 DEF Lone
  <2>2. x \in i..path.rl /\ x > i
    BY <1>1, <1>3, <2>1
  <2>3. ASSUME NEW m \in i..(x - 1) PROVE num(At(t, m)) = 0
    <3>1. CASE m = i
      BY <1>2, <1>5, <3>1
    <3>2. CASE m # i
      <4>1. m \in j..(x - 1)
        BY <1>1, <1>3, <2>2, <3>2
      <4> QED
        BY <2>1, <4>1
    <3> QED
      BY <3>1, <3>2
  <2>4. n \in Lone(t, i)
    BY <1>1, <2>1, <2>2, <2>3 DEF Lone
  <2>5. n # h
    BY <1>3, <2>1, <2>2 DEF At
  <2> QED
    BY <1>1, <1>2, <2>4, <2>5 DEF HoldsBnode
<1>14. ASSUME NEW n, n \in Lone(t, loc[t].lev)' PROVE n \in Lone(t, j)
  <2>1. Lone(t, loc[t].lev)' = Lone(t, j)'
    BY <1>8, <1>10, Zenon DEF Lone
  <2>2. Lone(t, j)' = Lone(t, j)
    BY <1>1, <1>8, <1>10, <1>12 DEF Lone
  <2> QED
    BY <1>14, <2>1, <2>2
<1>15. ASSUME NEW n, Holds(t, n)'
       PROVE  HoldsBnode(t, n) /\ Holds(t, n) /\ n \in Level \X Num /\ n # h
  <2>1. n \in Lone(t, loc[t].lev)'
    BY <1>10, <1>15 DEF Holds, HoldsLeaf, HoldsBnode, AtLeaf, Growing, Climbing
  <2>2. HoldsBnode(t, n) /\ n # h
    BY <1>13, <1>14, <2>1
  <2> QED
    BY <1>4, <2>2, HeldIsNode DEF Holds
<1>16. OwnStep(t)
  <2>1. ASSUME NEW n \in Level \X Num, Holds(t, n)'
        PROVE  n \in used' /\ IsLocked(n)' /\ Mine(t, n)
    BY <1>2, <1>4, <1>15, <2>1 DEF LocksOK, IsLocked, Mine
  <2>2. \A n \in used \ used' : Holds(t, n)
    BY <1>2, <1>3
  <2>3. \A n \in Level \X Num : Kept(n)
    BY <1>2 DEF Kept
  <2> QED
    BY <1>10, <2>1, <2>2, <2>3 DEF OwnStep
<1>17. \A u \in Thread : \A n : Holds(u, n)' => Holds(u, n)
  BY <1>15, <1>16, StepLocks DEF LbInv
<1>18. RootSeen(t)'
  <2>1. pc[t] \in OnPath
    BY <1>2 DEF OnPath
  <2> QED
    BY <1>2, <1>4, <1>8, <1>1, <1>10, <1>12, <1>17, <2>1 DEF RootSeen
<1>19. RootOK'
  <2>1. IsLocked(tree_root)' \/ tree_root' \in used'
    <3>1. CASE tree_root = h
      <4>1. bnode'[tree_root'].lock /\ tree_root'[1] # 0
        BY <1>2, <1>3, <1>5, <3>1
      <4> QED
        BY <4>1 DEF IsLocked
    <3>2. CASE tree_root # h
      BY <1>2, <1>16, <3>2, RootThere
    <3> QED
      BY <3>1, <3>2
  <2> QED
    BY <1>2, <1>16, <1>18, <2>1, RootStep DEF LbInv
<1>20. \A m \in Inner \ {h} : Live(m)' = {p \in Live(m) : Below(m, p) # h}
  <2>1. CASE j <= path.rl
    <3>1. PICK n, p : n = At(t, j) /\ p = path.ppos[j]
      OBVIOUS
    <3>2. j \in j..path.rl /\ \A m \in j..(j - 1) : num(At(t, m)) = 0
      BY <1>1, <1>3, <2>1
    <3>3. n \in Lone(t, j)
      BY <1>1, <3>1, <3>2 DEF Lone
    <3>4. HoldsBnode(t, n) /\ n # h /\ Holds(t, n) /\ n[1] = j
      BY <1>13, <3>1, <3>3 DEF Holds, At
    <3>5. n \in (Level \ {0}) \X Num
      BY <1>2, <1>4, <3>4, HeldIsBnode DEF Growing
    <3>6. n \in Inner /\ n \in Level \X Num
      <4>1. n \in Level \X Num /\ n[1] >= 1
        BY <1>1, <1>3, <3>4, <3>5
      <4> QED
        BY <1>4, <3>4, <4>1 DEF LocksOK, Inner
    <3>7. p <= num(n) /\ Child(n, p) = path.parray[i]
      <4>1. /\ path.ppos[n[1]] <= num(n)
            /\ Child(n, path.ppos[n[1]]) = path.parray[n[1] - 1]
        BY <1>1, <1>2, <1>4, <3>4, <3>6 DEF ThreadOK, DeleteOK
      <4>2. j - 1 = i
        BY <1>1, <1>3
      <4> QED
        BY <3>1, <3>4, <4>1, <4>2
    <3>8. p \in 0..num(n)
      <4>1. p \in Nat
        BY <1>1, <1>3, <2>1, <3>1, PathParts
      <4>2. num(n) \in Nat
        BY <1>4, <3>5, BnodeParts
      <4> QED
        BY <3>7, <4>1, <4>2
    <3>9. Below(n, p) = h
      <4>1. j - 1 = i
        BY <1>1, <1>3
      <4> QED
        BY <1>1, <1>5, <3>4, <3>7, <4>1 DEF Below, At
    <3>10. \A m, q : Dangles(t, m, q)' <=> m = n /\ q = p
      <4>1. /\ pc'[t] = "delnode" /\ loc'[t].lev = j /\ loc'[t].path = path
            /\ Here(t)' = n /\ pos(t)' = p
        BY <1>1, <1>8, <1>10, <3>1 DEF Here, pos, At
      <4> QED
        BY <2>1, <4>1 DEF Dangles
    <3>11. (\A q : ~Dangles(t, n, q)) /\ \A m, q : Dangles(t, m, q) => m = h
      BY <1>3, <3>4
    <3>12. \A m \in Inner : bnode'[m] = bnode[m]
      BY <1>2
    <3> QED
      BY <1>10, <3>4, <3>6, <3>8, <3>9, <3>10, <3>11, <3>12, Dangling
  <2>2. CASE ~(j <= path.rl)
    <3>1. \A m, p : ~Dangles(t, m, p)'
      BY <1>8, <1>10, <2>2 DEF Dangles
    <3>2. \A u \in Thread \ {t} : \A m, p : Dangles(u, m, p)' <=> Dangles(u, m, p)
      BY <1>10, OthersForest
    <3>3. \A m \in Inner \ {h} : Live(m)' = Live(m)
      BY <1>3, <1>12, <3>1, <3>2 DEF Live
    <3>4. i = path.rl /\ h = RootOf(t)
      BY <1>1, <1>3, <1>5, <2>2 DEF RootOf
    <3>5. tree_root = h
      BY <1>2, <1>3, <1>4, <3>4 DEF RootSeen, OnPath
    <3>6. \A u \in Thread : pc[u] # "growroot"
      <4> SUFFICES ASSUME NEW u \in Thread, pc[u] = "growroot" PROVE FALSE
        OBVIOUS
      <4>1. tree_root = RootOf(u) /\ Holds(u, RootOf(u))
        BY GrowParts DEF Growing, LbInv, RootOK, RootSeen
      <4> QED
        BY <1>2, <1>3, <1>4, <1>5, <3>5, <4>1 DEF LocksOK
    <3>7. IsApex(h)
      BY <3>5, <3>6 DEF IsApex
    <3>8. \A m \in Inner : \A p \in Live(m) : Below(m, p) # h
      BY <1>4, <3>7 DEF Forest, ChildUsed
    <3> QED
      BY <3>3, <3>8
  <2> QED
    BY <2>1, <2>2
<1>21. Forest'
  <2>1. ~Carries(t) /\ ~Carries(t)'
    BY <1>2, <1>10 DEF Carries
  <2>2. /\ pc[t] # "growroot" /\ pc'[t] \notin {"growroot", "growlevel"}
        /\ \A m \in Inner : bnode'[m] = bnode[m]
        /\ h \in Inner => Live(h) = {}
    BY <1>2, <1>3, <1>10
  <2> QED
    BY <1>2, <1>3, <1>5, <1>10, <1>17, <1>20, <2>1, <2>2, Unhooked
<1>22. ThreadOK(t)'
  <2>1. ClimbOK(t)'
    <3>1. PathOK(loc[t].path)'
      BY <1>3, <1>8, <1>10 DEF PathOK
    <3> QED
      BY <1>10, <3>1 DEF ClimbOK, Growing, Climbing, Carries
  <2>2. DeleteOK(t)'
    <3>1. ASSUME NEW n \in Level \X Num, HoldsBnode(t, n)'
          PROVE  /\ path.ppos[n[1]] <= num(n)'
                 /\ Child(n, path.ppos[n[1]])' = path.parray[n[1] - 1]
      <4>1. HoldsBnode(t, n)
        BY <1>15, <3>1 DEF Holds
      <4>2. /\ path.ppos[n[1]] <= num(n)
            /\ Child(n, path.ppos[n[1]]) = path.parray[n[1] - 1]
        BY <1>1, <1>2, <1>4, <4>1 DEF ThreadOK, DeleteOK
      <4> QED
        BY <1>12, <4>2
    <3>2. ASSUME NEW n \in Level \X Num, HoldsBnode(t, n)'
          PROVE  /\ (loc[t].path.ppos[n[1]] <= num(n))'
                 /\ (Child(n, loc[t].path.ppos[n[1]]) = loc[t].path.parray[n[1] - 1])'
      <4>1. PICK q : q = path.ppos[n[1]]
        OBVIOUS
      <4>2. loc'[t].path.ppos[n[1]] = q /\ loc'[t].path.parray[n[1] - 1] = path.parray[n[1] - 1]
        BY <1>8, <1>10, <4>1
      <4>3. q <= num(n)' /\ Child(n, q)' = path.parray[n[1] - 1]
        BY <3>1, <3>2, <4>1
      <4>4. Child(n, loc[t].path.ppos[n[1]])' = Child(n, q)'
        BY <4>2, Zenon DEF Child
      <4> QED
        BY <4>2, <4>3, <4>4
    <3>3. loc'[t].lev >= 1
      BY <1>1, <1>3, <1>8, <1>10
    <3> QED
      BY <1>10, <3>2, <3>3 DEF DeleteOK
  <2>3. LeafOK(t)'
    <3>1. loc[t].key \in Key
      BY <1>2, KeyOf
    <3> QED
      BY <1>8, <1>10, <3>1 DEF LeafOK
  <2> QED
    BY <2>1, <2>2, <2>3 DEF ThreadOK
<1> QED
  BY <1>10, <1>11, <1>16, <1>19, <1>21, <1>22 DEF StepKeeps

\* The leaf is freed with its last key, and its pointer dangles.
LEMMA DelLeafKeeps ==
  ASSUME LbInv, NEW t \in Thread, DelLeaf(t)
  PROVE  StepKeeps(t)
<1>1. PICK l, c, sib, path, h, p :
        /\ l = lp(t) /\ c = <<0, l>> /\ sib = loc[t].sib /\ path = loc[t].path
        /\ h = At(t, 1) /\ p = path.ppos[1]
  OBVIOUS
<1>2. /\ pc[t] = "delleaf" /\ ~(Cardinality(leaf[l].bitmap) > 1) /\ root_level # 0
      /\ used' = used \ {c} /\ loc' = [loc EXCEPT ![t].lev = 1]
      /\ pc' = [pc EXCEPT ![t] = "delnode"]
      /\ UNCHANGED <<tree_root, root_level, bnode, work>>
  BY <1>1 DEF DelLeaf, Goto, upper
<1>3. \/ /\ sib # Null /\ first_leaf' = first_leaf
         /\ leaf' = [leaf EXCEPT ![sib].next[leaf[sib].alt] = nextSibling(l),
                                 ![sib].lock = FALSE]
      \/ sib = Null /\ first_leaf' = nextSibling(l) /\ leaf' = leaf
  BY <1>1 DEF DelLeaf, UnlinkNext
<1>4. /\ TypeOK /\ LeavesOK /\ LocalOK(loc[t]) /\ ThreadOK(t) /\ Forest /\ LocksOK
      /\ RootSeen(t) /\ "delnode" \in Label
  BY DEF LbInv, TypeOK, RootOK, Label
<1>5. /\ l \in Num /\ Holds(t, c) /\ c \in used /\ c \in Level \X Num /\ PathOK(path)
  BY <1>1, <1>2, LeafHeld DEF AtLeaf
<1>6. path.rl \in Nat /\ path.rl >= 1
  <2>1. path.rl \in Nat
    BY <1>5, PathParts
  <2>2. path.rl # 0
    BY <1>1, <1>2, RootLeaf DEF AtLeaf
  <2> QED
    BY <2>1, <2>2
<1>7. LastKey(t)
  <2>1. loc[t].pos \in leaf[l].bitmap
    BY <1>1, <1>2, <1>4 DEF ThreadOK, DeleteOK
  <2>2. leaf[l].bitmap \subseteq Slot
    BY <1>4, <1>5, LeafParts
  <2>3. IsFiniteSet(leaf[l].bitmap) /\ Cardinality(leaf[l].bitmap) \in Nat
    <3>1. IsFiniteSet(Slot)
      BY Constants, FS_Interval DEF Slot
    <3> QED
      BY <2>2, <3>1, FS_Subset, FS_CardinalityType
  <2>4. Cardinality(leaf[l].bitmap) # 0
    BY <2>1, <2>3, FS_EmptySet
  <2>5. Cardinality(leaf[l].bitmap) = 1
    BY <1>2, <2>3, <2>4
  <2>6. PICK s : leaf[l].bitmap = {s}
    BY <2>3, <2>5, FS_Singleton
  <2> QED
    BY <1>1, <2>1, <2>6 DEF LastKey
<1>8. sib # Null => sib \in Num /\ Holds(t, <<0, sib>>)
  BY <1>1, <1>2, <1>4 DEF LocalOK, Holds, HoldsLeaf
<1>9. /\ leaf' \in Leaves /\ LeavesOK' /\ first_leaf' \in Num \cup {Null}
      /\ \A x \in Num : sib = Null \/ x # sib => leaf'[x] = leaf[x]
  <2>1. CASE sib = Null
    <3>1. leaf' = leaf /\ first_leaf' \in Num \cup {Null}
      BY <1>3, <1>4, <1>5, <2>1, LeafParts
    <3>2. LeavesOK'
      BY <1>2, <1>4, <3>1 DEF LeavesOK, DistinctKeys
    <3> QED
      BY <1>4, <3>1, <3>2 DEF TypeOK
  <2>2. CASE sib # Null
    <3>1. /\ leaf[sib] \in Leaf /\ leaf[sib].alt \in {0, 1}
          /\ leaf[sib].next \in [{0, 1} -> Num \cup {Null}]
          /\ nextSibling(l) \in Num \cup {Null} /\ sib \in Num
      BY <1>4, <1>5, <1>8, <2>2, LeafParts
    <3>2. PICK nx : nx = [leaf[sib].next EXCEPT ![leaf[sib].alt] = nextSibling(l)]
      OBVIOUS
    <3>3. nx \in [{0, 1} -> Num \cup {Null}]
      BY <3>1, <3>2
    <3>4. PICK a, r : a = [leaf[sib] EXCEPT !.next = nx] /\ r = [a EXCEPT !.lock = FALSE]
      OBVIOUS
    <3>5. a \in Leaf /\ a.bitmap = leaf[sib].bitmap /\ a.ent = leaf[sib].ent
      BY <3>1, <3>3, <3>4 DEF Leaf
    <3>6. r \in Leaf /\ r.bitmap = leaf[sib].bitmap /\ r.ent = leaf[sib].ent
      BY <3>4, <3>5 DEF Leaf
    <3>7. leaf' = [leaf EXCEPT ![sib] = r]
      <4>1. leaf \in [Num -> Leaf]
        BY <1>4 DEF TypeOK, Leaves
      <4> QED
        BY <1>3, <2>2, <3>1, <3>2, <3>4, <4>1
    <3>8. <<0, sib>> \in used => DistinctKeys(r)
      BY <1>4, <3>1, <3>6 DEF LeavesOK, DistinctKeys
    <3>9. used' \subseteq used
      BY <1>2
    <3>10. first_leaf' \in Num \cup {Null}
      BY <1>3, <1>4, <2>2 DEF TypeOK
    <3> QED
      BY <1>4, <2>2, <3>1, <3>6, <3>7, <3>8, <3>9, <3>10, LeafChanges
  <2> QED
    BY <2>1, <2>2
<1>10. PICK local : local = [loc[t] EXCEPT !.lev = 1]
  OBVIOUS
<1>11. LocalOK(local)
  <2>1. 1 \in 0..(MaxLevel + 1)
    BY Constants
  <2> QED
    BY <1>4, <1>10, <2>1, LocalEdit
<1>12. local.path = path /\ local.key = loc[t].key /\ local.lev = 1
  BY <1>1, <1>4, <1>10 DEF LocalOK
<1>13. loc' = [loc EXCEPT ![t] = local]
  BY <1>2, <1>10
<1>14. TypeOK' /\ OthersStay(t) /\ pc'[t] = "delnode" /\ loc'[t] = local
  <2>1. /\ tree_root' \in Level \X Num /\ root_level' \in Level
        /\ bnode' \in Bnodes /\ used' \subseteq Level \X Num /\ work' = work
    BY <1>2, <1>4 DEF TypeOK
  <2>2. first_leaf' \in Num \cup {Null} /\ leaf' \in Leaves
    BY <1>9
  <2> QED
    BY <1>2, <1>4, <1>11, <1>13, <2>1, <2>2, TypeStep
<1>15. /\ \A m : num(m)' = num(m) /\ \A q : Child(m, q)' = Child(m, q)
       /\ \A k : At(t, k)' = At(t, k)
       /\ RootOf(t)' = RootOf(t)
  BY <1>1, <1>2, <1>12, <1>14 DEF num, Child, At, RootOf
<1>16. ASSUME NEW n, n \in Lone(t, loc[t].lev)' PROVE n \in Lone(t, 1)
  <2>1. Lone(t, loc[t].lev)' = Lone(t, 1)'
    BY <1>12, <1>14, Zenon DEF Lone
  <2>2. Lone(t, 1)' = Lone(t, 1)
    BY <1>1, <1>12, <1>14, <1>15 DEF Lone
  <2> QED
    BY <1>16, <2>1, <2>2
<1>17. ASSUME NEW n, n \in Lone(t, 1)
       PROVE  HoldsBnode(t, n) /\ Holds(t, n) /\ n \in (Level \ {0}) \X Num
  <2>1. HoldsBnode(t, n)
    BY <1>2, <1>7, <1>17 DEF HoldsBnode
  <2> QED
    BY <1>2, <1>4, <2>1, HeldIsBnode DEF Holds, Growing
<1>18. ASSUME NEW n, Holds(t, n)'
       PROVE  HoldsBnode(t, n) /\ Holds(t, n) /\ n \in Level \X Num /\ n[1] # 0
  <2>1. n \in Lone(t, loc[t].lev)'
    BY <1>14, <1>18 DEF Holds, HoldsLeaf, HoldsBnode, AtLeaf, Growing, Climbing
  <2>2. HoldsBnode(t, n) /\ Holds(t, n) /\ n \in (Level \ {0}) \X Num
    BY <1>16, <1>17, <2>1
  <2> QED
    BY <2>2
<1>19. OwnStep(t)
  <2>1. ASSUME NEW n \in Level \X Num, Holds(t, n)'
        PROVE  n \in used' /\ IsLocked(n)' /\ Mine(t, n)
    <3>1. Holds(t, n) /\ n[1] # 0 /\ n \in used /\ IsLocked(n)
      BY <1>4, <1>18, <2>1 DEF LocksOK
    <3>2. n # c
      BY <1>1, <3>1
    <3> QED
      BY <1>2, <3>1, <3>2 DEF IsLocked, Mine
  <2>2. \A n \in used \ used' : Holds(t, n)
    BY <1>2, <1>5
  <2>3. ASSUME NEW n \in Level \X Num PROVE Mine(t, n) \/ Kept(n)
    <3>1. CASE sib # Null /\ n = <<0, sib>>
      BY <1>8, <3>1 DEF Mine
    <3>2. CASE ~(sib # Null /\ n = <<0, sib>>)
      <4>1. n[1] = 0 => n[2] \in Num /\ (sib = Null \/ n[2] # sib)
        BY <3>2
      <4> QED
        BY <1>2, <1>9, <4>1 DEF Kept
    <3> QED
      BY <3>1, <3>2
  <2> QED
    BY <1>14, <2>1, <2>2, <2>3 DEF OwnStep
<1>20. \A u \in Thread : \A n : Holds(u, n)' => Holds(u, n)
  BY <1>18, <1>19, StepLocks DEF LbInv
<1>21. h \in Lone(t, 1)
  <2>1. 1 \in 1..path.rl /\ \A m \in 1..(1 - 1) : num(At(t, m)) = 0
    BY <1>6
  <2> QED
    BY <1>1, <2>1 DEF Lone
<1>22. /\ HoldsBnode(t, h) /\ Holds(t, h) /\ h \in (Level \ {0}) \X Num
       /\ h \in Inner /\ h[1] = 1 /\ h \in used /\ h \in Level \X Num
  <2>1. HoldsBnode(t, h) /\ Holds(t, h) /\ h \in (Level \ {0}) \X Num /\ h[1] = 1
    BY <1>1, <1>17, <1>21 DEF At
  <2>2. h \in Level \X Num
    BY <2>1
  <2>3. h \in used
    BY <1>4, <2>1, <2>2 DEF LocksOK
  <2> QED
    BY <2>1, <2>2, <2>3 DEF Inner
<1>23. RootSeen(t)'
  <2>1. pc[t] \in OnPath
    BY <1>2 DEF OnPath
  <2> QED
    BY <1>1, <1>2, <1>4, <1>12, <1>14, <1>15, <1>20, <2>1 DEF RootSeen
<1>24. tree_root # c
  <2> SUFFICES ASSUME tree_root = c PROVE FALSE
    OBVIOUS
  <2>1. \A u \in Thread : pc[u] # "growroot"
    <3> SUFFICES ASSUME NEW u \in Thread, pc[u] = "growroot" PROVE FALSE
      OBVIOUS
    <3>1. tree_root = RootOf(u) /\ Holds(u, RootOf(u))
      BY GrowParts DEF Growing, LbInv, RootOK, RootSeen
    <3> QED
      BY <1>2, <1>4, <1>5, <3>1 DEF LocksOK
  <2>2. IsApex(c)
    BY <2>1 DEF IsApex
  <2>3. h[1] <= c[1]
    BY <1>4, <1>5, <1>22, <2>2 DEF Forest, TopOnly
  <2> QED
    BY <1>1, <1>22, <2>3
<1>25. RootOK'
  <2>1. IsLocked(tree_root)' \/ tree_root' \in used'
    BY <1>2, <1>19, <1>24, RootThere
  <2> QED
    BY <1>2, <1>19, <1>23, <2>1, RootStep DEF LbInv
<1>26. Forest'
  <2>1. p \in 0..num(h) /\ Below(h, p) = c
    <3>1. /\ path.ppos[h[1]] <= num(h)
          /\ Child(h, path.ppos[h[1]]) = path.parray[h[1] - 1]
      BY <1>1, <1>2, <1>4, <1>22 DEF ThreadOK, DeleteOK
    <3>2. p <= num(h) /\ Child(h, p) = l
      BY <1>1, <1>22, <3>1 DEF lp
    <3>3. p \in Nat /\ num(h) \in Nat
      BY <1>1, <1>4, <1>5, <1>6, <1>22, PathParts, BnodeParts
    <3> QED
      BY <1>1, <1>22, <3>2, <3>3 DEF Below
  <2>2. \A m, q : ~Dangles(t, m, q)
    BY <1>2 DEF Dangles
  <2>3. \A m, q : Dangles(t, m, q)' <=> m = h /\ q = p
    <3>1. /\ pc'[t] = "delnode" /\ loc'[t].lev = 1 /\ loc'[t].path = path
          /\ Here(t)' = h /\ pos(t)' = p
      BY <1>1, <1>12, <1>14 DEF Here, pos, At
    <3> QED
      BY <1>6, <3>1 DEF Dangles
  <2>4. \A m \in Inner : bnode'[m] = bnode[m]
    BY <1>2
  <2>5. \A m \in Inner \ {c} : Live(m)' = {q \in Live(m) : Below(m, q) # c}
    BY <1>14, <1>22, <2>1, <2>2, <2>3, <2>4, Dangling
  <2>6. ~Carries(t) /\ ~Carries(t)'
    BY <1>2, <1>14 DEF Carries
  <2>7. c \notin Inner
    BY <1>1 DEF Inner
  <2>8. pc[t] # "growroot" /\ pc'[t] \notin {"growroot", "growlevel"}
    BY <1>2, <1>14
  <2> QED
    BY <1>2, <1>5, <1>14, <1>20, <2>4, <2>5, <2>6, <2>7, <2>8, Unhooked
<1>27. ThreadOK(t)'
  <2>1. ClimbOK(t)'
    <3>1. PathOK(loc[t].path)'
      BY <1>5, <1>12, <1>14 DEF PathOK
    <3> QED
      BY <1>14, <3>1 DEF ClimbOK, Growing, Climbing, Carries
  <2>2. DeleteOK(t)'
    <3>1. ASSUME NEW n \in Level \X Num, HoldsBnode(t, n)'
          PROVE  /\ path.ppos[n[1]] <= num(n)'
                 /\ Child(n, path.ppos[n[1]])' = path.parray[n[1] - 1]
      <4>1. HoldsBnode(t, n)
        BY <1>18, <3>1 DEF Holds
      <4>2. /\ path.ppos[n[1]] <= num(n)
            /\ Child(n, path.ppos[n[1]]) = path.parray[n[1] - 1]
        BY <1>1, <1>2, <1>4, <4>1 DEF ThreadOK, DeleteOK
      <4> QED
        BY <1>15, <4>2
    <3>2. ASSUME NEW n \in Level \X Num, HoldsBnode(t, n)'
          PROVE  /\ (loc[t].path.ppos[n[1]] <= num(n))'
                 /\ (Child(n, loc[t].path.ppos[n[1]]) = loc[t].path.parray[n[1] - 1])'
      <4>1. PICK q : q = path.ppos[n[1]]
        OBVIOUS
      <4>2. loc'[t].path.ppos[n[1]] = q /\ loc'[t].path.parray[n[1] - 1] = path.parray[n[1] - 1]
        BY <1>12, <1>14, <4>1
      <4>3. q <= num(n)' /\ Child(n, q)' = path.parray[n[1] - 1]
        BY <3>1, <3>2, <4>1
      <4>4. Child(n, loc[t].path.ppos[n[1]])' = Child(n, q)'
        BY <4>2, Zenon DEF Child
      <4> QED
        BY <4>2, <4>3, <4>4
    <3>3. loc'[t].lev >= 1
      BY <1>12, <1>14
    <3> QED
      BY <1>14, <3>2, <3>3 DEF DeleteOK
  <2>3. LeafOK(t)'
    <3>1. loc[t].key \in Key
      BY <1>2, KeyOf
    <3> QED
      BY <1>12, <1>14, <3>1 DEF LeafOK
  <2> QED
    BY <2>1, <2>2, <2>3 DEF ThreadOK
<1> QED
  BY <1>9, <1>14, <1>19, <1>25, <1>26, <1>27 DEF StepKeeps

-----------------------------------------------------------------------------
(* The tree shrinks.                                                       *)

\* No thread carries a node of the top level but one that grows the tree.
LEMMA CarriedBelow ==
  ASSUME LbInv, NEW a \in Level \X Num, IsApex(a), a[1] >= 1,
         NEW v \in Thread, Carries(v), Carried(v)[1] = a[1]
  PROVE  pc[v] = "grow" /\ tree_root = RootOf(v) /\ Holds(v, tree_root)
<1>1. pc[v] \in {"publish", "addleft", "level", "bnode", "grow"}
  BY DEF Carries
<1>2. CASE pc[v] \in {"publish", "addleft", "level"}
  <2>1. Carried(v)[1] = 0
    BY <1>2 DEF Carried
  <2> QED
    BY <2>1
<1>3. CASE pc[v] = "bnode"
  <2>1. PICK h : h = Here(v)
    OBVIOUS
  <2>2. h \in Inner /\ h[1] = loc[v].lev /\ Carried(v) = <<loc[v].lev - 1, loc[v].ptr>>
    BY <1>3, <2>1, ClimbParts
  <2>3. h[1] <= a[1]
    BY <2>2 DEF LbInv, Forest, TopOnly, Inner
  <2>4. h[1] \in Nat /\ a[1] = h[1] - 1
    <3>1. h \in Level \X Num
      BY <2>2 DEF LbInv, TypeOK, Inner
    <3>2. h[1] \in Nat
      BY <3>1, Constants
    <3>3. Carried(v)[1] = h[1] - 1
      BY <2>2
    <3> QED
      BY <3>2, <3>3
  <2>5. a[1] \in Nat
    BY Constants
  <2> QED
    BY <2>3, <2>4, <2>5
<1>4. CASE pc[v] = "grow"
  <2>1. Holds(v, RootOf(v))
    BY <1>4, GrowParts DEF Growing
  <2>2. tree_root = RootOf(v)
    BY <1>4 DEF LbInv, RootOK, RootSeen
  <2> QED
    BY <1>4, <2>1, <2>2
<1> QED
  BY <1>1, <1>2, <1>3, <1>4

\* A root that a thread holds to move it is alone on its level.
LEMMA TopAlone ==
  ASSUME LbInv, NEW t \in Thread, Holds(t, tree_root), pc[t] # "grow",
         \A u \in Thread : pc[u] # "growroot", tree_root[1] >= 1,
         NEW m \in used, m[1] = tree_root[1]
  PROVE  m = tree_root
<1>1. IsApex(tree_root) /\ tree_root \in Level \X Num
  BY DEF IsApex, LbInv, TypeOK
<1>2. m = tree_root \/ \E v \in Thread : Carries(v) /\ m = Carried(v)
  BY <1>1 DEF LbInv, Forest, TopOnly
<1>3. ASSUME NEW v \in Thread, Carries(v), m = Carried(v) PROVE FALSE
  <2>1. pc[v] = "grow" /\ Holds(v, tree_root)
    BY <1>1, <1>3, CarriedBelow
  <2> QED
    BY <1>1, <2>1 DEF LbInv, LocksOK
<1> QED
  BY <1>2, <1>3

\* A node held at the root's level by a thread that does not move the root is
\* the root, unless the tree is shrinking.
LEMMA HeldTop ==
  ASSUME LbInv, NEW t \in Thread, pc[t] \notin Growing,
         NEW h \in Level \X Num, Holds(t, h), h[1] = root_level,
         \A u \in Thread : pc[u] # "shrinkroot"
  PROVE  tree_root = h
<1>1. h \in used /\ \A v \in Thread : Carries(v) => h # Carried(v)
  BY DEF LbInv, LocksOK, Forest, CarriedApart
<1>2. \A u \in Thread : pc[u] # "growroot"
  <2> SUFFICES ASSUME NEW u \in Thread, pc[u] = "growroot" PROVE FALSE
    OBVIOUS
  <2>1. ThreadOK(u) /\ RootSeen(u)
    BY DEF LbInv, RootOK
  <2>2. root_level = loc[u].lev /\ NewRoot(u) \in (Level \ {0}) \X Num
    BY <2>1 DEF RootSeen, ThreadOK, ClimbOK
  <2>3. IsApex(NewRoot(u)) /\ NewRoot(u) \in Level \X Num /\ NewRoot(u)[1] = h[1]
    BY <2>2 DEF IsApex, NewRoot
  <2>4. h = NewRoot(u)
    BY <1>1, <2>3 DEF LbInv, Forest, TopOnly
  <2>5. Holds(u, NewRoot(u))
    BY DEF Holds, HoldsBnode, Growing
  <2>6. u = t
    BY <2>4, <2>5 DEF LbInv, LocksOK
  <2> QED
    BY <2>6 DEF Growing
<1>3. IsApex(tree_root) /\ tree_root \in Level \X Num
  BY <1>2 DEF IsApex, LbInv, TypeOK
<1>4. \A n : IsApex(n) => n = tree_root
  BY <1>2 DEF IsApex
<1>5. CASE tree_root[1] = root_level
  BY <1>1, <1>3, <1>5 DEF LbInv, Forest, TopOnly
<1>6. CASE tree_root[1] # root_level
  <2>1. PICK u \in Thread : pc[u] = "growlevel"
    BY <1>2, <1>6 DEF LbInv, RootOK
  <2>2. PICK r, o : r = NewRoot(u) /\ o = RootOf(u)
    OBVIOUS
  <2>3. ThreadOK(u) /\ RootSeen(u)
    BY DEF LbInv, RootOK
  <2>4. /\ root_level = loc[u].lev - 1 /\ tree_root = r /\ num(r) = 1
        /\ r \in (Level \ {0}) \X Num /\ r[1] = loc[u].lev
    BY <2>1, <2>2, <2>3 DEF RootSeen, ThreadOK, ClimbOK, NewRoot
  <2>5. Holds(u, r) /\ Holds(u, o) /\ o \in used /\ o \in Level \X Num /\ o[1] = root_level
    <3>1. Holds(u, r)
      BY <2>1, <2>2 DEF Holds, HoldsBnode, Growing
    <3>2. /\ Holds(u, o) /\ o \in used /\ o \in Level \X Num
          /\ o[1] = loc[u].path.rl /\ loc[u].lev = loc[u].path.rl + 1
          /\ loc[u].path.rl \in Nat
      BY <2>1, <2>2, GrowParts DEF Growing
    <3> QED
      BY <2>4, <3>1, <3>2
  <2>6. r[1] \in Nat /\ r[1] >= 1 /\ root_level = r[1] - 1
    <3>1. r[1] \in Nat /\ r[1] # 0
      BY <2>4, Constants
    <3> QED
      BY <2>4, <3>1
  <2>7. ASSUME NEW n \in used, n[1] = root_level, NEW v \in Thread, Holds(v, n),
               n \in Level \X Num
        PROVE  n = Below(r, 0)
    <3>1. \A w \in Thread : Carries(w) => n # Carried(w)
      BY <2>7 DEF LbInv, Forest, CarriedApart
    <3>2. ~IsApex(n)
      BY <1>4, <2>4, <2>6, <2>7
    <3>3. PICK m \in Inner : \E p \in Live(m) : Below(m, p) = n
      BY <2>7, <3>1, <3>2 DEF LbInv, Forest, HasParent
    <3>4. PICK p \in Live(m) : Below(m, p) = n
      BY <3>3
    <3>5. m[1] \in Nat /\ m \in used
      BY Constants DEF LbInv, TypeOK, Inner
    <3>6. m[1] - 1 = n[1]
      BY <3>4 DEF Below
    <3>7. m[1] = tree_root[1]
      BY <2>4, <2>6, <2>7, <3>5, <3>6
    <3>8. m = r
      BY <1>2, <2>1, <2>4, <2>5, <2>6, <3>5, <3>7, TopAlone
    <3>9. p \in 0..num(r)
      BY <3>8 DEF Live
    <3>10. p = 0 \/ p = 1
      BY <2>4, <3>9
    <3>11. p # 1
      <4>1. ~Holds(v, Below(r, 1))
        BY <2>1, <2>2 DEF LbInv, Forest, CarriedApart
      <4> QED
        BY <2>7, <3>4, <3>8, <4>1
    <3> QED
      BY <3>4, <3>8, <3>10, <3>11
  <2>8. h = o
    BY <1>1, <2>5, <2>7
  <2>9. u = t
    BY <2>5, <2>8 DEF LbInv, LocksOK
  <2> QED
    BY <2>1, <2>9 DEF Growing
<1> QED
  BY <1>5, <1>6

\* A bnode that loses a child keeps the others, in their order.
LEMMA ChildLost ==
  ASSUME TypeOK, NEW h \in (Level \ {0}) \X Num, num(h) > 0, NEW p \in 0..num(h),
         NEW b \in BOOLEAN, NEW r, r = [WithoutChild(h, p) EXCEPT !.lock = b],
         bnode' = [bnode EXCEPT ![h] = r]
  PROVE  /\ bnode' \in Bnodes /\ bnode'[h].lock = b
         /\ \A m : m # h => bnode'[m] = bnode[m]
         /\ num(h)' = num(h) - 1
         /\ \A q \in 0..(num(h) - 1) :
              Child(h, q)' = Child(h, IF q < p THEN q ELSE q + 1)
<1>1. PICK ck, cch, i : /\ ck = bnode[h].k /\ cch = bnode[h].ch
                        /\ i = IF p = 0 THEN 1 ELSE p
  OBVIOUS
<1>2. /\ ck \in Seq(Key) /\ cch \in Seq(Num) /\ Len(ck) = num(h)
      /\ Len(cch) = num(h) + 1 /\ num(h) \in Nat /\ num(h) <= NON_LEAF_KEY_NUM
  BY <1>1, BnodeParts
<1>3. i \in 1..Len(ck) /\ p + 1 \in 1..Len(cch)
  BY <1>1, <1>2
<1>4. PICK k, ch : k = RemoveAt(ck, i) /\ ch = RemoveAt(cch, p + 1)
  OBVIOUS
<1>5. /\ k \in Seq(Key) /\ Len(k) = num(h) - 1
      /\ ch \in Seq(Num) /\ Len(ch) = num(h)
      /\ \A j \in 1..num(h) : ch[j] = IF j < p + 1 THEN cch[j] ELSE cch[j + 1]
  <2>1. Removed(k, Key, ck, i)
    BY <1>2, <1>3, <1>4, RemoveAtType
  <2>2. Removed(ch, Num, cch, p + 1)
    BY <1>2, <1>3, <1>4, RemoveAtType
  <2>3. Len(cch) - 1 = num(h)
    BY <1>2
  <2> QED
    BY <1>2, <2>1, <2>2, <2>3 DEF Removed
<1>6. bnode[h] \in Bnode
  BY DEF TypeOK, Bnodes
<1>7. r \in Bnode /\ r.k = k /\ r.ch = ch /\ r.lock = b
  <2>1. WithoutChild(h, p) = [bnode[h] EXCEPT !.k = k, !.ch = ch]
    BY <1>1, <1>4, <1>6 DEF WithoutChild, Bnode
  <2>2. PICK a : a = [bnode[h] EXCEPT !.k = k, !.ch = ch]
    OBVIOUS
  <2>3. a \in Bnode /\ a.k = k /\ a.ch = ch
    BY <1>5, <1>6, <2>2 DEF Bnode
  <2>4. r = [a EXCEPT !.lock = b]
    BY <2>1, <2>2
  <2> QED
    BY <2>3, <2>4 DEF Bnode
<1>8. Len(r.ch) = Len(r.k) + 1 /\ Len(r.k) <= NON_LEAF_KEY_NUM
  <2>1. NON_LEAF_KEY_NUM \in Nat
    BY Constants
  <2>2. Len(r.ch) = num(h) /\ Len(r.k) = num(h) - 1
    BY <1>5, <1>7
  <2> QED
    BY <1>2, <2>1, <2>2
<1>9. /\ bnode' \in Bnodes /\ bnode'[h] = r
      /\ \A m : m # h => bnode'[m] = bnode[m]
  BY <1>7, <1>8, BnodeChanges
<1>10. num(h)' = num(h) - 1
  BY <1>5, <1>7, <1>9 DEF num
<1>11. ASSUME NEW q \in 0..(num(h) - 1)
       PROVE  Child(h, q)' = Child(h, IF q < p THEN q ELSE q + 1)
  <2>1. Child(h, q)' = ch[q + 1]
    BY <1>7, <1>9 DEF Child
  <2>2. q + 1 \in 1..num(h)
    BY <1>2
  <2>3. CASE q < p
    <3>1. ch[q + 1] = cch[q + 1]
      BY <1>2, <1>5, <2>2, <2>3
    <3> QED
      BY <1>1, <2>1, <2>3, <3>1 DEF Child
  <2>4. CASE ~(q < p)
    <3>1. ch[q + 1] = cch[q + 1 + 1]
      BY <1>2, <1>5, <2>2, <2>4
    <3> QED
      BY <1>1, <2>1, <2>4, <3>1 DEF Child
  <2> QED
    BY <2>3, <2>4
<1> QED
  BY <1>7, <1>9, <1>10, <1>11

\* The dangling pointer leaves its bnode: the pointers that count stay.
LEMMA PointerGone ==
  ASSUME LbInv, NEW t \in Thread, OthersStay(t),
         tree_root' = tree_root, used' = used,
         pc[t] # "growroot", pc'[t] \notin {"growroot", "growlevel"},
         ~Carries(t), ~Carries(t)', NEW h \in Inner, Holds(t, h),
         \A m \in Inner \ {h} : bnode'[m] = bnode[m],
         \A m, q : Dangles(t, m, q) => m = h, \A m, q : ~Dangles(t, m, q)',
         NEW p \in 0..num(h), Live(h) = (0..num(h)) \ {p}, num(h) \in Nat,
         num(h)' = num(h) - 1,
         \A q \in 0..(num(h) - 1) :
           Child(h, q)' = Child(h, IF q < p THEN q ELSE q + 1),
         \A u \in Thread : \A n : Holds(u, n)' => Holds(u, n)
  PROVE  Forest'
<1>1. Inner' = Inner /\ h \in Level \X Num
  BY DEF Inner, LbInv, TypeOK
<1>2. \A n : IsApex(n)' <=> IsApex(n)
  BY ApexSame
<1>3. \A u \in Thread \ {t} : /\ Carries(u)' <=> Carries(u)
                              /\ Carried(u)' = Carried(u)
                              /\ pc'[u] = pc[u] /\ NewRoot(u)' = NewRoot(u)
                              /\ \A m, q : Dangles(u, m, q)' <=> Dangles(u, m, q)
  BY OthersForest DEF OthersStay
<1>4. Forest /\ LocksOK /\ TypeOK
  BY DEF LbInv
<1> DEFINE old(q) == IF q < p THEN q ELSE q + 1
<1>5. ASSUME NEW m \in Inner \ {h}
      PROVE  Live(m)' = Live(m) /\ \A q : Below(m, q)' = Below(m, q)
  <2>1. num(m)' = num(m) /\ \A q : Below(m, q)' = Below(m, q)
    BY <1>5 DEF num, Below, Child
  <2> QED
    BY <1>3, <1>5, <2>1 DEF Live
<1>6. Live(h)' = 0..(num(h) - 1)
  <2>1. \A u \in Thread : \A q : ~Dangles(u, h, q)'
    BY <1>1, <1>3, OthersDangle
  <2> QED
    BY <2>1 DEF Live
<1>7. ASSUME NEW q \in Live(h)'
      PROVE  old(q) \in Live(h) /\ Below(h, q)' = Below(h, old(q))
  <2>1. q \in 0..(num(h) - 1)
    BY <1>6
  <2>2. old(q) \in (0..num(h)) \ {p}
    BY <2>1
  <2> QED
    BY <2>1, <2>2 DEF Below
<1>8. \A q, r \in Live(h)' : old(q) = old(r) => q = r
  BY <1>6
<1>9. ASSUME NEW q \in Live(h) PROVE \E r \in Live(h)' : old(r) = q
  <2>1. q \in 0..num(h) /\ q # p
    OBVIOUS
  <2>2. CASE q < p
    <3>1. q \in Live(h)' /\ old(q) = q
      BY <1>6, <2>1, <2>2
    <3> QED
      BY <3>1
  <2>3. CASE ~(q < p)
    <3>1. q - 1 \in Live(h)' /\ old(q - 1) = q
      BY <1>6, <2>1, <2>3
    <3> QED
      BY <3>1
  <2> QED
    BY <2>2, <2>3
<1> HIDE DEF old
<1>10. ASSUME NEW m \in Inner, NEW q \in Live(m)'
       PROVE  \E r \in Live(m) : Below(m, q)' = Below(m, r) /\ (m = h => r = old(q))
                                                            /\ (m # h => r = q)
  <2>1. CASE m = h
    BY <1>7, <1>10, <2>1
  <2>2. CASE m # h
    BY <1>5, <1>10, <2>2
  <2> QED
    BY <2>1, <2>2
<1>11. ASSUME NEW m \in Inner, NEW r \in Live(m)
       PROVE  \E q \in Live(m)' : Below(m, q)' = Below(m, r)
  <2>1. CASE m = h
    <3>1. PICK q \in Live(h)' : old(q) = r
      BY <1>9, <2>1
    <3> QED
      BY <1>7, <2>1, <3>1
  <2>2. CASE m # h
    BY <1>5, <2>2
  <2> QED
    BY <2>1, <2>2
<1>12. ChildUsed'
  <2> SUFFICES ASSUME NEW m \in Inner', NEW q \in Live(m)'
               PROVE  /\ Below(m, q)' \in used' /\ ~IsApex(Below(m, q))'
                      /\ \A u \in Thread : Carries(u)' => Below(m, q)' # Carried(u)'
    BY DEF ChildUsed
  <2>1. PICK b : b = Below(m, q)'
    OBVIOUS
  <2>2. IsApex(Below(m, q))' <=> IsApex(b)'
    BY <2>1 DEF IsApex
  <2>3. m \in Inner /\ \E r \in Live(m) : b = Below(m, r)
    BY <1>1, <1>10, <2>1
  <2>4. b \in used /\ ~IsApex(b) /\ \A u \in Thread : Carries(u) => b # Carried(u)
    BY <1>4, <2>3 DEF Forest, ChildUsed
  <2> QED
    BY <1>2, <1>3, <2>1, <2>2, <2>4
<1>13. OneParent'
  <2> SUFFICES ASSUME NEW m \in Inner', NEW n \in Inner', NEW q \in Live(m)',
                      NEW s \in Live(n)', Below(m, q)' = Below(n, s)'
               PROVE  m = n /\ q = s
    BY DEF OneParent
  <2>1. m \in Inner /\ n \in Inner
    BY <1>1
  <2>2. PICK x \in Live(m) : /\ Below(m, q)' = Below(m, x)
                             /\ m = h => x = old(q)
                             /\ m # h => x = q
    BY <1>10, <2>1
  <2>3. PICK y \in Live(n) : /\ Below(n, s)' = Below(n, y)
                             /\ n = h => y = old(s)
                             /\ n # h => y = s
    BY <1>10, <2>1
  <2>4. Below(m, x) = Below(n, y)
    BY <2>2, <2>3
  <2>5. m = n /\ x = y
    BY <1>4, <2>1, <2>4 DEF Forest, OneParent
  <2> QED
    BY <1>8, <2>2, <2>3, <2>5
<1>14. HasParent'
  <2> SUFFICES ASSUME NEW n \in used'
               PROVE  \/ IsApex(n)'
                      \/ \E u \in Thread : Carries(u)' /\ n = Carried(u)'
                      \/ \E m \in Inner' : \E q \in Live(m)' : Below(m, q)' = n
    BY DEF HasParent
  <2>1. \/ IsApex(n)
        \/ \E u \in Thread \ {t} : Carries(u) /\ n = Carried(u)
        \/ \E m \in Inner : \E q \in Live(m) : Below(m, q) = n
    BY <1>4 DEF Forest, HasParent
  <2>2. CASE \E m \in Inner : \E q \in Live(m) : Below(m, q) = n
    BY <1>1, <1>11, <2>2
  <2> QED
    BY <1>2, <1>3, <2>1, <2>2
<1>15. TopOnly'
  <2> SUFFICES ASSUME NEW x \in Level \X Num, IsApex(x)', NEW n \in used'
               PROVE  /\ n[1] <= x[1]
                      /\ n[1] = x[1] => \/ n = x
                                        \/ \E u \in Thread : Carries(u)' /\ n = Carried(u)'
    BY DEF TopOnly
  <2>1. /\ n[1] <= x[1]
        /\ n[1] = x[1] => \/ n = x
                          \/ \E u \in Thread \ {t} : Carries(u) /\ n = Carried(u)
    BY <1>2, <1>4 DEF Forest, TopOnly
  <2> QED
    BY <1>3, <2>1
<1>16. CarriedApart'
  <2>1. ASSUME NEW u \in Thread, Carries(u)'
        PROVE  /\ Carried(u)' \in used' /\ ~IsApex(Carried(u))'
               /\ \A v \in Thread : /\ ~Holds(v, Carried(u))'
                                    /\ v # u /\ Carries(v)' => Carried(v)' # Carried(u)'
    <3>1. u # t /\ Carries(u) /\ Carried(u)' = Carried(u)
      BY <1>3, <2>1
    <3>2. PICK n : n = Carried(u)
      OBVIOUS
    <3>3. /\ n \in used /\ ~IsApex(n)
          /\ \A v \in Thread : /\ ~Holds(v, n)
                               /\ v # u /\ Carries(v) => Carried(v) # n
      BY <1>4, <3>1, <3>2 DEF Forest, CarriedApart
    <3>4. IsApex(Carried(u))' <=> IsApex(n)'
      BY <3>1, <3>2 DEF IsApex
    <3>5. ASSUME NEW v \in Thread PROVE Holds(v, Carried(u))' <=> Holds(v, n)'
      BY <3>1, <3>2, ZenonT(40) DEF Holds, HoldsLeaf, HoldsBnode
    <3>6. ASSUME NEW v \in Thread, v # u, Carries(v)' PROVE Carried(v)' # n
      BY <1>3, <3>3, <3>6
    <3> QED
      BY <1>2, <3>1, <3>2, <3>3, <3>4, <3>5, <3>6
  <2>2. ASSUME NEW u \in Thread, pc'[u] = "growlevel", NEW v \in Thread
        PROVE  ~Holds(v, Below(NewRoot(u), 1))'
    <3>1. u # t /\ pc[u] = "growlevel" /\ NewRoot(u)' = NewRoot(u)
      BY <1>3, <2>2
    <3>2. PICK y, n : y = NewRoot(u) /\ n = Below(y, 1)
      OBVIOUS
    <3>3. y \in Inner \ {h}
      <4>1. Holds(u, y)
        BY <3>1, <3>2 DEF Holds, HoldsBnode, Growing
      <4>2. y \in (Level \ {0}) \X Num
        BY <3>1, <3>2 DEF LbInv, ThreadOK, ClimbOK
      <4>3. y \in Level \X Num /\ y[1] >= 1
        <5>1. y[1] \in Nat /\ y[1] # 0
          BY <4>2, Constants
        <5> QED
          BY <4>2, <5>1
      <4> QED
        BY <1>4, <3>1, <4>1, <4>3 DEF LocksOK, Inner
    <3>4. Below(NewRoot(u), 1)' = n
      <4>1. Below(NewRoot(u), 1)' = Below(y, 1)'
        BY <3>1, <3>2, Zenon DEF Below, Child
      <4> QED
        BY <1>5, <3>2, <3>3, <4>1
    <3>5. ~Holds(v, n)
      BY <1>4, <3>1, <3>2 DEF Forest, CarriedApart
    <3>6. Holds(v, Below(NewRoot(u), 1))' <=> Holds(v, n)'
      BY <3>4, ZenonT(40) DEF Holds, HoldsLeaf, HoldsBnode
    <3> QED
      BY <3>5, <3>6
  <2> QED
    BY <2>1, <2>2 DEF CarriedApart
<1> QED
  BY <1>12, <1>13, <1>14, <1>15, <1>16 DEF Forest

\* A delete's bnode loses a child.  If it was the root and has one left, the
\* tree shrinks: nobody else is at that (ShrinksApart).
LEMMA DelChildKeeps ==
  ASSUME LbInv, NEW t \in Thread, DelChild(t), ShrinksApart'
  PROVE  StepKeeps(t)
<1>1. PICK h, p, lev, shrinks, r, label :
        /\ h = Here(t) /\ p = pos(t) /\ lev = loc[t].lev
        /\ shrinks = (num(h) = 1 /\ lev >= root_level)
        /\ r = [WithoutChild(h, p) EXCEPT !.lock = shrinks]
        /\ label = IF shrinks THEN "shrink" ELSE "ret"
  OBVIOUS
<1>2. /\ pc[t] = "delnode" /\ lev <= loc[t].path.rl /\ num(h) > 0
      /\ bnode' = [bnode EXCEPT ![h] = r] /\ pc' = [pc EXCEPT ![t] = label]
      /\ UNCHANGED <<tree_root, root_level, first_leaf, leaf, work, used, loc>>
  BY <1>1 DEF DelChild, Goto, lower
<1>3. /\ h \in (Level \ {0}) \X Num /\ h \in Inner /\ Holds(t, h) /\ h[1] = lev
      /\ p \in 0..num(h) /\ num(h) \in Nat /\ lev \in Nat
      /\ Live(h) = (0..num(h)) \ {p}
      /\ \A m, q : Dangles(t, m, q) <=> m = h /\ q = p
  <2>1. /\ h \in (Level \ {0}) \X Num /\ h \in Inner /\ Holds(t, h) /\ h[1] = lev
        /\ lev \in 1..loc[t].path.rl /\ loc[t].path.rl \in Nat
        /\ p \in 0..num(h) /\ num(h) \in Nat
        /\ Live(h) = (0..num(h)) \ {p}
        /\ \A m, q : Dangles(t, m, q) <=> m = h /\ q = p
    BY <1>1, <1>2, WalkParts
  <2> QED
    BY <2>1
<1>4. /\ TypeOK /\ LeavesOK /\ LocalOK(loc[t]) /\ ThreadOK(t) /\ Forest /\ LocksOK
      /\ RootSeen(t) /\ label \in Label /\ shrinks \in BOOLEAN
  BY <1>1 DEF LbInv, TypeOK, RootOK, Label
<1>5. h \in used /\ h \in Level \X Num /\ h[1] # 0 /\ h[1] \in Nat
  <2>1. h \in used
    BY <1>3 DEF Inner
  <2>2. h[1] \in Nat /\ h[1] # 0
    BY <1>3, Constants
  <2> QED
    BY <1>4, <2>1, <2>2 DEF TypeOK
<1>6. /\ bnode' \in Bnodes /\ bnode'[h].lock = shrinks
      /\ \A m : m # h => bnode'[m] = bnode[m]
      /\ num(h)' = num(h) - 1
      /\ \A q \in 0..(num(h) - 1) :
           Child(h, q)' = Child(h, IF q < p THEN q ELSE q + 1)
  <2>1. /\ TypeOK /\ h \in (Level \ {0}) \X Num /\ num(h) > 0 /\ p \in 0..num(h)
        /\ shrinks \in BOOLEAN /\ bnode' = [bnode EXCEPT ![h] = r]
    BY <1>2, <1>3, <1>4
  <2>2. r = [WithoutChild(h, p) EXCEPT !.lock = shrinks]
    BY <1>1
  <2>3. bnode' \in Bnodes
    BY <2>1, <2>2, ChildLost
  <2>4. bnode'[h].lock = shrinks
    BY <2>1, <2>2, ChildLost
  <2>5. \A m : m # h => bnode'[m] = bnode[m]
    BY <2>1, <2>2, ChildLost
  <2>6. num(h)' = num(h) - 1
    BY <2>1, <2>2, ChildLost
  <2>7. \A q \in 0..(num(h) - 1) :
           Child(h, q)' = Child(h, IF q < p THEN q ELSE q + 1)
    BY <2>1, <2>2, ChildLost
  <2> QED
    BY <2>3, <2>4, <2>5, <2>6, <2>7
<1>7. TypeOK' /\ OthersStay(t) /\ pc'[t] = label /\ loc'[t] = loc[t]
  <2>1. /\ tree_root' \in Level \X Num /\ root_level' \in Level
        /\ first_leaf' \in Num \cup {Null} /\ leaf' \in Leaves
        /\ used' \subseteq Level \X Num /\ work' = work /\ bnode' \in Bnodes
    BY <1>2, <1>4, <1>6 DEF TypeOK
  <2>2. loc' = loc
    BY <1>2
  <2> QED
    BY <1>2, <1>4, <2>1, <2>2, TypeStep
<1>8. LeavesOK'
  BY <1>2, <1>4 DEF LeavesOK, DistinctKeys
<1>9. Here(t)' = h
  BY <1>1, <1>7 DEF Here
<1>10. ASSUME NEW n, Holds(t, n)' PROVE n = h /\ shrinks
  <2>1. pc'[t] = "shrink" \/ pc'[t] = "ret"
    BY <1>1, <1>7
  <2>2. pc'[t] = "shrink" /\ n = Here(t)'
    BY <1>10, <2>1 DEF Holds, HoldsLeaf, HoldsBnode, AtLeaf, Growing, Climbing
  <2> QED
    BY <1>1, <1>7, <1>9, <2>2
<1>11. OwnStep(t)
  <2>1. ASSUME NEW n \in Level \X Num, Holds(t, n)'
        PROVE  n \in used' /\ IsLocked(n)' /\ Mine(t, n)
    BY <1>2, <1>3, <1>5, <1>6, <1>10, <2>1 DEF IsLocked, Mine
  <2>2. used \ used' = {}
    BY <1>2
  <2>3. ASSUME NEW n \in Level \X Num PROVE Mine(t, n) \/ Kept(n)
    BY <1>2, <1>3, <1>6 DEF Mine, Kept
  <2> QED
    BY <1>7, <2>1, <2>2, <2>3 DEF OwnStep
<1>12. \A u \in Thread : \A n : Holds(u, n)' => Holds(u, n)
  BY <1>3, <1>10, <1>11, StepLocks DEF LbInv
<1>13. Forest'
  <2>1. ~Carries(t) /\ ~Carries(t)' /\ \A m, q : ~Dangles(t, m, q)'
    BY <1>1, <1>2, <1>7 DEF Carries, Dangles
  <2>2. /\ pc[t] # "growroot" /\ pc'[t] \notin {"growroot", "growlevel"}
        /\ \A m \in Inner \ {h} : bnode'[m] = bnode[m]
        /\ \A m, q : Dangles(t, m, q) => m = h
    BY <1>1, <1>2, <1>3, <1>6, <1>7
  <2> QED
    BY <1>2, <1>3, <1>6, <1>7, <1>12, <2>1, <2>2, PointerGone
<1>14. IsLocked(tree_root)' \/ tree_root' \in used'
  BY <1>2, <1>11, RootThere
<1>15. CASE ~shrinks
  <2>1. pc'[t] = "ret" /\ loc'[t].key \in Key /\ "ret" \in Quiet
    BY <1>1, <1>2, <1>7, <1>15, KeyOf DEF Quiet
  <2>2. RootSeen(t)' /\ ThreadOK(t)'
    BY <2>1, QuietNext
  <2>3. RootOK'
    BY <1>2, <1>11, <1>14, <2>2, RootStep DEF LbInv
  <2> QED
    BY <1>7, <1>8, <1>11, <1>13, <2>2, <2>3 DEF StepKeeps
<1>16. CASE shrinks
  <2>1. pc'[t] = "shrink" /\ num(h) = 1 /\ lev >= root_level
    BY <1>1, <1>7, <1>16
  <2>2. h[1] = root_level
    <3>1. h[1] <= root_level
      BY <1>2, <1>3, <1>5, HeldBelow
    <3>2. root_level \in Nat
      BY <1>4, Constants DEF TypeOK
    <3> QED
      BY <1>3, <2>1, <3>1, <3>2
  <2>3. \A u \in Thread : pc[u] # "shrinkroot"
    <3> SUFFICES ASSUME NEW u \in Thread, pc[u] = "shrinkroot" PROVE FALSE
      OBVIOUS
    <3>1. u # t
      BY <1>2
    <3>2. pc'[u] = "shrinkroot"
      BY <1>7, <3>1 DEF OthersStay
    <3> QED
      BY <2>1, <3>1, <3>2 DEF ShrinksApart
  <2>4. tree_root = h
    <3>1. pc[t] \notin Growing
      BY <1>2 DEF Growing
    <3> QED
      BY <1>3, <1>5, <2>2, <2>3, <3>1, HeldTop
  <2>5. RootSeen(t)'
    <3>1. tree_root' = Here(t)' /\ root_level' = loc'[t].lev
      BY <1>1, <1>2, <1>3, <1>7, <1>9, <2>2, <2>4
    <3> QED
      BY <2>1, <3>1 DEF RootSeen, OnPath, Climbing
  <2>6. RootOK'
    BY <1>2, <1>11, <1>14, <2>5, RootStep DEF LbInv
  <2>7. ThreadOK(t)'
    <3>1. num(Here(t))' = 0 /\ Here(t)' \in (Level \ {0}) \X Num
      <4>1. num(Here(t))' = num(h)'
        BY <1>9, Zenon DEF num
      <4> QED
        BY <1>3, <1>6, <1>9, <2>1, <4>1
    <3>2. loc'[t].key \in Key
      BY <1>2, KeyOf
    <3>3. ClimbOK(t)'
      BY <2>1 DEF ClimbOK, OnPath, Climbing, Growing, Carries
    <3>4. DeleteOK(t)'
      BY <2>1, <3>1 DEF DeleteOK
    <3>5. LeafOK(t)'
      BY <2>1, <3>2 DEF LeafOK
    <3> QED
      BY <3>3, <3>4, <3>5 DEF ThreadOK
  <2> QED
    BY <1>7, <1>8, <1>11, <1>13, <2>6, <2>7 DEF StepKeeps
<1> QED
  BY <1>15, <1>16

\* A delete of a key that is not there.
LEMMA DelMissingKeeps ==
  ASSUME LbInv, NEW t \in Thread, DelMissing(t)
  PROVE  StepKeeps(t)
<1>1. /\ pc[t] \in OpKind /\ pc' = [pc EXCEPT ![t] = "ret"]
      /\ UNCHANGED <<upper, lower, used, loc>>
  BY DEF DelMissing, Goto, OpKind
<1> QED
  BY <1>1, MissingKeeps

\* The root's only child becomes the root, and the root is freed.
LEMMA ShrinkRootKeeps ==
  ASSUME LbInv, NEW t \in Thread, ShrinkRoot(t)
  PROVE  StepKeeps(t)
<1>1. PICK h, c : h = Here(t) /\ c = Below(h, 0)
  OBVIOUS
<1>2. /\ pc[t] = "shrinkroot" /\ tree_root' = <<loc[t].lev - 1, bnode[h].ch[1]>>
      /\ used' = used \ {h} /\ pc' = [pc EXCEPT ![t] = "ret"]
      /\ UNCHANGED <<root_level, bnode, first_leaf, leaf, work, loc>>
  BY <1>1 DEF ShrinkRoot, Goto, lower
<1>3. /\ TypeOK /\ LeavesOK /\ LocalOK(loc[t]) /\ ThreadOK(t) /\ Forest /\ LocksOK
      /\ RootSeen(t) /\ "ret" \in Label
  BY DEF LbInv, TypeOK, RootOK, Label
<1>4. /\ h \in (Level \ {0}) \X Num /\ num(h) = 0 /\ h[1] = loc[t].lev
      /\ Holds(t, h) /\ tree_root = h /\ root_level = loc[t].lev - 1
  BY <1>1, <1>2, <1>3 DEF ThreadOK, DeleteOK, RootSeen, Here, Holds, HoldsBnode
<1>5. /\ h[1] \in Nat /\ h[1] >= 1 /\ h \in Level \X Num /\ h \in used /\ h \in Inner
  <2>1. h[1] \in Nat /\ h[1] # 0 /\ h \in Level \X Num
    BY <1>4, Constants
  <2>2. h \in used
    BY <1>3, <1>4, <2>1 DEF LocksOK
  <2> QED
    BY <2>1, <2>2 DEF Inner
<1>6. tree_root' = c /\ c[1] = h[1] - 1 /\ c \in Level \X Num
  <2>1. bnode[h].ch[1] = Child(h, 0)
    BY DEF Child
  <2>2. Child(h, 0) \in Num
    BY <1>3, <1>4, BnodeParts
  <2>3. h[1] - 1 \in Level
    BY <1>4, <1>5, Constants DEF Level
  <2> QED
    BY <1>1, <1>2, <1>4, <2>1, <2>2, <2>3 DEF Below
<1>7. \A u \in Thread : pc[u] \notin {"growroot", "growlevel"}
  <2> SUFFICES ASSUME NEW u \in Thread, pc[u] \in {"growroot", "growlevel"} PROVE FALSE
    OBVIOUS
  <2>1. CASE pc[u] = "growroot"
    <3>1. tree_root = RootOf(u) /\ Holds(u, RootOf(u))
      BY <2>1, GrowParts DEF Growing, LbInv, RootOK, RootSeen
    <3> QED
      BY <1>2, <1>3, <1>4, <1>5, <2>1, <3>1 DEF LocksOK
  <2>2. CASE pc[u] = "growlevel"
    <3>1. tree_root = NewRoot(u) /\ Holds(u, NewRoot(u))
      BY <2>2 DEF LbInv, RootOK, RootSeen, Holds, HoldsBnode, Growing
    <3> QED
      BY <1>2, <1>3, <1>4, <1>5, <2>2, <3>1 DEF LocksOK
  <2> QED
    BY <2>1, <2>2
<1>8. Live(h) = {0}
  <2>1. \A u \in Thread : \A p : ~Dangles(u, h, p)
    BY <1>2, <1>4, <1>5, OthersDangle DEF Dangles
  <2> QED
    BY <1>4, <2>1 DEF Live
<1>9. TypeOK' /\ OthersStay(t) /\ pc'[t] = "ret" /\ loc'[t] = loc[t]
  <2>1. /\ tree_root' \in Level \X Num /\ root_level' \in Level
        /\ first_leaf' \in Num \cup {Null} /\ leaf' \in Leaves
        /\ used' \subseteq Level \X Num /\ work' = work /\ bnode' \in Bnodes
    BY <1>2, <1>3, <1>6 DEF TypeOK
  <2>2. loc' = loc
    BY <1>2
  <2> QED
    BY <1>2, <1>3, <2>1, <2>2, TypeStep
<1>10. LeavesOK'
  BY <1>2, <1>3 DEF LeavesOK, DistinctKeys
<1>11. /\ \A n : ~Holds(t, n)'
       /\ ~Carries(t) /\ ~Carries(t)'
       /\ \A m, p : ~Dangles(t, m, p) /\ ~Dangles(t, m, p)'
       /\ RootSeen(t)' /\ ThreadOK(t)'
  <2>1. pc'[t] \in Quiet /\ loc'[t].key \in Key
    BY <1>2, <1>9, KeyOf DEF Quiet
  <2>2. ~Carries(t) /\ \A m, p : ~Dangles(t, m, p)
    BY <1>2 DEF Carries, Dangles
  <2> QED
    BY <2>1, <2>2, QuietNext
<1>12. OwnStep(t)
  <2>1. \A n \in used \ used' : Holds(t, n)
    BY <1>2, <1>4
  <2>2. \A n \in Level \X Num : Kept(n)
    BY <1>2 DEF Kept
  <2> QED
    BY <1>9, <1>11, <2>1, <2>2 DEF OwnStep
<1>13. \A u \in Thread : \A n : Holds(u, n)' => Holds(u, n)
  BY <1>11, <1>12, StepLocks DEF LbInv
<1>14. /\ \A n : IsApex(n) <=> n = h
       /\ \A n : IsApex(n)' <=> n = c
  BY <1>2, <1>4, <1>6, <1>7, <1>9 DEF IsApex, OthersStay
<1>15. /\ c \in used /\ c # h /\ \A u \in Thread : Carries(u) => c # Carried(u)
       /\ \A m \in Inner \ {h} : \A p \in Live(m) : Below(m, p) # c /\ Below(m, p) # h
  <2>1. c \in used /\ ~IsApex(c) /\ \A u \in Thread : Carries(u) => c # Carried(u)
    BY <1>1, <1>3, <1>5, <1>8 DEF Forest, ChildUsed
  <2>2. \A m \in Inner \ {h} : \A p \in Live(m) : Below(m, p) # c
    BY <1>1, <1>3, <1>5, <1>8 DEF Forest, OneParent
  <2>3. \A m \in Inner : \A p \in Live(m) : Below(m, p) # h
    BY <1>3, <1>14 DEF Forest, ChildUsed
  <2> QED
    BY <1>14, <2>1, <2>2, <2>3
<1>16. RootOK'
  <2>1. tree_root' \in used' /\ tree_root'[1] = root_level'
    BY <1>2, <1>4, <1>6, <1>15
  <2> QED
    BY <1>4, <1>11, <1>12, <2>1, RootMoves
<1>17. Forest'
  <2>1. Inner' = Inner \ {h}
    BY <1>2 DEF Inner
  <2>2. \A u \in Thread \ {t} : /\ Carries(u)' <=> Carries(u)
                                /\ Carried(u)' = Carried(u)
                                /\ pc'[u] = pc[u]
                                /\ \A m, p : Dangles(u, m, p)' <=> Dangles(u, m, p)
    BY <1>9, OthersForest DEF OthersStay
  <2>3. ASSUME NEW m PROVE Live(m)' = Live(m) /\ \A p : Below(m, p)' = Below(m, p)
    <3>1. num(m)' = num(m) /\ \A p : Below(m, p)' = Below(m, p)
      BY <1>2 DEF num, Below, Child
    <3> QED
      BY <1>11, <2>2, <3>1 DEF Live
  <2>4. \A n \in used : n[1] = h[1] => n = h
    BY <1>2, <1>4, <1>5, <1>7, TopAlone
  <2>5. ASSUME NEW n \in used, n # h, n # c
        PROVE  \/ \E u \in Thread \ {t} : Carries(u) /\ n = Carried(u)
               \/ \E m \in Inner \ {h} : \E p \in Live(m) : Below(m, p) = n
    <3>1. \/ \E u \in Thread \ {t} : Carries(u) /\ n = Carried(u)
          \/ \E m \in Inner : \E p \in Live(m) : Below(m, p) = n
      BY <1>3, <1>11, <1>14, <2>5 DEF Forest, HasParent
    <3>2. \A p \in Live(h) : Below(h, p) # n
      BY <1>1, <1>8, <2>5
    <3> QED
      BY <3>1, <3>2
  <2>6. ChildUsed'
    <3> SUFFICES ASSUME NEW m \in Inner', NEW p \in Live(m)'
                 PROVE  /\ Below(m, p)' \in used' /\ ~IsApex(Below(m, p))'
                        /\ \A u \in Thread : Carries(u)' => Below(m, p)' # Carried(u)'
      BY DEF ChildUsed
    <3>1. PICK b : b = Below(m, p)'
      OBVIOUS
    <3>2. IsApex(Below(m, p))' <=> IsApex(b)'
      BY <3>1 DEF IsApex
    <3>3. m \in Inner \ {h} /\ p \in Live(m) /\ b = Below(m, p)
      BY <2>1, <2>3, <3>1
    <3>4. b \in used /\ b # h /\ b # c /\ \A u \in Thread : Carries(u) => b # Carried(u)
      BY <1>3, <1>15, <3>3 DEF Forest, ChildUsed
    <3> QED
      BY <1>2, <1>11, <1>14, <2>2, <3>1, <3>2, <3>4
  <2>7. OneParent'
    <3> SUFFICES ASSUME NEW m \in Inner', NEW n \in Inner', NEW p \in Live(m)',
                        NEW q \in Live(n)', Below(m, p)' = Below(n, q)'
                 PROVE  m = n /\ p = q
      BY DEF OneParent
    <3>1. m \in Inner /\ n \in Inner /\ p \in Live(m) /\ q \in Live(n)
      BY <2>1, <2>3
    <3> QED
      BY <1>3, <2>3, <3>1 DEF Forest, OneParent
  <2>8. HasParent'
    <3> SUFFICES ASSUME NEW n \in used', n # c
                 PROVE  \/ \E u \in Thread : Carries(u)' /\ n = Carried(u)'
                        \/ \E m \in Inner' : \E p \in Live(m)' : Below(m, p)' = n
      BY <1>14 DEF HasParent
    <3>1. \/ \E u \in Thread \ {t} : Carries(u) /\ n = Carried(u)
          \/ \E m \in Inner \ {h} : \E p \in Live(m) : Below(m, p) = n
      BY <1>2, <2>5
    <3> QED
      BY <2>1, <2>2, <2>3, <3>1
  <2>9. TopOnly'
    <3> SUFFICES ASSUME NEW n \in used', n # c
                 PROVE  /\ n[1] <= c[1]
                        /\ n[1] = c[1] => \E u \in Thread : Carries(u)' /\ n = Carried(u)'
      <4>1. c[1] <= c[1]
        BY <1>5, <1>6
      <4> QED
        BY <1>14, <4>1 DEF TopOnly
    <3>1. n \in used /\ n # h /\ n[1] \in Nat
      BY <1>2, <1>3, Constants DEF TypeOK
    <3>2. n[1] <= h[1] /\ n[1] # h[1]
      BY <1>3, <1>5, <1>14, <2>4, <3>1 DEF Forest, TopOnly
    <3>3. n[1] <= c[1]
      BY <1>5, <1>6, <3>1, <3>2
    <3>4. ASSUME n[1] = c[1] PROVE \E u \in Thread : Carries(u)' /\ n = Carried(u)'
      <4>1. ASSUME NEW m \in Inner \ {h}, NEW p \in Live(m), Below(m, p) = n PROVE FALSE
        <5>1. m[1] - 1 = n[1]
          BY <4>1 DEF Below
        <5>2. m[1] \in Nat /\ m \in used
          BY <1>3, Constants DEF Inner, TypeOK
        <5> QED
          BY <1>5, <1>6, <2>4, <3>4, <5>1, <5>2
      <4> QED
        BY <2>2, <2>5, <3>1, <4>1
    <3> QED
      BY <3>3, <3>4
  <2>10. CarriedApart'
    <3>1. ASSUME NEW u \in Thread, Carries(u)'
          PROVE  /\ Carried(u)' \in used' /\ ~IsApex(Carried(u))'
                 /\ \A v \in Thread : /\ ~Holds(v, Carried(u))'
                                      /\ v # u /\ Carries(v)' => Carried(v)' # Carried(u)'
      <4>1. u # t /\ Carries(u) /\ Carried(u)' = Carried(u)
        BY <1>11, <2>2, <3>1
      <4>2. PICK n : n = Carried(u)
        OBVIOUS
      <4>3. /\ n \in used /\ n # h /\ n # c
            /\ \A v \in Thread : /\ ~Holds(v, n)
                                 /\ v # u /\ Carries(v) => Carried(v) # n
        BY <1>3, <1>4, <1>15, <4>1, <4>2 DEF Forest, CarriedApart
      <4>4. IsApex(Carried(u))' <=> IsApex(n)'
        BY <4>1, <4>2 DEF IsApex
      <4>5. ASSUME NEW v \in Thread PROVE Holds(v, Carried(u))' <=> Holds(v, n)'
        BY <4>1, <4>2, ZenonT(40) DEF Holds, HoldsLeaf, HoldsBnode
      <4>6. ASSUME NEW v \in Thread, v # u, Carries(v)' PROVE Carried(v)' # n
        BY <1>11, <2>2, <4>3, <4>6
      <4> QED
        BY <1>2, <1>13, <1>14, <4>1, <4>2, <4>3, <4>4, <4>5, <4>6
    <3>2. \A u \in Thread : pc'[u] # "growlevel"
      BY <1>7, <1>9, <2>2
    <3> QED
      BY <3>1, <3>2 DEF CarriedApart
  <2> QED
    BY <2>6, <2>7, <2>8, <2>9, <2>10 DEF Forest
<1> QED
  BY <1>9, <1>10, <1>11, <1>12, <1>16, <1>17 DEF StepKeeps

-----------------------------------------------------------------------------
(* The theorems.                                                           *)

\* A tree that is a tree, and nobody at work.
LEMMA LbInit == Init => LbInv
<1> SUFFICES ASSUME Init PROVE LbInv
  OBVIOUS
<1>1. PICK tree : tree = work.tree
  OBVIOUS
<1>2. /\ work \in Workload /\ tree_root = tree.root /\ root_level = tree.root[1]
      /\ first_leaf = tree.first /\ bnode = tree.bnode /\ leaf = tree.leaf
      /\ used = tree.used
      /\ pc = [t \in Thread |-> "idle"] /\ loc = [t \in Thread |-> NoLocal]
  BY <1>1 DEF Init
<1>3. TreeOK(tree)
  BY <1>1, <1>2, WorkloadOK
<1>4. /\ used \subseteq Level \X Num /\ tree_root \in used
      /\ first_leaf \in Num \cup {Null} /\ leaf \in Leaves /\ bnode \in Bnodes
      /\ \A l \in Num : <<0, l>> \in used => DistinctKeys(leaf[l])
  BY <1>2, <1>3 DEF TreeOK
<1>5. /\ \A m \in Inner : \A p \in 0..num(m) : Below(m, p) \in used \ {tree_root}
      /\ \A m, n \in Inner : \A p \in 0..num(m), q \in 0..num(n) :
           Below(m, p) = Below(n, q) => m = n /\ p = q
      /\ \A n \in used \ {tree_root} :
           n[1] < tree_root[1] /\ \E m \in Inner : \E p \in 0..num(m) : Below(m, p) = n
  BY <1>2, <1>3 DEF TreeOK, Inner, num, Below, Child
<1>6. \A t \in Thread : pc[t] = "idle" /\ loc[t] = NoLocal
  BY <1>2
<1>7. \A t \in Thread : /\ \A n : ~Holds(t, n)
                        /\ ~Carries(t) /\ \A m, p : ~Dangles(t, m, p)
  BY <1>6, QuietHolds DEF Quiet
<1>8. TypeOK /\ LeavesOK
  <2>1. tree_root \in Level \X Num /\ root_level \in Level
    BY <1>2, <1>4
  <2>2. pc \in [Thread -> Label] /\ DOMAIN loc = Thread
    BY <1>2 DEF Label
  <2>3. \A t \in Thread : LocalOK(loc[t])
    BY <1>6, NoLocalOK
  <2> QED
    BY <1>2, <1>4, <2>1, <2>2, <2>3 DEF TypeOK, LeavesOK
<1>9. LocksOK
  BY <1>7 DEF LocksOK
<1>10. RootOK
  <2>1. \A t \in Thread : RootSeen(t)
    BY <1>6 DEF RootSeen, OnPath, Climbing
  <2> QED
    BY <1>2, <1>4, <2>1 DEF RootOK
<1>11. Forest
  <2>1. \A n : IsApex(n) <=> n = tree_root
    BY <1>6 DEF IsApex
  <2>2. \A m : Live(m) = 0..num(m)
    BY <1>7 DEF Live
  <2>3. ChildUsed
    BY <1>5, <1>7, <2>1, <2>2 DEF ChildUsed
  <2>4. OneParent
    <3> SUFFICES ASSUME NEW m \in Inner, NEW n \in Inner, NEW p \in Live(m),
                        NEW q \in Live(n), Below(m, p) = Below(n, q)
                 PROVE  m = n /\ p = q
      BY DEF OneParent
    <3>1. p \in 0..num(m) /\ q \in 0..num(n)
      BY <2>2
    <3> QED
      BY <1>5, <3>1
  <2>5. HasParent
    BY <1>5, <2>1, <2>2 DEF HasParent
  <2>6. TopOnly
    <3> SUFFICES ASSUME NEW n \in used
                 PROVE  n[1] <= tree_root[1] /\ (n[1] = tree_root[1] => n = tree_root)
      BY <2>1 DEF TopOnly
    <3>1. n[1] \in Nat /\ tree_root[1] \in Nat
      BY <1>4, Constants
    <3>2. n = tree_root \/ n[1] < tree_root[1]
      BY <1>5
    <3> QED
      BY <3>1, <3>2
  <2>7. CarriedApart
    BY <1>6, <1>7 DEF CarriedApart
  <2> QED
    BY <2>3, <2>4, <2>5, <2>6, <2>7 DEF Forest
<1>12. \A t \in Thread : ThreadOK(t)
  <2> SUFFICES ASSUME NEW t \in Thread PROVE ThreadOK(t)
    OBVIOUS
  <2>1. pc[t] = "idle" /\ ~Carries(t)
    BY <1>6, <1>7
  <2>2. ClimbOK(t)
    BY <2>1 DEF ClimbOK, OnPath, Climbing, Growing
  <2>3. DeleteOK(t)
    BY <2>1 DEF DeleteOK
  <2>4. LeafOK(t)
    BY <2>1 DEF LeafOK
  <2> QED
    BY <2>2, <2>3, <2>4 DEF ThreadOK
<1> QED
  BY <1>8, <1>9, <1>10, <1>11, <1>12 DEF LbInv

\* Each action of a thread.
LEMMA LbAction ==
  ASSUME LbInv, ShrinksApart', NEW t \in Thread, Call(t) \/ Step(t)
  PROVE  StepKeeps(t)
<1>1. CASE Call(t)
  BY <1>1, CallKeeps
<1>2. CASE Return(t) \/ ReadPtr(t) \/ ScanReturn(t)
  BY <1>2, ReturnKeeps
<1>3. CASE Lookup(t)
  BY <1>3, LookupKeeps
<1>4. CASE Scan(t)
  BY <1>4, ScanKeeps
<1>5. CASE InsertFound(t)
  BY <1>5, InsertFoundKeeps
<1>6. CASE SetValue(t)
  BY <1>6, SetValueKeeps
<1>7. CASE InsertFind(t)
  BY <1>7, InsertFindKeeps
<1>8. CASE FillSlot(t)
  BY <1>8, FillSlotKeeps
<1>9. CASE SplitBuild(t)
  BY <1>9, SplitBuildKeeps
<1>10. CASE SplitPublish(t)
  BY <1>10, SplitPublishKeeps
<1>11. CASE InsertLeft(t)
  BY <1>11, InsertLeftKeeps
<1>12. CASE ReadLevel(t)
  BY <1>12, ReadLevelKeeps
<1>13. CASE InsertBnode(t)
  BY <1>13, InsertBnodeKeeps
<1>14. CASE SplitBnode(t)
  BY <1>14, SplitBnodeKeeps
<1>15. CASE GrowRoot(t)
  BY <1>15, GrowRootKeeps
<1>16. CASE GrowSecondStore(t)
  BY <1>16, GrowSecondStoreKeeps
<1>17. CASE UnlockOldRoot(t)
  BY <1>17, UnlockOldRootKeeps
<1>18. CASE UnlockNewRoot(t)
  BY <1>18, UnlockNewRootKeeps
<1>19. CASE DelMissing(t)
  BY <1>19, DelMissingKeeps
<1>20. CASE DelFind(t)
  BY <1>20, DelFindKeeps
<1>21. CASE DelSlot(t)
  BY <1>21, DelSlotKeeps
<1>22. CASE DelLeaf(t)
  BY <1>22, DelLeafKeeps
<1>23. CASE DelChild(t)
  BY <1>23, DelChildKeeps
<1>24. CASE FreeBnode(t)
  BY <1>24, FreeBnodeKeeps
<1>25. CASE ShrinkLevel(t)
  BY <1>25, ShrinkLevelKeeps
<1>26. CASE ShrinkRoot(t)
  BY <1>26, ShrinkRootKeeps
<1> QED
  BY <1>1, <1>2, <1>3, <1>4, <1>5, <1>6, <1>7, <1>8, <1>9, <1>10, <1>11, <1>12,
     <1>13, <1>14, <1>15, <1>16, <1>17, <1>18, <1>19, <1>20, <1>21, <1>22, <1>23,
     <1>24, <1>25, <1>26, Zenon DEF Step

\* A step that changes nothing.
LEMMA LbStutter ==
  ASSUME LbInv, UNCHANGED vars
  PROVE  LbInv'
<1>1. /\ work' = work /\ tree_root' = tree_root /\ root_level' = root_level
      /\ first_leaf' = first_leaf /\ bnode' = bnode /\ leaf' = leaf
      /\ used' = used /\ pc' = pc /\ loc' = loc
  BY DEF vars
<1>2. TypeOK' /\ LeavesOK'
  BY <1>1 DEF LbInv, TypeOK, LeavesOK, DistinctKeys
<1>3. ASSUME NEW t \in Thread PROVE \A n : Holds(t, n)' <=> Holds(t, n)
  <2>1. \A n \in Level \X Num : Kept(n)
    BY <1>1 DEF Kept
  <2> QED
    BY <1>1, <2>1, OtherKept DEF LbInv
<1>4. LocksOK'
  BY <1>1, <1>3 DEF LbInv, LocksOK, IsLocked
<1>5. RootOK' /\ \A t \in Thread : ThreadOK(t)'
  <2>1. ASSUME NEW t \in Thread PROVE RootSeen(t)' /\ ThreadOK(t)'
    <3>1. ThreadOK(t)'
      <4>1. \A n \in Level \X Num : Kept(n)
        BY <1>1 DEF Kept
      <4> QED
        BY <1>1, <4>1, OtherKept DEF LbInv
    <3>2. RootSeen(t)'
      BY <1>1, <1>3, RootStays DEF LbInv, RootOK
    <3> QED
      BY <3>1, <3>2
  <2>2. IsLocked(tree_root)' \/ tree_root' \in used'
    BY <1>1 DEF LbInv, RootOK, IsLocked
  <2> QED
    BY <1>1, <2>1, <2>2 DEF LbInv, RootOK
<1>6. Forest'
  <2>1. /\ \A n : IsApex(n)' <=> IsApex(n)
        /\ \A t \in Thread : /\ Carries(t)' <=> Carries(t)
                             /\ Carried(t)' = Carried(t)
                             /\ NewRoot(t)' = NewRoot(t)
                             /\ \A m, p : Dangles(t, m, p)' <=> Dangles(t, m, p)
    BY <1>1 DEF IsApex, NewRoot, Carries, Carried, Dangles, Here, pos
  <2>2. Inner' = Inner /\ \A m : num(m)' = num(m) /\ \A p : Below(m, p)' = Below(m, p)
    BY <1>1 DEF Inner, num, Below, Child
  <2>3. \A m : Live(m)' = Live(m)
    BY <2>1, <2>2 DEF Live
  <2>4. ASSUME NEW m \in Inner, NEW p \in Live(m) PROVE ~IsApex(Below(m, p))'
    <3>1. PICK n : n = Below(m, p)
      OBVIOUS
    <3>2. IsApex(Below(m, p))' <=> IsApex(n)'
      BY <2>2, <3>1 DEF IsApex
    <3> QED
      BY <2>1, <3>1, <3>2 DEF LbInv, Forest, ChildUsed
  <2>5. ChildUsed'
    BY <1>1, <2>1, <2>2, <2>3, <2>4 DEF LbInv, Forest, ChildUsed
  <2>6. OneParent'
    BY <2>2, <2>3 DEF LbInv, Forest, OneParent
  <2>7. HasParent'
    BY <1>1, <2>1, <2>2, <2>3 DEF LbInv, Forest, HasParent
  <2>8. TopOnly'
    BY <1>1, <2>1 DEF LbInv, Forest, TopOnly
  <2>9. CarriedApart'
    <3>1. ASSUME NEW t \in Thread, Carries(t)'
          PROVE  /\ ~IsApex(Carried(t))'
                 /\ \A u \in Thread : ~Holds(u, Carried(t))'
      <4>1. PICK n : n = Carried(t)
        OBVIOUS
      <4>2. IsApex(Carried(t))' <=> IsApex(n)'
        BY <2>1, <4>1 DEF IsApex
      <4>3. ASSUME NEW u \in Thread PROVE Holds(u, Carried(t))' <=> Holds(u, n)'
        BY <2>1, <4>1, ZenonT(40) DEF Holds, HoldsLeaf, HoldsBnode
      <4> QED
        BY <1>3, <2>1, <3>1, <4>1, <4>2, <4>3 DEF LbInv, Forest, CarriedApart
    <3>2. ASSUME NEW t \in Thread, pc'[t] = "growlevel", NEW u \in Thread
          PROVE  ~Holds(u, Below(NewRoot(t), 1))'
      <4>1. PICK y, n : y = NewRoot(t) /\ n = Below(y, 1)
        OBVIOUS
      <4>2. Below(NewRoot(t), 1)' = Below(y, 1)'
        BY <2>1, <4>1, Zenon DEF Below, Child
      <4>3. Below(NewRoot(t), 1)' = n
        BY <2>2, <4>1, <4>2
      <4>4. Holds(u, Below(NewRoot(t), 1))' <=> Holds(u, n)'
        BY <4>3, ZenonT(40) DEF Holds, HoldsLeaf, HoldsBnode
      <4> QED
        BY <1>1, <1>3, <3>2, <4>1, <4>4 DEF LbInv, Forest, CarriedApart
    <3> QED
      BY <1>1, <2>1, <3>1, <3>2 DEF LbInv, Forest, CarriedApart
  <2> QED
    BY <2>5, <2>6, <2>7, <2>8, <2>9 DEF Forest
<1> QED
  BY <1>2, <1>4, <1>5, <1>6 DEF LbInv

\* A step keeps the invariant.
LEMMA LbStep ==
  ASSUME LbInv, [Next]_vars, ShrinksApart'
  PROVE  LbInv'
<1>1. ASSUME NEW t \in Thread, Call(t) \/ Step(t) PROVE LbInv'
  <2>1. StepKeeps(t)
    BY <1>1, LbAction
  <2>2. /\ TypeOK' /\ LeavesOK' /\ OwnStep(t) /\ RootOK' /\ Forest' /\ ThreadOK(t)'
    BY <2>1 DEF StepKeeps
  <2>3. LocksOK' /\ \A u \in Thread \ {t} : ThreadOK(u)'
    BY <2>2, StepLocks DEF LbInv
  <2>4. \A u \in Thread : ThreadOK(u)'
    BY <2>2, <2>3
  <2> QED
    BY <2>2, <2>3, <2>4 DEF LbInv
<1> QED
  BY <1>1, LbStutter DEF Next

\* The invariant, of every behaviour in which two deletes do not lower the
\* root at once.
THEOREM LbInvHolds == Spec /\ []ShrinksApart => []LbInv
<1>1. Init => LbInv
  BY LbInit
<1>2. LbInv /\ [Next]_vars /\ ShrinksApart' => LbInv'
  BY LbStep
<1> QED
  BY <1>1, <1>2, PTL DEF Spec

\* What a thread is about to write it holds, or has built and not yet linked.
LEMMA WritingHeld ==
  ASSUME LbInv, NEW t \in Thread, NEW n \in Writing(t)
  PROVE  /\ n \in Level \X Num
         /\ Holds(t, n) \/ (pc[t] = "publish" /\ n = <<0, loc[t].ptr>>)
<1>1. TypeOK /\ ThreadOK(t) /\ LocalOK(loc[t])
  BY DEF LbInv, TypeOK
<1>2. CASE pc[t] \in {"fill", "split", "addleft"}
  <2>1. n = <<0, lp(t)>>
    BY <1>2 DEF Writing
  <2> QED
    BY <1>2, <2>1, LeafHeld DEF AtLeaf
<1>3. CASE pc[t] = "publish"
  <2>1. n = <<0, lp(t)>> \/ n = <<0, loc[t].ptr>>
    BY <1>3 DEF Writing
  <2>2. loc[t].ptr \in Num
    BY <1>1, <1>3 DEF ThreadOK, ClimbOK, Carries
  <2>3. lp(t) \in Num /\ Holds(t, <<0, lp(t)>>)
    BY <1>3, LeafHeld DEF AtLeaf
  <2> QED
    BY <1>3, <2>1, <2>2, <2>3, Constants
<1>4. CASE pc[t] = "delleaf"
  <2>1. n = <<0, lp(t)>> \/ (loc[t].sib # Null /\ n = <<0, loc[t].sib>>)
    BY <1>4 DEF Writing
  <2>2. lp(t) \in Num /\ Holds(t, <<0, lp(t)>>)
    BY <1>4, LeafHeld DEF AtLeaf
  <2>3. loc[t].sib # Null => loc[t].sib \in Num /\ Holds(t, <<0, loc[t].sib>>)
    BY <1>1, <1>4 DEF LocalOK, Holds, HoldsLeaf
  <2> QED
    BY <2>1, <2>2, <2>3, Constants
<1>5. CASE pc[t] = "bnode"
  <2>1. n = Here(t)
    BY <1>5 DEF Writing
  <2>2. Holds(t, n)
    BY <1>5, <2>1, ClimbParts
  <2> QED
    BY <1>1, <2>2, HeldIsNode
<1>6. CASE pc[t] = "delnode"
  <2>1. n = Here(t) /\ loc[t].lev <= loc[t].path.rl
    BY <1>6 DEF Writing
  <2>2. Holds(t, n)
    BY <1>6, <2>1, WalkParts
  <2> QED
    BY <1>1, <2>2, HeldIsNode
<1>7. CASE pc[t] \in {"shrink", "shrinkroot"}
  <2>1. n = Here(t)
    BY <1>7 DEF Writing
  <2>2. Holds(t, n)
    BY <1>7, <2>1 DEF Holds, HoldsBnode
  <2> QED
    BY <1>1, <2>2, HeldIsNode
<1> QED
  BY <1>2, <1>3, <1>4, <1>5, <1>6, <1>7 DEF Writing

\* A leaf that is built and not yet linked is nobody else's.
LEMMA BuiltApart ==
  ASSUME LbInv, NEW t \in Thread, pc[t] = "publish", NEW n, n = <<0, loc[t].ptr>>
  PROVE  /\ n \in used /\ \A u \in Thread : ~Holds(u, n)
         /\ \A u \in Thread \ {t} : pc[u] = "publish" => n # <<0, loc[u].ptr>>
<1>1. Carries(t) /\ Carried(t) = n
  BY DEF Carries, Carried
<1>2. \A u \in Thread : pc[u] = "publish" => Carries(u) /\ Carried(u) = <<0, loc[u].ptr>>
  BY DEF Carries, Carried
<1> QED
  BY <1>1, <1>2 DEF LbInv, Forest, CarriedApart

\* What the invariant says of the nodes being written.
LEMMA LbOwnNodes == LbInv => WritesOwnNodes
<1> SUFFICES ASSUME LbInv PROVE WritesOwnNodes
  OBVIOUS
<1>1. ASSUME NEW t \in Thread, NEW n \in Writing(t)
      PROVE  n \in used /\ (IsLocked(n) \/ n \in {<<0, x>> : x \in Private})
  <2>1. CASE Holds(t, n)
    <3>1. n \in Level \X Num
      BY WritingHeld
    <3> QED
      BY <2>1, <3>1 DEF LbInv, LocksOK
  <2>2. CASE pc[t] = "publish" /\ n = <<0, loc[t].ptr>>
    <3>1. n \in used
      BY <2>2, BuiltApart
    <3>2. loc[t].ptr \in Private
      BY <2>2 DEF Private
    <3> QED
      BY <2>2, <3>1, <3>2
  <2> QED
    BY <2>1, <2>2, WritingHeld
<1>2. ASSUME NEW t \in Thread, NEW u \in Thread, t # u, NEW n, n \in Writing(t), n \in Writing(u)
      PROVE  FALSE
  <2>1. /\ n \in Level \X Num
        /\ Holds(t, n) \/ (pc[t] = "publish" /\ n = <<0, loc[t].ptr>>)
        /\ Holds(u, n) \/ (pc[u] = "publish" /\ n = <<0, loc[u].ptr>>)
    BY <1>2, WritingHeld
  <2>2. CASE Holds(t, n) /\ Holds(u, n)
    BY <1>2, <2>1, <2>2 DEF LbInv, LocksOK
  <2>3. CASE pc[t] = "publish" /\ n = <<0, loc[t].ptr>>
    BY <1>2, <2>1, <2>3, BuiltApart
  <2>4. CASE pc[u] = "publish" /\ n = <<0, loc[u].ptr>>
    BY <1>2, <2>1, <2>4, BuiltApart
  <2> QED
    BY <2>1, <2>2, <2>3, <2>4
<1>3. TypeOK
  BY DEF LbInv
<1> QED
  BY <1>1, <1>2, <1>3 DEF WritesOwnNodes

\* And of the root: who moves it has it locked.
LEMMA LbRoot == LbInv => RootAgrees
<1> SUFFICES ASSUME LbInv, tree_root[1] # root_level PROVE IsLocked(tree_root)
  BY DEF RootAgrees
<1>1. PICK t \in Thread : pc[t] \in {"growroot", "growlevel", "shrinkroot"}
  BY DEF LbInv, RootOK
<1>2. Holds(t, tree_root)
  <2>1. RootSeen(t)
    BY DEF LbInv, RootOK
  <2> QED
    BY <1>1, <2>1 DEF RootSeen, Holds, HoldsBnode, Growing
<1>3. tree_root \in Level \X Num
  BY DEF LbInv, TypeOK
<1> QED
  BY <1>2, <1>3 DEF LbInv, LocksOK

\* Every node a thread is about to write is allocated and its own.
THEOREM LbWritesOwnNodes == Spec /\ []ShrinksApart => []WritesOwnNodes
  BY LbInvHolds, LbOwnNodes, PTL

\* Whoever reads an unlocked root reads its level right.
THEOREM LbRootAgrees == Spec /\ []ShrinksApart => []RootAgrees
  BY LbInvHolds, LbRoot, PTL

-----------------------------------------------------------------------------
(* Programs in which one thread deletes need no hypothesis.                *)

\* At most one thread deletes.
OneDeletes ==
  \A w \in Workload : \A t, u \in Thread :
    \A i \in DOMAIN w.prog[t], j \in DOMAIN w.prog[u] :
      w.prog[t][i].op = "delete" /\ w.prog[u][j].op = "delete" => t = u

\* The control points of a delete.
Deleting == {"delete", "delleaf", "delnode", "shrink", "shrinkroot"}

\* A thread in a delete has been called for one.
DeleteRuns ==
  \A t \in Thread : pc[t] \in Deleting =>
    loc[t].n \in DOMAIN work.prog[t] /\ Op(t).op = "delete"

\* So the deletes that lower the root are apart.
LEMMA DeletesApart ==
  ASSUME OneDeletes, DeleteRuns', work' \in Workload
  PROVE  ShrinksApart'
BY DEF OneDeletes, DeleteRuns, ShrinksApart, Deleting, Op

\* A thread begins a delete with its call, and stays in it.
LEMMA DeleteStep ==
  ASSUME TypeOK, NEW t \in Thread, Step(t)
  PROVE  /\ OthersStay(t)
         /\ pc'[t] \in Deleting => pc[t] \in Deleting /\ loc'[t].n = loc[t].n
<1>1. pc \in [Thread -> Label] /\ LocalOK(loc[t]) /\ DOMAIN loc = Thread
  BY DEF TypeOK
<1>2. CASE Return(t) \/ Lookup(t) \/ ReadPtr(t) \/ Scan(t) \/ ScanReturn(t)
  BY <1>1, <1>2 DEF Return, Lookup, ReadPtr, Scan, ScanReturn, Goto, OthersStay, Deleting
<1>3. CASE InsertFound(t) \/ SetValue(t) \/ InsertFind(t) \/ FillSlot(t)
  BY <1>1, <1>3 DEF InsertFound, SetValue, InsertFind, FillSlot, Goto, OthersStay, Deleting
<1>4. CASE SplitBuild(t) \/ SplitPublish(t) \/ InsertLeft(t) \/ ReadLevel(t)
  BY <1>1, <1>4 DEF SplitBuild, SplitPublish, InsertLeft, ReadLevel, Goto, OthersStay, Deleting
<1>5. CASE InsertBnode(t) \/ SplitBnode(t) \/ GrowRoot(t) \/ GrowSecondStore(t)
  BY <1>1, <1>5 DEF InsertBnode, SplitBnode, GrowRoot, GrowSecondStore, Goto, OthersStay, Deleting
<1>6. CASE UnlockOldRoot(t) \/ UnlockNewRoot(t) \/ DelMissing(t) \/ DelSlot(t) \/ ShrinkRoot(t)
  BY <1>1, <1>6 DEF UnlockOldRoot, UnlockNewRoot, DelMissing, DelSlot, ShrinkRoot, Goto,
     OthersStay, Deleting
<1>7. CASE DelFind(t)
  <2>1. PICK path, sib, k :
          loc' = [loc EXCEPT ![t].path = path, ![t].sib = sib, ![t].pos = k]
    <3>1. PICK p \in Descents(loc[t].key) :
            \E sib \in (IF Cardinality(leaf[p[0]].bitmap) = 1
                         THEN LeftLeaves(PathTaken(p, loc[t].key)) ELSE {Null}) :
              loc' = [loc EXCEPT ![t].path = PathTaken(p, loc[t].key), ![t].sib = sib,
                                 ![t].pos = PosOf(p[0], loc[t].key)]
      BY <1>7 DEF DelFind
    <3> QED
      BY <3>1
  <2>2. pc[t] = "delete" /\ pc' = [pc EXCEPT ![t] = "delleaf"]
    BY <1>7 DEF DelFind, Goto
  <2>3. loc'[t] = [loc[t] EXCEPT !.path = path, !.sib = sib, !.pos = k]
    BY <1>1, <2>1
  <2>4. loc'[t].n = loc[t].n
    BY <1>1, <2>3 DEF LocalOK
  <2> QED
    BY <1>1, <2>1, <2>2, <2>4 DEF OthersStay, Deleting
<1>8. CASE DelLeaf(t) \/ FreeBnode(t)
  <2>1. PICK lev : loc' = [loc EXCEPT ![t].lev = lev]
    BY <1>8 DEF DelLeaf, FreeBnode
  <2>2. pc[t] \in Deleting /\ \A u \in Thread \ {t} : pc'[u] = pc[u]
    BY <1>1, <1>8 DEF DelLeaf, FreeBnode, Goto, Deleting
  <2>3. loc'[t] = [loc[t] EXCEPT !.lev = lev]
    BY <1>1, <2>1
  <2>4. loc'[t].n = loc[t].n
    BY <1>1, <2>3 DEF LocalOK
  <2> QED
    BY <1>1, <2>1, <2>2, <2>4 DEF OthersStay
<1>9. CASE DelChild(t) \/ ShrinkLevel(t)
  BY <1>1, <1>9 DEF DelChild, ShrinkLevel, Goto, OthersStay, Deleting
<1> QED
  BY <1>2, <1>3, <1>4, <1>5, <1>6, <1>7, <1>8, <1>9 DEF Step

\* And it stays so.
LEMMA DeleteRunsKept ==
  ASSUME TypeOK, DeleteRuns, [Next]_vars
  PROVE  DeleteRuns' /\ work' \in Workload
<1>1. CASE UNCHANGED vars
  BY <1>1 DEF DeleteRuns, Op, vars, TypeOK
<1>2. ASSUME NEW t \in Thread, Call(t) \/ Step(t) PROVE DeleteRuns' /\ work' \in Workload
  <2>1. work' = work /\ work \in Workload
    <3>1. CASE Call(t)
      BY <3>1 DEF Call, lower, TypeOK
    <3>2. CASE Step(t)
      BY <3>2 DEF Step, lower, TypeOK, Return, Lookup, ReadPtr, Scan, ScanReturn,
         InsertFound, SetValue, InsertFind, FillSlot, SplitBuild, SplitPublish, InsertLeft,
         ReadLevel, InsertBnode, SplitBnode, GrowRoot, GrowSecondStore, UnlockOldRoot,
         UnlockNewRoot, DelMissing, DelFind, DelSlot, DelLeaf, DelChild, FreeBnode,
         ShrinkLevel, ShrinkRoot
    <3> QED
      BY <1>2, <3>1, <3>2
  <2>2. /\ OthersStay(t)
        /\ pc'[t] \in Deleting => loc'[t].n \in DOMAIN work.prog[t]
                                  /\ work.prog[t][loc'[t].n].op = "delete"
    <3>1. CASE Step(t)
      BY <3>1, DeleteStep DEF DeleteRuns, Op
    <3>2. CASE Call(t)
      <4>1. PICK i : i = loc[t].n + 1
        OBVIOUS
      <4>2. PICK local : local = [NoLocal EXCEPT !.n = i, !.key = work.prog[t][i].key]
        OBVIOUS
      <4>3. /\ pc' = [pc EXCEPT ![t] = work.prog[t][i].op]
            /\ loc' = [loc EXCEPT ![t] = local] /\ loc[t].n < Len(work.prog[t])
        BY <3>2, <4>1, <4>2 DEF Call, Goto
      <4>4. OthersStay(t) /\ pc'[t] = work.prog[t][i].op /\ loc'[t].n = i
        BY <4>2, <4>3 DEF TypeOK, OthersStay, NoLocal
      <4>5. i \in DOMAIN work.prog[t]
        <5>1. loc[t].n \in Nat
          BY DEF TypeOK, LocalOK
        <5>2. work.prog[t] \in Seq([op : OpKind, key : Key, len : Nat])
          BY <2>1, WorkloadOK
        <5> QED
          BY <4>1, <4>3, <5>1, <5>2
      <4>6. work.prog[t][i].op \in OpKind
        <5>1. work.prog[t] \in Seq([op : OpKind, key : Key, len : Nat])
          BY <2>1, WorkloadOK
        <5>2. PICK S, s : S = [op : OpKind, key : Key, len : Nat] /\ s = work.prog[t]
          OBVIOUS
        <5>3. s \in Seq(S) /\ i \in DOMAIN s
          BY <4>5, <5>1, <5>2
        <5>4. s[i] \in S
          BY <5>3
        <5>5. work.prog[t][i] \in [op : OpKind, key : Key, len : Nat]
          BY <5>2, <5>4
        <5> QED
          BY <5>5
      <4> QED
        BY <4>4, <4>5, <4>6 DEF OpKind, Deleting
    <3> QED
      BY <1>2, <3>1, <3>2
  <2>3. ASSUME NEW u \in Thread, pc'[u] \in Deleting
        PROVE  loc'[u].n \in DOMAIN work'.prog[u] /\ Op(u)'.op = "delete"
    <3>1. CASE u = t
      BY <2>1, <2>2, <2>3, <3>1 DEF Op
    <3>2. CASE u # t
      <4>1. pc[u] \in Deleting /\ loc'[u] = loc[u]
        BY <2>2, <2>3, <3>2 DEF OthersStay
      <4> QED
        BY <2>1, <4>1 DEF DeleteRuns, Op
    <3> QED
      BY <3>1, <3>2
  <2> QED
    BY <2>1, <2>3 DEF DeleteRuns
<1> QED
  BY <1>1, <1>2 DEF Next

\* Where one thread deletes, the invariant holds with no more assumed.
THEOREM LbOneDeletes ==
  ASSUME OneDeletes
  PROVE  Spec => [](LbInv /\ WritesOwnNodes /\ RootAgrees)
<1>1. Init => LbInv /\ DeleteRuns
  <2> SUFFICES ASSUME Init PROVE DeleteRuns
    BY LbInit
  <2>1. \A t \in Thread : pc[t] = "idle"
    BY DEF Init
  <2> QED
    BY <2>1 DEF DeleteRuns, Deleting
<1>2. LbInv /\ DeleteRuns /\ [Next]_vars => LbInv' /\ DeleteRuns'
  <2> SUFFICES ASSUME LbInv, DeleteRuns, [Next]_vars PROVE LbInv' /\ DeleteRuns'
    OBVIOUS
  <2>1. DeleteRuns' /\ work' \in Workload
    BY DeleteRunsKept DEF LbInv
  <2>2. ShrinksApart'
    BY <2>1, DeletesApart
  <2> QED
    BY <2>1, <2>2, LbStep
<1>3. LbInv => WritesOwnNodes /\ RootAgrees
  BY LbOwnNodes, LbRoot
<1> QED
  BY <1>1, <1>2, <1>3, PTL DEF Spec
=============================================================================
