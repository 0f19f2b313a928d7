------------------------- MODULE PageAllocatorProofs -------------------------
(***************************************************************************)
(* Inv is an invariant of PageAllocator, for any number of regions, pages, *)
(* lists and clients, as long as the pages of a memory model can be        *)
(* counted by the size field of a descriptor.                              *)
(*                                                                         *)
(* From below: what lib/group.cpp writes to the descriptors; what          *)
(* addGroup, removeGroup, splitGroup and joinGroup do to ListsInv; what    *)
(* the loops of init, allocate and release make of it, each for any number *)
(* of lists and of pages and any width of the size field; then the         *)
(* actions.                                                                *)
(***************************************************************************)
EXTENDS PageAllocatorInvariant, BasicFacts

-----------------------------------------------------------------------------
(* Sizes.                                                                  *)

Sizes(n) == [0..(n-1) -> 0..(SizeLimit - 1)]

LEMMA SizeLimitType == SizeLimit \in Nat /\ SizeLimit > 1
<1>1. GroupSizeBits \in 1..GroupSizeBits
  BY ListForEverySize
<1>2. 2^GroupSizeBits \in Nat \ {0, 1}
  BY <1>1, PowersOfTwo
<1> QED BY <1>2 DEF SizeLimit

\* A size that fits the bit-field is stored as it is.
LEMMA StoredExactly ==
    ASSUME NEW s \in 0..(SizeLimit - 1) PROVE s % SizeLimit = s
  BY SizeLimitType

\* Every size a descriptor can hold selects a free list.
LEMMA GroupIdxType ==
    ASSUME NEW s \in 1..(SizeLimit - 1) PROVE groupIdx(s) \in 0..(MaxGroupIdx - 1)
<1> DEFINE S == {k \in 1..GroupSizeBits : 2^k <= s}
<1>1. CASE s < 2
  BY <1>1, ListForEverySize DEF groupIdx
<1>2. CASE s >= 2
  <2>1. GroupSizeBits \in Nat /\ GroupSizeBits >= 2 /\ MaxGroupIdx = GroupSizeBits - 1
    BY ListForEverySize
  <2>2. 1 \in S
    BY <1>2, <2>1, PowersOfTwo
  <2>3. GroupSizeBits \notin S
    BY SizeLimitType DEF SizeLimit
  <2>4. S \subseteq 1..MaxGroupIdx
    BY <2>1, <2>3
  <2>5. IsFiniteSet(1..MaxGroupIdx) /\ Cardinality(1..MaxGroupIdx) = MaxGroupIdx
    BY <2>1, FS_Interval
  <2>6. IsFiniteSet(S) /\ Cardinality(S) <= MaxGroupIdx
    BY <2>4, <2>5, FS_Subset
  <2>7. Cardinality(S) \in Nat /\ Cardinality(S) # 0
    BY <2>2, <2>6, FS_CardinalityType, FS_EmptySet
  <2>8. groupIdx(s) = Cardinality(S) - 1
    BY <1>2 DEF groupIdx
  <2> HIDE DEF S
  <2> QED BY <2>1, <2>6, <2>7, <2>8
<1> QED BY <1>1, <1>2, SizeLimitType

\* A larger group is in no earlier list.
LEMMA GroupIdxMonotone ==
    ASSUME NEW a \in Nat, NEW b \in 1..(SizeLimit - 1), a <= b
    PROVE  groupIdx(a) <= groupIdx(b)
<1>1. b \in Nat
  BY SizeLimitType
<1>2. GroupSizeBits \in Nat /\ GroupSizeBits >= 2
  BY ListForEverySize
<1>3. CASE a < 2
  <2>1. groupIdx(a) = 0
    BY <1>3 DEF groupIdx
  <2>2. groupIdx(b) \in 0..(MaxGroupIdx - 1)
    BY GroupIdxType
  <2> QED BY <2>1, <2>2
<1>4. CASE a >= 2
  <2>1. PICK A : A = {k \in 1..GroupSizeBits : 2^k <= a} OBVIOUS
  <2>2. PICK B : B = {k \in 1..GroupSizeBits : 2^k <= b} OBVIOUS
  <2>3. \A k \in 1..GroupSizeBits : 2^k \in Nat
    BY PowersOfTwo
  <2>4. A \subseteq B
    <3>1. \A x \in Nat : x <= a => x <= b
      BY <1>1
    <3> QED BY <2>1, <2>2, <2>3, <3>1
  <2>5. IsFiniteSet(1..GroupSizeBits)
    BY <1>2, FS_Interval
  <2>6. IsFiniteSet(B) /\ IsFiniteSet(A) /\ Cardinality(A) <= Cardinality(B)
    BY <2>1, <2>2, <2>4, <2>5, FS_Subset
  <2>7. Cardinality(A) \in Nat /\ Cardinality(B) \in Nat
    BY <2>6, FS_CardinalityType
  <2>8. groupIdx(a) = Cardinality(A) - 1
    BY <1>4, <2>1 DEF groupIdx
  <2>9. groupIdx(b) = Cardinality(B) - 1
    <3>1. ~(b < 2)
      BY <1>1, <1>4
    <3> QED BY <2>2, <3>1 DEF groupIdx
  <2> QED BY <2>6, <2>7, <2>8, <2>9
<1> QED BY <1>3, <1>4

-----------------------------------------------------------------------------
(* group.cpp: which descriptors are written, and with what.                *)

LEMMA StoreTwice ==
    ASSUME NEW n \in Nat, NEW sizes \in Sizes(n), NEW a \in 0..(n-1),
           NEW b \in 0..(n-1), NEW s \in 0..(SizeLimit - 1)
    PROVE  setGroupSize(setGroupSize(sizes, a, s), b, s) =
              [p \in 0..(n-1) |-> IF p = a \/ p = b THEN s ELSE sizes[p]]
<1>1. s % SizeLimit = s
  BY StoredExactly
<1>2. setGroupSize(setGroupSize(sizes, a, s), b, s) =
        [[sizes EXCEPT ![a] = s] EXCEPT ![b] = s]
  BY <1>1 DEF setGroupSize
<1> QED BY <1>2 DEF Sizes

LEMMA InitGroupValue ==
    ASSUME NEW n \in Nat, NEW sizes \in Sizes(n), NEW g \in 0..(n-1),
           NEW s \in 1..(SizeLimit - 1), g + s <= n
    PROVE  initGroup(sizes, g, s) =
              [p \in 0..(n-1) |-> IF p = g \/ p = g + s - 1 THEN s ELSE sizes[p]]
<1>1. s \in 0..(SizeLimit - 1) /\ g + s - 1 \in 0..(n-1)
  BY SizeLimitType
<1> QED BY <1>1, StoreTwice DEF initGroup

LEMMA ClearGroupValue ==
    ASSUME NEW n \in Nat, NEW sizes \in Sizes(n), NEW g \in 0..(n-1),
           sizes[g] > 0, g + sizes[g] <= n
    PROVE  clearGroup(sizes, g) =
              [p \in 0..(n-1) |-> IF p = g \/ p = g + sizes[g] - 1 THEN 0
                                                                   ELSE sizes[p]]
<1>1. 0 \in 0..(SizeLimit - 1) /\ g + sizes[g] - 1 \in 0..(n-1)
  BY SizeLimitType DEF Sizes
<1> QED BY <1>1, StoreTwice DEF clearGroup

\* splitGroup writes the four ends of its two groups and nothing else.
LEMMA SplitGroupValue ==
    ASSUME NEW n \in Nat, NEW sizes \in Sizes(n), NEW g \in 0..(n-1),
           NEW s \in Nat \ {0}, s < sizes[g], g + sizes[g] <= n
    PROVE  splitGroup(sizes, g, s) =
              [p \in 0..(n-1) |->
                  IF p = g \/ p = g + s - 1 THEN s
                  ELSE IF p = g + s \/ p = g + sizes[g] - 1 THEN sizes[g] - s
                  ELSE sizes[p]]
<1> USE SizeLimitType
<1>a. PICK cleared : cleared = clearGroup(sizes, g) OBVIOUS
<1>b. PICK first : first = initGroup(cleared, g, s) OBVIOUS
<1>c. PICK rest : rest = sizes[g] - s OBVIOUS
<1>d. PICK second : second = g + s OBVIOUS
<1>1. /\ sizes[g] \in 1..(SizeLimit - 1)
      /\ s \in 1..(SizeLimit - 1)
      /\ rest \in 1..(SizeLimit - 1)
      /\ second \in 0..(n-1)
      /\ g + s <= n
      /\ second + rest <= n
  BY <1>c, <1>d, SMTT(30) DEF Sizes
<1>2. cleared = [p \in 0..(n-1) |-> IF p = g \/ p = g + sizes[g] - 1 THEN 0
                                                                     ELSE sizes[p]]
  BY <1>a, <1>1, ClearGroupValue
<1>3. cleared \in Sizes(n)
  BY <1>2 DEF Sizes
<1>4. first = [p \in 0..(n-1) |-> IF p = g \/ p = g + s - 1 THEN s ELSE cleared[p]]
  BY <1>b, <1>1, <1>3, InitGroupValue
<1>5. first \in Sizes(n)
  BY <1>1, <1>3, <1>4, SMTT(30) DEF Sizes
<1>6. initGroup(first, second, rest) =
        [p \in 0..(n-1) |-> IF p = second \/ p = second + rest - 1 THEN rest
                                                                   ELSE first[p]]
  BY <1>1, <1>5, InitGroupValue
<1>7. splitGroup(sizes, g, s) = initGroup(first, second, rest)
  BY <1>a, <1>b, <1>c, <1>d, <1>1 DEF splitGroup
<1>8. ASSUME NEW p \in 0..(n-1)
      PROVE  (IF p = second \/ p = second + rest - 1 THEN rest ELSE first[p]) =
             (IF p = g \/ p = g + s - 1 THEN s
              ELSE IF p = g + s \/ p = g + sizes[g] - 1 THEN sizes[g] - s
              ELSE sizes[p])
  <2>1. cleared[p] = IF p = g \/ p = g + sizes[g] - 1 THEN 0 ELSE sizes[p]
    BY <1>2
  <2>2. first[p] = IF p = g \/ p = g + s - 1 THEN s ELSE cleared[p]
    BY <1>4
  <2>3. sizes[g] \in Nat
    BY <1>1
  <2> QED BY <2>1, <2>2, <2>3, <1>c, <1>d
<1> QED BY <1>6, <1>7, <1>8

\* The group b starts behind the group a.
Touching(sizes, a, b) == b = a + sizes[a]

\* joinGroup writes the outer ends of its two groups, and clears the two ends
\* that meet.
LEMMA JoinGroupValue ==
    ASSUME NEW n \in Nat, NEW sizes \in Sizes(n),
           NEW a \in 0..(n-1), NEW b \in 0..(n-1),
           sizes[a] > 0, sizes[b] > 0, Touching(sizes, a, b), b + sizes[b] <= n,
           sizes[a] + sizes[b] < SizeLimit
    PROVE  joinGroup(sizes, a, b) =
              [p \in 0..(n-1) |->
                  IF p = a \/ p = b + sizes[b] - 1 THEN sizes[a] + sizes[b]
                  ELSE IF p = b - 1 \/ p = b THEN 0
                  ELSE sizes[p]]
<1> USE SizeLimitType
<1>0. b = a + sizes[a]
  BY DEF Touching
<1>a. PICK one : one = clearGroup(sizes, a) OBVIOUS
<1>b. PICK two : two = clearGroup(one, b) OBVIOUS
<1>c. PICK sum : sum = sizes[a] + sizes[b] OBVIOUS
<1>1. /\ sizes[a] \in 1..(SizeLimit - 1)
      /\ sizes[b] \in 1..(SizeLimit - 1)
      /\ sum \in 1..(SizeLimit - 1)
      /\ a + sum <= n
      /\ a + sizes[a] <= n
  BY <1>0, <1>c, SMTT(30) DEF Sizes
<1>2. one = [p \in 0..(n-1) |-> IF p = a \/ p = b - 1 THEN 0 ELSE sizes[p]]
  BY <1>0, <1>a, <1>1, ClearGroupValue, SMTT(30)
<1>3. one \in Sizes(n)
  BY <1>2 DEF Sizes
<1>4. one[b] = sizes[b]
  BY <1>0, <1>1, <1>2
<1>5. two = [p \in 0..(n-1) |-> IF p = b \/ p = b + sizes[b] - 1 THEN 0 ELSE one[p]]
  <2>1. one[b] > 0 /\ b + one[b] <= n
    BY <1>1, <1>4
  <2>2. two = [p \in 0..(n-1) |-> IF p = b \/ p = b + one[b] - 1 THEN 0 ELSE one[p]]
    BY <1>b, <1>3, <2>1, ClearGroupValue
  <2> QED BY <1>4, <2>2
<1>6. two \in Sizes(n)
  BY <1>3, <1>5 DEF Sizes
<1>7. initGroup(two, a, sum) =
        [p \in 0..(n-1) |-> IF p = a \/ p = a + sum - 1 THEN sum ELSE two[p]]
  BY <1>1, <1>6, InitGroupValue
<1>8. joinGroup(sizes, a, b) = initGroup(two, a, sum)
  BY <1>a, <1>b, <1>c DEF joinGroup
<1>9. ASSUME NEW p \in 0..(n-1)
      PROVE  (IF p = a \/ p = a + sum - 1 THEN sum ELSE two[p]) =
             (IF p = a \/ p = b + sizes[b] - 1 THEN sizes[a] + sizes[b]
              ELSE IF p = b - 1 \/ p = b THEN 0
              ELSE sizes[p])
  <2>1. one[p] = IF p = a \/ p = b - 1 THEN 0 ELSE sizes[p]
    BY <1>2
  <2>2. two[p] = IF p = b \/ p = b + sizes[b] - 1 THEN 0 ELSE one[p]
    BY <1>5
  <2>3. sizes[a] \in Nat /\ sizes[b] \in Nat
    BY <1>1
  <2> QED BY <1>0, <2>1, <2>2, <2>3, <1>c
<1> QED BY <1>7, <1>8, <1>9

-----------------------------------------------------------------------------
(* 'used' flags and the counter of free pages.                             *)

Unused(used, n) == {p \in 0..(n-1) : ~used[p]}

LEMMA UnusedFinite ==
    ASSUME NEW n \in Nat, NEW used
    PROVE  /\ IsFiniteSet(Unused(used, n))
           /\ Cardinality(Unused(used, n)) \in Nat
<1>1. IsFiniteSet(0..(n-1))
  BY FS_Interval
<1>2. Unused(used, n) \in SUBSET (0..(n-1))
  BY DEF Unused
<1>3. IsFiniteSet(Unused(used, n))
  BY <1>1, <1>2, FS_Subset
<1> QED BY <1>3, FS_CardinalityType

LEMMA GroupCardinality ==
    ASSUME NEW a \in Nat, NEW s \in Nat \ {0}
    PROVE  IsFiniteSet(a..(a + s - 1)) /\ Cardinality(a..(a + s - 1)) = s
<1>1. a \in Int /\ a + s - 1 \in Int /\ ~(a > a + s - 1)
  OBVIOUS
<1>2. /\ IsFiniteSet(a..(a + s - 1))
      /\ Cardinality(a..(a + s - 1)) = (a + s - 1) - a + 1
  BY <1>1, FS_Interval
<1> QED BY <1>2

\* Clearing the flags of used pages frees as many.
LEMMA CountFreed ==
    ASSUME NEW n \in Nat, NEW used \in [0..(n-1) -> BOOLEAN],
           NEW G \in SUBSET (0..(n-1)), \A p \in G : used[p]
    PROVE  Cardinality(Unused(setUsed(used, G, FALSE), n)) =
              Cardinality(Unused(used, n)) + Cardinality(G)
<1>1. IsFiniteSet(G)
  <2>1. IsFiniteSet(0..(n-1))
    BY FS_Interval
  <2> QED BY <2>1, FS_Subset
<1>2. Unused(setUsed(used, G, FALSE), n) = Unused(used, n) \cup G
  <2>1. \A p \in 0..(n-1) :
           setUsed(used, G, FALSE)[p] = IF p \in G THEN FALSE ELSE used[p]
    BY DEF setUsed
  <2> QED BY <2>1 DEF Unused
<1>3. Unused(used, n) \cap G = {}
  BY DEF Unused
<1> QED BY <1>1, <1>2, <1>3, UnusedFinite, DisjointUnion

\* Setting the flags of free pages takes as many.
LEMMA CountTaken ==
    ASSUME NEW n \in Nat, NEW used \in [0..(n-1) -> BOOLEAN],
           NEW G \in SUBSET (0..(n-1)), \A p \in G : ~used[p]
    PROVE  Cardinality(Unused(used, n)) =
              Cardinality(Unused(setUsed(used, G, TRUE), n)) + Cardinality(G)
<1>1. IsFiniteSet(G)
  <2>1. IsFiniteSet(0..(n-1))
    BY FS_Interval
  <2> QED BY <2>1, FS_Subset
<1>a. \A p \in 0..(n-1) :
         setUsed(used, G, TRUE)[p] = IF p \in G THEN TRUE ELSE used[p]
  BY DEF setUsed
<1>2. Unused(used, n) = Unused(setUsed(used, G, TRUE), n) \cup G
  BY <1>a DEF Unused
<1>3. Unused(setUsed(used, G, TRUE), n) \cap G = {}
  BY <1>a DEF Unused
<1> QED BY <1>1, <1>2, <1>3, UnusedFinite, DisjointUnion

-----------------------------------------------------------------------------
(* What ListsInv says of one group.                                        *)

LEMMA HeadFacts ==
    ASSUME NEW m, NEW out, NEW n, ListsInv(m, out, n)
    PROVE  /\ FreeGroups(m) \subseteq 0..(n-1)
           /\ Heads(m, out) \subseteq 0..(n-1)
           /\ FreeGroups(m) \cap out = {}
           /\ \A g \in Heads(m, out) :
                 /\ m.groupSize[g] \in 1..(SizeLimit - 1)
                 /\ g + m.groupSize[g] <= n
                 /\ m.groupSize[g + m.groupSize[g] - 1] = m.groupSize[g]
                 /\ groupIdx(m.groupSize[g]) \in ListIdx
<1> USE SizeLimitType
<1>1. \A i \in ListIdx : Range(m.lists[i]) \subseteq 0..(n-1)
  <2> SUFFICES ASSUME NEW i \in ListIdx PROVE Range(m.lists[i]) \subseteq 0..(n-1)
    OBVIOUS
  <2>1. m.lists[i] \in Seq(0..(n-1))
    BY DEF ListsInv, ListsTyped
  <2>2. PICK S : S = 0..(n-1) OBVIOUS
  <2>3. Range(m.lists[i]) \subseteq S
    BY <2>1, <2>2, SeqRange
  <2> QED BY <2>2, <2>3
<1>2. FreeGroups(m) \subseteq 0..(n-1)
  BY <1>1 DEF FreeGroups
<1>3. Heads(m, out) \subseteq 0..(n-1)
  BY <1>2 DEF Heads, ListsInv
<1>4. FreeGroups(m) \cap out = {}
  BY DEF FreeGroups, ListsInv, ListsMatchSizes
<1>5. ASSUME NEW g \in Heads(m, out)
      PROVE  /\ m.groupSize[g] \in 1..(SizeLimit - 1)
             /\ g + m.groupSize[g] <= n
             /\ m.groupSize[g + m.groupSize[g] - 1] = m.groupSize[g]
             /\ groupIdx(m.groupSize[g]) \in ListIdx
  <2>1. m.groupSize[g] \in 0..(SizeLimit - 1)
    BY <1>3 DEF ListsInv, ListsTyped
  <2>2. /\ m.groupSize[g] > 0
        /\ g + m.groupSize[g] <= n
        /\ m.groupSize[g + m.groupSize[g] - 1] = m.groupSize[g]
    BY DEF ListsInv, HeadersOk, GroupOk
  <2>3. m.groupSize[g] \in 1..(SizeLimit - 1)
    BY <2>1, <2>2
  <2> QED BY <2>2, <2>3, GroupIdxType DEF ListIdx
<1> QED BY <1>2, <1>3, <1>4, <1>5

\* No two groups share a page.
LEMMA OneGroupPerPage ==
    ASSUME NEW m, NEW out, NEW n, ListsInv(m, out, n),
           NEW g \in Heads(m, out), NEW h \in Heads(m, out),
           NEW p, p \in Group(m.groupSize, g), p \in Group(m.groupSize, h)
    PROVE  g = h
<1>1. /\ g \in Nat /\ h \in Nat
      /\ m.groupSize[g] \in Nat /\ m.groupSize[h] \in Nat
  <2>1. n \in Nat
    BY DEF ListsInv
  <2>2. /\ g \in 0..(n-1) /\ h \in 0..(n-1)
        /\ m.groupSize[g] \in 1..(SizeLimit - 1)
        /\ m.groupSize[h] \in 1..(SizeLimit - 1)
    BY HeadFacts
  <2> QED BY <2>1, <2>2, SizeLimitType
<1>2. /\ g < h => g + m.groupSize[g] <= h
      /\ h < g => h + m.groupSize[h] <= g
  BY DEF ListsInv, GroupsDisjoint
<1> QED BY <1>1, <1>2 DEF Group

\* A free group is in the list of its size and in no other.
LEMMA ListOfFreeGroup ==
    ASSUME NEW m, NEW out, NEW n, ListsInv(m, out, n), NEW g \in FreeGroups(m)
    PROVE  /\ g \in Range(m.lists[groupIdx(m.groupSize[g])])
           /\ \A i \in ListIdx : g \in Range(m.lists[i]) =>
                                    i = groupIdx(m.groupSize[g])
  BY DEF ListsInv, ListsMatchSizes, FreeGroups

\* The pages of a free group are free, those of the others are used.
LEMMA UsedOfGroup ==
    ASSUME NEW m, NEW out, NEW n, ListsInv(m, out, n),
           NEW g \in Heads(m, out), NEW p \in Group(m.groupSize, g)
    PROVE  /\ p \in 0..(n-1)
           /\ m.used[p] <=> g \in out
<1>1. p \in 0..(n-1)
  <2>1. n \in Nat
    BY DEF ListsInv
  <2>2. /\ g \in 0..(n-1)
        /\ m.groupSize[g] \in 1..(SizeLimit - 1)
        /\ g + m.groupSize[g] <= n
    BY HeadFacts
  <2> QED BY <2>1, <2>2, SizeLimitType DEF Group
<1>2. m.used[p] => g \in out
  <2> SUFFICES ASSUME m.used[p] PROVE g \in out
    OBVIOUS
  <2>1. PICK h \in out : p \in Group(m.groupSize, h)
    BY <1>1 DEF ListsInv, UsedMatches
  <2>2. h \in Heads(m, out)
    BY <2>1 DEF Heads
  <2>3. g = h
    BY <2>1, <2>2, OneGroupPerPage
  <2> QED BY <2>1, <2>3
<1>3. g \in out => m.used[p]
  BY <1>1 DEF ListsInv, UsedMatches
<1> QED BY <1>1, <1>2, <1>3

-----------------------------------------------------------------------------
(* addGroup and removeGroup.                                               *)

\* addGroup makes a group that was in no list free.
LEMMA AddGroupStep ==
    ASSUME NEW m, NEW out, NEW n, ListsInv(m, out, n), NEW g \in out
    PROVE  /\ ListsInv(addGroup(m, g), out \ {g}, n)
           /\ FreeGroups(addGroup(m, g)) = FreeGroups(m) \cup {g}
<1>1. PICK sz : sz = m.groupSize OBVIOUS
<1>2. PICK s : s = sz[g] OBVIOUS
<1>3. PICK idx : idx = groupIdx(s) OBVIOUS
<1>4. PICK m2 : m2 = addGroup(m, g) OBVIOUS
<1>5. /\ m2.groupSize = sz
      /\ m2.used = setUsed(m.used, g..(g + s - 1), FALSE)
      /\ m2.lists = [m.lists EXCEPT ![idx] = <<g>> \o @]
      /\ m2.freePagesCount = m.freePagesCount + s
  BY <1>1, <1>2, <1>3, <1>4 DEF addGroup, Group
<1>6. /\ n \in Nat /\ g \in 0..(n-1) /\ g \in Heads(m, out)
      /\ sz \in [0..(n-1) -> 0..(SizeLimit - 1)]
      /\ m.used \in [0..(n-1) -> BOOLEAN]
      /\ m.lists \in [ListIdx -> Seq(0..(n-1))]
      /\ m.freePagesCount \in Nat
  BY <1>1 DEF ListsInv, ListsTyped, Heads
<1>7. s \in Nat \ {0} /\ g + s <= n /\ idx \in ListIdx
  BY <1>1, <1>2, <1>3, <1>6, HeadFacts, SizeLimitType
<1>8. \A i \in ListIdx :
        /\ m2.lists[i] \in Seq(0..(n-1))
        /\ Range(m2.lists[i]) = IF i = idx THEN Range(m.lists[i]) \cup {g}
                                            ELSE Range(m.lists[i])
  <2> SUFFICES ASSUME NEW i \in ListIdx
               PROVE  /\ m2.lists[i] \in Seq(0..(n-1))
                      /\ Range(m2.lists[i]) =
                            IF i = idx THEN Range(m.lists[i]) \cup {g}
                                       ELSE Range(m.lists[i])
    OBVIOUS
  <2>1. m2.lists[i] = IF i = idx THEN <<g>> \o m.lists[i] ELSE m.lists[i]
    BY <1>5, <1>6, <1>7
  <2>2. PICK S : S = 0..(n-1) OBVIOUS
  <2>3. m.lists[i] \in Seq(S) /\ g \in S
    BY <1>6, <2>2
  <2>4. /\ <<g>> \o m.lists[i] \in Seq(S)
        /\ Range(<<g>> \o m.lists[i]) = Range(m.lists[i]) \cup {g}
    BY <2>3, ConsFacts
  <2> QED BY <2>1, <2>2, <2>3, <2>4
<1>9. FreeGroups(m2) = FreeGroups(m) \cup {g}
  BY <1>7, <1>8 DEF FreeGroups
<1>10. Heads(m2, out \ {g}) = Heads(m, out)
  BY <1>9 DEF Heads
<1>11. ListsTyped(m2, n)
  <2>1. m2.used \in [0..(n-1) -> BOOLEAN]
    BY <1>5, <1>6 DEF setUsed
  <2>2. m2.lists \in [ListIdx -> Seq(0..(n-1))]
    <3>1. m2.lists = [i \in ListIdx |-> m2.lists[i]]
      BY <1>5, <1>6
    <3> QED BY <1>8, <3>1
  <2>3. m2.freePagesCount \in Nat
    BY <1>5, <1>6, <1>7
  <2>4. m2.groupSize \in [0..(n-1) -> 0..(SizeLimit - 1)]
    BY <1>5, <1>6
  <2> QED BY <2>1, <2>2, <2>3, <2>4 DEF ListsTyped
<1>12. /\ HeadersOk(m2, out \ {g}, n)
       /\ GroupsDisjoint(m2, out \ {g})
       /\ GroupsCover(m2, out \ {g}, n)
       /\ InteriorClear(m2, out \ {g}, n)
  BY <1>1, <1>5, <1>10, ZenonT(40)
     DEF ListsInv, HeadersOk, GroupOk, GroupsDisjoint, GroupsCover, InteriorClear
<1>13. ListsMatchSizes(m2, out \ {g})
  <2> SUFFICES ASSUME NEW i \in ListIdx
               PROVE  /\ IsInjective(m2.lists[i])
                      /\ \A h \in Range(m2.lists[i]) :
                            groupIdx(m2.groupSize[h]) = i /\ h \notin out \ {g}
    BY DEF ListsMatchSizes
  <2>1. /\ IsInjective(m.lists[i])
        /\ \A h \in Range(m.lists[i]) : groupIdx(m.groupSize[h]) = i /\ h \notin out
    BY DEF ListsInv, ListsMatchSizes
  <2>2. \A h \in Range(m2.lists[i]) :
           groupIdx(m2.groupSize[h]) = i /\ h \notin out \ {g}
    <3> SUFFICES ASSUME NEW h \in Range(m2.lists[i])
                 PROVE  groupIdx(sz[h]) = i /\ h \notin out \ {g}
      BY <1>5
    <3>1. CASE h = g /\ i = idx
      BY <1>2, <1>3, <3>1
    <3>2. CASE h \in Range(m.lists[i])
      BY <1>1, <2>1, <3>2
    <3> QED BY <1>8, <3>1, <3>2
  <2>3. IsInjective(m2.lists[i])
    <3>1. CASE i # idx
      BY <1>5, <1>6, <2>1, <3>1
    <3>2. CASE i = idx
      <4>1. PICK l \in Seq(0..(n-1)) : l = m.lists[i]
        BY <1>6
      <4>2. PICK t : t = <<g>> \o l /\ t = m2.lists[i]
        BY <1>5, <1>6, <3>2, <4>1
      <4>3. /\ t \in Seq(0..(n-1)) /\ Len(t) = Len(l) + 1 /\ t[1] = g
            /\ \A k \in 1..Len(l) : t[k + 1] = l[k]
        BY <1>6, <4>1, <4>2, ConsFacts
      <4>4. IsInjective(l) /\ g \notin Range(l)
        BY <2>1, <4>1
      <4>5. ASSUME NEW j \in DOMAIN t, j # 1
            PROVE  j - 1 \in DOMAIN l /\ t[j] = l[j - 1]
        <5>1. j - 1 \in 1..Len(l) /\ (j - 1) + 1 = j
          BY <4>3, <4>5
        <5> QED BY <4>3, <5>1
      <4>6. ASSUME NEW j \in DOMAIN t, NEW k \in DOMAIN t, t[j] = t[k]
            PROVE  j = k
        <5>1. CASE j = 1 \/ k = 1
          BY <4>3, <4>4, <4>5, <4>6, <5>1 DEF Range
        <5>2. CASE j # 1 /\ k # 1
          <6>1. j - 1 = k - 1
            BY <4>4, <4>5, <4>6, <5>2 DEF IsInjective
          <6> QED BY <4>3, <6>1
        <5> QED BY <5>1, <5>2
      <4> QED BY <4>2, <4>6 DEF IsInjective
    <3> QED BY <3>1, <3>2
  <2> QED BY <2>2, <2>3
<1>14. \A p \in g..(g + s - 1) : m.used[p]
  BY <1>1, <1>2, <1>6, UsedOfGroup DEF Group
<1>15. UsedMatches(m2, out \ {g}, n)
  <2> SUFFICES ASSUME NEW p \in 0..(n-1)
               PROVE  m2.used[p] <=> \E h \in out \ {g} : p \in Group(sz, h)
    BY <1>5 DEF UsedMatches
  <2>1. m2.used[p] = IF p \in g..(g + s - 1) THEN FALSE ELSE m.used[p]
    BY <1>5, <1>6 DEF setUsed
  <2>2. m.used[p] <=> \E h \in out : p \in Group(sz, h)
    BY <1>1 DEF ListsInv, UsedMatches
  <2>3. ASSUME NEW h \in out \ {g}, p \in Group(sz, h)
        PROVE  p \notin Group(sz, g)
    BY <1>1, <1>6, <2>3, OneGroupPerPage DEF Heads
  <2>4. Group(sz, g) = g..(g + s - 1)
    BY <1>2 DEF Group
  <2> QED BY <2>1, <2>2, <2>3, <2>4
<1>16. CountMatches(m2, n)
  <2>1. m.freePagesCount = Cardinality(Unused(m.used, n))
    BY DEF ListsInv, CountMatches, Unused
  <2>2. PICK G \in SUBSET (0..(n-1)) : G = g..(g + s - 1)
    BY <1>6, <1>7
  <2>3. Cardinality(G) = s
    BY <1>6, <1>7, <2>2, GroupCardinality
  <2>4. m2.used = setUsed(m.used, G, FALSE) /\ \A p \in G : m.used[p]
    BY <1>5, <1>14, <2>2
  <2>5. Cardinality(Unused(m2.used, n)) =
          Cardinality(Unused(m.used, n)) + Cardinality(G)
    BY <1>6, <2>4, CountFreed
  <2> QED BY <1>5, <2>1, <2>3, <2>5 DEF CountMatches, Unused
<1>17. out \ {g} \subseteq 0..(n-1)
  BY DEF ListsInv
<1>18. ListsInv(m2, out \ {g}, n)
  BY <1>6, <1>11, <1>12, <1>13, <1>15, <1>16, <1>17 DEF ListsInv
<1> QED BY <1>4, <1>9, <1>18

\* removeGroup takes a free group out of its list, and of no other.
LEMMA RemoveGroupStep ==
    ASSUME NEW m, NEW out, NEW n, ListsInv(m, out, n), NEW g \in FreeGroups(m)
    PROVE  /\ ListsInv(removeGroup(m, g), out \cup {g}, n)
           /\ FreeGroups(removeGroup(m, g)) = FreeGroups(m) \ {g}
<1>1. PICK sz : sz = m.groupSize OBVIOUS
<1>2. PICK s : s = sz[g] OBVIOUS
<1>3. PICK idx : idx = groupIdx(s) OBVIOUS
<1>4. PICK m2 : m2 = removeGroup(m, g) OBVIOUS
<1>5. PICK k : k = position(m.lists[idx], g) OBVIOUS
<1>6. /\ m2.groupSize = sz
      /\ m2.used = setUsed(m.used, g..(g + s - 1), TRUE)
      /\ m2.lists = [m.lists EXCEPT ![idx] = RemoveAt(@, k)]
      /\ m2.freePagesCount = m.freePagesCount - s
  BY <1>1, <1>2, <1>3, <1>4, <1>5 DEF removeGroup, Group
<1>7. /\ n \in Nat /\ g \in Heads(m, out)
      /\ sz \in [0..(n-1) -> 0..(SizeLimit - 1)]
      /\ m.used \in [0..(n-1) -> BOOLEAN]
      /\ m.lists \in [ListIdx -> Seq(0..(n-1))]
      /\ m.freePagesCount \in Nat
  BY <1>1 DEF ListsInv, ListsTyped, Heads
<1>8. /\ g \in 0..(n-1) /\ g \notin out
      /\ s \in Nat \ {0} /\ g + s <= n /\ idx \in ListIdx
  BY <1>1, <1>2, <1>3, <1>7, HeadFacts, SizeLimitType
<1>9. k \in DOMAIN m.lists[idx] /\ m.lists[idx][k] = g
  <2>1. g \in Range(m.lists[idx])
    BY <1>1, <1>2, <1>3, ListOfFreeGroup
  <2>2. \E j \in DOMAIN m.lists[idx] : m.lists[idx][j] = g
    BY <2>1 DEF Range
  <2> QED BY <1>5, <2>2 DEF position
<1>10. \A i \in ListIdx :
         /\ IsInjective(m.lists[i])
         /\ \A h \in Range(m.lists[i]) :
               groupIdx(sz[h]) = i /\ h \notin out
  BY <1>1 DEF ListsInv, ListsMatchSizes
<1>11. ASSUME NEW i \in ListIdx
       PROVE  /\ m2.lists[i] \in Seq(0..(n-1))
              /\ Range(m2.lists[i]) = Range(m.lists[i]) \ {g}
              /\ IsInjective(m2.lists[i])
  <2>1. PICK S : S = 0..(n-1) OBVIOUS
  <2>2. m.lists[i] \in Seq(S) /\ IsInjective(m.lists[i])
    BY <1>7, <1>10, <2>1
  <2>3. CASE i = idx
    <3>1. m2.lists[i] = RemoveAt(m.lists[i], k)
      BY <1>6, <1>7, <2>3
    <3>2. k \in DOMAIN m.lists[i] /\ m.lists[i][k] = g
      BY <1>9, <2>3
    <3>3. /\ RemoveAt(m.lists[i], k) \in Seq(S)
          /\ Range(RemoveAt(m.lists[i], k)) = Range(m.lists[i]) \ {g}
          /\ IsInjective(RemoveAt(m.lists[i], k))
      BY <2>2, <3>2, RemoveAtFacts, RemoveAtRange
    <3> QED BY <2>1, <3>1, <3>3
  <2>4. CASE i # idx
    <3>1. m2.lists[i] = m.lists[i]
      BY <1>6, <1>7, <2>4
    <3>2. g \notin Range(m.lists[i])
      BY <1>1, <1>2, <1>3, <2>4, ListOfFreeGroup
    <3> QED BY <2>1, <2>2, <3>1, <3>2
  <2> QED BY <2>3, <2>4
<1>12. FreeGroups(m2) = FreeGroups(m) \ {g}
  <2>1. \A h : h \in FreeGroups(m2) <=> \E i \in ListIdx : h \in Range(m2.lists[i])
    BY DEF FreeGroups
  <2>2. \A h : h \in FreeGroups(m) <=> \E i \in ListIdx : h \in Range(m.lists[i])
    BY DEF FreeGroups
  <2>3. \A i \in ListIdx : Range(m2.lists[i]) = Range(m.lists[i]) \ {g}
    BY <1>11
  <2>4. \A h : h \in FreeGroups(m2) <=> h \in FreeGroups(m) /\ h # g
    BY <2>1, <2>2, <2>3
  <2> QED BY <2>4
<1>13. Heads(m2, out \cup {g}) = Heads(m, out)
  BY <1>12 DEF Heads
<1>14. CountMatches(m2, n) /\ m2.freePagesCount \in Nat
  <2>1. PICK G \in SUBSET (0..(n-1)) : G = g..(g + s - 1)
    BY <1>7, <1>8
  <2>2. Cardinality(G) = s
    BY <1>7, <1>8, <2>1, GroupCardinality
  <2>3. \A p \in G : ~m.used[p]
    BY <1>1, <1>2, <1>7, <1>8, <2>1, UsedOfGroup DEF Group
  <2>4. Cardinality(Unused(m.used, n)) =
          Cardinality(Unused(m2.used, n)) + Cardinality(G)
    <3>1. m2.used = setUsed(m.used, G, TRUE)
      BY <1>6, <2>1
    <3> QED BY <1>7, <2>3, <3>1, CountTaken
  <2>5. PICK c \in Nat : c = Cardinality(Unused(m2.used, n))
    BY <1>7, UnusedFinite
  <2>6. m.freePagesCount = Cardinality(Unused(m.used, n))
    BY DEF ListsInv, CountMatches, Unused
  <2>7. m2.freePagesCount = c
    <3>1. m.freePagesCount = c + s
      BY <2>2, <2>4, <2>5, <2>6
    <3>2. m2.freePagesCount = m.freePagesCount - s
      BY <1>6
    <3>3. c \in Nat /\ s \in Nat
      BY <1>8, <2>5
    <3> QED BY <3>1, <3>2, <3>3
  <2> QED BY <2>5, <2>7 DEF CountMatches, Unused
<1>15. ListsTyped(m2, n)
  <2>1. m2.used \in [0..(n-1) -> BOOLEAN]
    BY <1>6, <1>7 DEF setUsed
  <2>2. m2.lists \in [ListIdx -> Seq(0..(n-1))]
    <3>1. m2.lists = [i \in ListIdx |-> m2.lists[i]]
      BY <1>6, <1>7
    <3> QED BY <1>11, <3>1
  <2>3. m2.groupSize \in [0..(n-1) -> 0..(SizeLimit - 1)]
    BY <1>6, <1>7
  <2> QED BY <1>14, <2>1, <2>2, <2>3 DEF ListsTyped
<1>16. /\ HeadersOk(m2, out \cup {g}, n)
       /\ GroupsDisjoint(m2, out \cup {g})
       /\ GroupsCover(m2, out \cup {g}, n)
       /\ InteriorClear(m2, out \cup {g}, n)
  BY <1>1, <1>6, <1>13, ZenonT(40)
     DEF ListsInv, HeadersOk, GroupOk, GroupsDisjoint, GroupsCover, InteriorClear
<1>17. ListsMatchSizes(m2, out \cup {g})
  BY <1>6, <1>10, <1>11 DEF ListsMatchSizes
<1>18. UsedMatches(m2, out \cup {g}, n)
  <2> SUFFICES ASSUME NEW p \in 0..(n-1)
               PROVE  m2.used[p] <=> \E h \in out \cup {g} : p \in Group(sz, h)
    BY <1>6 DEF UsedMatches
  <2>1. m2.used[p] = IF p \in g..(g + s - 1) THEN TRUE ELSE m.used[p]
    BY <1>6, <1>7 DEF setUsed
  <2>2. m.used[p] <=> \E h \in out : p \in Group(sz, h)
    BY <1>1 DEF ListsInv, UsedMatches
  <2>3. Group(sz, g) = g..(g + s - 1)
    BY <1>2 DEF Group
  <2> QED BY <2>1, <2>2, <2>3
<1>19. out \cup {g} \subseteq 0..(n-1)
  BY <1>8 DEF ListsInv
<1>20. ListsInv(m2, out \cup {g}, n)
  BY <1>7, <1>14, <1>15, <1>16, <1>17, <1>18, <1>19 DEF ListsInv
<1> QED BY <1>4, <1>12, <1>20

-----------------------------------------------------------------------------
(* splitGroup and joinGroup.                                               *)

\* m2 is m with other group sizes.
Resized(m2, m, sizes) == m2 = withSizes(m, sizes)

\* Two groups that are in no list may exchange pages: the size changes leave
\* the free lists and the flags as they were.
LEMMA SizesOnly ==
    ASSUME NEW m, NEW sizes, NEW n, NEW out, NEW out2,
           ListsInv(m, out, n), sizes \in Sizes(n),
           out2 \subseteq 0..(n-1),
           FreeGroups(m) \cap out2 = {},
           \A g \in FreeGroups(m) : sizes[g] = m.groupSize[g],
           NEW m2, Resized(m2, m, sizes)
    PROVE  /\ FreeGroups(m2) = FreeGroups(m)
           /\ Heads(m2, out2) = FreeGroups(m) \cup out2
           /\ ListsTyped(m2, n)
           /\ CountMatches(m2, n)
           /\ ListsMatchSizes(m2, out2)
<1>2. /\ m2.groupSize = sizes
      /\ m2.used = m.used
      /\ m2.lists = m.lists
      /\ m2.freePagesCount = m.freePagesCount
  BY DEF Resized, withSizes
<1>3. FreeGroups(m2) = FreeGroups(m)
  BY <1>2 DEF FreeGroups
<1>4. ListsTyped(m2, n) /\ CountMatches(m2, n)
  BY <1>2 DEF ListsInv, ListsTyped, CountMatches, Sizes
<1>5. \A i \in ListIdx : Range(m.lists[i]) \subseteq FreeGroups(m)
  BY DEF FreeGroups
<1>6. ListsMatchSizes(m2, out2)
  <2>1. ASSUME NEW i \in ListIdx
        PROVE  /\ IsInjective(m2.lists[i])
               /\ \A g \in Range(m2.lists[i]) :
                     groupIdx(m2.groupSize[g]) = i /\ g \notin out2
    BY <1>2, <1>5 DEF ListsInv, ListsMatchSizes
  <2> QED BY <2>1 DEF ListsMatchSizes
<1> QED BY <1>3, <1>4, <1>6 DEF Heads

\* b is count more than a.
Behind(a, count, b) == b = a + count

\* m2 is m with the group g cut into two, the second of which is h.
WasSplit(m2, m, out, n, g, s, h) ==
    /\ ListsInv(m2, out \cup {h}, n)
    /\ FreeGroups(m2) = FreeGroups(m)
    /\ h \notin Heads(m, out)
    /\ m2.groupSize[g] = s
    /\ Behind(s, m2.groupSize[h], m.groupSize[g])
    /\ \A x \in Heads(m, out) : x # g => m2.groupSize[x] = m.groupSize[x]

\* splitGroup makes two groups of one, and the second starts behind the first.
LEMMA SplitGroupStep ==
    ASSUME NEW m, NEW out, NEW n, ListsInv(m, out, n), NEW g \in out,
           NEW s \in Nat \ {0}, s < m.groupSize[g],
           NEW h, Behind(g, s, h),
           NEW m2, Resized(m2, m, splitGroup(m.groupSize, g, s))
    PROVE  WasSplit(m2, m, out, n, g, s, h)
<1> USE SizeLimitType
<1>1. PICK sz : sz = m.groupSize OBVIOUS
<1>2. h = g + s
  BY DEF Behind
<1>3. PICK r : r = sz[g] - s OBVIOUS
<1>4. PICK e : e = g + sz[g] - 1 OBVIOUS
<1>5. PICK sz2 : sz2 = splitGroup(sz, g, s) OBVIOUS
<1>6. m2 = withSizes(m, sz2)
  BY <1>1, <1>5 DEF Resized
<1>7. /\ n \in Nat /\ g \in 0..(n-1) /\ g \in Heads(m, out)
      /\ sz \in Sizes(n)
  BY <1>1 DEF ListsInv, ListsTyped, Heads, Sizes
<1>8. /\ sz[g] \in 1..(SizeLimit - 1)
      /\ g + sz[g] <= n
  BY <1>1, <1>7, HeadFacts
<1>9. /\ r \in 1..(SizeLimit - 1) /\ s \in 1..(SizeLimit - 1)
      /\ h \in 0..(n-1) /\ e \in 0..(n-1)
      /\ g + s = h /\ h + r - 1 = e /\ h + r <= n /\ h <= e
      /\ g + s - 1 \in 0..(n-1)
      /\ g < h
  BY <1>1, <1>2, <1>3, <1>4, <1>7, <1>8
<1>10. sz2 = [p \in 0..(n-1) |->
                IF p = g \/ p = g + s - 1 THEN s
                ELSE IF p = g + s \/ p = g + sz[g] - 1 THEN sz[g] - s
                ELSE sz[p]]
  <2>1. /\ s < sz[g] /\ sz[g] > 0 /\ g + sz[g] <= n
        /\ n \in Nat /\ sz \in Sizes(n) /\ g \in 0..(n-1) /\ s \in Nat \ {0}
    BY <1>1, <1>7, <1>8
  <2>2. splitGroup(sz, g, s) =
          [p \in 0..(n-1) |->
                IF p = g \/ p = g + s - 1 THEN s
                ELSE IF p = g + s \/ p = g + sz[g] - 1 THEN sz[g] - s
                ELSE sz[p]]
    BY <2>1, SplitGroupValue
  <2> QED BY <1>5, <2>2
<1>11. ASSUME NEW p \in 0..(n-1)
       PROVE  sz2[p] = IF p = g \/ p = g + s - 1 THEN s
                       ELSE IF p = h \/ p = e THEN r ELSE sz[p]
  BY <1>2, <1>3, <1>4, <1>10
<1>12. sz2 \in Sizes(n)
  <2>1. \A p \in 0..(n-1) : sz[p] \in 0..(SizeLimit - 1)
    BY <1>7 DEF Sizes
  <2>2. \A p \in 0..(n-1) : sz2[p] \in 0..(SizeLimit - 1)
    BY <1>9, <1>11, <2>1
  <2> QED BY <1>10, <2>2 DEF Sizes
<1>13. /\ sz2[g] = s /\ sz2[g + s - 1] = s
       /\ sz2[h] = r /\ sz2[e] = r
  BY <1>7, <1>8, <1>9, <1>11
<1>14. h \notin Heads(m, out)
  <2>1. h \in Group(sz, g) /\ h # g
    BY <1>1, <1>3, <1>4, <1>7, <1>8, <1>9 DEF Group
  <2>2. ASSUME h \in Heads(m, out) PROVE FALSE
    <3>1. h \in Group(sz, h)
      <4>1. sz[h] \in 1..(SizeLimit - 1)
        BY <1>1, <2>2, HeadFacts
      <4> QED BY <1>9, <4>1 DEF Group
    <3> QED BY <1>1, <1>7, <2>1, <2>2, <3>1, OneGroupPerPage
  <2> QED BY <2>2
<1>15. ASSUME NEW x \in Heads(m, out), x # g
       PROVE  /\ x \in 0..(n-1) /\ sz[x] \in 1..(SizeLimit - 1)
              /\ x + sz[x] <= n /\ x + sz[x] - 1 \in 0..(n-1)
              /\ x + sz[x] <= g \/ e < x
              /\ sz2[x] = sz[x]
              /\ sz2[x + sz[x] - 1] = sz[x]
  <2>1. /\ x \in 0..(n-1) /\ sz[x] \in 1..(SizeLimit - 1)
        /\ x + sz[x] <= n /\ sz[x + sz[x] - 1] = sz[x]
    BY <1>1, HeadFacts
  <2>2. /\ x < g => x + sz[x] <= g
        /\ g < x => g + sz[g] <= x
    BY <1>1, <1>7 DEF ListsInv, GroupsDisjoint
  <2>3. x + sz[x] <= g \/ e < x
    BY <1>4, <1>7, <1>8, <1>15, <2>1, <2>2
  <2>4. x + sz[x] - 1 \in 0..(n-1)
    BY <1>7, <2>1
  <2>5. /\ x # g /\ x # g + s - 1 /\ x # h /\ x # e
        /\ x + sz[x] - 1 # g /\ x + sz[x] - 1 # g + s - 1
        /\ x + sz[x] - 1 # h /\ x + sz[x] - 1 # e
    BY <1>7, <1>8, <1>9, <2>1, <2>3
  <2> QED BY <1>11, <2>1, <2>3, <2>4, <2>5
<1>16. /\ FreeGroups(m2) = FreeGroups(m)
       /\ Heads(m2, out \cup {h}) = Heads(m, out) \cup {h}
       /\ ListsTyped(m2, n) /\ CountMatches(m2, n)
       /\ ListsMatchSizes(m2, out \cup {h})
  <2>1. out \cup {h} \subseteq 0..(n-1)
    BY <1>9 DEF ListsInv
  <2>2. FreeGroups(m) \cap out = {}
    BY HeadFacts
  <2>3. FreeGroups(m) \cap (out \cup {h}) = {}
    BY <1>14, <2>2 DEF Heads
  <2>4. \A x \in FreeGroups(m) : sz2[x] = m.groupSize[x]
    BY <1>1, <1>15, <2>2 DEF Heads
  <2>5. PICK out2 : out2 = out \cup {h} OBVIOUS
  <2>6. /\ FreeGroups(m2) = FreeGroups(m)
        /\ Heads(m2, out2) = FreeGroups(m) \cup out2
        /\ ListsTyped(m2, n) /\ CountMatches(m2, n)
        /\ ListsMatchSizes(m2, out2)
    <3>1. out2 \subseteq 0..(n-1) /\ FreeGroups(m) \cap out2 = {}
      BY <2>1, <2>3, <2>5
    <3>2. Resized(m2, m, sz2)
      BY <1>6 DEF Resized
    <3> QED BY <1>12, <2>4, <3>1, <3>2, SizesOnly
  <2> QED BY <2>5, <2>6 DEF Heads
<1>17. m2.groupSize = sz2 /\ m2.used = m.used
  BY <1>6 DEF withSizes
<1>18. HeadersOk(m2, out \cup {h}, n)
  <2> SUFFICES ASSUME NEW x \in Heads(m, out) \cup {h}
               PROVE  /\ sz2[x] > 0
                      /\ x + sz2[x] <= n
                      /\ sz2[x + sz2[x] - 1] = sz2[x]
    BY <1>16, <1>17 DEF HeadersOk, GroupOk
  <2>1. CASE x = h
    BY <1>9, <1>13, <2>1
  <2>2. CASE x = g
    BY <1>7, <1>8, <1>9, <1>13, <2>2
  <2>3. CASE x \in Heads(m, out) /\ x # g
    BY <1>15, <2>3
  <2> QED BY <2>1, <2>2, <2>3
<1>19. GroupsDisjoint(m2, out \cup {h})
  <2> SUFFICES ASSUME NEW x \in Heads(m, out) \cup {h},
                      NEW y \in Heads(m, out) \cup {h}, x < y
               PROVE  x + sz2[x] <= y
    BY <1>16, <1>17 DEF GroupsDisjoint
  <2>1. CASE x \in {g, h} /\ y \in {g, h}
    BY <1>7, <1>9, <1>13, <2>1
  <2>2. CASE x \in {g, h} /\ y \notin {g, h}
    BY <1>7, <1>8, <1>9, <1>13, <1>15, <2>2
  <2>3. CASE x \notin {g, h} /\ y \in {g, h}
    <3>1. x + sz[x] <= g \/ e < x
      BY <1>15, <2>3
    <3>2. g <= y /\ y <= e /\ y \in Nat
      BY <1>7, <1>9, <2>3
    <3>3. x \in 0..(n-1) /\ sz2[x] = sz[x] /\ sz[x] \in 1..(SizeLimit - 1)
      BY <1>15, <2>3
    <3> QED BY <1>7, <1>9, <3>1, <3>2, <3>3
  <2>4. CASE x \notin {g, h} /\ y \notin {g, h}
    <3>1. x + sz[x] <= y
      BY <1>1, <2>4 DEF ListsInv, GroupsDisjoint
    <3> QED BY <1>15, <2>4, <3>1
  <2> QED BY <2>1, <2>2, <2>3, <2>4
<1>20. \A p : p \in Group(sz, g) <=> p \in Group(sz2, g) \/ p \in Group(sz2, h)
  BY <1>4, <1>7, <1>8, <1>9, <1>13 DEF Group
<1>21. \A x \in Heads(m, out) : x # g => Group(sz2, x) = Group(sz, x)
  BY <1>15 DEF Group
<1>22. GroupsCover(m2, out \cup {h}, n)
  <2> SUFFICES ASSUME NEW p \in 0..(n-1)
               PROVE  \E x \in Heads(m, out) \cup {h} : p \in Group(sz2, x)
    BY <1>16, <1>17 DEF GroupsCover
  <2>1. PICK x \in Heads(m, out) : p \in Group(sz, x)
    BY <1>1 DEF ListsInv, GroupsCover
  <2> QED BY <1>7, <1>20, <1>21, <2>1
<1>23. UsedMatches(m2, out \cup {h}, n)
  <2> SUFFICES ASSUME NEW p \in 0..(n-1)
               PROVE  m.used[p] <=> \E x \in out \cup {h} : p \in Group(sz2, x)
    BY <1>17 DEF UsedMatches
  <2>1. m.used[p] <=> \E x \in out : p \in Group(sz, x)
    BY <1>1 DEF ListsInv, UsedMatches
  <2>2. out \subseteq Heads(m, out)
    BY DEF Heads
  <2> QED BY <1>20, <1>21, <2>1, <2>2
<1>24. InteriorClear(m2, out \cup {h}, n)
  <2> SUFFICES ASSUME NEW p \in 0..(n-1), sz2[p] # 0
               PROVE  \E x \in Heads(m, out) \cup {h} :
                         p = x \/ p = x + sz2[x] - 1
    BY <1>16, <1>17 DEF InteriorClear
  <2>1. CASE p \in {g, g + s - 1, h, e}
    BY <1>7, <1>9, <1>13, <2>1
  <2>2. CASE p \notin {g, g + s - 1, h, e}
    <3>1. sz[p] # 0
      BY <1>11, <2>2
    <3>2. PICK x \in Heads(m, out) : p = x \/ p = x + sz[x] - 1
      BY <1>1, <3>1 DEF ListsInv, InteriorClear
    <3>3. x # g
      BY <1>4, <2>2, <3>2
    <3> QED BY <1>15, <3>2, <3>3
  <2> QED BY <2>1, <2>2
<1>25. ListsInv(m2, out \cup {h}, n)
  <2>1. out \cup {h} \subseteq 0..(n-1)
    BY <1>9 DEF ListsInv
  <2> QED BY <1>7, <1>16, <1>18, <1>19, <1>22, <1>23, <1>24, <2>1 DEF ListsInv
<1>26. Behind(s, sz2[h], sz[g])
  BY <1>3, <1>8, <1>13 DEF Behind
<1> QED BY <1>1, <1>13, <1>14, <1>15, <1>16, <1>17, <1>25, <1>26 DEF WasSplit

\* joinGroup makes one group of two neighbours; the second is no group any
\* more.
LEMMA JoinGroupStep ==
    ASSUME NEW m, NEW out, NEW n, ListsInv(m, out, n),
           NEW a \in out, NEW b \in out, Touching(m.groupSize, a, b),
           m.groupSize[a] + m.groupSize[b] < SizeLimit,
           NEW m2, Resized(m2, m, joinGroup(m.groupSize, a, b))
    PROVE  /\ ListsInv(m2, out \ {b}, n)
           /\ m2.groupSize[a] = m.groupSize[a] + m.groupSize[b]
           /\ \A x \in Heads(m, out) : x # a /\ x # b =>
                 m2.groupSize[x] = m.groupSize[x]
<1> USE SizeLimitType
<1>1. PICK sz : sz = m.groupSize OBVIOUS
<1>2. PICK j : j = sz[a] + sz[b] OBVIOUS
<1>3. PICK e : e = b + sz[b] - 1 OBVIOUS
<1>4. PICK sz2 : sz2 = joinGroup(sz, a, b) OBVIOUS
<1>5. m2 = withSizes(m, sz2)
  BY <1>1, <1>4 DEF Resized
<1>6. /\ n \in Nat /\ a \in 0..(n-1) /\ b \in 0..(n-1)
      /\ a \in Heads(m, out) /\ b \in Heads(m, out)
      /\ sz \in Sizes(n)
  BY <1>1 DEF ListsInv, ListsTyped, Heads, Sizes
<1>7. /\ sz[a] \in 1..(SizeLimit - 1) /\ sz[b] \in 1..(SizeLimit - 1)
      /\ b + sz[b] <= n
      /\ b = a + sz[a] /\ sz[a] + sz[b] < SizeLimit
  BY <1>1, <1>6, HeadFacts DEF Touching
<1>8. /\ j \in 1..(SizeLimit - 1)
      /\ a + j = e + 1 /\ e \in 0..(n-1) /\ b - 1 \in 0..(n-1)
      /\ a <= b - 1 /\ b <= e
  BY <1>2, <1>3, <1>6, <1>7
<1>9. sz2 = [p \in 0..(n-1) |->
               IF p = a \/ p = b + sz[b] - 1 THEN sz[a] + sz[b]
               ELSE IF p = b - 1 \/ p = b THEN 0
               ELSE sz[p]]
  <2>1. /\ sz[a] > 0 /\ sz[b] > 0
        /\ Touching(sz, a, b) /\ b + sz[b] <= n /\ sz[a] + sz[b] < SizeLimit
    BY <1>1, <1>7
  <2>2. /\ n \in Nat /\ sz \in Sizes(n) /\ a \in 0..(n-1) /\ b \in 0..(n-1)
    BY <1>6
  <2>3. joinGroup(sz, a, b) =
          [p \in 0..(n-1) |->
               IF p = a \/ p = b + sz[b] - 1 THEN sz[a] + sz[b]
               ELSE IF p = b - 1 \/ p = b THEN 0
               ELSE sz[p]]
    BY <2>1, <2>2, JoinGroupValue
  <2> QED BY <1>4, <2>3
<1>10. ASSUME NEW p \in 0..(n-1)
       PROVE  sz2[p] = IF p = a \/ p = e THEN j
                       ELSE IF p = b - 1 \/ p = b THEN 0 ELSE sz[p]
  BY <1>2, <1>3, <1>9
<1>11. sz2 \in Sizes(n)
  <2>1. \A p \in 0..(n-1) : sz[p] \in 0..(SizeLimit - 1)
    BY <1>6 DEF Sizes
  <2>2. \A p \in 0..(n-1) : sz2[p] \in 0..(SizeLimit - 1)
    BY <1>8, <1>10, <2>1
  <2> QED BY <1>9, <2>2 DEF Sizes
<1>12. sz2[a] = j /\ sz2[e] = j
  BY <1>6, <1>8, <1>10
<1>13. ASSUME NEW x \in Heads(m, out), x # a, x # b
       PROVE  /\ x \in 0..(n-1) /\ sz[x] \in 1..(SizeLimit - 1)
              /\ x + sz[x] <= n /\ x + sz[x] - 1 \in 0..(n-1)
              /\ x + sz[x] <= a \/ e < x
              /\ sz2[x] = sz[x]
              /\ sz2[x + sz[x] - 1] = sz[x]
  <2>1. /\ x \in 0..(n-1) /\ sz[x] \in 1..(SizeLimit - 1)
        /\ x + sz[x] <= n /\ sz[x + sz[x] - 1] = sz[x]
    BY <1>1, HeadFacts
  <2>2. /\ x < a => x + sz[x] <= a
        /\ a < x => a + sz[a] <= x
        /\ b < x => b + sz[b] <= x
    BY <1>1, <1>6 DEF ListsInv, GroupsDisjoint
  <2>3. x + sz[x] <= a \/ e < x
    BY <1>3, <1>6, <1>7, <1>13, <2>1, <2>2
  <2>4. x + sz[x] - 1 \in 0..(n-1)
    BY <1>6, <2>1
  <2>5. /\ x # a /\ x # b - 1 /\ x # b /\ x # e
        /\ x + sz[x] - 1 # a /\ x + sz[x] - 1 # b - 1
        /\ x + sz[x] - 1 # b /\ x + sz[x] - 1 # e
    BY <1>6, <1>7, <1>8, <2>1, <2>3
  <2> QED BY <1>10, <2>1, <2>3, <2>4, <2>5
<1>14. a # b
  BY <1>6, <1>7
<1>15. /\ Heads(m2, out \ {b}) = Heads(m, out) \ {b}
       /\ ListsTyped(m2, n) /\ CountMatches(m2, n)
       /\ ListsMatchSizes(m2, out \ {b})
  <2>1. out \ {b} \subseteq 0..(n-1)
    BY DEF ListsInv
  <2>2. FreeGroups(m) \cap out = {}
    BY HeadFacts
  <2>3. \A x \in FreeGroups(m) : sz2[x] = m.groupSize[x]
    BY <1>1, <1>13, <2>2 DEF Heads
  <2>4. PICK out2 : out2 = out \ {b} OBVIOUS
  <2>5. FreeGroups(m) \cap out2 = {}
    BY <2>2, <2>4
  <2>6. /\ FreeGroups(m2) = FreeGroups(m)
        /\ Heads(m2, out2) = FreeGroups(m) \cup out2
        /\ ListsTyped(m2, n) /\ CountMatches(m2, n)
        /\ ListsMatchSizes(m2, out2)
    <3>1. out2 \subseteq 0..(n-1)
      BY <2>1, <2>4
    <3>2. Resized(m2, m, sz2)
      BY <1>5 DEF Resized
    <3> QED BY <1>11, <2>3, <2>5, <3>1, <3>2, SizesOnly
  <2>7. Heads(m, out) \ {b} = FreeGroups(m) \cup out2
    BY <2>2, <2>4 DEF Heads
  <2> QED BY <2>4, <2>6, <2>7
<1>16. m2.groupSize = sz2 /\ m2.used = m.used
  BY <1>5 DEF withSizes
<1>17. HeadersOk(m2, out \ {b}, n)
  <2> SUFFICES ASSUME NEW x \in Heads(m, out), x # b
               PROVE  /\ sz2[x] > 0
                      /\ x + sz2[x] <= n
                      /\ sz2[x + sz2[x] - 1] = sz2[x]
    BY <1>15, <1>16 DEF HeadersOk, GroupOk
  <2>1. CASE x = a
    <3>1. a + j - 1 = e /\ a + j <= n /\ j > 0
      BY <1>6, <1>8
    <3> QED BY <1>12, <2>1, <3>1
  <2>2. CASE x # a
    BY <1>13, <2>2
  <2> QED BY <2>1, <2>2
<1>18. GroupsDisjoint(m2, out \ {b})
  <2> SUFFICES ASSUME NEW x \in Heads(m, out), NEW y \in Heads(m, out),
                      x # b, y # b, x < y
               PROVE  x + sz2[x] <= y
    BY <1>15, <1>16 DEF GroupsDisjoint
  <2>1. x + sz[x] <= y
    BY <1>1 DEF ListsInv, GroupsDisjoint
  <2>2. CASE x # a
    BY <1>13, <2>1, <2>2
  <2>3. CASE x = a
    <3>1. /\ y + sz[y] <= a \/ e < y
          /\ y \in 0..(n-1) /\ sz[y] \in 1..(SizeLimit - 1)
      <4>1. y # a
        BY <1>6, <2>3
      <4> QED BY <1>13, <4>1
    <3> QED BY <1>6, <1>8, <1>12, <2>3, <3>1
  <2> QED BY <2>2, <2>3
<1>19. \A p : p \in Group(sz2, a) <=> p \in Group(sz, a) \/ p \in Group(sz, b)
  BY <1>3, <1>6, <1>7, <1>8, <1>12 DEF Group
<1>20. \A x \in Heads(m, out) : x # a /\ x # b => Group(sz2, x) = Group(sz, x)
  BY <1>13 DEF Group
<1>21. GroupsCover(m2, out \ {b}, n)
  <2> SUFFICES ASSUME NEW p \in 0..(n-1)
               PROVE  \E x \in Heads(m, out) \ {b} : p \in Group(sz2, x)
    BY <1>15, <1>16 DEF GroupsCover
  <2>1. PICK x \in Heads(m, out) : p \in Group(sz, x)
    BY <1>1 DEF ListsInv, GroupsCover
  <2> QED BY <1>6, <1>14, <1>19, <1>20, <2>1
<1>22. UsedMatches(m2, out \ {b}, n)
  <2> SUFFICES ASSUME NEW p \in 0..(n-1)
               PROVE  m.used[p] <=> \E x \in out \ {b} : p \in Group(sz2, x)
    BY <1>16 DEF UsedMatches
  <2>1. m.used[p] <=> \E x \in out : p \in Group(sz, x)
    BY <1>1 DEF ListsInv, UsedMatches
  <2>2. out \subseteq Heads(m, out)
    BY DEF Heads
  <2> QED BY <1>14, <1>19, <1>20, <2>1, <2>2
<1>23. InteriorClear(m2, out \ {b}, n)
  <2> SUFFICES ASSUME NEW p \in 0..(n-1), sz2[p] # 0
               PROVE  \E x \in Heads(m, out) \ {b} :
                         p = x \/ p = x + sz2[x] - 1
    BY <1>15, <1>16 DEF InteriorClear
  <2>1. CASE p \in {a, e}
    <3>1. e = a + sz2[a] - 1
      BY <1>6, <1>8, <1>12
    <3> QED BY <1>6, <1>14, <2>1, <3>1
  <2>2. CASE p \notin {a, e}
    <3>1. sz[p] # 0 /\ p # b - 1 /\ p # b
      BY <1>10, <2>2
    <3>2. PICK x \in Heads(m, out) : p = x \/ p = x + sz[x] - 1
      BY <1>1, <3>1 DEF ListsInv, InteriorClear
    <3>3. x # a
      BY <1>6, <1>7, <2>2, <3>1, <3>2
    <3>4. x # b
      BY <1>3, <2>2, <3>1, <3>2
    <3> QED BY <1>13, <3>2, <3>3, <3>4
  <2> QED BY <2>1, <2>2
<1>24. ListsInv(m2, out \ {b}, n)
  <2>1. out \ {b} \subseteq 0..(n-1)
    BY DEF ListsInv
  <2> QED BY <1>6, <1>15, <1>17, <1>18, <1>21, <1>22, <1>23, <2>1 DEF ListsInv
<1> QED BY <1>1, <1>2, <1>4, <1>5, <1>12, <1>13, <1>16, <1>24

-----------------------------------------------------------------------------
(* init                                                                    *)

\* The descriptors of one more region, as one group that is used.
extended(m, n, count) ==
    withUsed(writeRegion(m, n, count),
             [p \in 0..(n + count - 1) |-> IF p < n THEN m.used[p] ELSE TRUE])

\* w is m with those pages written as one group.
Written(w, m, n, count, t) ==
    /\ w.groupSize \in Sizes(t)
    /\ \A p \in 0..(t-1) :
          w.groupSize[p] = IF p = n \/ p = t - 1 THEN count
                           ELSE IF p < n THEN m.groupSize[p] ELSE 0
    /\ w.used = [p \in 0..(t-1) |-> IF p < n THEN m.used[p] ELSE FALSE]
    /\ w.lists = m.lists
    /\ w.freePagesCount = m.freePagesCount

LEMMA WriteRegionValue ==
    ASSUME NEW m, NEW out, NEW n, ListsInv(m, out, n),
           NEW count \in 1..(SizeLimit - 1),
           NEW t \in Nat, Behind(n, count, t)
    PROVE  Written(writeRegion(m, n, count), m, n, count, t)
<1> USE SizeLimitType
<1>1. n \in Nat /\ m.groupSize \in [0..(n-1) -> 0..(SizeLimit - 1)]
  BY DEF ListsInv, ListsTyped
<1>2. PICK D : D = 0..(t-1) /\ D = 0..(n + count - 1)
  BY <1>1 DEF Behind
<1>3. PICK sz : sz = [p \in D |-> IF p < n THEN m.groupSize[p] ELSE 0]
  OBVIOUS
<1>4. PICK used : used = [p \in D |-> IF p < n THEN m.used[p] ELSE FALSE]
  OBVIOUS
<1>5. t \in Nat /\ n \in 0..(t-1) /\ n \in D /\ n + count <= t /\ n + count - 1 = t - 1
  BY <1>1, <1>2 DEF Behind
<1>6. sz \in Sizes(t)
  <2>1. \A p \in D : sz[p] \in 0..(SizeLimit - 1)
    BY <1>1, <1>2, <1>3, <1>5
  <2>2. sz \in [D -> 0..(SizeLimit - 1)]
    BY <1>3, <2>1
  <2> QED BY <1>2, <2>2 DEF Sizes
<1>7. PICK sz2 : sz2 = initGroup(sz, n, count) OBVIOUS
<1>8. sz2 = [p \in 0..(t-1) |-> IF p = n \/ p = n + count - 1 THEN count ELSE sz[p]]
  BY <1>2, <1>5, <1>6, <1>7, InitGroupValue
<1>9. \A p \in D :
         sz2[p] = IF p = n \/ p = t - 1 THEN count
                  ELSE IF p < n THEN m.groupSize[p] ELSE 0
  BY <1>2, <1>3, <1>5, <1>8
<1>10. sz2 \in Sizes(t)
  <2>1. \A p \in D : sz[p] \in 0..(SizeLimit - 1)
    BY <1>2, <1>6 DEF Sizes
  <2>2. \A p \in D : sz2[p] \in 0..(SizeLimit - 1)
    BY <1>2, <1>8, <2>1
  <2> QED BY <1>2, <1>8, <2>2 DEF Sizes
<1>11. initPages(m, n, count) =
         [groupSize |-> sz, used |-> used, lists |-> m.lists,
          freePagesCount |-> m.freePagesCount]
  BY <1>2, <1>3, <1>4 DEF initPages
<1>12. writeRegion(m, n, count) =
         [groupSize |-> sz2, used |-> used, lists |-> m.lists,
          freePagesCount |-> m.freePagesCount]
  BY <1>7, <1>11 DEF writeRegion, withSizes
<1> QED BY <1>2, <1>4, <1>9, <1>10, <1>12 DEF Written

\* after is m with one more group n, which is in no list.
WasExtended(after, m, out, n, count, t) ==
    /\ ListsInv(after, out \cup {n}, t)
    /\ FreeGroups(after) = FreeGroups(m)
    /\ n \notin Heads(m, out)
    /\ after.groupSize[n] = count
    /\ \A g \in Heads(m, out) : after.groupSize[g] = m.groupSize[g]

LEMMA ExtendStep ==
    ASSUME NEW m, NEW out, NEW n, ListsInv(m, out, n),
           NEW count \in 1..(SizeLimit - 1),
           NEW t \in Nat, Behind(n, count, t)
    PROVE  WasExtended(extended(m, n, count), m, out, n, count, t)
<1> USE SizeLimitType
<1>1. t = n + count
  BY DEF Behind
<1>2. PICK m2 : m2 = extended(m, n, count) OBVIOUS
<1>3. PICK sz : sz = m.groupSize OBVIOUS
<1>4. PICK sz2 : sz2 = m2.groupSize OBVIOUS
<1>5. /\ n \in Nat /\ t \in Nat /\ n < t /\ n \in 0..(t-1) /\ t-1 \in 0..(t-1)
      /\ count = t - n
      /\ 0..(n-1) \subseteq 0..(t-1)
  BY <1>1 DEF ListsInv
<1>6. /\ sz \in [0..(n-1) -> 0..(SizeLimit - 1)]
      /\ m.used \in [0..(n-1) -> BOOLEAN]
      /\ m.lists \in [ListIdx -> Seq(0..(n-1))]
      /\ m.freePagesCount \in Nat
      /\ out \subseteq 0..(n-1)
  BY <1>3 DEF ListsInv, ListsTyped
<1>7. /\ sz2 \in Sizes(t)
      /\ \A p \in 0..(t-1) :
            sz2[p] = IF p = n \/ p = t - 1 THEN count
                     ELSE IF p < n THEN sz[p] ELSE 0
      /\ m2.used = [p \in 0..(t-1) |-> IF p < n THEN m.used[p] ELSE TRUE]
      /\ m2.lists = m.lists
      /\ m2.freePagesCount = m.freePagesCount
  <2>1. PICK D : D = 0..(t-1) /\ D = 0..(n + count - 1)
    BY <1>1, <1>5
  <2>2. PICK used : used = [p \in D |-> IF p < n THEN m.used[p] ELSE TRUE]
    OBVIOUS
  <2>3. PICK w : w = writeRegion(m, n, count) OBVIOUS
  <2>4. m2 = [groupSize |-> w.groupSize, used |-> used, lists |-> w.lists,
              freePagesCount |-> w.freePagesCount]
    BY <1>2, <2>1, <2>2, <2>3 DEF extended, withUsed
  <2>5. /\ w.groupSize \in Sizes(t)
        /\ \A p \in 0..(t-1) :
              w.groupSize[p] = IF p = n \/ p = t - 1 THEN count
                               ELSE IF p < n THEN m.groupSize[p] ELSE 0
        /\ w.lists = m.lists
        /\ w.freePagesCount = m.freePagesCount
    <3>1. Behind(n, count, t)
      BY <1>1 DEF Behind
    <3>2. Written(w, m, n, count, t)
      BY <1>5, <2>3, <3>1, WriteRegionValue
    <3> QED BY <1>3, <3>2 DEF Written
  <2> QED BY <1>3, <1>4, <2>1, <2>2, <2>4, <2>5
<1>8. FreeGroups(m2) = FreeGroups(m)
  BY <1>7 DEF FreeGroups
<1>9. Heads(m2, out \cup {n}) = Heads(m, out) \cup {n}
  BY <1>8 DEF Heads
<1>10. Heads(m, out) \subseteq 0..(n-1)
  BY HeadFacts
<1>11. n \notin Heads(m, out)
  BY <1>5, <1>10
<1>12. sz2[n] = count /\ sz2[t-1] = count
  BY <1>5, <1>7
<1>13. \A p \in 0..(n-1) : sz2[p] = sz[p] /\ (m2.used[p] <=> m.used[p])
  BY <1>5, <1>7
<1>14. \A g \in Heads(m, out) :
          /\ sz2[g] = sz[g] /\ sz[g] \in 1..(SizeLimit - 1)
          /\ g \in 0..(n-1) /\ g + sz[g] <= n
          /\ sz2[g + sz[g] - 1] = sz[g]
          /\ Group(sz2, g) = Group(sz, g)
  <2> SUFFICES ASSUME NEW g \in Heads(m, out)
               PROVE  /\ sz2[g] = sz[g] /\ sz[g] \in 1..(SizeLimit - 1)
                      /\ g \in 0..(n-1) /\ g + sz[g] <= n
                      /\ sz2[g + sz[g] - 1] = sz[g]
                      /\ Group(sz2, g) = Group(sz, g)
    OBVIOUS
  <2>1. /\ g \in 0..(n-1) /\ sz[g] \in 1..(SizeLimit - 1)
        /\ g + sz[g] <= n /\ sz[g + sz[g] - 1] = sz[g]
    BY <1>3, HeadFacts
  <2>2. g + sz[g] - 1 \in 0..(n-1)
    BY <1>5, <2>1
  <2> QED BY <1>13, <2>1, <2>2 DEF Group
<1>15. Group(sz2, n) = n..(t-1)
  BY <1>5, <1>12 DEF Group
<1>16. ListsTyped(m2, t)
  <2>1. sz2 \in [0..(t-1) -> 0..(SizeLimit - 1)]
    BY <1>7 DEF Sizes
  <2>2. m2.used \in [0..(t-1) -> BOOLEAN]
    <3>1. \A p \in 0..(t-1) : (IF p < n THEN m.used[p] ELSE TRUE) \in BOOLEAN
      <4>1. \A p \in 0..(t-1) : p < n => p \in 0..(n-1)
        BY <1>5
      <4>2. \A p \in 0..(n-1) : m.used[p] \in BOOLEAN
        BY <1>6
      <4> QED BY <4>1, <4>2
    <3> QED BY <1>7, <3>1
  <2>3. m2.lists \in [ListIdx -> Seq(0..(t-1))]
    <3>1. \A i \in ListIdx : m.lists[i] \in Seq(0..(t-1))
      BY <1>5, <1>6, SeqMonotonic
    <3> QED BY <1>6, <1>7, <3>1
  <2> QED BY <1>4, <1>6, <1>7, <2>1, <2>2, <2>3 DEF ListsTyped
<1>17. HeadersOk(m2, out \cup {n}, t)
  <2> SUFFICES ASSUME NEW g \in Heads(m, out) \cup {n}
               PROVE  /\ sz2[g] > 0
                      /\ g + sz2[g] <= t
                      /\ sz2[g + sz2[g] - 1] = sz2[g]
    BY <1>4, <1>9 DEF HeadersOk, GroupOk
  <2>1. CASE g = n
    <3>1. n + count - 1 = t - 1 /\ count > 0 /\ n + count <= t
      BY <1>5
    <3> QED BY <1>12, <2>1, <3>1
  <2>2. CASE g \in Heads(m, out)
    BY <1>5, <1>14, <2>2
  <2> QED BY <2>1, <2>2
<1>18. GroupsDisjoint(m2, out \cup {n})
  <2> SUFFICES ASSUME NEW g \in Heads(m, out) \cup {n},
                      NEW h \in Heads(m, out) \cup {n}, g < h
               PROVE  g + sz2[g] <= h
    BY <1>4, <1>9 DEF GroupsDisjoint
  <2>1. g # n
    BY <1>5, <1>10
  <2>2. g \in Heads(m, out) /\ sz2[g] = sz[g] /\ g + sz[g] <= n
    BY <1>14, <2>1
  <2>3. CASE h = n
    BY <2>2, <2>3
  <2>4. CASE h # n
    BY <1>3, <2>2, <2>4 DEF ListsInv, GroupsDisjoint
  <2> QED BY <2>3, <2>4
<1>19. GroupsCover(m2, out \cup {n}, t)
  <2> SUFFICES ASSUME NEW p \in 0..(t-1)
               PROVE  \E g \in Heads(m, out) \cup {n} : p \in Group(sz2, g)
    BY <1>4, <1>9 DEF GroupsCover
  <2>1. CASE p \in 0..(n-1)
    <3>1. PICK g \in Heads(m, out) : p \in Group(sz, g)
      BY <1>3, <2>1 DEF ListsInv, GroupsCover
    <3> QED BY <1>14, <3>1
  <2>2. CASE p \notin 0..(n-1)
    BY <1>5, <1>15, <2>2
  <2> QED BY <2>1, <2>2
<1>20. ListsMatchSizes(m2, out \cup {n})
  <2> SUFFICES ASSUME NEW i \in ListIdx
               PROVE  /\ IsInjective(m.lists[i])
                      /\ \A g \in Range(m.lists[i]) :
                            groupIdx(sz2[g]) = i /\ g \notin out \cup {n}
    BY <1>4, <1>7 DEF ListsMatchSizes
  <2>1. /\ IsInjective(m.lists[i])
        /\ \A g \in Range(m.lists[i]) : groupIdx(sz[g]) = i /\ g \notin out
    BY <1>3 DEF ListsInv, ListsMatchSizes
  <2>2. Range(m.lists[i]) \subseteq Heads(m, out)
    BY DEF Heads, FreeGroups
  <2> QED BY <1>11, <1>14, <2>1, <2>2
<1>21. UsedMatches(m2, out \cup {n}, t)
  <2> SUFFICES ASSUME NEW p \in 0..(t-1)
               PROVE  m2.used[p] <=> \E g \in out \cup {n} : p \in Group(sz2, g)
    BY <1>4 DEF UsedMatches
  <2>1. out \subseteq Heads(m, out)
    BY DEF Heads
  <2>2. CASE p \in 0..(n-1)
    <3>1. m.used[p] <=> \E g \in out : p \in Group(sz, g)
      BY <1>3, <2>2 DEF ListsInv, UsedMatches
    <3>2. p \notin Group(sz2, n)
      BY <1>5, <1>15, <2>2
    <3> QED BY <1>13, <1>14, <2>1, <2>2, <3>1, <3>2
  <2>3. CASE p \notin 0..(n-1)
    <3>1. m2.used[p] /\ p \in Group(sz2, n)
      BY <1>5, <1>7, <1>15, <2>3
    <3> QED BY <3>1
  <2> QED BY <2>2, <2>3
<1>22. CountMatches(m2, t)
  <2>1. {p \in 0..(t-1) : ~m2.used[p]} = {p \in 0..(n-1) : ~m.used[p]}
    <3>1. \A p \in 0..(t-1) : ~m2.used[p] => p \in 0..(n-1)
      BY <1>5, <1>7
    <3> QED BY <1>5, <1>13, <3>1
  <2> QED BY <1>7, <2>1 DEF ListsInv, CountMatches
<1>23. InteriorClear(m2, out \cup {n}, t)
  <2> SUFFICES ASSUME NEW p \in 0..(t-1), sz2[p] # 0
               PROVE  \E g \in Heads(m, out) \cup {n} :
                         p = g \/ p = g + sz2[g] - 1
    BY <1>4, <1>9 DEF InteriorClear
  <2>1. CASE p \in 0..(n-1)
    <3>1. sz[p] # 0
      BY <1>13, <2>1
    <3>2. PICK g \in Heads(m, out) : p = g \/ p = g + sz[g] - 1
      BY <1>3, <2>1, <3>1 DEF ListsInv, InteriorClear
    <3> QED BY <1>14, <3>2
  <2>2. CASE p \notin 0..(n-1)
    <3>1. p = n \/ p = t - 1
      BY <1>5, <1>7, <2>2
    <3>2. n + sz2[n] - 1 = t - 1
      BY <1>5, <1>12
    <3> QED BY <3>1, <3>2
  <2> QED BY <2>1, <2>2
<1>24. out \cup {n} \subseteq 0..(t-1)
  BY <1>5, <1>6
<1>25. ListsInv(m2, out \cup {n}, t)
  BY <1>5, <1>16, <1>17, <1>18, <1>19, <1>20, <1>21, <1>22, <1>23, <1>24
     DEF ListsInv
<1> QED BY <1>1, <1>2, <1>3, <1>4, <1>8, <1>11, <1>12, <1>14, <1>25 DEF WasExtended

\* after is m with one more group n, which is free.
WasFreed(after, m, out, n, t) ==
    /\ ListsInv(after, out, t)
    /\ FreeGroups(after) = FreeGroups(m) \cup {n}
    /\ \A x \in out : after.groupSize[x] = m.groupSize[x]

\* A region without descriptors: all of it becomes free.
LEMMA FreeRegionStep ==
    ASSUME NEW m, NEW out, NEW n, ListsInv(m, out, n),
           NEW count \in 1..(SizeLimit - 1),
           NEW t \in Nat, Behind(n, count, t)
    PROVE  WasFreed(addGroup(writeRegion(m, n, count), n), m, out, n, t)
<1> USE SizeLimitType
<1>1. PICK w : w = writeRegion(m, n, count) OBVIOUS
<1>2. PICK m2 : m2 = extended(m, n, count) OBVIOUS
<1>3. Written(w, m, n, count, t)
  BY <1>1, WriteRegionValue
<1>4. n \in Nat /\ t = n + count /\ n \in 0..(t-1)
  BY DEF ListsInv, Behind
<1>5. PICK D : D = 0..(t-1) /\ D = 0..(n + count - 1)
  BY <1>4
<1>6. PICK all : all = [p \in D |-> IF p < n THEN m.used[p] ELSE TRUE] OBVIOUS
<1>7. m2 = [groupSize |-> w.groupSize, used |-> all, lists |-> w.lists,
            freePagesCount |-> w.freePagesCount]
  BY <1>1, <1>2, <1>5, <1>6 DEF extended, withUsed
<1>8. /\ ListsInv(m2, out \cup {n}, t) /\ n \notin Heads(m, out)
      /\ FreeGroups(m2) = FreeGroups(m)
      /\ \A g \in Heads(m, out) : m2.groupSize[g] = m.groupSize[g]
  <2>1. WasExtended(m2, m, out, n, count, t)
    BY <1>2, ExtendStep
  <2> QED BY <2>1 DEF WasExtended
<1>9. w.groupSize[n] = count
  BY <1>3, <1>4 DEF Written
<1>10. PICK G : G = Group(w.groupSize, n) OBVIOUS
<1>11. \A p \in D : p \notin G => p < n
  BY <1>4, <1>5, <1>9, <1>10 DEF Group
<1>12. setUsed(w.used, G, FALSE) = setUsed(all, G, FALSE)
  <2>1. /\ DOMAIN w.used = D
        /\ \A p \in D : w.used[p] = IF p < n THEN m.used[p] ELSE FALSE
    BY <1>3, <1>5 DEF Written
  <2>2. /\ DOMAIN all = D
        /\ \A p \in D : all[p] = IF p < n THEN m.used[p] ELSE TRUE
    BY <1>6
  <2>3. \A p \in D : (IF p \in G THEN FALSE ELSE w.used[p]) =
                     (IF p \in G THEN FALSE ELSE all[p])
    BY <1>11, <2>1, <2>2
  <2> QED BY <2>1, <2>2, <2>3 DEF setUsed
<1>13. addGroup(w, n) = addGroup(m2, n)
  <2>1. /\ m2.groupSize = w.groupSize /\ m2.used = all
        /\ m2.lists = w.lists /\ m2.freePagesCount = w.freePagesCount
    BY <1>7
  <2> QED BY <1>10, <1>12, <2>1, Zenon DEF addGroup
<1>14. /\ ListsInv(addGroup(m2, n), (out \cup {n}) \ {n}, t)
       /\ FreeGroups(addGroup(m2, n)) = FreeGroups(m2) \cup {n}
  BY <1>8, AddGroupStep
<1>15. (out \cup {n}) \ {n} = out
  BY <1>8 DEF Heads
<1>16. \A x \in out : addGroup(m2, n).groupSize[x] = m.groupSize[x]
  BY <1>8 DEF addGroup, Heads
<1> QED BY <1>1, <1>8, <1>13, <1>14, <1>15, <1>16 DEF WasFreed

\* after is m with one more group n, of a size of its own, and perhaps a free
\* group behind it.
WasReserved(after, m, out, n, reserved, t) ==
    /\ ListsInv(after, out \cup {n}, t)
    /\ FreeGroups(m) \subseteq FreeGroups(after)
    /\ FreeGroups(after) \subseteq FreeGroups(m) \cup {n + reserved}
    /\ after.groupSize[n] = reserved
    /\ \A x \in out : after.groupSize[x] = m.groupSize[x]

\* The region with the descriptors: its first pages stay used.
LEMMA DescRegionStep ==
    ASSUME NEW m, NEW out, NEW n, ListsInv(m, out, n),
           NEW count \in 1..(SizeLimit - 1), NEW reserved \in 1..count,
           NEW t \in Nat, Behind(n, count, t)
    PROVE  WasReserved(withDescRegion(m, n, count, reserved), m, out, n, reserved, t)
<1> USE SizeLimitType
<1>1. PICK w : w = writeRegion(m, n, count) OBVIOUS
<1>2. PICK m2 : m2 = extended(m, n, count) OBVIOUS
<1>3. Written(w, m, n, count, t)
  BY <1>1, WriteRegionValue
<1>4. n \in Nat /\ t = n + count /\ n \in 0..(t-1) /\ reserved \in Nat \ {0}
  BY DEF ListsInv, Behind
<1>5. PICK D : D = 0..(t-1) /\ D = 0..(n + count - 1)
  BY <1>4
<1>6. PICK all : all = [p \in D |-> IF p < n THEN m.used[p] ELSE TRUE] OBVIOUS
<1>7. m2 = [groupSize |-> w.groupSize, used |-> all, lists |-> w.lists,
            freePagesCount |-> w.freePagesCount]
  BY <1>1, <1>2, <1>5, <1>6 DEF extended, withUsed
<1>8. /\ ListsInv(m2, out \cup {n}, t) /\ n \notin Heads(m, out)
      /\ FreeGroups(m2) = FreeGroups(m)
      /\ \A g \in Heads(m, out) : m2.groupSize[g] = m.groupSize[g]
  <2>1. WasExtended(m2, m, out, n, count, t)
    BY <1>2, ExtendStep
  <2> QED BY <2>1 DEF WasExtended
<1>9. w.groupSize[n] = count
  BY <1>3, <1>4 DEF Written
<1>10. PICK R : R = n..(n + reserved - 1) OBVIOUS
<1>11. PICK some : some = setUsed(w.used, R, TRUE) OBVIOUS
<1>12. PICK sz : sz = splitGroup(w.groupSize, n, reserved) OBVIOUS
<1>13. PICK cut : cut = [groupSize |-> sz, used |-> some, lists |-> w.lists,
                         freePagesCount |-> w.freePagesCount]
  OBVIOUS
<1>14. withDescRegion(m, n, count, reserved) =
         IF reserved = count THEN cut ELSE addGroup(cut, n + reserved)
  BY <1>1, <1>9, <1>10, <1>11, <1>12, <1>13, Zenon
     DEF withDescRegion, withSizes, withUsed
<1>15. /\ DOMAIN some = D
       /\ \A p \in D : some[p] = IF p \in R THEN TRUE
                                 ELSE IF p < n THEN m.used[p] ELSE FALSE
  BY <1>3, <1>5, <1>11 DEF Written, setUsed
<1>16. /\ DOMAIN all = D
       /\ \A p \in D : all[p] = IF p < n THEN m.used[p] ELSE TRUE
  BY <1>6
<1>17. CASE reserved = count
  <2>1. sz = w.groupSize
    BY <1>9, <1>12, <1>17 DEF splitGroup
  <2>2. \A p \in D : some[p] = all[p]
    <3>1. \A p \in D : p \notin R => p < n
      BY <1>4, <1>5, <1>10, <1>17
    <3>2. \A p \in D : p \in R => ~(p < n)
      BY <1>4, <1>5, <1>10, <1>17
    <3> QED BY <1>15, <1>16, <3>1, <3>2
  <2>3. some = all
    <3>1. some = [p \in D |-> some[p]] /\ all = [p \in D |-> all[p]]
      BY <1>6, <1>11, <1>15 DEF setUsed
    <3> QED BY <2>2, <3>1
  <2>4. cut = m2
    BY <1>7, <1>13, <2>1, <2>3
  <2>5. m2.groupSize[n] = reserved
    BY <1>7, <1>9, <1>17
  <2>6. \A x \in out : m2.groupSize[x] = m.groupSize[x]
    BY <1>8 DEF Heads
  <2> QED BY <1>8, <1>14, <1>17, <2>4, <2>5, <2>6 DEF WasReserved
<1>18. CASE reserved # count
  <2>1. PICK m3 : m3 = withSizes(m2, sz) OBVIOUS
  <2>2. m3 = [groupSize |-> sz, used |-> all, lists |-> w.lists,
              freePagesCount |-> w.freePagesCount]
    BY <1>7, <2>1 DEF withSizes
  <2>3. reserved < count /\ m2.groupSize = w.groupSize
    BY <1>4, <1>7, <1>18
  <2>4. PICK h : h = n + reserved OBVIOUS
  <2>5. /\ ListsInv(m3, (out \cup {n}) \cup {h}, t)
        /\ h \notin Heads(m2, out \cup {n})
        /\ sz[h] = count - reserved
        /\ FreeGroups(m3) = FreeGroups(m2)
        /\ m3.groupSize[n] = reserved
        /\ \A x \in out : m3.groupSize[x] = m.groupSize[x]
    <3>1. n \in out \cup {n} /\ reserved < m2.groupSize[n]
      BY <1>9, <2>3
    <3>2. Behind(n, reserved, h) /\ Resized(m3, m2, splitGroup(m2.groupSize, n, reserved))
      BY <1>12, <2>1, <2>3, <2>4 DEF Behind, Resized
    <3>3. PICK out1 : out1 = out \cup {n} OBVIOUS
    <3>4. ListsInv(m2, out1, t) /\ n \in out1 /\ reserved \in Nat \ {0}
      BY <1>4, <1>8, <3>3
    <3>5. reserved < m2.groupSize[n]
      BY <3>1
    <3>6. WasSplit(m3, m2, out1, t, n, reserved, h)
      BY <3>2, <3>4, <3>5, SplitGroupStep
    <3>7. /\ ListsInv(m3, out1 \cup {h}, t)
          /\ h \notin Heads(m2, out1)
      BY <3>6 DEF WasSplit
    <3>8. Behind(reserved, m3.groupSize[h], m2.groupSize[n])
      BY <3>6 DEF WasSplit
    <3>9. sz[h] = count - reserved
      <4>1. sz[h] \in 0..(SizeLimit - 1)
        <5>1. h \in 0..(t-1) /\ m3.groupSize \in [0..(t-1) -> 0..(SizeLimit - 1)]
          BY <3>7 DEF ListsInv, ListsTyped
        <5> QED BY <2>2, <5>1
      <4>2. count = reserved + sz[h]
        BY <1>9, <2>2, <2>3, <3>8 DEF Behind
      <4> QED BY <4>1, <4>2
    <3>10. \A x \in out : m3.groupSize[x] = m.groupSize[x]
      <4>1. \A x \in out : x # n /\ x \in Heads(m2, out1)
        BY <1>8, <3>3 DEF Heads
      <4>2. \A x \in out : m2.groupSize[x] = m.groupSize[x]
        BY <1>8 DEF Heads
      <4> QED BY <3>6, <4>1, <4>2 DEF WasSplit
    <3>11. FreeGroups(m3) = FreeGroups(m2) /\ m3.groupSize[n] = reserved
      BY <3>6 DEF WasSplit
    <3> QED BY <3>3, <3>7, <3>9, <3>10, <3>11
  <2>6. PICK G : G = Group(sz, h) OBVIOUS
  <2>7. \A p \in D : p \notin G => (p < n \/ p \in R)
    BY <1>4, <1>5, <1>10, <2>4, <2>5, <2>6 DEF Group
  <2>7a. \A p \in R : ~(p < n)
    BY <1>4, <1>10
  <2>8. setUsed(some, G, FALSE) = setUsed(all, G, FALSE)
    <3>1. \A p \in D : (IF p \in G THEN FALSE ELSE some[p]) =
                       (IF p \in G THEN FALSE ELSE all[p])
      BY <1>15, <1>16, <2>7, <2>7a
    <3> QED BY <1>15, <1>16, <3>1 DEF setUsed
  <2>9. addGroup(cut, h) = addGroup(m3, h)
    <3>1. /\ cut.groupSize = sz /\ cut.used = some
          /\ cut.lists = w.lists /\ cut.freePagesCount = w.freePagesCount
      BY <1>13
    <3>2. /\ m3.groupSize = sz /\ m3.used = all
          /\ m3.lists = w.lists /\ m3.freePagesCount = w.freePagesCount
      BY <2>2
    <3> QED BY <2>6, <2>8, <3>1, <3>2, Zenon DEF addGroup
  <2>10. /\ ListsInv(addGroup(m3, h), ((out \cup {n}) \cup {h}) \ {h}, t)
         /\ FreeGroups(addGroup(m3, h)) = FreeGroups(m3) \cup {h}
    <3>1. PICK out2 : out2 = (out \cup {n}) \cup {h} OBVIOUS
    <3>2. ListsInv(m3, out2, t) /\ h \in out2
      BY <2>5, <3>1
    <3>3. /\ ListsInv(addGroup(m3, h), out2 \ {h}, t)
          /\ FreeGroups(addGroup(m3, h)) = FreeGroups(m3) \cup {h}
      BY <3>2, AddGroupStep
    <3> QED BY <3>1, <3>3
  <2>11. ((out \cup {n}) \cup {h}) \ {h} = out \cup {n}
    BY <2>5 DEF Heads
  <2>12. /\ addGroup(m3, h).groupSize[n] = reserved
         /\ \A x \in out : addGroup(m3, h).groupSize[x] = m.groupSize[x]
    BY <2>5 DEF addGroup
  <2>13. PICK m4 : m4 = addGroup(m3, h) OBVIOUS
  <2>14. withDescRegion(m, n, count, reserved) = m4
    BY <1>14, <1>18, <2>4, <2>9, <2>13
  <2>15. FreeGroups(m4) = FreeGroups(m) \cup {n + reserved}
    BY <1>8, <2>4, <2>5, <2>10, <2>13
  <2> QED BY <2>10, <2>11, <2>12, <2>13, <2>14, <2>15 DEF WasReserved
<1> QED BY <1>17, <1>18

-----------------------------------------------------------------------------
(* allocate                                                                *)

\* after is m with count pages of the free group g taken out.
WasTaken(after, m, out, n, g, count) ==
    /\ ListsInv(after, out \cup {g}, n)
    /\ g \notin out
    /\ FreeGroups(m) \ {g} \subseteq FreeGroups(after)
    /\ FreeGroups(after) \subseteq (FreeGroups(m) \ {g}) \cup {g + count}
    /\ after.groupSize[g] = count
    /\ \A x \in out : after.groupSize[x] = m.groupSize[x]

\* The client's part leaves the free lists, and the rest goes back.
LEMMA TakeStep ==
    ASSUME NEW m, NEW out, NEW n, ListsInv(m, out, n),
           NEW g \in FreeGroups(m),
           NEW count \in Nat \ {0}, count <= m.groupSize[g]
    PROVE  WasTaken(takePages(m, g, count), m, out, n, g, count)
<1>1. PICK m1 : m1 = removeGroup(m, g) OBVIOUS
<1>2. PICK sz : sz = splitGroup(m.groupSize, g, count) OBVIOUS
<1>3. PICK m2 : m2 = withSizes(m1, sz) OBVIOUS
<1>4. PICK h : h = g + count OBVIOUS
<1>5. takePages(m, g, count) = IF count = m.groupSize[g] THEN m2
                                                         ELSE addGroup(m2, h)
  BY <1>1, <1>2, <1>3, <1>4, Zenon DEF takePages
<1>6. PICK out1 : out1 = out \cup {g} OBVIOUS
<1>7. /\ ListsInv(m1, out1, n)
      /\ FreeGroups(m1) = FreeGroups(m) \ {g}
      /\ m1.groupSize = m.groupSize
  <2>1. m1.groupSize = m.groupSize
    BY <1>1 DEF removeGroup
  <2> QED BY <1>1, <1>6, <2>1, RemoveGroupStep
<1>8. g \notin out
  BY HeadFacts
<1>9. m.groupSize[g] \in Nat
  BY HeadFacts, SizeLimitType DEF Heads
<1>10. CASE count = m.groupSize[g]
  <2>1. sz = m1.groupSize
    BY <1>2, <1>7, <1>10 DEF splitGroup
  <2>2. m2 = m1
    BY <1>1, <1>3, <2>1 DEF removeGroup, withSizes
  <2> QED BY <1>5, <1>6, <1>7, <1>8, <1>10, <2>2 DEF WasTaken
<1>11. CASE count # m.groupSize[g]
  <2>1. /\ count < m1.groupSize[g] /\ g \in out1
        /\ Behind(g, count, h)
        /\ Resized(m2, m1, splitGroup(m1.groupSize, g, count))
    BY <1>2, <1>3, <1>4, <1>6, <1>7, <1>9, <1>11 DEF Behind, Resized
  <2>2. /\ ListsInv(m2, out1 \cup {h}, n)
        /\ FreeGroups(m2) = FreeGroups(m1)
        /\ h \notin Heads(m1, out1)
        /\ m2.groupSize[g] = count
        /\ \A x \in Heads(m1, out1) : x # g => m2.groupSize[x] = m1.groupSize[x]
    <3>1. WasSplit(m2, m1, out1, n, g, count, h)
      BY <1>7, <2>1, SplitGroupStep
    <3> QED BY <3>1 DEF WasSplit
  <2>3. PICK m3 : m3 = addGroup(m2, h) OBVIOUS
  <2>4. m3.groupSize = m2.groupSize
    BY <2>3 DEF addGroup
  <2>5. /\ ListsInv(m3, (out1 \cup {h}) \ {h}, n)
        /\ FreeGroups(m3) = FreeGroups(m2) \cup {h}
    <3>1. PICK out2 : out2 = out1 \cup {h} OBVIOUS
    <3>2. ListsInv(m2, out2, n) /\ h \in out2
      BY <2>2, <3>1
    <3>3. /\ ListsInv(addGroup(m2, h), out2 \ {h}, n)
          /\ FreeGroups(addGroup(m2, h)) = FreeGroups(m2) \cup {h}
      BY <3>2, AddGroupStep
    <3> QED BY <2>3, <3>1, <3>3
  <2>6. (out1 \cup {h}) \ {h} = out1
    BY <2>2 DEF Heads
  <2>7. \A x \in out : m3.groupSize[x] = m.groupSize[x]
    BY <1>6, <1>7, <1>8, <2>2, <2>4 DEF Heads
  <2>8. takePages(m, g, count) = m3 /\ m3.groupSize[g] = count
    BY <1>5, <1>11, <2>2, <2>3, <2>4
  <2>9. FreeGroups(m3) = (FreeGroups(m) \ {g}) \cup {g + count}
    BY <1>4, <1>7, <2>2, <2>5
  <2> QED BY <1>6, <1>8, <2>5, <2>6, <2>7, <2>8, <2>9 DEF WasTaken
<1> QED BY <1>10, <1>11

-----------------------------------------------------------------------------
(* release                                                                 *)

\* The page above a group, if it is free, is the last page of a free group.
LEMMA GroupAbove ==
    ASSUME NEW m, NEW out, NEW n, ListsInv(m, out, n), NEW g \in out,
           NEW p \in 0..(n-1), Behind(p, 1, g), ~m.used[p],
           NEW a \in Int, Behind(a, m.groupSize[p], g)
    PROVE  a \in FreeGroups(m) /\ Touching(m.groupSize, a, g)
<1>1. PICK sz : sz = m.groupSize OBVIOUS
<1>2. PICK h \in Heads(m, out) : p \in Group(sz, h)
  BY <1>1 DEF ListsInv, GroupsCover
<1>3. h \notin out
  BY <1>1, <1>2, UsedOfGroup
<1>4. h \in FreeGroups(m)
  BY <1>2, <1>3 DEF Heads
<1>5. /\ n \in Nat /\ g \in 0..(n-1) /\ g \in Heads(m, out)
      /\ p \in Nat /\ g = p + 1
  BY DEF ListsInv, Heads, Behind
<1>6. /\ h \in 0..(n-1) /\ sz[h] \in Nat \ {0}
      /\ sz[h + sz[h] - 1] = sz[h]
  BY <1>1, <1>2, HeadFacts, SizeLimitType
<1>7. h < g => h + sz[h] <= g
  BY <1>1, <1>2, <1>5 DEF ListsInv, GroupsDisjoint
<1>8. h <= p /\ p <= h + sz[h] - 1
  BY <1>2, <1>5, <1>6 DEF Group
<1>9. h + sz[h] = g /\ p = h + sz[h] - 1
  BY <1>5, <1>6, <1>7, <1>8
<1>10. sz[p] = sz[h]
  BY <1>6, <1>9
<1>11. sz[p] \in Nat
  BY <1>6, <1>10
<1>12. sz[p] \in 0..(SizeLimit - 1) /\ g = a + sz[p]
  BY <1>1 DEF ListsInv, ListsTyped, Behind
<1>13. a = h
  BY <1>5, <1>6, <1>9, <1>10, <1>12
<1>14. g = h + sz[h]
  BY <1>9
<1> QED BY <1>1, <1>4, <1>13, <1>14 DEF Touching

\* The page below a group, if it is free, is the first page of a free group.
LEMMA GroupBelow ==
    ASSUME NEW m, NEW out, NEW n, ListsInv(m, out, n), NEW g \in out,
           NEW p \in 0..(n-1), ~m.used[p], Touching(m.groupSize, g, p)
    PROVE  p \in FreeGroups(m)
<1>1. PICK sz : sz = m.groupSize OBVIOUS
<1>2. PICK h \in Heads(m, out) : p \in Group(sz, h)
  BY <1>1 DEF ListsInv, GroupsCover
<1>3. h \notin out
  BY <1>1, <1>2, UsedOfGroup
<1>4. h \in FreeGroups(m)
  BY <1>2, <1>3 DEF Heads
<1>5. /\ n \in Nat /\ g \in 0..(n-1) /\ g \in Heads(m, out)
  BY DEF ListsInv, Heads
<1>6. /\ h \in 0..(n-1) /\ sz[h] \in Nat \ {0} /\ sz[g] \in Nat \ {0}
      /\ p = g + sz[g]
  BY <1>1, <1>2, <1>5, HeadFacts, SizeLimitType DEF Touching
<1>7. /\ h < g => h + sz[h] <= g
      /\ g < h => g + sz[g] <= h
  BY <1>1, <1>2, <1>5 DEF ListsInv, GroupsDisjoint
<1>8. h <= p /\ p <= h + sz[h] - 1
  BY <1>2, <1>5, <1>6 DEF Group
<1>9. h # g
  BY <1>3
<1>10. h = p
  BY <1>5, <1>6, <1>7, <1>8, <1>9
<1> QED BY <1>4, <1>10

\* What absorb leaves: h comes out of its list, and second is no group any
\* more.
WasAbsorbed(m, after, out, n, g, h, second) ==
    /\ ListsInv(after, (out \cup {h}) \ {second}, n)
    /\ FreeGroups(after) = FreeGroups(m) \ {h}
    /\ h \notin out
    /\ \A p \in 0..(n - 1) : m.used[p] => after.used[p]
    /\ \A x \in out : x # g => after.groupSize[x] = m.groupSize[x]

\* first is the one of g and h that comes first, second the other.
TwoGroups(m, g, h, first, second) ==
    /\ first \in {g, h} /\ second \in {g, h}
    /\ Touching(m.groupSize, first, second)

\* A free neighbour leaves its list and becomes part of the joined group.
LEMMA AbsorbStep ==
    ASSUME NEW m, NEW out, NEW n, ListsInv(m, out, n), n < SizeLimit,
           NEW g \in out, NEW h \in FreeGroups(m),
           NEW first, NEW second, TwoGroups(m, g, h, first, second)
    PROVE  WasAbsorbed(m, absorb(m, h, first, second), out, n, g, h, second)
<1>0. /\ first \in {g, h} /\ second \in {g, h}
      /\ Touching(m.groupSize, first, second)
  BY DEF TwoGroups
<1>1. PICK m1 : m1 = removeGroup(m, h) OBVIOUS
<1>2. PICK out1 : out1 = out \cup {h} OBVIOUS
<1>3. PICK m2 : m2 = absorb(m, h, first, second) OBVIOUS
<1>4. h \notin out
  BY HeadFacts
<1>5. m1.groupSize = m.groupSize
  BY <1>1 DEF removeGroup
<1>6. ListsInv(m1, out1, n) /\ FreeGroups(m1) = FreeGroups(m) \ {h}
  BY <1>1, <1>2, RemoveGroupStep
<1>7. first \in out1 /\ second \in out1
  BY <1>0, <1>2
<1>8. first \in Heads(m1, out1) /\ second \in Heads(m1, out1)
  BY <1>7 DEF Heads
<1>9. m.groupSize[first] + m.groupSize[second] < SizeLimit
  <2>1. PICK s \in 1..(SizeLimit - 1) : s = m.groupSize[first]
    BY <1>5, <1>6, <1>8, HeadFacts
  <2>2. PICK r \in 1..(SizeLimit - 1) : r = m.groupSize[second]
    BY <1>5, <1>6, <1>8, HeadFacts
  <2>3. first \in 0..(n-1) /\ second \in 0..(n-1) /\ n \in Nat
    BY <1>6, <1>7 DEF ListsInv
  <2>4. second + r <= n
    BY <1>5, <1>6, <1>8, <2>2, HeadFacts
  <2>5. second = first + s
    BY <1>0, <2>1 DEF Touching
  <2> QED BY <2>1, <2>2, <2>3, <2>4, <2>5, SizeLimitType
<1>10. Resized(m2, m1, joinGroup(m1.groupSize, first, second))
  BY <1>1, <1>3, <1>5 DEF Resized, absorb
<1>11. Touching(m1.groupSize, first, second)
  BY <1>0, <1>5
<1>12. m1.groupSize[first] + m1.groupSize[second] < SizeLimit
  BY <1>5, <1>9
<1>13. /\ ListsInv(m2, out1 \ {second}, n)
       /\ \A x \in Heads(m1, out1) : x # first /\ x # second =>
             m2.groupSize[x] = m1.groupSize[x]
  BY <1>6, <1>7, <1>10, <1>11, <1>12, JoinGroupStep
<1>14. \A x \in out : x # g => m2.groupSize[x] = m.groupSize[x]
  BY <1>0, <1>2, <1>4, <1>5, <1>13 DEF Heads
<1>15. FreeGroups(m2) = FreeGroups(m) \ {h}
  BY <1>6, <1>10 DEF Resized, withSizes, FreeGroups
<1>16. ASSUME NEW p \in 0..(n - 1), m.used[p] PROVE m2.used[p]
  <2>1. m2.used = setUsed(m.used, Group(m.groupSize, h), TRUE)
    BY <1>1, <1>10 DEF Resized, withSizes, removeGroup
  <2>2. DOMAIN m.used = 0..(n - 1)
    BY DEF ListsInv, ListsTyped
  <2> QED BY <1>16, <2>1, <2>2 DEF setUsed
<1> QED BY <1>2, <1>3, <1>4, <1>13, <1>14, <1>15, <1>16 DEF WasAbsorbed

-----------------------------------------------------------------------------
(* clear                                                                   *)

LEMMA NoFreeGroups == FreeGroups(EmptyLists) = {}
<1>1. EmptyLists.lists = [i \in ListIdx |-> <<>>]
  BY DEF EmptyLists
<1> QED BY <1>1 DEF FreeGroups, Range

LEMMA ClearedLists == ListsInv(EmptyLists, {}, 0)
<1>1. /\ EmptyLists.groupSize = NoPages /\ EmptyLists.used = NoPages
      /\ EmptyLists.lists = [i \in ListIdx |-> <<>>]
      /\ EmptyLists.freePagesCount = 0
  BY DEF EmptyLists
<1>2. Heads(EmptyLists, {}) = {}
  BY NoFreeGroups DEF Heads
<1>3. 0..(0-1) = {} /\ 1..0 = {}
  OBVIOUS
<1>4. ListsTyped(EmptyLists, 0)
  <2>1. <<>> \in Seq(0..(0-1))
    OBVIOUS
  <2> QED BY <1>1, <1>3, <2>1 DEF ListsTyped, NoPages
<1>5. ListsMatchSizes(EmptyLists, {})
  BY <1>1 DEF ListsMatchSizes, IsInjective, Range
<1>6. CountMatches(EmptyLists, 0)
  <2>1. {p \in 0..(0-1) : ~EmptyLists.used[p]} = {}
    BY <1>3
  <2> QED BY <1>1, <2>1, FS_EmptySet DEF CountMatches
<1> QED BY <1>2, <1>3, <1>4, <1>5, <1>6
     DEF ListsInv, HeadersOk, GroupsDisjoint, GroupsCover, UsedMatches,
         InteriorClear

-----------------------------------------------------------------------------
(* Sums.                                                                   *)

Pairs(counts, S) == UNION {{i} \X (1..counts[i]) : i \in S}

LEMMA PairsOfOne ==
    ASSUME NEW i, NEW c \in Nat
    PROVE  IsFiniteSet({i} \X (1..c)) /\ Cardinality({i} \X (1..c)) = c
<1>1. IsFiniteSet(1..c) /\ Cardinality(1..c) = c
  <2>1. IsFiniteSet(1..c) /\ Cardinality(1..c) = IF 1 > c THEN 0 ELSE c - 1 + 1
    BY FS_Interval
  <2> QED BY <2>1
<1>2. IsFiniteSet({i}) /\ Cardinality({i}) = 1
  BY FS_Singleton
<1>3. /\ IsFiniteSet({i} \X (1..c))
      /\ Cardinality({i} \X (1..c)) = Cardinality({i}) * Cardinality(1..c)
  BY <1>1, <1>2, FS_Product
<1> QED BY <1>1, <1>2, <1>3

LEMMA PairsFinite ==
    ASSUME NEW S, IsFiniteSet(S), NEW counts, \A i \in S : counts[i] \in Nat
    PROVE  /\ IsFiniteSet(Pairs(counts, S))
           /\ total(counts, S) = Cardinality(Pairs(counts, S))
           /\ total(counts, S) \in Nat
<1>1. PICK T : T = {{i} \X (1..counts[i]) : i \in S} OBVIOUS
<1>2. PICK f : f = [i \in S |-> {i} \X (1..counts[i])] OBVIOUS
<1>3. f \in Surjection(S, T)
  <2>1. f \in [S -> T]
    BY <1>1, <1>2
  <2>2. \A t \in T : \E i \in S : f[i] = t
    BY <1>1, <1>2
  <2> QED BY <2>1, <2>2 DEF Surjection
<1>4. IsFiniteSet(T)
  BY <1>3, FS_Surjection
<1>5. \A t \in T : IsFiniteSet(t)
  <2> SUFFICES ASSUME NEW t \in T PROVE IsFiniteSet(t)
    OBVIOUS
  <2>1. PICK i \in S : t = {i} \X (1..counts[i])
    BY <1>1
  <2>2. PICK c \in Nat : c = counts[i]
    OBVIOUS
  <2>3. IsFiniteSet({i} \X (1..c))
    BY PairsOfOne
  <2> QED BY <2>1, <2>2, <2>3
<1>6. IsFiniteSet(UNION T)
  BY <1>4, <1>5, FS_UNION
<1>7. total(counts, S) = Cardinality(UNION T) /\ Pairs(counts, S) = UNION T
  BY <1>1 DEF total, Pairs
<1> QED BY <1>6, <1>7, FS_CardinalityType

LEMMA TotalAdd ==
    ASSUME NEW S, IsFiniteSet(S), NEW i, i \notin S, NEW counts,
           \A j \in S \cup {i} : counts[j] \in Nat
    PROVE  total(counts, S \cup {i}) = total(counts, S) + counts[i]
<1>1. PICK A : A = Pairs(counts, S) OBVIOUS
<1>2. PICK B : B = {i} \X (1..counts[i]) OBVIOUS
<1>3. IsFiniteSet(A) /\ total(counts, S) = Cardinality(A)
  BY <1>1, PairsFinite
<1>4. IsFiniteSet(B) /\ Cardinality(B) = counts[i]
  BY <1>2, PairsOfOne
<1>5. A \cap B = {}
  BY <1>1, <1>2 DEF Pairs
<1>6. total(counts, S \cup {i}) = Cardinality(A \cup B)
  <2>1. Pairs(counts, S \cup {i}) = A \cup B
    BY <1>1, <1>2 DEF Pairs
  <2> QED BY <2>1 DEF total, Pairs
<1>7. Cardinality(A \cup B) = Cardinality(A) + Cardinality(B)
  BY <1>3, <1>4, <1>5, DisjointUnion
<1> QED BY <1>3, <1>4, <1>6, <1>7

LEMMA TotalMonotone ==
    ASSUME NEW T, IsFiniteSet(T), NEW S \in SUBSET T, NEW counts,
           \A j \in T : counts[j] \in Nat
    PROVE  total(counts, S) <= total(counts, T)
<1>1. IsFiniteSet(S)
  BY FS_Subset
<1>2. Pairs(counts, S) \subseteq Pairs(counts, T)
  BY DEF Pairs
<1>3. /\ IsFiniteSet(Pairs(counts, T))
      /\ total(counts, T) = Cardinality(Pairs(counts, T))
      /\ total(counts, S) = Cardinality(Pairs(counts, S))
  BY <1>1, PairsFinite
<1> QED BY <1>2, <1>3, FS_Subset

LEMMA TotalSame ==
    ASSUME NEW S, NEW counts, NEW others, \A i \in S : counts[i] = others[i]
    PROVE  total(counts, S) = total(others, S)
<1>1. {{i} \X (1..counts[i]) : i \in S} = {{i} \X (1..others[i]) : i \in S}
  OBVIOUS
<1> QED BY <1>1 DEF total

LEMMA TotalEmpty == ASSUME NEW counts PROVE total(counts, {}) = 0
<1>1. {{i} \X (1..counts[i]) : i \in {}} = {}
  OBVIOUS
<1> QED BY <1>1, FS_EmptySet DEF total

\* The sum over the first k entries.
LEMMA TotalNext ==
    ASSUME NEW k \in Nat \ {0}, NEW counts, \A j \in 1..k : counts[j] \in Nat
    PROVE  /\ total(counts, 1..k) = total(counts, 1..(k-1)) + counts[k]
           /\ total(counts, 1..(k-1)) \in Nat
<1>1. PICK S : S = 1..(k-1) OBVIOUS
<1>2. IsFiniteSet(S) /\ k \notin S /\ 1..k = S \cup {k}
  BY <1>1, FS_Interval
<1>3. \A j \in S : counts[j] \in Nat
  BY <1>2
<1>4. total(counts, S \cup {k}) = total(counts, S) + counts[k]
  BY <1>2, TotalAdd
<1>5. total(counts, S) \in Nat
  BY <1>2, <1>3, PairsFinite
<1> QED BY <1>1, <1>2, <1>4, <1>5

LEMMA TotalUpTo ==
    ASSUME NEW n \in Nat, NEW k \in 0..n, NEW counts,
           \A j \in 1..n : counts[j] \in Nat
    PROVE  total(counts, 1..k) <= total(counts, 1..n)
<1>1. IsFiniteSet(1..n) /\ 1..k \in SUBSET (1..n)
  BY FS_Interval
<1> QED BY <1>1, TotalMonotone

-----------------------------------------------------------------------------
(* The values init computes.                                               *)

LEMMA AlignDownType ==
    ASSUME NEW addr \in Nat, NEW size \in Nat \ {0}
    PROVE  alignDown(addr, size) \in Nat
<1>1. addr \div size \in Nat
  OBVIOUS
<1> QED BY <1>1, NatProduct DEF alignDown

\* The entry made for a region that is kept.
LEMMA KeptRegionType ==
    ASSUME NEW region \in [address : Nat, size : Nat \ {0}],
           NEW size \in Nat \ {0}, regionKept(region, size)
    PROVE  /\ initRegionInfo(region, size) \in RegionInfoType
           /\ initRegionInfo(region, size).pageCount = pageCount(region, size)
<1>1. region.address \in Nat /\ region.size \in Nat
  OBVIOUS
<1>2. RegionEnd(region) \in Nat
  BY <1>1, AddrSpaceAssumption DEF RegionEnd
<1>3. alignedEnd(region, size) \in Nat
  BY <1>2, AlignDownType DEF alignedEnd
<1>4. alignedStart(region, size) \in Nat
  <2>1. PICK start \in Nat : start = alignDown(region.address, size)
    BY <1>1, AlignDownType
  <2>2. (start + size) % AddrSpace \in Nat
    BY <2>1, AddrSpaceAssumption
  <2> QED BY <2>1, <2>2 DEF alignedStart
<1>5. pageCount(region, size) \in Nat \ {0}
  <2>1. PICK d \in Int :
           d = alignedEnd(region, size) - alignedStart(region, size)
    BY <1>3, <1>4
  <2>2. PICK r \in Nat : r = d % AddrSpace
    BY AddrSpaceAssumption
  <2>3. r \div size \in Nat
    OBVIOUS
  <2>4. pageCount(region, size) \in Nat
    BY <2>1, <2>2, <2>3 DEF pageCount
  <2> QED BY <2>4 DEF regionKept
<1>6. ~(region.size < size)
  BY <1>1 DEF regionKept
<1>7. PICK n \in Nat \ {0} : n = pageCount(region, size)
  BY <1>5
<1>8. n * size \in Nat
  BY NatProduct
<1>9. initRegionInfo(region, size) =
        [start |-> region.address, end |-> RegionEnd(region),
         alignedStart |-> alignedStart(region, size),
         alignedEnd |-> alignedEnd(region, size), pageCount |-> n,
         size |-> IF n = 0 THEN 0 ELSE region.size, alignedSize |-> n * size,
         firstPage |-> nullptr, lastPage |-> nullptr]
  BY <1>6, <1>7 DEF initRegionInfo
<1>10. (IF n = 0 THEN 0 ELSE region.size) \in Nat
  BY <1>1
<1> QED BY <1>1, <1>2, <1>3, <1>4, <1>7, <1>8, <1>9, <1>10 DEF RegionInfoType

\* The descriptors take at least one page and at most their whole region.
LEMMA ReserveType ==
    ASSUME NEW info, info.pageCount \in Nat \ {0},
           pageSize \in Nat, pagesCount \in Nat \ {0}
    PROVE  reserveDescPages(info) \in 1..info.pageCount
<1>1. PICK n \in Nat \ {0} : n = info.pageCount
  OBVIOUS
<1>2. PICK All : All = 0..(n-1) OBVIOUS
<1>3. PICK K : K = {k \in All : k * pageSize < pagesCount * PageDescSize}
  OBVIOUS
<1>4. reserveDescPages(info) = Cardinality(K)
  BY <1>1, <1>2, <1>3 DEF reserveDescPages
<1>5. IsFiniteSet(All) /\ Cardinality(All) = n
  BY <1>2, FS_Interval
<1>6. IsFiniteSet(K) /\ Cardinality(K) <= Cardinality(All)
  BY <1>3, <1>5, FS_Subset
<1>7. pagesCount * PageDescSize > 0
  <2>1. \A x, y \in Nat \ {0} : x * y > 0
    OBVIOUS
  <2> QED BY <2>1, ConfigAssumption
<1>8. 0 \in K
  <2>1. 0 * pageSize = 0
    OBVIOUS
  <2> QED BY <1>2, <1>3, <1>7, <2>1
<1>9. PICK c \in Nat : c = Cardinality(K)
  BY <1>6, FS_CardinalityType
<1>10. c # 0
  BY <1>6, <1>8, <1>9, FS_EmptySet
<1> QED BY <1>1, <1>4, <1>5, <1>6, <1>9, <1>10

LEMMA EntryType ==
    ASSUME NEW infos \in Seq(RegionInfoType), NEW i \in DOMAIN infos
    PROVE  /\ infos[i] \in RegionInfoType
           /\ infos[i].pageCount \in Nat \ {0}
           /\ infos[i].alignedStart \in Nat
           /\ infos[i].alignedSize \in Nat
<1>1. PICK R : R = RegionInfoType OBVIOUS
<1>2. infos \in Seq(R)
  BY <1>1
<1>3. infos[i] \in R
  BY <1>2
<1>4. infos[i] \in RegionInfoType
  BY <1>1, <1>3
<1> QED BY <1>4 DEF RegionInfoType

\* The region chosen for the descriptors is one of those entered, and unless
\* it is the first, they fit in it.
LEMMA ChooseType ==
    ASSUME NEW infos \in Seq(RegionInfoType), Len(infos) # 0, NEW count
    PROVE  /\ chooseDescRegion(infos, count) \in DOMAIN infos
           /\ \/ chooseDescRegion(infos, count) = 1
              \/ infos[chooseDescRegion(infos, count)].alignedSize
                     >= count * PageDescSize
<1>1. DOMAIN infos = 1..Len(infos) /\ Len(infos) \in Nat /\ 1 \in DOMAIN infos
  OBVIOUS
<1>2. \A i \in DOMAIN infos : infos[i].alignedSize \in Nat
  BY EntryType
<1>3. PICK C : C = {1} \cup {i \in DOMAIN infos :
                               infos[i].alignedSize >= count * PageDescSize}
  OBVIOUS
<1>4. C \subseteq DOMAIN infos /\ C # {} /\ C \subseteq Nat
  BY <1>1, <1>3
<1>5. PICK s \in {infos[i].alignedSize : i \in C} :
         \A r \in {infos[i].alignedSize : i \in C} : s <= r
  <2>1. {infos[i].alignedSize : i \in C} \subseteq Nat
    BY <1>2, <1>4
  <2>2. {infos[i].alignedSize : i \in C} # {}
    BY <1>4
  <2> QED BY <2>1, <2>2, LeastNatural
<1>6. PICK i \in {j \in C : infos[j].alignedSize = s} :
         \A j \in {k \in C : infos[k].alignedSize = s} : i <= j
  <2>1. {j \in C : infos[j].alignedSize = s} # {}
    BY <1>5
  <2>2. {j \in C : infos[j].alignedSize = s} \subseteq Nat
    BY <1>4
  <2> QED BY <2>1, <2>2, LeastNatural
<1>7. \A j \in C : \/ infos[i].alignedSize < infos[j].alignedSize
                   \/ infos[i].alignedSize = infos[j].alignedSize /\ i <= j
  <2> SUFFICES ASSUME NEW j \in C
               PROVE  \/ infos[i].alignedSize < infos[j].alignedSize
                      \/ infos[i].alignedSize = infos[j].alignedSize /\ i <= j
    OBVIOUS
  <2>1. PICK r \in Nat : r = infos[j].alignedSize
    BY <1>2, <1>4
  <2>2. s <= r /\ s \in Nat /\ s = infos[i].alignedSize
    BY <1>2, <1>4, <1>5, <1>6, <2>1
  <2>3. CASE s = r
    BY <1>6, <2>1, <2>2, <2>3
  <2>4. CASE s # r
    BY <2>1, <2>2, <2>4
  <2> QED BY <2>3, <2>4
<1>8. chooseDescRegion(infos, count) =
        CHOOSE k \in C : \A j \in C :
            \/ infos[k].alignedSize < infos[j].alignedSize
            \/ infos[k].alignedSize = infos[j].alignedSize /\ k <= j
  BY <1>3 DEF chooseDescRegion
<1>9. chooseDescRegion(infos, count) \in C
  BY <1>6, <1>7, <1>8
<1> QED BY <1>3, <1>4, <1>9

-----------------------------------------------------------------------------
(* The invariant, in the parts the steps disturb.                          *)

MemoryTyped ==
    /\ regionsInfo \in Seq(RegionInfoType)
    /\ pageSize \in Nat
    /\ descRegionIdx \in Nat
    /\ descPagesCount \in Nat
    /\ pagesCount \in Nat
    /\ address \in [0..(nextPage - 1) -> Nat]

CallTyped ==
    /\ phase \in {"idle", "scan", "setup", "above", "below"}
    /\ request \in [regions : MemoryModels \cup {<<>>},
                     pageSize : PageSizes \cup {0}]
    /\ cursor \in Nat
    /\ joinedGroup \in Page \cup {nullptr}

HeldTyped ==
    /\ DOMAIN held \subseteq Page
    /\ \A g \in DOMAIN held : held[g] \in Nat \ {0}

ReplyTyped ==
    \/ \E op \in {"none", "clear", "release"} : reply = Reply(op, nullptr)
    \/ reply.op = "init" /\ \E result \in BOOLEAN : reply = Reply("init", result)
    \/ /\ reply.op = "allocate"
       /\ \E count \in AllocCounts, result \in Page \cup {nullptr} :
             reply = AllocReply(count, result)

Parts ==
    /\ MemoryTyped
    /\ CallTyped
    /\ HeldTyped
    /\ ReplyTyped
    /\ pagesCount < SizeLimit
    /\ IdleInv
    /\ ScanInv
    /\ SetupInv
    /\ ReleaseInv
    /\ GroupsConsistent
    /\ HeldInv

LEMMA InvParts == Inv <=> Parts
  BY DEF Inv, Parts, TypeOK, MemoryTyped, CallTyped, HeldTyped, ReplyTyped,
         GroupsConsistent, ListsInv

LEMMA InvPartsNext == Inv' <=> Parts'
  BY DEF Inv, Parts, TypeOK, MemoryTyped, CallTyped, HeldTyped, ReplyTyped,
         GroupsConsistent, ListsInv

LEMMA SameMemory ==
    ASSUME UNCHANGED memoryVars
    PROVE  /\ nextPage' = nextPage
           /\ Page' = Page
           /\ ReservedGroup' = ReservedGroup
           /\ pagesCount' = pagesCount
           /\ descPagesCount' = descPagesCount
           /\ MemoryTyped => MemoryTyped'
  BY DEF memoryVars, nextPage, Page, ReservedGroup, MemoryTyped

LEMMA NextPageOfNone == Cardinality(DOMAIN NoPages) = 0
<1>1. DOMAIN NoPages = {}
  BY DEF NoPages
<1> QED BY <1>1, FS_EmptySet

\* After clear, whatever call made it.
LEMMA Cleared ==
    ASSUME clear, phase' \in {"idle", "scan"}
    PROVE  /\ MemoryTyped'
           /\ HeldTyped'
           /\ (pagesCount < SizeLimit)'
           /\ SetupInv'
           /\ ReleaseInv'
           /\ GroupsConsistent'
           /\ HeldInv'
           /\ (nextPage = 0 /\ pagesCount = 0 /\ descPagesCount = 0)'
<1>1. /\ regionsInfo' = <<>> /\ pageSize' = 0 /\ descRegionIdx' = 0
      /\ descPagesCount' = 0 /\ pagesCount' = 0
      /\ address' = NoPages /\ pool' = EmptyLists /\ held' = NoPages
  BY DEF clear
<1>2. nextPage' = 0
  BY <1>1, NextPageOfNone DEF nextPage
<1>3. DOMAIN NoPages = {} /\ NoPages \in [0..(0-1) -> Nat]
  BY DEF NoPages
<1>4. MemoryTyped'
  BY <1>1, <1>2, <1>3 DEF MemoryTyped
<1>5. HeldTyped'
  BY <1>1, <1>3 DEF HeldTyped
<1>6. (pagesCount < SizeLimit)'
  BY <1>1, SizeLimitType
<1>7. SetupInv' /\ ReleaseInv' /\ ~Releasing'
  BY DEF SetupInv, ReleaseInv, Releasing
<1>8. ReservedGroup' = {}
  BY <1>1 DEF ReservedGroup
<1>9. OutOfLists' = {}
  BY <1>1, <1>3, <1>7, <1>8 DEF OutOfLists
<1>10. GroupsConsistent'
  BY <1>1, <1>2, <1>9, ClearedLists DEF GroupsConsistent
<1>11. HeldInv'
  BY <1>1, <1>3 DEF HeldInv
<1> QED BY <1>1, <1>2, <1>4, <1>5, <1>6, <1>7, <1>10, <1>11

-----------------------------------------------------------------------------
(* One lemma per action.                                                   *)

LEMMA ClearStep ==
    ASSUME Parts, Clear PROVE Parts'
<1>1. /\ phase = "idle" /\ phase' = "idle" /\ clear
      /\ request' = request /\ cursor' = cursor /\ joinedGroup' = joinedGroup
      /\ reply' = Reply("clear", nullptr)
  BY DEF Clear
<1>2. request = NoRequest /\ cursor = 0 /\ joinedGroup = nullptr
  BY <1>1 DEF Parts, IdleInv, NotReleasing
<1>3. IdleInv' /\ ScanInv' /\ ReplyTyped'
  BY <1>1, <1>2, Cleared DEF IdleInv, ScanInv, ReplyTyped, NotReleasing
<1>4. CallTyped'
  BY <1>1, <1>2 DEF CallTyped, Parts
<1> QED BY <1>1, <1>3, <1>4, Cleared DEF Parts

LEMMA InitRejectsPageSizeStep ==
    ASSUME Parts, NEW size \in PageSizes, InitRejectsPageSize(size) PROVE Parts'
<1>1. /\ phase = "idle" /\ phase' = "idle" /\ clear
      /\ request' = request /\ cursor' = cursor /\ joinedGroup' = joinedGroup
      /\ reply' = Reply("init", FALSE)
  BY DEF InitRejectsPageSize
<1>2. request = NoRequest /\ cursor = 0 /\ joinedGroup = nullptr
  BY <1>1 DEF Parts, IdleInv, NotReleasing
<1>3. IdleInv' /\ ScanInv' /\ ReplyTyped'
  BY <1>1, <1>2, Cleared DEF IdleInv, ScanInv, ReplyTyped, Reply, NotReleasing
<1>4. CallTyped'
  BY <1>1, <1>2 DEF CallTyped, Parts
<1> QED BY <1>1, <1>3, <1>4, Cleared DEF Parts

LEMMA InitStartStep ==
    ASSUME Parts, NEW memory \in MemoryModels, NEW size \in PageSizes,
           InitStart(memory, size)
    PROVE  Parts'
<1>1. /\ phase = "idle" /\ phase' = "scan" /\ clear /\ isValidPageSize(size)
      /\ request' = [regions |-> memory, pageSize |-> size]
      /\ cursor' = 1 /\ joinedGroup' = joinedGroup /\ reply' = NoReply
  BY DEF InitStart
<1>2. joinedGroup = nullptr
  BY <1>1 DEF Parts, IdleInv, NotReleasing
<1>3. /\ regionsInfo' = <<>> /\ pool' = EmptyLists /\ held' = NoPages
  BY <1>1 DEF clear
<1>4. Nothing' /\ NotReleasing'
  BY <1>1, <1>2, <1>3, Cleared DEF Nothing, NotReleasing
<1>5. cursor' \in 1..(Len(request'.regions) + 1)
  BY <1>1, MemoryModelsAssumption
<1>6. countPages(regionsInfo') =
        total(modelPages(request'.regions, request'.pageSize), 1..(cursor' - 1))
  <2>1. DOMAIN regionsInfo' = {} /\ 1..(cursor' - 1) = {}
    BY <1>1, <1>3
  <2>2. countPages(regionsInfo') = 0
    BY <2>1, TotalEmpty DEF countPages
  <2>3. total(modelPages(request'.regions, request'.pageSize), {}) = 0
    BY TotalEmpty
  <2> QED BY <2>1, <2>2, <2>3
<1>7. ScanInv'
  BY <1>1, <1>4, <1>5, <1>6, Cleared DEF ScanInv
<1>8. IdleInv' /\ ReplyTyped'
  BY <1>1 DEF IdleInv, ReplyTyped, NoReply
<1>9. CallTyped'
  BY <1>1, <1>2 DEF CallTyped
<1> QED BY <1>1, <1>7, <1>8, <1>9, Cleared DEF Parts

\* The pages of the regions the caller passed.
LEMMA ModelPagesType ==
    ASSUME NEW memory \in MemoryModels, NEW size \in PageSizes,
           isValidPageSize(size)
    PROVE  /\ Len(memory) \in Nat /\ DOMAIN memory = 1..Len(memory)
           /\ size \in Nat \ {0}
           /\ \A i \in 1..Len(memory) :
                 /\ memory[i] \in [address : Nat, size : Nat \ {0}]
                 /\ modelPages(memory, size)[i] \in Nat
                 /\ modelPages(memory, size)[i] =
                       IF regionKept(memory[i], size)
                       THEN pageCount(memory[i], size) ELSE 0
<1>1. PICK R : R = [address : Nat, size : Nat \ {0}] OBVIOUS
<1>2. memory \in Seq(R)
  BY <1>1, MemoryModelsAssumption
<1>3. /\ Len(memory) \in Nat /\ DOMAIN memory = 1..Len(memory)
      /\ \A i \in 1..Len(memory) : memory[i] \in R
  BY <1>2
<1>4. size \in Nat \ {0}
  BY ConfigAssumption DEF isValidPageSize
<1>5. ASSUME NEW i \in 1..Len(memory)
      PROVE  /\ modelPages(memory, size)[i] \in Nat
             /\ modelPages(memory, size)[i] =
                   IF regionKept(memory[i], size)
                   THEN pageCount(memory[i], size) ELSE 0
  <2>1. modelPages(memory, size)[i] =
          IF regionKept(memory[i], size) THEN pageCount(memory[i], size) ELSE 0
    BY <1>3 DEF modelPages
  <2>2. ASSUME regionKept(memory[i], size)
        PROVE  pageCount(memory[i], size) \in Nat
    <3>1. PICK info : info = initRegionInfo(memory[i], size) OBVIOUS
    <3>2. /\ info \in RegionInfoType
          /\ info.pageCount = pageCount(memory[i], size)
      <4>1. memory[i] \in [address : Nat, size : Nat \ {0}]
        BY <1>1, <1>3
      <4> QED BY <1>4, <2>2, <3>1, <4>1, KeptRegionType
    <3>3. info.pageCount \in Nat
      BY <3>2 DEF RegionInfoType
    <3> QED BY <3>2, <3>3
  <2> QED BY <2>1, <2>2
<1> QED BY <1>1, <1>3, <1>4, <1>5

LEMMA CountPagesSum ==
    ASSUME NEW infos \in Seq(RegionInfoType)
    PROVE  /\ countPages(infos) = total(pageCounts(infos), 1..Len(infos))
           /\ Len(infos) \in Nat /\ DOMAIN infos = 1..Len(infos)
           /\ \A i \in 1..Len(infos) :
                 /\ pageCounts(infos)[i] = infos[i].pageCount
                 /\ pageCounts(infos)[i] \in Nat \ {0}
           /\ countPages(infos) \in Nat
<1>1. Len(infos) \in Nat /\ DOMAIN infos = 1..Len(infos)
  OBVIOUS
<1>2. ASSUME NEW i \in 1..Len(infos)
      PROVE  /\ pageCounts(infos)[i] = infos[i].pageCount
             /\ pageCounts(infos)[i] \in Nat \ {0}
  BY <1>1, EntryType DEF pageCounts
<1>3. PICK S : S = 1..Len(infos) OBVIOUS
<1>4. IsFiniteSet(S)
  BY <1>1, <1>3, FS_Interval
<1>5. countPages(infos) = total(pageCounts(infos), S)
  BY <1>1, <1>3 DEF countPages
<1>6. total(pageCounts(infos), S) \in Nat
  <2>1. \A i \in S : pageCounts(infos)[i] \in Nat
    BY <1>2, <1>3
  <2> QED BY <1>4, <2>1, PairsFinite
<1> QED BY <1>1, <1>2, <1>3, <1>5, <1>6

LEMMA CountPagesAppend ==
    ASSUME NEW infos \in Seq(RegionInfoType), NEW info \in RegionInfoType
    PROVE  /\ Append(infos, info) \in Seq(RegionInfoType)
           /\ countPages(Append(infos, info)) = countPages(infos) + info.pageCount
<1>1. PICK longer : longer = Append(infos, info) OBVIOUS
<1>2. PICK n : n = Len(infos) OBVIOUS
<1>3. PICK R : R = RegionInfoType OBVIOUS
<1>4. infos \in Seq(R) /\ info \in R
  BY <1>3
<1>5. /\ longer \in Seq(R) /\ Len(longer) = n + 1 /\ n \in Nat
      /\ longer[n + 1] = info
      /\ \A i \in 1..n : longer[i] = infos[i]
  BY <1>1, <1>2, <1>4
<1>6. longer \in Seq(RegionInfoType)
  BY <1>3, <1>5
<1>7. PICK k \in Nat \ {0} : k = n + 1 /\ k - 1 = n
  BY <1>5
<1>8. PICK counts : counts = pageCounts(longer) OBVIOUS
<1>9. /\ countPages(longer) = total(counts, 1..k)
      /\ \A i \in 1..k : counts[i] = longer[i].pageCount /\ counts[i] \in Nat
  BY <1>5, <1>6, <1>7, <1>8, CountPagesSum
<1>10. /\ total(counts, 1..k) = total(counts, 1..(k-1)) + counts[k]
       /\ total(counts, 1..(k-1)) \in Nat
  BY <1>9, TotalNext
<1>11. total(counts, 1..n) = countPages(infos)
  <2>1. /\ countPages(infos) = total(pageCounts(infos), 1..n)
        /\ \A i \in 1..n : pageCounts(infos)[i] = infos[i].pageCount
    BY <1>2, CountPagesSum
  <2>2. \A i \in 1..n : counts[i] = pageCounts(infos)[i]
    BY <1>5, <1>7, <1>9, <2>1
  <2>3. PICK S : S = 1..n OBVIOUS
  <2>4. total(counts, S) = total(pageCounts(infos), S)
    BY <2>2, <2>3, TotalSame
  <2> QED BY <2>1, <2>3, <2>4
<1>12. counts[k] = info.pageCount
  BY <1>5, <1>7, <1>9
<1> QED BY <1>1, <1>6, <1>7, <1>9, <1>10, <1>11, <1>12

LEMMA ScanRegionStep == ASSUME Parts, ScanRegion PROVE Parts'
<1>1. PICK k : k = cursor OBVIOUS
<1>2. PICK memory : memory = request.regions OBVIOUS
<1>3. PICK size : size = request.pageSize OBVIOUS
<1>4. PICK region : region = memory[k] OBVIOUS
<1>5. /\ phase = "scan" /\ phase' = "scan"
      /\ k <= Len(memory)
      /\ regionsInfo' = IF regionKept(region, size)
                        THEN Append(regionsInfo, initRegionInfo(region, size))
                        ELSE regionsInfo
      /\ cursor' = k + 1
      /\ pageSize' = pageSize /\ descRegionIdx' = descRegionIdx
      /\ descPagesCount' = descPagesCount /\ pagesCount' = pagesCount
      /\ address' = address /\ pool' = pool /\ request' = request
      /\ joinedGroup' = joinedGroup /\ held' = held /\ reply' = reply
  BY <1>1, <1>2, <1>3, <1>4 DEF ScanRegion
<1>6. /\ NotReleasing /\ Nothing /\ pagesCount = 0
      /\ memory \in MemoryModels /\ size \in PageSizes
      /\ isValidPageSize(size)
      /\ k \in 1..(Len(memory) + 1)
      /\ countPages(regionsInfo) = total(modelPages(memory, size), 1..(k - 1))
  BY <1>1, <1>2, <1>3, <1>5 DEF Parts, ScanInv
<1>7. /\ Len(memory) \in Nat /\ size \in Nat \ {0}
      /\ \A i \in 1..Len(memory) :
            /\ memory[i] \in [address : Nat, size : Nat \ {0}]
            /\ modelPages(memory, size)[i] \in Nat
            /\ modelPages(memory, size)[i] =
                  IF regionKept(memory[i], size)
                  THEN pageCount(memory[i], size) ELSE 0
  BY <1>6, ModelPagesType
<1>8. k \in Nat \ {0} /\ k \in 1..Len(memory) /\ 1..k \subseteq 1..Len(memory)
  BY <1>5, <1>6, <1>7
<1>9. PICK pages : pages = modelPages(memory, size) OBVIOUS
<1>10. /\ total(pages, 1..k) = total(pages, 1..(k-1)) + pages[k]
       /\ total(pages, 1..(k-1)) \in Nat
  <2>1. \A i \in 1..k : pages[i] \in Nat
    BY <1>7, <1>8, <1>9
  <2> QED BY <1>8, <2>1, TotalNext
<1>11. regionsInfo \in Seq(RegionInfoType)
  BY DEF Parts, MemoryTyped
<1>12. /\ regionsInfo' \in Seq(RegionInfoType)
       /\ countPages(regionsInfo') = total(pages, 1..k)
  <2>1. CASE regionKept(region, size)
    <3>1. PICK info : info = initRegionInfo(region, size) OBVIOUS
    <3>2. info \in RegionInfoType /\ info.pageCount = pageCount(region, size)
      BY <1>4, <1>7, <1>8, <2>1, <3>1, KeptRegionType
    <3>3. regionsInfo' = Append(regionsInfo, info)
      BY <1>5, <2>1, <3>1
    <3>4. /\ regionsInfo' \in Seq(RegionInfoType)
          /\ countPages(regionsInfo') = countPages(regionsInfo) + info.pageCount
      BY <1>11, <3>2, <3>3, CountPagesAppend
    <3>5. pages[k] = info.pageCount
      BY <1>4, <1>7, <1>8, <1>9, <2>1, <3>2
    <3> QED BY <1>6, <1>9, <1>10, <3>4, <3>5
  <2>2. CASE ~regionKept(region, size)
    <3>1. pages[k] = 0
      BY <1>4, <1>7, <1>8, <1>9, <2>2
    <3> QED BY <1>5, <1>6, <1>9, <1>10, <1>11, <2>2, <3>1
  <2> QED BY <2>1, <2>2
<1>13. nextPage' = nextPage /\ Page' = Page
  BY <1>5 DEF nextPage, Page
<1>14. ScanInv'
  <2>1. cursor' \in 1..(Len(memory) + 1) /\ cursor' - 1 = k
    BY <1>5, <1>7, <1>8
  <2>2. NotReleasing' /\ Nothing' /\ pagesCount' = 0
    BY <1>5, <1>6, <1>13 DEF NotReleasing, Nothing
  <2> QED BY <1>2, <1>3, <1>5, <1>6, <1>9, <1>12, <2>1, <2>2 DEF ScanInv
<1>15. ReservedGroup = {} /\ ReservedGroup' = {}
  BY <1>5, <1>6 DEF Nothing, ReservedGroup
<1>16. GroupsConsistent' /\ HeldInv'
  BY <1>5, <1>13, <1>15
     DEF Parts, GroupsConsistent, OutOfLists, Releasing, HeldInv
<1>17. MemoryTyped'
  BY <1>5, <1>12, <1>13 DEF Parts, MemoryTyped
<1>18. CallTyped' /\ HeldTyped' /\ ReplyTyped'
  BY <1>5, <1>8, <1>13 DEF Parts, CallTyped, HeldTyped, ReplyTyped
<1>19. IdleInv' /\ SetupInv' /\ ReleaseInv'
  BY <1>5 DEF IdleInv, SetupInv, ReleaseInv, Releasing
<1> QED BY <1>5, <1>14, <1>16, <1>17, <1>18, <1>19 DEF Parts

\* The two ways init fails after the page size was accepted.
LEMMA InitGivesUpStep ==
    ASSUME Parts, TooManyRegions \/ NoUsablePages PROVE Parts'
<1>1. /\ phase = "scan" /\ phase' = "idle"
      /\ request' = NoRequest /\ cursor' = 0 /\ reply' = Reply("init", FALSE)
      /\ UNCHANGED memoryVars
      /\ pool' = pool /\ joinedGroup' = joinedGroup /\ held' = held
  BY DEF TooManyRegions, NoUsablePages, InitReturns
<1>2. NotReleasing /\ Nothing /\ pagesCount = 0
  BY <1>1 DEF Parts, ScanInv
<1>3. IdleInv'
  BY <1>1, <1>2, SameMemory DEF IdleInv, NotReleasing, Nothing
<1>4. ScanInv' /\ SetupInv' /\ ReleaseInv' /\ ~Releasing /\ ~Releasing'
  BY <1>1 DEF ScanInv, SetupInv, ReleaseInv, Releasing
<1>5. GroupsConsistent' /\ HeldInv'
  BY <1>1, <1>4, SameMemory DEF Parts, GroupsConsistent, OutOfLists, HeldInv
<1>6. CallTyped' /\ HeldTyped' /\ ReplyTyped'
  BY <1>1, SameMemory DEF Parts, CallTyped, HeldTyped, ReplyTyped, Reply, NoRequest
<1> QED BY <1>1, <1>3, <1>4, <1>5, <1>6, SameMemory DEF Parts

LEMMA ScanDoneStep == ASSUME Parts, ScanDone PROVE Parts'
<1>1. PICK memory : memory = request.regions OBVIOUS
<1>2. PICK size : size = request.pageSize OBVIOUS
<1>3. /\ phase = "scan" /\ phase' = "setup"
      /\ cursor > Len(memory)
      /\ countPages(regionsInfo) # 0
      /\ pagesCount' = countPages(regionsInfo)
      /\ pageSize' = size
      /\ descRegionIdx' = chooseDescRegion(regionsInfo, countPages(regionsInfo))
      /\ cursor' = 1
      /\ regionsInfo' = regionsInfo /\ descPagesCount' = descPagesCount
      /\ address' = address /\ pool' = pool /\ request' = request
      /\ joinedGroup' = joinedGroup /\ held' = held /\ reply' = reply
  BY <1>1, <1>2 DEF ScanDone
<1>4. /\ NotReleasing /\ Nothing /\ pagesCount = 0
      /\ memory \in MemoryModels /\ size \in PageSizes
      /\ isValidPageSize(size)
      /\ cursor \in 1..(Len(memory) + 1)
      /\ countPages(regionsInfo) = total(modelPages(memory, size), 1..(cursor - 1))
  BY <1>1, <1>2, <1>3 DEF Parts, ScanInv
<1>5. /\ Len(memory) \in Nat /\ DOMAIN memory = 1..Len(memory)
      /\ size \in Nat \ {0}
  BY <1>4, ModelPagesType
<1>6. pagesCount' < SizeLimit
  <2>1. cursor - 1 = Len(memory)
    BY <1>3, <1>4, <1>5
  <2>2. countPages(regionsInfo) = total(modelPages(memory, size), DOMAIN memory)
    BY <1>4, <1>5, <2>1
  <2>3. total(modelPages(memory, size), DOMAIN memory) < SizeLimit
    BY <1>4, PagesFit
  <2> QED BY <1>3, <2>2, <2>3
<1>7. regionsInfo \in Seq(RegionInfoType)
  BY DEF Parts, MemoryTyped
<1>8. /\ countPages(regionsInfo) = total(pageCounts(regionsInfo), 1..Len(regionsInfo))
      /\ countPages(regionsInfo) \in Nat
      /\ Len(regionsInfo) \in Nat /\ DOMAIN regionsInfo = 1..Len(regionsInfo)
  BY <1>7, CountPagesSum
<1>9. Len(regionsInfo) # 0
  <2>1. ASSUME Len(regionsInfo) = 0 PROVE FALSE
    <3>1. 1..Len(regionsInfo) = {}
      BY <2>1
    <3> QED BY <1>3, <1>8, <3>1, TotalEmpty
  <2> QED BY <2>1
<1>10. descRegionIdx' \in Nat
  <2>1. descRegionIdx' \in DOMAIN regionsInfo
    BY <1>3, <1>7, <1>9, ChooseType
  <2> QED BY <1>8, <2>1
<1>11. nextPage' = nextPage /\ nextPage = 0
  BY <1>3, <1>4 DEF nextPage, Nothing
<1>12. SetupInv'
  <2>1. 1..(cursor' - 1) = {}
    BY <1>3
  <2>2. nextPage' = total(pageCounts(regionsInfo'), 1..(cursor' - 1))
    BY <1>11, <2>1, TotalEmpty
  <2>3. cursor' \in DOMAIN regionsInfo'
    BY <1>3, <1>8, <1>9
  <2>4. pagesCount' > 0 /\ pagesCount' = countPages(regionsInfo')
    BY <1>3, <1>8
  <2>5. held' = NoPages /\ reply' = NoReply /\ NotReleasing' /\ ~(descPagesCount' > 0)
    BY <1>3, <1>4 DEF Nothing, NotReleasing
  <2> QED BY <2>2, <2>3, <2>4, <2>5 DEF SetupInv
<1>13. ReservedGroup = {} /\ ReservedGroup' = {}
  BY <1>3, <1>4 DEF Nothing, ReservedGroup
<1>14. DOMAIN held = {}
  BY <1>4 DEF Nothing, NoPages
<1>15. GroupsConsistent' /\ HeldInv'
  BY <1>3, <1>11, <1>13
     DEF Parts, GroupsConsistent, OutOfLists, Releasing, HeldInv
<1>16. MemoryTyped'
  BY <1>3, <1>5, <1>8, <1>10, <1>11 DEF Parts, MemoryTyped
<1>17. CallTyped' /\ HeldTyped' /\ ReplyTyped'
  BY <1>3, <1>4, <1>14
     DEF Parts, CallTyped, HeldTyped, ReplyTyped, Nothing, NotReleasing, NoReply
<1>18. IdleInv' /\ ScanInv' /\ ReleaseInv'
  BY <1>3 DEF IdleInv, ScanInv, ReleaseInv, Releasing
<1> QED BY <1>6, <1>12, <1>15, <1>16, <1>17, <1>18 DEF Parts

\* One region's descriptors are written: info is its entry before the step,
\* entry afterwards, n its first page and t the page after its last one.
Wrote(k, n, t, info, entry) ==
    /\ k \in Nat \ {0} /\ k <= Len(regionsInfo) /\ k \in DOMAIN regionsInfo
    /\ DOMAIN regionsInfo = 1..Len(regionsInfo) /\ Len(regionsInfo) \in Nat
    /\ info = regionsInfo[k]
    /\ info \in RegionInfoType /\ info.pageCount \in Nat \ {0}
    /\ entry = [info EXCEPT !.firstPage = n, !.lastPage = n + info.pageCount - 1]
    /\ regionsInfo' \in Seq(RegionInfoType)
    /\ Len(regionsInfo') = Len(regionsInfo)
    /\ DOMAIN regionsInfo' = DOMAIN regionsInfo
    /\ \A i \in DOMAIN regionsInfo :
          regionsInfo'[i] = IF i = k THEN entry ELSE regionsInfo[i]
    /\ pageCounts(regionsInfo') = pageCounts(regionsInfo)
    /\ n \in Nat /\ t \in Nat /\ n = nextPage /\ nextPage' = t
    /\ Behind(n, info.pageCount, t)
    /\ t = total(pageCounts(regionsInfo), 1..k)
    /\ k = Len(regionsInfo) => t = pagesCount
    /\ address' \in [0..(t - 1) -> Nat]
    /\ \A p \in 0..(t - 1) :
          address'[p] = IF p < n THEN address[p]
                        ELSE info.alignedStart + (p - n) * pageSize
    /\ OutOfLists = ReservedGroup /\ OutOfLists' = ReservedGroup'
    /\ ListsInv(pool, ReservedGroup, n)
    /\ ListsInv(pool', ReservedGroup', t)

\* What becomes of its pages.
GroupedAs(k, n, t, info) ==
    IF k = descRegionIdx
    THEN /\ descPagesCount' = reserveDescPages(info)
         /\ descPagesCount' \in 1..info.pageCount
         /\ ReservedGroup = {} /\ ReservedGroup' = {n}
         /\ WasReserved(pool', pool, {}, n, descPagesCount', t)
    ELSE /\ descPagesCount' = descPagesCount
         /\ ReservedGroup' = ReservedGroup
         /\ WasFreed(pool', pool, ReservedGroup, n, t)

LEMMA SetupFacts ==
    ASSUME Parts, SetupRegion
    PROVE  \E n, t, info, entry :
              Wrote(cursor, n, t, info, entry) /\ GroupedAs(cursor, n, t, info)
<1> USE SizeLimitType
<1>1. PICK k : k = cursor OBVIOUS
<1>2. PICK n : n = nextPage OBVIOUS
<1>3. PICK info : info = regionsInfo[k] OBVIOUS
<1>4. PICK count : count = info.pageCount OBVIOUS
<1>5. PICK reserved : reserved = reserveDescPages(info) OBVIOUS
<1>6. PICK t : t = n + count OBVIOUS
<1>7. PICK counts : counts = pageCounts(regionsInfo) OBVIOUS
<1>8. /\ phase = "setup"
      /\ regionsInfo' = [regionsInfo EXCEPT ![k].firstPage = n,
                                            ![k].lastPage = n + count - 1]
      /\ address' = [p \in 0..(n + count - 1) |->
                        IF p < n THEN address[p]
                        ELSE info.alignedStart + (p - n) * pageSize]
      /\ IF k = descRegionIdx
         THEN /\ descPagesCount' = reserved
              /\ pool' = withDescRegion(pool, n, count, reserved)
         ELSE /\ descPagesCount' = descPagesCount
              /\ pool' = addGroup(writeRegion(pool, n, count), n)
      /\ pageSize' = pageSize /\ descRegionIdx' = descRegionIdx
      /\ pagesCount' = pagesCount /\ joinedGroup' = joinedGroup /\ held' = held
  BY <1>1, <1>2, <1>3, <1>4, <1>5 DEF SetupRegion
<1>10. /\ NotReleasing /\ held = NoPages /\ reply = NoReply
       /\ k \in DOMAIN regionsInfo
       /\ pagesCount = countPages(regionsInfo) /\ pagesCount > 0
       /\ n = total(counts, 1..(k - 1))
       /\ descPagesCount > 0 => descRegionIdx \in 1..(k - 1)
  BY <1>1, <1>2, <1>7, <1>8 DEF Parts, SetupInv
<1>11. /\ regionsInfo \in Seq(RegionInfoType)
       /\ pageSize \in Nat /\ descRegionIdx \in Nat /\ descPagesCount \in Nat
       /\ pagesCount \in Nat /\ pagesCount < SizeLimit
       /\ address \in [0..(n - 1) -> Nat]
  BY <1>2 DEF Parts, MemoryTyped
<1>12. PICK len \in Nat : len = Len(regionsInfo) /\ DOMAIN regionsInfo = 1..len
  BY <1>11
<1>13. /\ info \in RegionInfoType /\ count \in Nat \ {0}
       /\ info.alignedStart \in Nat
  BY <1>3, <1>4, <1>10, <1>11, EntryType
<1>14. /\ pagesCount = total(counts, 1..len)
       /\ \A i \in 1..len : counts[i] \in Nat /\ counts[i] = regionsInfo[i].pageCount
  BY <1>7, <1>10, <1>11, <1>12, CountPagesSum
<1>15. k \in Nat \ {0} /\ k \in 1..len /\ k \in 0..len /\ 1..k \subseteq 1..len
  BY <1>10, <1>12
<1>16. /\ t = total(counts, 1..k) /\ n \in Nat /\ t \in Nat
  <2>1. \A i \in 1..k : counts[i] \in Nat
    BY <1>14, <1>15
  <2>2. /\ total(counts, 1..k) = total(counts, 1..(k-1)) + counts[k]
        /\ total(counts, 1..(k-1)) \in Nat
    BY <1>15, <2>1, TotalNext
  <2>3. counts[k] = count
    BY <1>3, <1>4, <1>14, <1>15
  <2> QED BY <1>6, <1>10, <1>13, <2>2, <2>3
<1>17. t <= pagesCount
  <2>1. \A i \in 1..len : counts[i] \in Nat
    BY <1>14
  <2>2. total(counts, 1..k) <= total(counts, 1..len)
    BY <1>15, <2>1, TotalUpTo
  <2> QED BY <1>14, <1>16, <2>2
<1>18. count \in 1..(SizeLimit - 1) /\ Behind(n, count, t)
  BY <1>6, <1>11, <1>13, <1>16, <1>17 DEF Behind
<1>19. reserved \in 1..count
  <2>1. pagesCount \in Nat \ {0}
    BY <1>10, <1>11
  <2> QED BY <1>4, <1>5, <1>11, <1>13, <2>1, ReserveType
\* The table of descriptors.
<1>20. nextPage' = t /\ address' \in [0..(nextPage' - 1) -> Nat]
  <2>1. PICK D : D = 0..(t-1) /\ D = 0..(n + count - 1)
    BY <1>6, <1>13, <1>16
  <2>2. address' = [p \in D |-> IF p < n THEN address[p]
                               ELSE info.alignedStart + (p - n) * pageSize]
    BY <1>8, <2>1
  <2>3. Cardinality(D) = t
    <3>1. PICK last \in Int : last = t - 1
      BY <1>16
    <3>2. Cardinality(0..last) = IF 0 > last THEN 0 ELSE last - 0 + 1
      BY FS_Interval
    <3> QED BY <1>16, <2>1, <3>1, <3>2
  <2>4. nextPage' = t
    BY <2>2, <2>3 DEF nextPage
  <2>5. ASSUME NEW p \in D
        PROVE  (IF p < n THEN address[p]
                ELSE info.alignedStart + (p - n) * pageSize) \in Nat
    <3>1. CASE p < n
      <4>1. p \in 0..(n-1)
        BY <1>16, <2>1, <3>1
      <4> QED BY <1>11, <3>1, <4>1
    <3>2. CASE ~(p < n)
      <4>1. PICK q \in Nat : q = p - n
        BY <1>16, <2>1, <3>2
      <4>2. q * pageSize \in Nat
        BY <1>11, NatProduct
      <4> QED BY <1>13, <3>2, <4>1, <4>2
    <3> QED BY <3>1, <3>2
  <2>6. address' \in [D -> Nat]
    BY <2>2, <2>5
  <2> QED BY <2>1, <2>4, <2>6
\* The entries of the regions.
<1>21. PICK entry : entry = [info EXCEPT !.firstPage = n, !.lastPage = n + count - 1]
  OBVIOUS
<1>22. regionsInfo' = [regionsInfo EXCEPT ![k] = entry]
  BY <1>3, <1>8, <1>10, <1>21
<1>23. entry \in RegionInfoType /\ entry.pageCount = count /\ entry.firstPage = n
  <2>1. n + count - 1 \in Nat
    BY <1>13, <1>16
  <2> QED BY <1>4, <1>13, <1>16, <1>21, <2>1 DEF RegionInfoType
<1>24. /\ regionsInfo' \in Seq(RegionInfoType)
       /\ Len(regionsInfo') = len /\ DOMAIN regionsInfo' = 1..len
       /\ \A i \in 1..len : regionsInfo'[i] = IF i = k THEN entry ELSE regionsInfo[i]
  <2>1. PICK R : R = RegionInfoType OBVIOUS
  <2>2. regionsInfo \in Seq(R) /\ entry \in R
    BY <1>11, <1>23, <2>1
  <2>3. /\ regionsInfo' \in Seq(R) /\ Len(regionsInfo') = Len(regionsInfo)
        /\ \A i \in 1..Len(regionsInfo) :
              regionsInfo'[i] = IF i = k THEN entry ELSE regionsInfo[i]
    BY <1>12, <1>15, <1>22, <2>2, ExceptSeq
  <2> QED BY <1>12, <2>1, <2>3
<1>25. pageCounts(regionsInfo') = counts
  <2>1. \A i \in 1..len : regionsInfo'[i].pageCount = regionsInfo[i].pageCount
    BY <1>3, <1>4, <1>23, <1>24
  <2> QED BY <1>7, <1>12, <1>24, <2>1 DEF pageCounts
\* The free lists.
<1>27. /\ DOMAIN held = {} /\ DOMAIN held' = {}
       /\ ~Releasing /\ ~Releasing'
  <2>1. DOMAIN held = {} /\ DOMAIN held' = {}
    BY <1>8, <1>10 DEF NoPages
  <2>2. ~Releasing
    BY <1>8 DEF Releasing
  <2>3. phase' = "idle" \/ phase' = "setup"
    BY <1>8 DEF SetupRegion, InitReturns
  <2>4. ~Releasing'
    BY <2>3 DEF Releasing
  <2> QED BY <2>1, <2>2, <2>4
<1>28. ListsInv(pool, ReservedGroup, n)
  BY <1>2, <1>27 DEF Parts, GroupsConsistent, OutOfLists
<1>29. /\ ListsInv(pool', ReservedGroup', t)
       /\ GroupedAs(k, n, t, info)
  <2>1. CASE k = descRegionIdx
    <3>1. ~(descPagesCount > 0)
      BY <1>10, <1>15, <2>1
    <3>2. ReservedGroup = {}
      BY <3>1 DEF ReservedGroup
    <3>3. descPagesCount' = reserved
      BY <1>8, <2>1
    <3>4. ReservedGroup' = {n}
      <4>1. descPagesCount' > 0
        BY <1>13, <1>19, <3>3
      <4>2. regionsInfo'[descRegionIdx'].firstPage = n
        BY <1>8, <1>15, <1>23, <1>24, <2>1
      <4> QED BY <4>1, <4>2 DEF ReservedGroup
    <3>5. pool' = withDescRegion(pool, n, count, reserved)
      BY <1>8, <2>1
    <3>6. WasReserved(pool', pool, {}, n, reserved, t)
      <4>1. PICK out : out = ReservedGroup OBVIOUS
      <4>2. WasReserved(pool', pool, out, n, reserved, t)
        BY <1>16, <1>18, <1>19, <1>28, <3>5, <4>1, DescRegionStep
      <4> QED BY <3>2, <4>1, <4>2
    <3>7. ListsInv(pool', {n}, t)
      <4>1. PICK out : out = {} OBVIOUS
      <4>2. ListsInv(pool', out \cup {n}, t)
        BY <3>6, <4>1 DEF WasReserved
      <4>3. out \cup {n} = {n}
        BY <4>1
      <4> QED BY <4>2, <4>3
    <3> QED BY <1>4, <1>5, <1>19, <2>1, <3>2, <3>3, <3>4, <3>6, <3>7 DEF GroupedAs
  <2>2. CASE k # descRegionIdx
    <3>1. ReservedGroup' = ReservedGroup
      <4>1. descPagesCount > 0 =>
               regionsInfo'[descRegionIdx] = regionsInfo[descRegionIdx]
        BY <1>10, <1>15, <1>24, <2>2
      <4> QED BY <1>8, <2>2, <4>1 DEF ReservedGroup
    <3>2. pool' = addGroup(writeRegion(pool, n, count), n)
      BY <1>8, <2>2
    <3>3. PICK out : out = ReservedGroup OBVIOUS
    <3>4. WasFreed(pool', pool, out, n, t)
      BY <1>16, <1>18, <1>28, <3>2, <3>3, FreeRegionStep
    <3>5. ListsInv(pool', out, t)
      BY <3>4 DEF WasFreed
    <3> QED BY <1>8, <2>2, <3>1, <3>3, <3>4, <3>5 DEF GroupedAs
  <2> QED BY <2>1, <2>2
<1>30. OutOfLists = ReservedGroup /\ OutOfLists' = ReservedGroup'
  BY <1>27 DEF OutOfLists
<1>31. \A p \in 0..(t - 1) :
          address'[p] = IF p < n THEN address[p]
                        ELSE info.alignedStart + (p - n) * pageSize
  <2>1. 0..(t - 1) = 0..(n + count - 1)
    BY <1>6, <1>13, <1>16
  <2>2. PICK D : D = 0..(t - 1) OBVIOUS
  <2>3. address' = [p \in D |-> IF p < n THEN address[p]
                                ELSE info.alignedStart + (p - n) * pageSize]
    BY <1>8, <2>1, <2>2
  <2> QED BY <2>2, <2>3
<1>32. k = len => t = pagesCount
  BY <1>14, <1>16
<1>33. Wrote(k, n, t, info, entry)
  BY <1>2, <1>3, <1>4, <1>7, <1>12, <1>13, <1>15, <1>16, <1>18, <1>20, <1>21,
     <1>24, <1>25, <1>28, <1>29, <1>30, <1>31, <1>32 DEF Wrote
<1> QED BY <1>1, <1>29, <1>33

LEMMA SetupRegionStep == ASSUME Parts, SetupRegion PROVE Parts'
<1>1. PICK k : k = cursor OBVIOUS
<1>2. PICK n, t, info, entry : Wrote(k, n, t, info, entry) /\ GroupedAs(k, n, t, info)
  BY <1>1, SetupFacts
<1>3. /\ phase = "setup"
      /\ pageSize' = pageSize /\ descRegionIdx' = descRegionIdx
      /\ pagesCount' = pagesCount /\ joinedGroup' = joinedGroup /\ held' = held
  BY DEF SetupRegion
<1>4. IF k = Len(regionsInfo)
      THEN /\ phase' = "idle" /\ request' = NoRequest /\ cursor' = 0
           /\ reply' = Reply("init", TRUE)
      ELSE /\ cursor' = k + 1
           /\ phase' = phase /\ request' = request /\ reply' = reply
  BY <1>1 DEF SetupRegion, InitReturns
<1>5. /\ NotReleasing /\ held = NoPages /\ reply = NoReply
      /\ pagesCount = countPages(regionsInfo) /\ pagesCount > 0
      /\ descPagesCount > 0 => descRegionIdx \in 1..(k - 1)
  BY <1>1, <1>3 DEF Parts, SetupInv
<1>6. /\ pageSize \in Nat /\ descRegionIdx \in Nat /\ descPagesCount \in Nat
      /\ pagesCount \in Nat /\ pagesCount < SizeLimit
  BY DEF Parts, MemoryTyped
<1>7. /\ k \in Nat \ {0} /\ k <= Len(regionsInfo) /\ Len(regionsInfo) \in Nat
      /\ DOMAIN regionsInfo' = 1..Len(regionsInfo)
      /\ DOMAIN regionsInfo = 1..Len(regionsInfo)
      /\ regionsInfo' \in Seq(RegionInfoType)
      /\ pageCounts(regionsInfo') = pageCounts(regionsInfo)
      /\ nextPage' = t /\ t = total(pageCounts(regionsInfo), 1..k)
      /\ k = Len(regionsInfo) => t = pagesCount
      /\ address' \in [0..(t - 1) -> Nat]
      /\ OutOfLists' = ReservedGroup' /\ ListsInv(pool', ReservedGroup', t)
      /\ info.pageCount \in Nat
  BY <1>2 DEF Wrote
<1>8. DOMAIN held = {} /\ DOMAIN held' = {}
  BY <1>3, <1>5 DEF NoPages
<1>9. GroupsConsistent' /\ HeldInv'
  BY <1>7, <1>8 DEF GroupsConsistent, HeldInv
<1>10. descPagesCount' \in Nat /\ (descPagesCount' > 0 => descRegionIdx' \in 1..k)
  <2>1. k \in Nat \ {0} /\ info.pageCount \in Nat
    BY <1>7
  <2>2. CASE k = descRegionIdx
    <3>1. descPagesCount' \in 1..info.pageCount
      BY <1>2, <2>2 DEF GroupedAs
    <3> QED BY <1>3, <2>1, <2>2, <3>1
  <2>3. CASE k # descRegionIdx
    <3>1. descPagesCount' = descPagesCount
      BY <1>2, <2>3 DEF GroupedAs
    <3> QED BY <1>3, <1>5, <1>6, <2>1, <3>1
  <2> QED BY <2>2, <2>3
<1>11. MemoryTyped'
  BY <1>3, <1>6, <1>7, <1>10 DEF MemoryTyped
<1>12. HeldTyped' /\ (pagesCount < SizeLimit)'
  BY <1>3, <1>6, <1>8 DEF HeldTyped
<1>13. NotReleasing' /\ held' = NoPages
  BY <1>3, <1>5 DEF NotReleasing
<1>14. ScanInv' /\ ReleaseInv'
  BY <1>3, <1>4 DEF ScanInv, ReleaseInv, Releasing
<1>15. CASE k = Len(regionsInfo)
  <2>1. /\ phase' = "idle" /\ request' = NoRequest /\ cursor' = 0
        /\ reply' = Reply("init", TRUE)
    BY <1>4, <1>15
  <2>2. IdleInv' /\ SetupInv'
    BY <1>3, <1>7, <1>13, <1>15, <2>1 DEF IdleInv, SetupInv
  <2>3. CallTyped' /\ ReplyTyped'
    BY <1>13, <2>1 DEF CallTyped, ReplyTyped, Reply, NoRequest, NotReleasing
  <2> QED BY <1>9, <1>11, <1>12, <1>14, <2>2, <2>3 DEF Parts
<1>16. CASE k # Len(regionsInfo)
  <2>1. /\ cursor' = k + 1
        /\ phase' = "setup" /\ request' = request /\ reply' = NoReply
    BY <1>3, <1>4, <1>5, <1>16
  <2>2. cursor' \in DOMAIN regionsInfo' /\ cursor' - 1 = k /\ cursor' \in Nat
    <3>1. PICK len \in Nat : len = Len(regionsInfo) /\ DOMAIN regionsInfo' = 1..len
      BY <1>7
    <3>2. k \in Nat \ {0} /\ k <= len
      BY <1>7, <3>1
    <3>3. k # len
      BY <1>16, <3>1
    <3> QED BY <2>1, <3>1, <3>2, <3>3
  <2>3. countPages(regionsInfo') = countPages(regionsInfo)
    BY <1>7 DEF countPages
  <2>4. IdleInv' /\ SetupInv'
    BY <1>3, <1>5, <1>7, <1>10, <1>13, <2>1, <2>2, <2>3 DEF IdleInv, SetupInv
  <2>5. CallTyped' /\ ReplyTyped'
    BY <1>13, <2>1, <2>2
       DEF Parts, CallTyped, ReplyTyped, NoReply, NotReleasing
  <2> QED BY <1>9, <1>11, <1>12, <1>14, <2>4, <2>5 DEF Parts
<1> QED BY <1>15, <1>16

\* What allocate does when it finds a group.
Took(group, count) ==
    /\ group \in FreeGroups(pool)
    /\ count \in Nat \ {0}
    /\ count <= pool.groupSize[group]
    /\ WasTaken(pool', pool, OutOfLists, nextPage, group, count)
    /\ held' = [g \in DOMAIN held \cup {group} |->
                  IF g = group THEN count ELSE held[g]]
    /\ reply' = AllocReply(count, group)
    /\ OutOfLists' = OutOfLists \cup {group}

LEMMA AllocateFacts ==
    ASSUME Parts, NEW count \in AllocCounts, Allocate(count)
    PROVE  \E group : Took(group, count)
<1>1. /\ phase = "idle" /\ phase' = "idle" /\ count # 0
      /\ UNCHANGED memoryVars
  BY DEF Allocate
<1>2. PICK i \in ListIdx : \E k \in DOMAIN pool.lists[i] :
         /\ firstFit(i, k, count)
         /\ pool' = takePages(pool, pool.lists[i][k], count)
         /\ held' = [g \in DOMAIN held \cup {pool.lists[i][k]} |->
                        IF g = pool.lists[i][k] THEN count ELSE held[g]]
         /\ reply' = AllocReply(count, pool.lists[i][k])
  BY DEF Allocate, searched
<1>3. PICK k \in DOMAIN pool.lists[i] :
         /\ firstFit(i, k, count)
         /\ pool' = takePages(pool, pool.lists[i][k], count)
         /\ held' = [g \in DOMAIN held \cup {pool.lists[i][k]} |->
                        IF g = pool.lists[i][k] THEN count ELSE held[g]]
         /\ reply' = AllocReply(count, pool.lists[i][k])
  BY <1>2
<1>4. PICK group : group = pool.lists[i][k] OBVIOUS
<1>5. /\ group \in FreeGroups(pool)
      /\ count <= pool.groupSize[group]
      /\ pool' = takePages(pool, group, count)
      /\ held' = [g \in DOMAIN held \cup {group} |->
                    IF g = group THEN count ELSE held[g]]
      /\ reply' = AllocReply(count, group)
  <2>1. group \in FreeGroups(pool)
    BY <1>4 DEF FreeGroups, Range
  <2>2. pool.groupSize[group] >= count
    BY <1>3, <1>4 DEF firstFit, fits
  <2>3. pool.groupSize[group] \in Nat /\ count \in Nat
    <3>1. ListsInv(pool, OutOfLists, nextPage) /\ group \in Heads(pool, OutOfLists)
      BY <2>1 DEF Parts, GroupsConsistent, Heads
    <3>2. pool.groupSize[group] \in 1..(SizeLimit - 1)
      BY <3>1, HeadFacts
    <3> QED BY <3>2, SizeLimitType, ConfigAssumption
  <2> QED BY <1>3, <1>4, <2>1, <2>2, <2>3
<1>6. count \in Nat \ {0}
  BY <1>1, ConfigAssumption
<1>7. WasTaken(pool', pool, OutOfLists, nextPage, group, count)
  <2>1. ListsInv(pool, OutOfLists, nextPage)
    BY DEF Parts, GroupsConsistent
  <2>2. group \in FreeGroups(pool) /\ count <= pool.groupSize[group]
    BY <1>5
  <2> QED BY <1>5, <1>6, <2>1, <2>2, TakeStep
<1>8. DOMAIN held' = DOMAIN held \cup {group}
  BY <1>5
<1>9. OutOfLists' = OutOfLists \cup {group}
  BY <1>1, <1>8, SameMemory DEF OutOfLists, Releasing
<1> QED BY <1>5, <1>6, <1>7, <1>9 DEF Took

LEMMA AllocateStep ==
    ASSUME Parts, NEW count \in AllocCounts, Allocate(count) PROVE Parts'
<1>1. /\ phase = "idle" /\ phase' = "idle" /\ count # 0
      /\ UNCHANGED memoryVars
      /\ request' = request /\ cursor' = cursor /\ joinedGroup' = joinedGroup
  BY DEF Allocate
<1>2. PICK group : Took(group, count)
  BY AllocateFacts
<1>3. PICK out : out = OutOfLists OBVIOUS
<1>4. /\ group \in FreeGroups(pool) /\ count \in Nat \ {0}
      /\ held' = [g \in DOMAIN held \cup {group} |->
                    IF g = group THEN count ELSE held[g]]
      /\ reply' = AllocReply(count, group)
      /\ OutOfLists' = out \cup {group}
  BY <1>2, <1>3 DEF Took
<1>5. ListsInv(pool, out, nextPage)
  BY <1>3 DEF Parts, GroupsConsistent
<1>6. /\ ListsInv(pool', out \cup {group}, nextPage)
      /\ group \notin out
      /\ pool'.groupSize[group] = count
      /\ \A x \in out : pool'.groupSize[x] = pool.groupSize[x]
  BY <1>2, <1>3 DEF Took, WasTaken
<1>7. /\ DOMAIN held' = DOMAIN held \cup {group}
      /\ \A g \in DOMAIN held' : held'[g] = IF g = group THEN count ELSE held[g]
  BY <1>4
<1>8. out = DOMAIN held \cup ReservedGroup
  BY <1>1, <1>3 DEF OutOfLists, Releasing
<1>9. GroupsConsistent'
  BY <1>1, <1>4, <1>6, SameMemory DEF GroupsConsistent
<1>10. HeldInv'
  <2>1. DOMAIN held' \cap ReservedGroup' = {}
    BY <1>1, <1>6, <1>7, <1>8, SameMemory DEF Parts, HeldInv
  <2>2. \A g \in DOMAIN held' : held'[g] = pool'.groupSize[g]
    BY <1>6, <1>7, <1>8 DEF Parts, HeldInv
  <2> QED BY <2>1, <2>2 DEF HeldInv
<1>11. nextPage = pagesCount
  BY <1>1 DEF Parts, IdleInv
<1>12. group \in Page
  BY <1>4, <1>5, <1>11, HeadFacts DEF Page
<1>13. HeldTyped'
  BY <1>1, <1>4, <1>7, <1>12, SameMemory DEF Parts, HeldTyped
<1>14. ReplyTyped'
  BY <1>1, <1>4, <1>12, SameMemory DEF ReplyTyped, AllocReply
<1>15. CallTyped' /\ IdleInv'
  BY <1>1, SameMemory DEF Parts, CallTyped, IdleInv, NotReleasing
<1>16. ScanInv' /\ SetupInv' /\ ReleaseInv'
  BY <1>1 DEF ScanInv, SetupInv, ReleaseInv, Releasing
<1> QED BY <1>1, <1>9, <1>10, <1>13, <1>14, <1>15, <1>16, SameMemory DEF Parts

\* Calls that only reply.
LEMMA RepliesOnlyStep ==
    ASSUME Parts, phase = "idle",
           UNCHANGED <<memoryVars, pool, phase, request, cursor, joinedGroup, held>>,
           ReplyTyped'
    PROVE  Parts'
<1>1. /\ pool' = pool /\ phase' = phase /\ request' = request
      /\ cursor' = cursor /\ joinedGroup' = joinedGroup /\ held' = held
      /\ UNCHANGED memoryVars
  OBVIOUS
<1>2. GroupsConsistent' /\ HeldInv'
  BY <1>1, SameMemory DEF Parts, GroupsConsistent, OutOfLists, Releasing, HeldInv
<1>3. CallTyped' /\ HeldTyped' /\ IdleInv'
  BY <1>1, SameMemory DEF Parts, CallTyped, HeldTyped, IdleInv, NotReleasing
<1>4. ScanInv' /\ SetupInv' /\ ReleaseInv'
  BY <1>1 DEF ScanInv, SetupInv, ReleaseInv, Releasing
<1> QED BY <1>1, <1>2, <1>3, <1>4, SameMemory DEF Parts

LEMMA AllocateFailsStep ==
    ASSUME Parts, NEW count \in AllocCounts, AllocateFails(count) PROVE Parts'
<1>1. reply' = AllocReply(count, nullptr)
  BY DEF AllocateFails
<1>2. ReplyTyped'
  BY <1>1 DEF ReplyTyped, AllocReply
<1> QED BY <1>2, RepliesOnlyStep DEF AllocateFails

LEMMA ReleaseNullStep == ASSUME Parts, ReleaseNull PROVE Parts'
<1>1. reply' = Reply("release", nullptr)
  BY DEF ReleaseNull
<1>2. ReplyTyped'
  BY <1>1 DEF ReplyTyped
<1> QED BY <1>2, RepliesOnlyStep DEF ReleaseNull

LEMMA ReleaseStep ==
    ASSUME Parts, NEW group \in DOMAIN held, Release(group) PROVE Parts'
<1>1. /\ phase = "idle" /\ phase' = "above" /\ joinedGroup' = group
      /\ held' = [g \in DOMAIN held \ {group} |-> held[g]]
      /\ reply' = NoReply /\ UNCHANGED memoryVars
      /\ pool' = pool /\ request' = request /\ cursor' = cursor
  BY DEF Release
<1>2. /\ DOMAIN held' = DOMAIN held \ {group}
      /\ \A g \in DOMAIN held' : held'[g] = held[g]
  BY <1>1
<1>3. request = NoRequest /\ cursor = 0 /\ nextPage = pagesCount
  BY <1>1 DEF Parts, IdleInv
<1>4. ~Releasing /\ Releasing'
  BY <1>1 DEF Releasing
<1>5. OutOfLists' = OutOfLists
  BY <1>1, <1>2, <1>4, SameMemory DEF OutOfLists
<1>6. GroupsConsistent'
  BY <1>1, <1>5, SameMemory DEF Parts, GroupsConsistent
<1>7. HeldInv'
  BY <1>1, <1>2, SameMemory DEF Parts, HeldInv
<1>8. group \in Page /\ group \notin ReservedGroup
  BY DEF Parts, HeldTyped, HeldInv
<1>9. ReleaseInv'
  BY <1>1, <1>2, <1>3, <1>8, SameMemory DEF ReleaseInv
<1>10. IdleInv' /\ ScanInv' /\ SetupInv'
  BY <1>1 DEF IdleInv, ScanInv, SetupInv
<1>11. CallTyped'
  BY <1>1, <1>8, SameMemory DEF Parts, CallTyped
<1>12. HeldTyped'
  BY <1>1, <1>2, SameMemory DEF Parts, HeldTyped
<1>13. ReplyTyped'
  BY <1>1 DEF ReplyTyped, NoReply
<1> QED BY <1>1, <1>6, <1>7, <1>9, <1>10, <1>11, <1>12, <1>13, SameMemory
       DEF Parts

\* The group release works on, and the others that are in no list.
LEMMA ReleasingFacts ==
    ASSUME Parts, Releasing, NEW others, others = DOMAIN held \cup ReservedGroup
    PROVE  /\ ListsInv(pool, others \cup {joinedGroup}, nextPage)
           /\ joinedGroup \notin others
           /\ joinedGroup \in 0..(nextPage - 1)
           /\ Page = 0..(nextPage - 1)
           /\ nextPage = pagesCount /\ pagesCount \in Nat
           /\ pagesCount < SizeLimit
           /\ request = NoRequest /\ cursor = 0
<1>1. /\ joinedGroup \in Page /\ joinedGroup \notin others
      /\ request = NoRequest /\ cursor = 0 /\ nextPage = pagesCount
  BY DEF Parts, ReleaseInv
<1>2. OutOfLists = others \cup {joinedGroup}
  BY DEF OutOfLists
<1> QED BY <1>1, <1>2 DEF Parts, GroupsConsistent, MemoryTyped, Page

\* What is left to show of a step of release that goes on.
LEMMA GoesOn ==
    ASSUME Parts, Releasing, phase' \in {"above", "below"},
           UNCHANGED <<memoryVars, request, cursor, held, reply>>,
           NEW others, others = DOMAIN held \cup ReservedGroup,
           ListsInv(pool', others \cup {joinedGroup'}, nextPage),
           joinedGroup' \in 0..(nextPage - 1), joinedGroup' \notin others,
           \A x \in others : pool'.groupSize[x] = pool.groupSize[x]
    PROVE  Parts'
<1>1. /\ UNCHANGED memoryVars /\ request' = request /\ cursor' = cursor
      /\ held' = held /\ reply' = reply /\ Releasing'
  BY DEF Releasing
<1>2. /\ Page = 0..(nextPage - 1) /\ nextPage = pagesCount
      /\ request = NoRequest /\ cursor = 0
  BY ReleasingFacts
<1>3. OutOfLists' = others \cup {joinedGroup'}
  BY <1>1, SameMemory DEF OutOfLists
<1>4. GroupsConsistent'
  BY <1>1, <1>3, SameMemory DEF GroupsConsistent
<1>5. HeldInv'
  BY <1>1, SameMemory DEF Parts, HeldInv
<1>6. ReleaseInv'
  BY <1>1, <1>2, SameMemory DEF ReleaseInv
<1>7. IdleInv' /\ ScanInv' /\ SetupInv'
  BY DEF IdleInv, ScanInv, SetupInv
<1>8. CallTyped' /\ HeldTyped' /\ ReplyTyped'
  BY <1>1, <1>2, SameMemory DEF Parts, CallTyped, HeldTyped, ReplyTyped
<1> QED BY <1>1, <1>4, <1>5, <1>6, <1>7, <1>8, SameMemory DEF Parts

\* The group that ends above the one release works on.
LEMMA GroupAboveJoined ==
    ASSUME Parts, Releasing, joinable(joinedGroup, lastAbove),
           NEW a, a = lastAbove - pool.groupSize[lastAbove] + 1
    PROVE  a \in FreeGroups(pool) /\ Touching(pool.groupSize, a, joinedGroup)
<1>1. PICK j : j = joinedGroup OBVIOUS
<1>2. PICK others : others = DOMAIN held \cup ReservedGroup OBVIOUS
<1>3. PICK out : out = others \cup {j} OBVIOUS
<1>4. PICK n : n = nextPage OBVIOUS
<1>5. /\ ListsInv(pool, out, n) /\ j \in 0..(n - 1) /\ n = pagesCount /\ n \in Nat
  BY <1>1, <1>2, <1>3, <1>4, ReleasingFacts
<1>6. PICK p \in 0..(n - 1) : p = lastAbove /\ Behind(p, 1, j) /\ ~pool.used[p]
  <2>1. lastAbove \in 0..(n - 1) /\ lastAbove = j - 1
    BY <1>1, <1>5 DEF joinable, isValidPage, lastAbove
  <2> QED BY <1>5, <2>1 DEF Behind, joinable
<1>7. a \in Int /\ Behind(a, pool.groupSize[p], j)
  <2>1. pool.groupSize[p] \in 0..(SizeLimit - 1)
    BY <1>5 DEF ListsInv, ListsTyped
  <2> QED BY <1>5, <1>6, <2>1, SizeLimitType DEF Behind
<1> QED BY <1>1, <1>3, <1>5, <1>6, <1>7, GroupAbove

\* The group behind it.
LEMMA GroupBelowJoined ==
    ASSUME Parts, Releasing, joinable(lastJoined, firstBelow)
    PROVE  /\ firstBelow \in FreeGroups(pool)
           /\ Touching(pool.groupSize, joinedGroup, firstBelow)
<1>1. PICK j : j = joinedGroup OBVIOUS
<1>2. PICK others : others = DOMAIN held \cup ReservedGroup OBVIOUS
<1>3. PICK out : out = others \cup {j} OBVIOUS
<1>4. PICK n : n = nextPage OBVIOUS
<1>5. PICK b : b = firstBelow OBVIOUS
<1>6. /\ ListsInv(pool, out, n) /\ j \in 0..(n - 1) /\ n = pagesCount /\ n \in Nat
  BY <1>1, <1>2, <1>3, <1>4, ReleasingFacts
<1>7. PICK s \in Nat : s = pool.groupSize[j]
  <2>1. pool.groupSize[j] \in 0..(SizeLimit - 1)
    BY <1>6 DEF ListsInv, ListsTyped
  <2> QED BY <2>1
<1>8. b = j + s - 1 + 1
  BY <1>1, <1>5, <1>7 DEF firstBelow, lastJoined
<1>9. b = j + s /\ b \in Int
  BY <1>6, <1>7, <1>8
<1>10. b \in 0..(n - 1) /\ ~pool.used[b]
  BY <1>5, <1>6, <1>9 DEF joinable, isValidPage
<1>11. Touching(pool.groupSize, j, b)
  BY <1>7, <1>9 DEF Touching
<1> QED BY <1>1, <1>3, <1>5, <1>6, <1>10, <1>11, GroupBelow

\* An iteration of the first loop.
LEMMA JoinedAbove ==
    ASSUME Parts, JoinAbove
    PROVE  /\ Releasing /\ phase' = "above"
           /\ UNCHANGED <<memoryVars, request, cursor, held, reply>>
           /\ joinedGroup' \in FreeGroups(pool)
           /\ WasAbsorbed(pool, pool', OutOfLists, nextPage,
                          joinedGroup, joinedGroup', joinedGroup)
<1>1. PICK j : j = joinedGroup OBVIOUS
<1>2. PICK others : others = DOMAIN held \cup ReservedGroup OBVIOUS
<1>3. PICK a : a = lastAbove - pool.groupSize[lastAbove] + 1 OBVIOUS
<1>4. /\ phase = "above" /\ phase' = "above" /\ joinable(j, lastAbove)
      /\ pool' = absorb(pool, a, a, j) /\ joinedGroup' = a
      /\ UNCHANGED <<memoryVars, request, cursor, held, reply>>
  BY <1>1, <1>3 DEF JoinAbove
<1>5. Releasing
  BY <1>4 DEF Releasing
<1>6. PICK out : out = others \cup {j} OBVIOUS
<1>7. PICK n : n = nextPage OBVIOUS
<1>8. ListsInv(pool, out, n) /\ n < SizeLimit
  BY <1>1, <1>2, <1>5, <1>6, <1>7, ReleasingFacts
<1>9. a \in FreeGroups(pool) /\ Touching(pool.groupSize, a, j)
  BY <1>1, <1>3, <1>4, <1>5, GroupAboveJoined
<1>10. j \in out /\ TwoGroups(pool, j, a, a, j)
  BY <1>6, <1>9 DEF TwoGroups
<1>11. WasAbsorbed(pool, absorb(pool, a, a, j), out, n, j, a, j)
  BY <1>8, <1>9, <1>10, AbsorbStep
<1>12. out = OutOfLists
  BY <1>1, <1>2, <1>5, <1>6 DEF OutOfLists
<1> QED BY <1>1, <1>4, <1>5, <1>7, <1>9, <1>11, <1>12

LEMMA JoinAboveStep == ASSUME Parts, JoinAbove PROVE Parts'
<1>1. PICK j : j = joinedGroup OBVIOUS
<1>2. PICK others : others = DOMAIN held \cup ReservedGroup OBVIOUS
<1>3. PICK n : n = nextPage OBVIOUS
<1>4. PICK a : a = joinedGroup' OBVIOUS
<1>5. /\ Releasing /\ phase' = "above"
      /\ UNCHANGED <<memoryVars, request, cursor, held, reply>>
      /\ a \in FreeGroups(pool)
      /\ WasAbsorbed(pool, pool', OutOfLists, n, j, a, j)
  BY <1>1, <1>3, <1>4, JoinedAbove
<1>6. PICK out : out = others \cup {j} OBVIOUS
<1>7. ListsInv(pool, out, n) /\ j \notin others /\ OutOfLists = out
  BY <1>1, <1>2, <1>3, <1>5, <1>6, ReleasingFacts DEF OutOfLists
<1>8. /\ ListsInv(pool', (out \cup {a}) \ {j}, n)
      /\ a \notin out
      /\ \A x \in out : x # j => pool'.groupSize[x] = pool.groupSize[x]
  BY <1>5, <1>7 DEF WasAbsorbed
<1>9. (out \cup {a}) \ {j} = others \cup {a}
  BY <1>6, <1>7, <1>8
<1>10. a \in 0..(nextPage - 1) /\ a \notin others
  BY <1>3, <1>5, <1>6, <1>7, <1>8, HeadFacts
<1>11. \A x \in others : pool'.groupSize[x] = pool.groupSize[x]
  BY <1>6, <1>7, <1>8
<1>12. ListsInv(pool', others \cup {a}, nextPage)
  BY <1>3, <1>8, <1>9
<1> QED BY <1>2, <1>4, <1>5, <1>10, <1>11, <1>12, GoesOn

LEMMA NothingAboveStep == ASSUME Parts, NothingAbove PROVE Parts'
<1>1. PICK others : others = DOMAIN held \cup ReservedGroup OBVIOUS
<1>2. /\ phase = "above" /\ phase' = "below"
      /\ pool' = pool /\ joinedGroup' = joinedGroup
      /\ UNCHANGED <<memoryVars, request, cursor, held, reply>>
  BY DEF NothingAbove
<1>3. Releasing
  BY <1>2 DEF Releasing
<1>4. /\ ListsInv(pool', others \cup {joinedGroup'}, nextPage)
      /\ joinedGroup' \in 0..(nextPage - 1) /\ joinedGroup' \notin others
  BY <1>1, <1>2, <1>3, ReleasingFacts
<1> QED BY <1>1, <1>2, <1>3, <1>4, GoesOn

\* An iteration of the second loop.
LEMMA JoinedBelow ==
    ASSUME Parts, JoinBelow
    PROVE  /\ Releasing /\ phase' = "below" /\ joinedGroup' = joinedGroup
           /\ UNCHANGED <<memoryVars, request, cursor, held, reply>>
           /\ WasAbsorbed(pool, pool', OutOfLists, nextPage,
                          joinedGroup, firstBelow, firstBelow)
<1>1. PICK j : j = joinedGroup OBVIOUS
<1>2. PICK others : others = DOMAIN held \cup ReservedGroup OBVIOUS
<1>3. PICK b : b = firstBelow OBVIOUS
<1>4. /\ phase = "below" /\ phase' = "below" /\ joinable(lastJoined, b)
      /\ pool' = absorb(pool, b, j, b) /\ joinedGroup' = j
      /\ UNCHANGED <<memoryVars, request, cursor, held, reply>>
  BY <1>1, <1>3 DEF JoinBelow
<1>5. Releasing
  BY <1>4 DEF Releasing
<1>6. PICK out : out = others \cup {j} OBVIOUS
<1>7. PICK n : n = nextPage OBVIOUS
<1>8. ListsInv(pool, out, n) /\ n < SizeLimit
  BY <1>1, <1>2, <1>5, <1>6, <1>7, ReleasingFacts
<1>9. b \in FreeGroups(pool) /\ Touching(pool.groupSize, j, b)
  BY <1>1, <1>3, <1>4, <1>5, GroupBelowJoined
<1>10. j \in out /\ TwoGroups(pool, j, b, j, b)
  BY <1>6, <1>9 DEF TwoGroups
<1>11. WasAbsorbed(pool, absorb(pool, b, j, b), out, n, j, b, b)
  BY <1>8, <1>9, <1>10, AbsorbStep
<1>12. out = OutOfLists
  BY <1>1, <1>2, <1>5, <1>6 DEF OutOfLists
<1> QED BY <1>1, <1>3, <1>4, <1>5, <1>7, <1>11, <1>12

LEMMA JoinBelowStep == ASSUME Parts, JoinBelow PROVE Parts'
<1>1. PICK j : j = joinedGroup OBVIOUS
<1>2. PICK others : others = DOMAIN held \cup ReservedGroup OBVIOUS
<1>3. PICK n : n = nextPage OBVIOUS
<1>4. PICK b : b = firstBelow OBVIOUS
<1>5. /\ Releasing /\ phase' = "below" /\ joinedGroup' = j
      /\ UNCHANGED <<memoryVars, request, cursor, held, reply>>
      /\ WasAbsorbed(pool, pool', OutOfLists, n, j, b, b)
  BY <1>1, <1>3, <1>4, JoinedBelow
<1>6. PICK out : out = others \cup {j} OBVIOUS
<1>7. /\ ListsInv(pool, out, n) /\ j \notin others /\ OutOfLists = out
      /\ j \in 0..(n - 1)
  BY <1>1, <1>2, <1>3, <1>5, <1>6, ReleasingFacts DEF OutOfLists
<1>8. /\ ListsInv(pool', (out \cup {b}) \ {b}, n)
      /\ b \notin out
      /\ \A x \in out : x # j => pool'.groupSize[x] = pool.groupSize[x]
  BY <1>5, <1>7 DEF WasAbsorbed
<1>9. (out \cup {b}) \ {b} = others \cup {j}
  BY <1>6, <1>8
<1>10. \A x \in others : pool'.groupSize[x] = pool.groupSize[x]
  BY <1>6, <1>7, <1>8
<1>11. ListsInv(pool', others \cup {j}, nextPage)
  BY <1>3, <1>8, <1>9
<1> QED BY <1>2, <1>3, <1>5, <1>7, <1>10, <1>11, GoesOn

LEMMA FinishReleaseStep == ASSUME Parts, FinishRelease PROVE Parts'
<1>1. PICK j : j = joinedGroup OBVIOUS
<1>2. PICK others : others = DOMAIN held \cup ReservedGroup OBVIOUS
<1>3. /\ phase = "below" /\ phase' = "idle"
      /\ pool' = addGroup(pool, j) /\ joinedGroup' = nullptr
      /\ reply' = Reply("release", nullptr)
      /\ UNCHANGED memoryVars
      /\ request' = request /\ cursor' = cursor /\ held' = held
  BY <1>1 DEF FinishRelease
<1>4. Releasing /\ ~Releasing'
  BY <1>3 DEF Releasing
<1>5. PICK out : out = others \cup {j} OBVIOUS
<1>6. /\ ListsInv(pool, out, nextPage) /\ j \notin others
      /\ nextPage = pagesCount /\ request = NoRequest /\ cursor = 0
  BY <1>1, <1>2, <1>4, <1>5, ReleasingFacts
<1>7. ListsInv(pool', out \ {j}, nextPage) /\ pool'.groupSize = pool.groupSize
  <2>1. ListsInv(pool', out \ {j}, nextPage)
    BY <1>3, <1>5, <1>6, AddGroupStep
  <2> QED BY <1>3, <2>1 DEF addGroup
<1>8. OutOfLists' = out \ {j}
  BY <1>2, <1>3, <1>4, <1>5, <1>6, SameMemory DEF OutOfLists
<1>9. GroupsConsistent' /\ HeldInv'
  BY <1>3, <1>7, <1>8, SameMemory DEF Parts, GroupsConsistent, HeldInv
<1>10. IdleInv'
  BY <1>3, <1>6, SameMemory DEF IdleInv, NotReleasing
<1>11. ScanInv' /\ SetupInv' /\ ReleaseInv'
  BY <1>3, <1>4 DEF ScanInv, SetupInv, ReleaseInv
<1>12. CallTyped' /\ HeldTyped' /\ ReplyTyped'
  BY <1>3, SameMemory DEF Parts, CallTyped, HeldTyped, ReplyTyped
<1> QED BY <1>3, <1>9, <1>10, <1>11, <1>12, SameMemory DEF Parts

-----------------------------------------------------------------------------
(* The theorems.                                                           *)

LEMMA InitInv == Init => Inv
<1>1. SUFFICES ASSUME Init PROVE Parts
  BY InvParts
<1>2. /\ regionsInfo = <<>> /\ pageSize = 0 /\ descRegionIdx = 0
      /\ descPagesCount = 0 /\ pagesCount = 0
      /\ address = NoPages /\ pool = EmptyLists /\ held = NoPages
  BY <1>1 DEF Init
<1>3. /\ phase = "idle" /\ request = NoRequest /\ cursor = 0
      /\ joinedGroup = nullptr /\ reply = NoReply
  BY <1>1 DEF Init
<1>4. nextPage = 0
  BY <1>2, NextPageOfNone DEF nextPage
<1>5. DOMAIN NoPages = {} /\ NoPages \in [0..(0-1) -> Nat]
  BY DEF NoPages
<1>6. MemoryTyped
  BY <1>2, <1>4, <1>5 DEF MemoryTyped
<1>7. HeldTyped /\ HeldInv
  BY <1>2, <1>5 DEF HeldTyped, HeldInv
<1>8. pagesCount < SizeLimit
  BY <1>2, SizeLimitType
<1>9. IdleInv /\ ScanInv /\ SetupInv /\ ReleaseInv /\ ~Releasing
  BY <1>2, <1>3, <1>4
     DEF IdleInv, ScanInv, SetupInv, ReleaseInv, Releasing, NotReleasing
<1>10. OutOfLists = {}
  BY <1>2, <1>5, <1>9 DEF OutOfLists, ReservedGroup
<1>11. GroupsConsistent
  BY <1>2, <1>4, <1>10, ClearedLists DEF GroupsConsistent
<1>12. CallTyped
  BY <1>3 DEF CallTyped, NoRequest
<1>13. ReplyTyped
  BY <1>3 DEF ReplyTyped, NoReply
<1> QED BY <1>6, <1>7, <1>8, <1>9, <1>11, <1>12, <1>13 DEF Parts

\* Nothing changes.
LEMMA StutterStep == ASSUME Parts, UNCHANGED vars PROVE Parts'
<1>1. /\ UNCHANGED memoryVars /\ pool' = pool /\ phase' = phase
      /\ request' = request /\ cursor' = cursor
      /\ joinedGroup' = joinedGroup /\ held' = held /\ reply' = reply
  BY DEF vars, memoryVars
<1>2. regionsInfo' = regionsInfo /\ descRegionIdx' = descRegionIdx
  BY <1>1 DEF memoryVars
<1>3. Releasing' = Releasing /\ OutOfLists' = OutOfLists
  BY <1>1, SameMemory DEF Releasing, OutOfLists
<1>4. GroupsConsistent' /\ HeldInv'
  BY <1>1, <1>3, SameMemory DEF Parts, GroupsConsistent, HeldInv
<1>5. IdleInv' /\ ScanInv' /\ SetupInv' /\ ReleaseInv'
  BY <1>1, <1>2, <1>3, SameMemory
     DEF Parts, IdleInv, ScanInv, SetupInv, ReleaseInv, NotReleasing, Nothing
<1>6. CallTyped' /\ HeldTyped' /\ ReplyTyped'
  BY <1>1, SameMemory DEF Parts, CallTyped, HeldTyped, ReplyTyped
<1> QED BY <1>4, <1>5, <1>6, SameMemory, <1>1 DEF Parts

LEMMA StepInv == Inv /\ [Next]_vars => Inv'
<1>1. SUFFICES ASSUME Parts, [Next]_vars PROVE Parts'
  BY InvParts, InvPartsNext
<1>2. CASE Call
  <2>1. CASE Clear
    BY <1>1, <2>1, ClearStep
  <2>2. CASE \E size \in PageSizes : InitRejectsPageSize(size)
    BY <1>1, <2>2, InitRejectsPageSizeStep
  <2>3. CASE \E memory \in MemoryModels, size \in PageSizes :
                InitStart(memory, size)
    BY <1>1, <2>3, InitStartStep
  <2>4. CASE \E count \in AllocCounts : Allocate(count)
    BY <1>1, <2>4, AllocateStep
  <2>5. CASE \E count \in AllocCounts : AllocateFails(count)
    BY <1>1, <2>5, AllocateFailsStep
  <2>6. CASE \E group \in DOMAIN held : Release(group)
    BY <1>1, <2>6, ReleaseStep
  <2>7. CASE ReleaseNull
    BY <1>1, <2>7, ReleaseNullStep
  <2> QED BY <1>2, <2>1, <2>2, <2>3, <2>4, <2>5, <2>6, <2>7 DEF Call
<1>3. CASE Step
  <2>1. CASE ScanRegion
    BY <1>1, <2>1, ScanRegionStep
  <2>2. CASE TooManyRegions \/ NoUsablePages
    BY <1>1, <2>2, InitGivesUpStep
  <2>3. CASE ScanDone
    BY <1>1, <2>3, ScanDoneStep
  <2>4. CASE SetupRegion
    BY <1>1, <2>4, SetupRegionStep
  <2>5. CASE JoinAbove
    BY <1>1, <2>5, JoinAboveStep
  <2>6. CASE NothingAbove
    BY <1>1, <2>6, NothingAboveStep
  <2>7. CASE JoinBelow
    BY <1>1, <2>7, JoinBelowStep
  <2>8. CASE FinishRelease
    BY <1>1, <2>8, FinishReleaseStep
  <2> QED BY <1>3, <2>1, <2>2, <2>3, <2>4, <2>5, <2>6, <2>7, <2>8 DEF Step
<1>4. CASE UNCHANGED vars
  BY <1>1, <1>4, StutterStep
<1> QED BY <1>1, <1>2, <1>3, <1>4 DEF Next

\* Every state of every execution, between any two iterations of init and of
\* release, satisfies the inductive invariant.
THEOREM InvCorrect == Spec => []Inv
<1>1. Init => Inv
  BY InitInv
<1>2. Inv /\ [Next]_vars => Inv'
  BY StepInv
<1> QED BY <1>1, <1>2, PTL DEF Spec

\* Every field of the allocator keeps the type its declaration gives it; in
\* particular no group size outgrows the bits PageFlags has for it.
THEOREM TypeCorrect == Spec => []TypeOK
<1>1. Inv => TypeOK
  BY DEF Inv
<1> QED BY <1>1, InvCorrect, PTL

\* addGroup, removeGroup, splitGroup and joinGroup keep the table of
\* descriptors and the free lists consistent: groups tile the table, each
\* free one is in the one list of its size, both copies of a size agree, and
\* the count of free pages and the 'used' flags say the same.
THEOREM GroupsCorrect == Spec => []GroupsConsistent
<1>1. Inv => GroupsConsistent
  BY DEF Inv
<1> QED BY <1>1, InvCorrect, PTL

\* Without a group handed out there is nothing to show; with one, all
\* descriptors are written.
LEMMA HeldPagesWritten ==
    ASSUME Parts, NEW g \in DOMAIN held
    PROVE  /\ Page = 0..(nextPage - 1)
           /\ g \in OutOfLists
           /\ HeldPages(g) = Group(pool.groupSize, g)
           /\ held[g] = pool.groupSize[g]
<1>1. phase # "scan"
  BY DEF Parts, ScanInv, Nothing, NoPages
<1>2. phase # "setup"
  BY DEF Parts, SetupInv, NoPages
<1>3. nextPage = pagesCount
  BY <1>1, <1>2 DEF Parts, CallTyped, IdleInv, ReleaseInv, Releasing
<1>4. held[g] = pool.groupSize[g]
  BY DEF Parts, HeldInv
<1> QED BY <1>3, <1>4 DEF Page, OutOfLists, HeldPages, Group

LEMMA HeldIntactHolds == Inv => HeldIntact
<1>1. SUFFICES ASSUME Parts, NEW g \in DOMAIN held
               PROVE  /\ pool.groupSize[g] = held[g]
                      /\ \A p \in HeldPages(g) : p \in Page /\ pool.used[p]
                      /\ \A h \in DOMAIN held \ {g} :
                            HeldPages(g) \cap HeldPages(h) = {}
                      /\ HeldPages(g) \cap
                             UNION {Group(pool.groupSize, r) :
                                       r \in ReservedGroup} = {}
  BY InvParts DEF HeldIntact
<1>2. PICK out : out = OutOfLists OBVIOUS
<1>3. PICK n : n = nextPage OBVIOUS
<1>4. PICK sz : sz = pool.groupSize OBVIOUS
<1>5. ListsInv(pool, out, n)
  BY <1>1, <1>2, <1>3 DEF Parts, GroupsConsistent
<1>6. /\ Page = 0..(n - 1) /\ g \in out /\ held[g] = sz[g]
      /\ HeldPages(g) = Group(sz, g)
  BY <1>1, <1>2, <1>3, <1>4, HeldPagesWritten
<1>7. \A h \in out : h \in Heads(pool, out)
  BY DEF Heads
<1>8. ASSUME NEW p \in HeldPages(g) PROVE p \in Page /\ pool.used[p]
  <2>1. p \in 0..(n - 1)
    <3>1. n \in Nat /\ g \in 0..(n - 1)
      BY <1>5, <1>6 DEF ListsInv
    <3>2. PICK s \in Nat : s = sz[g]
      BY <1>4, <1>5, <3>1, SizeLimitType DEF ListsInv, ListsTyped
    <3>3. g + s <= n
      BY <1>4, <1>5, <1>6, <1>7, <3>2 DEF ListsInv, HeadersOk, GroupOk
    <3>4. p \in g..(g + s - 1)
      BY <1>6, <3>2 DEF Group
    <3> QED BY <3>1, <3>2, <3>3, <3>4
  <2> QED BY <1>4, <1>5, <1>6, <2>1 DEF ListsInv, UsedMatches
<1>9. ASSUME NEW h \in out, h # g
      PROVE  Group(sz, g) \cap Group(sz, h) = {}
  BY <1>4, <1>5, <1>6, <1>7, <1>9, OneGroupPerPage
<1>10. ASSUME NEW h \in DOMAIN held \ {g}
       PROVE  HeldPages(g) \cap HeldPages(h) = {}
  <2>1. h \in out /\ HeldPages(h) = Group(sz, h)
    BY <1>1, <1>2, <1>4, HeldPagesWritten
  <2> QED BY <1>6, <1>9, <2>1
<1>11. ASSUME NEW r \in ReservedGroup PROVE HeldPages(g) \cap Group(sz, r) = {}
  <2>1. r \in out /\ r # g
    BY <1>1, <1>2 DEF OutOfLists, Parts, HeldInv
  <2> QED BY <1>6, <1>9, <2>1
<1> QED BY <1>4, <1>6, <1>8, <1>10, <1>11

\* What allocate hands out stays the client's until it is released: marked
\* used, of the size asked for, and shared with no other client and with no
\* descriptor, whatever init, allocate and release do meanwhile.
THEOREM HeldCorrect == Spec => []HeldIntact
<1>1. Inv => HeldIntact
  BY HeldIntactHolds
<1> QED BY <1>1, InvCorrect, PTL
=============================================================================
