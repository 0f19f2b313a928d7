--------------------------- MODULE PageRegionsProofs ---------------------------
(***************************************************************************)
(* RegionsInv is an invariant of PageAllocator, for memory models whose    *)
(* regions do not touch; and with it PageAllocator implements PagePool.    *)
(***************************************************************************)
EXTENDS PageRegionsInvariant, PageAllocatorProofs

-----------------------------------------------------------------------------
(* Rounding to pages.                                                      *)

LEMMA AlignDownFacts ==
    ASSUME NEW addr \in Nat, NEW size \in Nat \ {0}
    PROVE  \E q \in Nat : /\ alignDown(addr, size) = q * size
                          /\ q * size \in Nat
                          /\ q * size <= addr
                          /\ addr < q * size + size
<1>1. PICK q \in Nat : q = addr \div size /\ q * size <= addr /\ addr < (q + 1) * size
  BY Division
<1>2. (q + 1) * size = q * size + size
  OBVIOUS
<1> QED BY <1>1, <1>2, NatProduct DEF alignDown

LEMMA AlignedAddress ==
    ASSUME NEW q \in Nat, NEW size \in Nat \ {0}
    PROVE  alignDown(q * size, size) = q * size
<1>1. PICK x \in Nat : x = q * size
  BY NatProduct
<1>2. PICK r \in Nat : /\ alignDown(x, size) = r * size
                       /\ r * size <= x /\ x < r * size + size
  BY AlignDownFacts
<1>3. q * size <= x /\ x < q * size + size
  BY <1>1
<1>4. r = q
  BY <1>2, <1>3, OnOnePage
<1> QED BY <1>1, <1>2, <1>4

\* The entry of a region that is kept is made of whole pages: nothing wraps,
\* since the region ends before the last address.
LEMMA KeptAligned ==
    ASSUME NEW region \in [address : Nat, size : Nat \ {0}],
           region.address + region.size < AddrSpace,
           NEW size \in Nat \ {0}, regionKept(region, size)
    PROVE  /\ Aligned(initRegionInfo(region, size), size)
           /\ initRegionInfo(region, size).alignedStart = alignedStart(region, size)
           /\ initRegionInfo(region, size).alignedEnd = alignedEnd(region, size)
           /\ initRegionInfo(region, size).pageCount = pageCount(region, size)
<1>1. PICK a \in Nat : a = region.address
  OBVIOUS
<1>2. PICK b \in Nat : b = region.address + region.size
  OBVIOUS
<1>3. a + size <= b
  BY <1>1, <1>2 DEF regionKept
<1>4. AddrSpace \in Nat \ {0} /\ b < AddrSpace
  BY <1>2, AddrSpaceAssumption
<1>5. RegionEnd(region) = b
  <2>1. b % AddrSpace = b
    BY <1>4
  <2> QED BY <1>2, <2>1 DEF RegionEnd
<1>6. PICK p, r \in Nat : Within(a, b, size, p, r)
  BY <1>3, MultiplesBetween
<1> USE DEF Within
<1>7. p * size % AddrSpace = p * size
  BY <1>4, <1>6
<1>8. alignedStart(region, size) = p * size
  BY <1>1, <1>6, <1>7 DEF alignedStart, alignDown
<1>9. alignedEnd(region, size) = r * size
  BY <1>5, <1>6 DEF alignedEnd, alignDown
<1>11. (r * size - p * size) % AddrSpace = r * size - p * size
  <2>1. PICK y \in Nat : y = r * size
    BY <1>6
  <2>2. PICK x \in Nat : x = p * size
    BY <1>6
  <2>3. PICK d \in Nat : d = y - x /\ d < AddrSpace
    BY <1>4, <1>6, <2>1, <2>2
  <2>4. d % AddrSpace = d
    BY <1>4, <2>3
  <2> QED BY <2>1, <2>2, <2>3, <2>4
<1>12. pageCount(region, size) = r - p
  BY <1>6, <1>8, <1>9, <1>11 DEF pageCount
<1>13. ~(region.size < size)
  BY DEF regionKept
<1>14. PICK info : info = initRegionInfo(region, size) OBVIOUS
<1>15. /\ info.alignedStart = p * size
       /\ info.alignedEnd = r * size
       /\ info.pageCount = r - p
       /\ info.alignedSize = (r - p) * size
      /\ info.start = a /\ info.end = b /\ info.size = region.size
  BY <1>1, <1>5, <1>8, <1>9, <1>12, <1>13, <1>14 DEF initRegionInfo, regionKept
<1>16. alignDown(p * size, size) = p * size
  BY AlignedAddress
<1>17. Aligned(info, size)
  <2>1. info.size = info.end - info.start
    BY <1>1, <1>2, <1>15
  <2>2. info.alignedSize <= info.size
    BY <1>1, <1>2, <1>6, <1>15
  <2> QED BY <1>6, <1>15, <1>16, <2>1, <2>2 DEF Aligned
<1> QED BY <1>8, <1>9, <1>12, <1>14, <1>15, <1>17

-----------------------------------------------------------------------------
(* The regions, once all descriptors are written.                          *)

TableSet ==
    /\ Parts
    /\ RegionsInv
    /\ TableKnown
    /\ phase # "setup"

LEMMA TableFacts ==
    ASSUME TableSet
    PROVE  /\ SetUp = DOMAIN regionsInfo
           /\ nextPage = pagesCount /\ pagesCount \in Nat \ {0}
           /\ Page = 0..(nextPage - 1)
           /\ pageSize \in Nat \ {0}
           /\ descRegionIdx \in DOMAIN regionsInfo
           /\ DOMAIN regionsInfo \subseteq Nat
<1>1. SetUp = DOMAIN regionsInfo
  BY DEF TableSet, SetUp
<1>2. nextPage = pagesCount
  BY DEF TableSet, TableKnown, Parts, CallTyped, IdleInv, ReleaseInv, Releasing
<1>3. pagesCount \in Nat \ {0}
  BY DEF TableSet, TableKnown, Parts, MemoryTyped
<1>4. pageSize \in Nat \ {0} /\ descRegionIdx \in DOMAIN regionsInfo
  BY DEF TableSet, RegionsInv, TableInv
<1>5. DOMAIN regionsInfo \subseteq Nat
  <2>1. regionsInfo \in Seq(RegionInfoType)
    BY DEF TableSet, Parts, MemoryTyped
  <2>2. DOMAIN regionsInfo = 1..Len(regionsInfo) /\ Len(regionsInfo) \in Nat
    BY <2>1
  <2> QED BY <2>2
<1> QED BY <1>1, <1>2, <1>3, <1>4, <1>5 DEF Page

\* What is known of one region.
LEMMA RegionFacts ==
    ASSUME TableSet, NEW i \in DOMAIN regionsInfo
    PROVE  /\ regionsInfo[i].firstPage \in Nat
           /\ regionsInfo[i].pageCount \in Nat \ {0}
           /\ regionsInfo[i].alignedStart \in Nat
           /\ regionsInfo[i].lastPage =
                 regionsInfo[i].firstPage + regionsInfo[i].pageCount - 1
           /\ regionsInfo[i].lastPage < nextPage
           /\ regionsInfo[i].firstPage \in regionPages(i)
           /\ regionsInfo[i].firstPage \in Starts
           /\ Aligned(regionsInfo[i], pageSize)
           /\ PagesPlaced(i)
<1>1. regionsInfo \in Seq(RegionInfoType) /\ TableInv
  BY DEF TableSet, Parts, MemoryTyped, RegionsInv
<1>2. regionsInfo[i].pageCount \in Nat \ {0} /\ regionsInfo[i].alignedStart \in Nat
  BY <1>1, EntryType
<1>3. PagesPlaced(i) /\ Aligned(regionsInfo[i], pageSize) /\ i \in SetUp
  BY <1>1, TableFacts DEF TableSet, TableInv, EntriesOK
<1>4. /\ regionsInfo[i].firstPage \in Nat
      /\ regionsInfo[i].lastPage =
            regionsInfo[i].firstPage + regionsInfo[i].pageCount - 1
      /\ regionsInfo[i].lastPage < nextPage
  BY <1>3 DEF PagesPlaced
<1> QED BY <1>2, <1>3, <1>4 DEF regionPages, Starts

\* A page is in one region.
LEMMA RegionOfPage ==
    ASSUME TableSet
    PROVE  /\ \A p \in Page : \E i \in DOMAIN regionsInfo : p \in regionPages(i)
           /\ \A i, j \in DOMAIN regionsInfo : \A p :
                 p \in regionPages(i) /\ p \in regionPages(j) => i = j
           /\ \A i \in DOMAIN regionsInfo : regionPages(i) \subseteq Page
<1>1. TableInv
  BY DEF TableSet, RegionsInv
<1>2. ASSUME NEW i \in DOMAIN regionsInfo PROVE regionPages(i) \subseteq Page
  BY TableFacts, RegionFacts DEF regionPages
<1> QED BY <1>1, <1>2, TableFacts DEF TableSet, TableInv

\* Where a page lies.
LEMMA AddressFacts ==
    ASSUME TableSet, NEW i \in DOMAIN regionsInfo, NEW p \in regionPages(i)
    PROVE  /\ address[p] \in Nat
           /\ alignDown(address[p], pageSize) = address[p]
           /\ address[p] = regionsInfo[i].alignedStart +
                              (p - regionsInfo[i].firstPage) * pageSize
           /\ regionsInfo[i].alignedStart <= address[p]
           /\ address[p] + pageSize <= regionsInfo[i].alignedEnd
<1>1. PICK s \in Nat \ {0} : s = pageSize
  BY TableFacts
<1>2. PICK f \in Nat : f = regionsInfo[i].firstPage
  BY RegionFacts
<1>3. PICK c \in Nat \ {0} : c = regionsInfo[i].pageCount
  BY RegionFacts
<1>4. PICK start \in Nat : start = regionsInfo[i].alignedStart
  BY RegionFacts
<1>5. /\ alignDown(start, s) = start
      /\ regionsInfo[i].alignedEnd = start + c * s
      /\ regionsInfo[i].lastPage = f + c - 1
      /\ address[p] = start + (p - f) * s
  BY <1>1, <1>2, <1>3, <1>4, RegionFacts DEF Aligned, PagesPlaced
<1>6. PICK k \in Nat : k = p - f /\ k < c
  <2>1. p \in f..(f + c - 1)
    BY <1>2, <1>5 DEF regionPages
  <2> QED BY <2>1
<1>7. PICK q \in Nat : start = q * s
  <2>1. PICK q \in Nat : alignDown(start, s) = q * s
    BY AlignDownFacts
  <2> QED BY <1>5, <2>1
<1>8. k * s \in Nat /\ c * s \in Nat /\ k * s + s <= c * s
  BY <1>6, Multiples, NatProduct
<1>9. address[p] = start + k * s
  BY <1>5, <1>6
<1>10. start + k * s = (q + k) * s
  BY <1>7
<1>11. q + k \in Nat
  OBVIOUS
<1>12. alignDown((q + k) * s, s) = (q + k) * s
  BY <1>11, AlignedAddress
<1>13. address[p] \in Nat /\ start <= address[p] /\ address[p] + s <= start + c * s
  BY <1>8, <1>9
<1> QED BY <1>1, <1>2, <1>4, <1>5, <1>9, <1>10, <1>12, <1>13

\* getRegion finds the region of any address inside a page.
LEMMA RegionFound ==
    ASSUME TableSet, NEW i \in DOMAIN regionsInfo, NEW p \in regionPages(i),
           NEW addr, alignDown(addr, pageSize) = address[p]
    PROVE  getRegion(addr) = i
<1>1. /\ address[p] \in Nat
      /\ regionsInfo[i].alignedStart <= address[p]
      /\ address[p] + pageSize <= regionsInfo[i].alignedEnd
  BY AddressFacts
<1>2. ASSUME NEW j \in DOMAIN regionsInfo
      PROVE  /\ regionsInfo[j].alignedStart \in Nat
             /\ regionsInfo[j].alignedEnd \in Nat
  <2>1. PICK s \in Nat \ {0} : s = pageSize
    BY TableFacts
  <2>2. PICK c \in Nat \ {0} : c = regionsInfo[j].pageCount
    BY RegionFacts
  <2>3. c * s \in Nat
    BY NatProduct
  <2> QED BY <2>1, <2>2, <2>3, RegionFacts DEF Aligned
<1>3. regionsAt(addr) = {i}
  <2>1. i \in regionsAt(addr)
    <3>1. pageSize \in Nat
      BY TableFacts
    <3> QED BY <1>1, <1>2, <3>1 DEF regionsAt
  <2>2. ASSUME NEW j \in regionsAt(addr), j # i PROVE FALSE
    <3>1. /\ j \in DOMAIN regionsInfo
          /\ regionsInfo[j].alignedStart <= address[p]
          /\ regionsInfo[j].alignedEnd >= address[p]
      BY DEF regionsAt
    <3>2. Apart(regionsInfo[i], regionsInfo[j])
      BY <2>2, <3>1 DEF TableSet, RegionsInv, TableInv, EntriesOK
    <3>3. pageSize \in Nat
      BY TableFacts
    <3> QED BY <1>1, <1>2, <3>1, <3>2, <3>3 DEF Apart
  <2> QED BY <2>1, <2>2
<1>4. i \in Nat
  BY TableFacts
<1>5. Min({i}) = i
  BY <1>4, MinFacts
<1> QED BY <1>3, <1>5 DEF getRegion

\* Two neighbouring pages are in one region unless the second starts one.
LEMMA NeighbourRegions ==
    ASSUME TableSet, NEW p \in Page, NEW q \in Page, Behind(p, 1, q)
    PROVE  getRegion(address[p]) = getRegion(address[q]) <=> q \notin Starts
<1>1. PICK i \in DOMAIN regionsInfo : p \in regionPages(i)
  BY RegionOfPage
<1>2. PICK j \in DOMAIN regionsInfo : q \in regionPages(j)
  BY RegionOfPage
<1>3. getRegion(address[p]) = i /\ getRegion(address[q]) = j
  BY <1>1, <1>2, AddressFacts, RegionFound
<1>4. p \in Nat /\ q = p + 1
  BY TableFacts DEF Behind
<1>5. ASSUME i = j, q \in Starts PROVE FALSE
  <2>1. PICK k \in DOMAIN regionsInfo : q = regionsInfo[k].firstPage
    BY <1>5, TableFacts DEF Starts
  <2>2. q \in regionPages(k)
    BY <2>1, RegionFacts
  <2>3. k = j
    BY <1>2, <2>2, RegionOfPage
  <2>4. regionsInfo[j].firstPage \in Nat /\ regionsInfo[j].firstPage <= p
    BY <1>1, <1>4, <1>5, RegionFacts DEF regionPages
  <2> QED BY <1>4, <2>1, <2>3, <2>4
<1>6. ASSUME q \notin Starts PROVE i = j
  <2>1. q # regionsInfo[j].firstPage
    BY <1>6, RegionFacts
  <2>2. p \in regionPages(j)
    <3>1. PICK f \in Nat : f = regionsInfo[j].firstPage
      BY RegionFacts
    <3>2. PICK l \in Int : l = regionsInfo[j].lastPage
      <4>1. PICK c \in Nat : c = regionsInfo[j].pageCount
        BY RegionFacts
      <4> QED BY <3>1, <4>1, RegionFacts
    <3>3. q \in f..l /\ q # f
      BY <1>2, <2>1, <3>1, <3>2 DEF regionPages
    <3>4. p \in f..l
      BY <1>4, <3>1, <3>2, <3>3
    <3> QED BY <3>1, <3>2, <3>4 DEF regionPages
  <2> QED BY <1>1, <2>2, RegionOfPage
<1> QED BY <1>3, <1>5, <1>6

\* 0 is the first page of a region.
LEMMA FirstStart == ASSUME TableSet PROVE 0 \in Starts
<1>1. 0 \in Page
  BY TableFacts
<1>2. PICK i \in DOMAIN regionsInfo : 0 \in regionPages(i)
  BY <1>1, RegionOfPage
<1>3. regionsInfo[i].firstPage \in Nat /\ regionsInfo[i].firstPage <= 0
  BY <1>2, RegionFacts DEF regionPages
<1>4. regionsInfo[i].firstPage = 0
  BY <1>3
<1> QED BY <1>4, RegionFacts

\* A group does not reach into the next region.
LEMMA GroupInRegion ==
    ASSUME TableSet, NEW g \in Heads(pool, OutOfLists),
           NEW i \in DOMAIN regionsInfo, g \in regionPages(i)
    PROVE  Group(pool.groupSize, g) \subseteq regionPages(i)
<1>1. ListsInv(pool, OutOfLists, nextPage)
  BY DEF TableSet, Parts, GroupsConsistent
<1>2. PICK n \in Nat : n = nextPage
  BY TableFacts
<1>3. PICK f \in Nat : f = regionsInfo[i].firstPage
  BY RegionFacts
<1>4. PICK l \in Int : l = regionsInfo[i].lastPage
  <2>1. PICK c \in Nat : c = regionsInfo[i].pageCount
    BY RegionFacts
  <2> QED BY <1>3, <2>1, RegionFacts
<1>5. g \in f..l
  BY <1>3, <1>4 DEF regionPages
<1>6. PICK s \in Nat \ {0} : s = pool.groupSize[g] /\ g + s <= n
  BY <1>1, <1>2, HeadFacts, SizeLimitType
<1>7. l + 1 \in Starts \cup {n}
  BY <1>2, <1>4, RegionFacts DEF PagesPlaced
<1>8. g + s <= l + 1
  <2>1. CASE l + 1 = n
    BY <1>6, <2>1
  <2>2. CASE l + 1 \in Starts
    <3>1. l + 1 \in Heads(pool, OutOfLists)
      BY <2>2 DEF TableSet, RegionsInv, GroupsInv
    <3>2. g < l + 1
      BY <1>5
    <3> QED BY <1>1, <1>6, <3>1, <3>2 DEF ListsInv, GroupsDisjoint
  <2> QED BY <1>7, <2>1, <2>2
<1>9. g..(g + s - 1) \subseteq f..l
  BY <1>5, <1>6, <1>8
<1> QED BY <1>3, <1>4, <1>6, <1>9 DEF Group, regionPages

LEMMA InitializedSet ==
    ASSUME Inv, RegionsInv, Initialized
    PROVE  /\ TableSet
           /\ OutOfLists = DOMAIN held \cup ReservedGroup
  BY InvParts DEF Initialized, TableSet, TableKnown, OutOfLists, Releasing

LEMMA Unmerged == Inv /\ RegionsInv => NoUnmergedNeighbours
<1>1. SUFFICES ASSUME Inv, RegionsInv, Initialized, NEW i \in DOMAIN regionsInfo,
                      NEW p \in regionsInfo[i].firstPage..(regionsInfo[i].lastPage - 1),
                      ~pool.used[p], p + 1 \in FreeGroups(pool)
               PROVE  FALSE
  BY DEF NoUnmergedNeighbours
<1>2. TableSet
  BY <1>1, InitializedSet
<1>3. PICK f \in Nat : f = regionsInfo[i].firstPage
  BY <1>2, RegionFacts
<1>4. PICK l \in Int : l = regionsInfo[i].lastPage
  <2>1. PICK c \in Nat : c = regionsInfo[i].pageCount
    BY <1>2, RegionFacts
  <2> QED BY <1>2, <1>3, <2>1, RegionFacts
<1>5. p \in Nat /\ p \in f..l /\ p + 1 \in f..l
  BY <1>3, <1>4
<1>6. p \in regionPages(i) /\ p + 1 \in regionPages(i)
  BY <1>3, <1>4, <1>5 DEF regionPages
<1>7. p + 1 \notin Starts
  <2>1. p \in Page /\ p + 1 \in Page /\ Behind(p, 1, p + 1)
    BY <1>2, <1>6, RegionOfPage DEF Behind
  <2>2. getRegion(address[p]) = i /\ getRegion(address[p + 1]) = i
    BY <1>2, <1>6, AddressFacts, RegionFound
  <2> QED BY <1>2, <2>1, <2>2, NeighbourRegions
<1>8. \A g \in FreeGroups(pool) \ Starts : pool.used[g - 1]
  BY <1>2 DEF TableSet, RegionsInv, GroupsInv
<1>9. pool.used[(p + 1) - 1]
  BY <1>1, <1>7, <1>8
<1>10. (p + 1) - 1 = p
  BY <1>5
<1> QED BY <1>1, <1>9, <1>10

LEMMA OneRegion == Inv /\ RegionsInv => AllocatedFromOneRegion
<1>1. SUFFICES ASSUME Inv, RegionsInv, Initialized, NEW g \in DOMAIN held
               PROVE  \E i \in DOMAIN regionsInfo : HeldPages(g) \subseteq regionPages(i)
  BY DEF AllocatedFromOneRegion, regionPages
<1>2. TableSet /\ Parts
  BY <1>1, InitializedSet DEF TableSet
<1>3. g \in OutOfLists /\ HeldPages(g) = Group(pool.groupSize, g) /\ g \in Page
  BY <1>1, <1>2, HeldPagesWritten DEF Parts, HeldTyped
<1>4. PICK i \in DOMAIN regionsInfo : g \in regionPages(i)
  BY <1>2, <1>3, RegionOfPage
<1>5. g \in Heads(pool, OutOfLists)
  BY <1>3 DEF Heads
<1> QED BY <1>2, <1>3, <1>4, <1>5, GroupInRegion

\* The pages reserved are those that start below the end of the descriptors.
LEMMA ReservedPages ==
    ASSUME NEW info, info.pageCount \in Nat, pageSize \in Nat, pagesCount \in Nat,
           NEW k \in 0..(info.pageCount - 1),
           k * pageSize < pagesCount * PageDescSize
    PROVE  k < reserveDescPages(info)
<1>1. PICK c \in Nat : c = info.pageCount
  OBVIOUS
<1>2. PICK All : All = 0..(c - 1) OBVIOUS
<1>3. PICK bound \in Nat : bound = pagesCount * PageDescSize
  BY NatProduct, ConfigAssumption
<1>4. PICK K : K = {j \in All : j * pageSize < bound} OBVIOUS
<1>5. reserveDescPages(info) = Cardinality(K)
  BY <1>1, <1>2, <1>3, <1>4 DEF reserveDescPages
<1>6. PICK s \in Nat : s = pageSize
  OBVIOUS
<1>7. k \in Nat /\ k * s < bound /\ k * s \in Nat
  BY <1>1, <1>3, <1>6, NatProduct
<1>8. 0..k \subseteq K
  <2> SUFFICES ASSUME NEW j \in 0..k PROVE j \in All /\ j * s < bound
    BY <1>4, <1>6
  <2>1. j \in Nat /\ j \in All /\ j * s \in Nat
    BY <1>1, <1>2, <1>7, NatProduct
  <2>2. CASE j = k
    BY <1>7, <2>1, <2>2
  <2>3. CASE j < k
    <3>1. j * s + s <= k * s
      BY <1>7, <2>1, <2>3, Multiples
    <3> QED BY <1>7, <2>1, <3>1
  <2> QED BY <1>7, <2>1, <2>2, <2>3
<1>9. IsFiniteSet(All) /\ IsFiniteSet(K)
  <2>1. IsFiniteSet(0..(c - 1))
    BY FS_Interval
  <2> QED BY <1>2, <1>4, <2>1, FS_Subset
<1>10. Cardinality(0..k) = k + 1
  BY <1>7, FS_Interval
<1>11. Cardinality(0..k) <= Cardinality(K)
  BY <1>8, <1>9, FS_Subset
<1>12. Cardinality(K) \in Nat
  BY <1>9, FS_CardinalityType
<1> QED BY <1>5, <1>7, <1>10, <1>11, <1>12

\* The group with the descriptors is the first pages of its region.
LEMMA ReservedFacts ==
    ASSUME TableSet, NEW info, info = regionsInfo[descRegionIdx]
    PROVE  /\ descPagesCount = reserveDescPages(info)
           /\ descPagesCount \in 1..info.pageCount
           /\ ReservedGroup = {info.firstPage}
           /\ Group(pool.groupSize, info.firstPage) =
                 info.firstPage..(info.firstPage + descPagesCount - 1)
<1>1. descRegionIdx \in SetUp
  BY TableFacts
<1>2. /\ descPagesCount = reserveDescPages(info)
      /\ pool.groupSize[info.firstPage] = descPagesCount
  BY <1>1 DEF TableSet, RegionsInv, TableInv, DescriptorsPlaced
<1>3. info.pageCount \in Nat \ {0} /\ pageSize \in Nat /\ pagesCount \in Nat \ {0}
  BY TableFacts, RegionFacts
<1>4. descPagesCount \in 1..info.pageCount
  BY <1>2, <1>3, ReserveType
<1>5. descPagesCount > 0
  BY <1>3, <1>4
<1>6. ReservedGroup = {info.firstPage}
  BY <1>5 DEF ReservedGroup
<1> QED BY <1>2, <1>4, <1>6 DEF Group

LEMMA Reserved ==
    ASSUME DescriptorsFit PROVE Inv /\ RegionsInv => DescriptorsReserved
<1>1. PICK d : d = descRegionIdx OBVIOUS
<1>2. PICK info : info = regionsInfo[d] OBVIOUS
<1>3. SUFFICES ASSUME Inv, RegionsInv, Initialized, NEW p \in Page,
                      address[p] + pageSize > info.alignedStart,
                      address[p] < info.alignedStart + pagesCount * PageDescSize
               PROVE  /\ pool.used[p]
                      /\ \A g \in DOMAIN held : p \notin HeldPages(g)
  BY <1>1, <1>2 DEF DescriptorsReserved
<1>4. TableSet /\ Parts
  BY <1>3, InitializedSet DEF TableSet
<1>5. d \in DOMAIN regionsInfo
  BY <1>1, <1>4, TableFacts
<1>6. PICK i \in DOMAIN regionsInfo : p \in regionPages(i)
  BY <1>4, RegionOfPage
<1>7. PICK s \in Nat \ {0} : s = pageSize
  BY <1>4, TableFacts
<1>8. PICK bound \in Nat : bound = pagesCount * PageDescSize /\ bound <= info.alignedSize
  <2>1. pagesCount * PageDescSize \in Nat
    BY <1>4, TableFacts, NatProduct, ConfigAssumption
  <2> QED BY <1>1, <1>2, <1>4, <2>1 DEF TableSet, RegionsInv, TableInv
<1>9. PICK start \in Nat : start = info.alignedStart
  BY <1>2, <1>4, <1>5, RegionFacts
<1>10. PICK c \in Nat \ {0} : c = info.pageCount
  BY <1>2, <1>4, <1>5, RegionFacts
<1>11. PICK f \in Nat : f = info.firstPage /\ info.lastPage = f + c - 1
  BY <1>2, <1>4, <1>5, <1>10, RegionFacts
<1>12. info.alignedEnd = start + c * s /\ info.alignedSize = c * s /\ c * s \in Nat
  BY <1>2, <1>4, <1>5, <1>7, <1>9, <1>10, RegionFacts, NatProduct DEF Aligned
<1>13. i = d
  <2>1. SUFFICES ASSUME i # d PROVE FALSE
    OBVIOUS
  <2>2. Apart(regionsInfo[i], info)
    BY <1>2, <1>4, <1>5, <2>1 DEF TableSet, RegionsInv, TableInv, EntriesOK
  <2>3. PICK a \in Nat : a = address[p]
    BY <1>4, <1>6, AddressFacts
  <2>4. regionsInfo[i].alignedStart <= a /\ a + s <= regionsInfo[i].alignedEnd
    BY <1>4, <1>6, <1>7, <2>3, AddressFacts
  <2>5. /\ regionsInfo[i].alignedStart \in Nat
        /\ regionsInfo[i].alignedEnd \in Nat
    <3>1. PICK e \in Nat : e = regionsInfo[i].pageCount
      BY <1>4, RegionFacts
    <3>2. e * s \in Nat
      BY NatProduct
    <3> QED BY <1>4, <1>7, <3>1, <3>2, RegionFacts DEF Aligned
  <2>6. a + s > start /\ a < start + bound
    BY <1>3, <1>7, <1>8, <1>9, <2>3
  <2> QED BY <1>7, <1>8, <1>9, <1>12, <2>2, <2>3, <2>4, <2>5, <2>6 DEF Apart
<1>14. p \in Group(pool.groupSize, f)
  <2>1. PICK k \in Nat : k = p - f /\ k \in 0..(c - 1) /\ p = f + k
    <3>1. p \in f..(f + c - 1)
      BY <1>2, <1>6, <1>11, <1>13 DEF regionPages
    <3> QED BY <3>1
  <2>2. address[p] = start + k * s
    BY <1>2, <1>4, <1>6, <1>7, <1>9, <1>11, <1>13, <2>1, AddressFacts
  <2>3. k * s < bound
    <3>1. k * s \in Nat
      BY NatProduct
    <3> QED BY <1>3, <1>8, <1>9, <2>2, <3>1
  <2>4. pagesCount \in Nat
    BY <1>4, TableFacts
  <2>5. k < reserveDescPages(info)
    BY <1>7, <1>8, <1>10, <2>1, <2>3, <2>4, ReservedPages
  <2>6. k < descPagesCount /\ descPagesCount \in Nat
    BY <1>1, <1>2, <1>4, <1>10, <2>5, ReservedFacts
  <2>7. p \in f..(f + descPagesCount - 1)
    BY <2>1, <2>6
  <2> QED BY <1>1, <1>2, <1>4, <1>11, <2>7, ReservedFacts
<1>15. f \in ReservedGroup
  BY <1>1, <1>2, <1>4, <1>11, ReservedFacts
<1>16. pool.used[p]
  <2>1. p \in 0..(nextPage - 1)
    BY <1>4, TableFacts
  <2>2. f \in OutOfLists
    BY <1>15 DEF OutOfLists
  <2> QED BY <1>4, <1>14, <2>1, <2>2 DEF Parts, GroupsConsistent, ListsInv, UsedMatches
<1>17. ASSUME NEW g \in DOMAIN held PROVE p \notin HeldPages(g)
  <2>1. HeldIntact
    BY <1>3, HeldIntactHolds
  <2> QED BY <1>14, <1>15, <2>1 DEF HeldIntact
<1> QED BY <1>16, <1>17

\* For any address, not only those PageLookup asks for.
LEMMA Lookup ==
    ASSUME TableSet, NEW addr \in Nat, NEW holders,
           holders = {p \in Page : /\ address[p] <= addr
                                   /\ addr < address[p] + pageSize}
    PROVE  IF holders = {} THEN getPage(addr) = nullptr ELSE getPage(addr) \in holders
<1>1. PICK s \in Nat \ {0} : s = pageSize
  BY TableFacts
<1>2. PICK q \in Nat : /\ alignDown(addr, s) = q * s /\ q * s \in Nat
                       /\ q * s <= addr /\ addr < q * s + s
  BY AlignDownFacts
<1>3. ASSUME NEW p \in Page
      PROVE  p \in holders <=> address[p] = q * s
  <2>1. PICK i \in DOMAIN regionsInfo : p \in regionPages(i)
    BY RegionOfPage
  <2>2. PICK a \in Nat : a = address[p] /\ alignDown(a, s) = a
    BY <1>1, <2>1, AddressFacts
  <2>3. PICK r \in Nat : a = r * s
    <3>1. PICK r \in Nat : alignDown(a, s) = r * s
      BY AlignDownFacts
    <3> QED BY <2>2, <3>1
  <2>4. ASSUME a <= addr, addr < a + s PROVE a = q * s
    <3>1. r * s <= addr /\ addr < r * s + s
      BY <2>3, <2>4
    <3>2. r = q
      BY <1>2, <3>1, OnOnePage
    <3> QED BY <2>3, <3>2
  <2>5. p \in holders <=> a <= addr /\ addr < a + s
    BY <1>1, <2>2
  <2> QED BY <1>2, <2>2, <2>4, <2>5
<1>4. PICK region : region = getRegion(addr) OBVIOUS
<1>5. PICK pages : pages = IF region = nullptr THEN {}
                           ELSE {p \in regionsInfo[region].firstPage..
                                          regionsInfo[region].lastPage :
                                     address[p] = q * s}
  OBVIOUS
<1>6. getPage(addr) = IF pages = {} THEN nullptr ELSE Min(pages)
  BY <1>1, <1>2, <1>4, <1>5 DEF getPage
<1>7. ASSUME NEW i \in DOMAIN regionsInfo, region = i
      PROVE  pages = {p \in regionPages(i) : p \in holders}
  <2>1. i # nullptr
    BY TableFacts, NullAssumption
  <2>2. pages = {p \in regionPages(i) : address[p] = q * s}
    BY <1>5, <1>7, <2>1 DEF regionPages
  <2> QED BY <1>3, <2>2, RegionOfPage
<1>8. region \in DOMAIN regionsInfo \cup {nullptr}
  <2>1. regionsAt(addr) \subseteq DOMAIN regionsInfo
    BY DEF regionsAt
  <2>2. regionsAt(addr) # {} => Min(regionsAt(addr)) \in regionsAt(addr)
    BY <2>1, TableFacts, MinFacts
  <2> QED BY <1>4, <2>1, <2>2 DEF getRegion
<1>9. pages \subseteq holders
  BY <1>5, <1>7, <1>8
<1>10. CASE holders = {}
  BY <1>6, <1>9, <1>10
<1>11. CASE holders # {}
  <2>1. PICK p \in Page : p \in holders
    BY <1>11
  <2>2. PICK i \in DOMAIN regionsInfo : p \in regionPages(i)
    BY RegionOfPage
  <2>3. alignDown(addr, pageSize) = address[p]
    BY <1>1, <1>2, <1>3, <2>1
  <2>4. region = i
    BY <1>4, <2>2, <2>3, RegionFound
  <2>5. pages # {}
    BY <1>7, <2>1, <2>2, <2>4
  <2>6. pages \subseteq Nat
    BY <1>9, TableFacts
  <2>7. Min(pages) \in pages
    BY <2>5, <2>6, MinFacts
  <2> QED BY <1>6, <1>9, <1>11, <2>5, <2>7
<1> QED BY <1>10, <1>11

LEMMA Looked == Inv /\ RegionsInv => PageLookup
<1>1. SUFFICES ASSUME Inv, RegionsInv, Initialized, NEW q \in Page,
                      NEW offset \in {0, pageSize - 1, pageSize},
                      NEW addr, addr = address[q] + offset,
                      NEW holders, holders = {p \in Page :
                          address[p] <= addr /\ addr < address[p] + pageSize}
               PROVE  IF holders = {} THEN getPage(addr) = nullptr
                                      ELSE getPage(addr) \in holders
  BY DEF PageLookup
<1>2. TableSet
  BY <1>1, InitializedSet
<1>3. PICK i \in DOMAIN regionsInfo : q \in regionPages(i)
  BY <1>2, RegionOfPage
<1>4. address[q] \in Nat /\ pageSize \in Nat \ {0}
  BY <1>2, <1>3, AddressFacts, TableFacts
<1>5. addr \in Nat
  BY <1>1, <1>4
<1> QED BY <1>1, <1>2, <1>5, Lookup

-----------------------------------------------------------------------------
(* What the steps of allocate and release leave alone.                     *)

\* The pages of a group that stays out of the lists stay used.
LEMMA UsedStays ==
    ASSUME NEW m, NEW out, NEW n, ListsInv(m, out, n),
           NEW after, NEW out2, NEW t \in Nat, ListsInv(after, out2, t), n <= t,
           out \subseteq out2,
           \A x \in out : after.groupSize[x] = m.groupSize[x],
           NEW p \in 0..(n - 1), m.used[p]
    PROVE  after.used[p]
<1>1. PICK x \in out : p \in Group(m.groupSize, x)
  BY DEF ListsInv, UsedMatches
<1>2. p \in Group(after.groupSize, x)
  BY <1>1 DEF Group
<1>3. p \in 0..(t - 1)
  BY DEF ListsInv
<1> QED BY <1>1, <1>2, <1>3 DEF ListsInv, UsedMatches

LEMMA SameTable ==
    ASSUME UNCHANGED memoryVars, phase \notin {"scan", "setup"},
           phase' \notin {"scan", "setup"}
    PROVE  /\ TableKnown' <=> TableKnown
           /\ SetUp' = SetUp
           /\ Starts' = Starts
           /\ ReservedGroup' = ReservedGroup
           /\ \A i : regionPages(i)' = regionPages(i)
           /\ \A i : PagesPlaced(i)' <=> PagesPlaced(i)
<1>1. /\ regionsInfo' = regionsInfo /\ pageSize' = pageSize
      /\ pagesCount' = pagesCount /\ address' = address
  BY DEF memoryVars
<1>2. nextPage' = nextPage /\ ReservedGroup' = ReservedGroup
  BY SameMemory
<1>3. SetUp' = SetUp /\ (TableKnown' <=> TableKnown)
  BY <1>1 DEF SetUp, TableKnown
<1>4. Starts' = Starts
  BY <1>1, <1>3 DEF Starts
<1>5. \A i : regionPages(i)' = regionPages(i)
  BY <1>1 DEF regionPages
<1>6. \A i : PagesPlaced(i)' <=> PagesPlaced(i)
  BY <1>1, <1>2, <1>4, <1>5, Zenon DEF PagesPlaced
<1> QED BY <1>2, <1>3, <1>4, <1>5, <1>6

\* A step of allocate or release changes the table at most at the groups.
LEMMA TableStays ==
    ASSUME Parts, RegionsInv, UNCHANGED memoryVars,
           phase \in {"idle", "above", "below"},
           phase' \in {"idle", "above", "below"},
           \A r \in ReservedGroup : pool'.groupSize[r] = pool.groupSize[r],
           TableKnown => GroupsInv'
    PROVE  RegionsInv'
<1>1. /\ regionsInfo' = regionsInfo /\ pageSize' = pageSize
      /\ descRegionIdx' = descRegionIdx /\ descPagesCount' = descPagesCount
      /\ pagesCount' = pagesCount /\ address' = address
  BY DEF memoryVars
<1>2. /\ TableKnown' <=> TableKnown
      /\ SetUp' = SetUp
      /\ Starts' = Starts
      /\ \A i : regionPages(i)' = regionPages(i)
      /\ \A i : PagesPlaced(i)' <=> PagesPlaced(i)
  BY SameTable
<1>3. ScanRegionsInv' /\ GroupsInv'
  BY <1>2 DEF ScanRegionsInv, GroupsInv
<1>4. CASE ~TableKnown
  BY <1>2, <1>3, <1>4 DEF RegionsInv, TableInv
<1>5. CASE TableKnown
  <2>1. TableSet
    BY <1>5 DEF TableSet
  <2>2. DescriptorsPlaced'
    <3>1. PICK info : info = regionsInfo[descRegionIdx] OBVIOUS
    <3>2. /\ descPagesCount = reserveDescPages(info)
          /\ ReservedGroup = {info.firstPage}
      BY <2>1, <3>1, ReservedFacts
    <3>3. pool.groupSize[info.firstPage] = descPagesCount
      BY <2>1, <3>1, TableFacts DEF TableSet, RegionsInv, TableInv, DescriptorsPlaced
    <3>4. pool'.groupSize[info.firstPage] = descPagesCount
      BY <3>2, <3>3
    <3>5. descPagesCount' = reserveDescPages(regionsInfo[descRegionIdx])'
      BY <1>1, <3>1, <3>2 DEF reserveDescPages
    <3> QED BY <1>1, <3>1, <3>4, <3>5 DEF DescriptorsPlaced
  <2>3. TableInv
    BY DEF RegionsInv
  <2>4. nextPage' = nextPage
    BY SameMemory
  <2>5. TableInv'
    BY <1>1, <1>2, <1>5, <2>2, <2>3, <2>4, Zenon DEF TableInv
  <2> QED BY <1>3, <2>5 DEF RegionsInv
<1> QED BY <1>4, <1>5

-----------------------------------------------------------------------------
(* One lemma per action.                                                   *)

\* The regions are forgotten.
LEMMA ClearedRegions ==
    ASSUME clear, phase' = "idle" PROVE RegionsInv'
<1>1. pagesCount' = 0
  BY DEF clear
<1> QED BY <1>1 DEF RegionsInv, ScanRegionsInv, TableInv, GroupsInv, TableKnown

LEMMA InitStartRegions ==
    ASSUME NEW memory \in MemoryModels, NEW size \in PageSizes,
           InitStart(memory, size)
    PROVE  RegionsInv'
<1>1. /\ phase' = "scan" /\ cursor' = 1 /\ regionsInfo' = <<>>
      /\ request' = [regions |-> memory, pageSize |-> size]
  BY DEF InitStart, clear
<1>2. TableInv' /\ GroupsInv'
  BY <1>1 DEF TableInv, GroupsInv, TableKnown
<1>3. DOMAIN regionsInfo' = {} /\ 1..(cursor' - 1) = {}
  BY <1>1
<1>4. EntriesOK(regionsInfo', request'.pageSize)
  BY <1>3 DEF EntriesOK
<1>5. ScanRegionsInv'
  BY <1>1, <1>3, <1>4 DEF ScanRegionsInv, Scanned
<1> QED BY <1>2, <1>5 DEF RegionsInv

LEMMA InitGivesUpRegions ==
    ASSUME Parts, TooManyRegions \/ NoUsablePages PROVE RegionsInv'
<1>1. phase = "scan" /\ phase' = "idle" /\ pagesCount' = pagesCount
  BY DEF TooManyRegions, NoUsablePages, InitReturns, memoryVars
<1>2. pagesCount = 0
  BY <1>1 DEF Parts, ScanInv
<1> QED BY <1>1, <1>2 DEF RegionsInv, ScanRegionsInv, TableInv, GroupsInv, TableKnown

LEMMA AllocateRegions ==
    ASSUME Parts, RegionsInv, NEW count \in AllocCounts, Allocate(count)
    PROVE  RegionsInv'
<1>1. phase = "idle" /\ phase' = "idle" /\ UNCHANGED memoryVars
  BY DEF Allocate
<1>2. PICK group : Took(group, count)
  BY AllocateFacts
<1>3. PICK out : out = OutOfLists OBVIOUS
<1>4. PICK n \in Nat : n = nextPage /\ ListsInv(pool, out, n)
  BY <1>3 DEF Parts, GroupsConsistent, ListsInv
<1>5. /\ group \in FreeGroups(pool) /\ count \in Nat \ {0}
      /\ WasTaken(pool', pool, out, n, group, count)
      /\ OutOfLists' = out \cup {group}
  BY <1>2, <1>3, <1>4 DEF Took
<1>6. /\ ListsInv(pool', out \cup {group}, n)
      /\ FreeGroups(pool) \ {group} \subseteq FreeGroups(pool')
      /\ FreeGroups(pool') \subseteq (FreeGroups(pool) \ {group}) \cup {group + count}
      /\ pool'.groupSize[group] = count
      /\ \A x \in out : pool'.groupSize[x] = pool.groupSize[x]
  BY <1>5 DEF WasTaken
<1>7. ReservedGroup \subseteq out
  BY <1>3 DEF OutOfLists
<1>8. ASSUME TableKnown PROVE GroupsInv'
  <2>1. Starts' = Starts
    BY <1>1, SameTable
  <2>2. Starts \subseteq Heads(pool, out) /\ \A g \in FreeGroups(pool) \ Starts : pool.used[g - 1]
    BY <1>3, <1>8 DEF RegionsInv, GroupsInv
  <2>3. TableSet
    BY <1>1, <1>8 DEF TableSet
  <2>4. Starts \subseteq Heads(pool', out \cup {group})
    BY <1>6, <2>2 DEF Heads
  <2>5. ASSUME NEW g \in FreeGroups(pool') \ Starts PROVE pool'.used[g - 1]
    <3>1. CASE g \in FreeGroups(pool)
      <4>1. g - 1 \in 0..(n - 1)
        BY <1>4, <2>3, <2>5, <3>1, HeadFacts, FirstStart
      <4>2. pool.used[g - 1]
        BY <2>2, <2>5, <3>1
      <4>3. PICK out2 : out2 = out \cup {group} OBVIOUS
      <4> QED BY <1>4, <1>6, <4>1, <4>2, <4>3, UsedStays
    <3>2. CASE g = group + count
      <4>1. group \in Heads(pool', out \cup {group}) /\ group \in Nat
        BY <1>4, <1>5, HeadFacts DEF Heads
      <4>2. g - 1 \in Group(pool'.groupSize, group)
        BY <1>5, <1>6, <3>2, <4>1 DEF Group
      <4> QED BY <1>6, <4>1, <4>2, UsedOfGroup
    <3> QED BY <1>6, <2>5, <3>1, <3>2
  <2> QED BY <1>1, <1>5, <2>1, <2>4, <2>5 DEF GroupsInv
<1> QED BY <1>1, <1>6, <1>7, <1>8, TableStays

\* Calls that only reply.
LEMMA RepliesOnlyRegions ==
    ASSUME Parts, RegionsInv, phase = "idle",
           UNCHANGED <<memoryVars, pool, phase, request, cursor, joinedGroup, held>>
    PROVE  RegionsInv'
<1>1. /\ UNCHANGED memoryVars /\ pool' = pool /\ phase' = phase
      /\ joinedGroup' = joinedGroup /\ held' = held
  OBVIOUS
<1>2. Starts' = Starts /\ OutOfLists' = OutOfLists /\ (TableKnown' <=> TableKnown)
  BY <1>1, SameTable DEF OutOfLists, Releasing
<1>3. GroupsInv'
  BY <1>1, <1>2 DEF RegionsInv, GroupsInv
<1> QED BY <1>1, <1>3, TableStays

LEMMA ReleaseRegions ==
    ASSUME Parts, RegionsInv, NEW group \in DOMAIN held, Release(group)
    PROVE  RegionsInv'
<1>1. /\ UNCHANGED memoryVars /\ pool' = pool /\ joinedGroup' = group
      /\ phase = "idle" /\ phase' = "above"
      /\ DOMAIN held' = DOMAIN held \ {group}
  BY DEF Release
<1>2. Starts' = Starts /\ ReservedGroup' = ReservedGroup /\ (TableKnown' <=> TableKnown)
  BY <1>1, SameTable
<1>3. OutOfLists' = OutOfLists
  BY <1>1, <1>2 DEF OutOfLists, Releasing
<1>4. GroupsInv'
  BY <1>1, <1>2, <1>3 DEF RegionsInv, GroupsInv
<1> QED BY <1>1, <1>4, TableStays

\* The tests of the two loops of release.
LEMMA JoinableFacts ==
    ASSUME TableSet, NEW p \in Page, NEW q \in Page, Behind(p, 1, q)
    PROVE  /\ joinable(q, p) <=> q \notin Starts /\ ~pool.used[p]
           /\ joinable(p, q) <=> q \notin Starts /\ ~pool.used[q]
<1>1. isValidPage(p) /\ isValidPage(q)
  BY TableFacts DEF isValidPage
<1>2. getRegion(address[p]) = getRegion(address[q]) <=> q \notin Starts
  BY NeighbourRegions
<1> QED BY <1>1, <1>2 DEF joinable

LEMMA ReleasingSet ==
    ASSUME Parts, RegionsInv, Releasing
    PROVE  /\ TableSet
           /\ ListsInv(pool, OutOfLists, nextPage)
           /\ OutOfLists = (DOMAIN held \cup ReservedGroup) \cup {joinedGroup}
           /\ joinedGroup \notin DOMAIN held \cup ReservedGroup
           /\ joinedGroup \in Page
           /\ joinedGroup \in 0..(nextPage - 1)
           /\ Starts \subseteq Heads(pool, OutOfLists)
           /\ \A g \in FreeGroups(pool) \ Starts : pool.used[g - 1]
           /\ phase = "below" /\ joinedGroup \notin Starts => pool.used[joinedGroup - 1]
<1>1. joinedGroup \in Page /\ joinedGroup \notin DOMAIN held \cup ReservedGroup
  BY DEF Parts, ReleaseInv
<1>2. TableKnown /\ phase # "setup"
  <2>1. pagesCount \in Nat
    BY DEF Parts, MemoryTyped
  <2> QED BY <1>1, <2>1 DEF Releasing, TableKnown, Page
<1>3. TableSet
  BY <1>2 DEF TableSet
<1>4. Page = 0..(nextPage - 1)
  BY <1>3, TableFacts
<1> QED BY <1>1, <1>2, <1>3, <1>4
     DEF OutOfLists, Parts, GroupsConsistent, RegionsInv, GroupsInv

\* The page before a free group is a page.
LEMMA PageBefore ==
    ASSUME TableSet, NEW g \in Page, g \notin Starts
    PROVE  g - 1 \in Page /\ g - 1 \in 0..(nextPage - 1) /\ Behind(g - 1, 1, g)
  BY TableFacts, FirstStart DEF Behind

\* j is nobody's any more and h no free group: what the joined group gained.
LEMMA AbsorbedRegions ==
    ASSUME Parts, RegionsInv, Releasing, UNCHANGED <<memoryVars, held>>,
           phase' \in {"above", "below"},
           NEW h, NEW second, second \in {joinedGroup, h}, second \notin Starts,
           WasAbsorbed(pool, pool', OutOfLists, nextPage, joinedGroup, h, second),
           OutOfLists' = (OutOfLists \cup {h}) \ {second},
           phase' = "below" => phase = "below" /\ joinedGroup' = joinedGroup
    PROVE  RegionsInv'
<1>1. PICK j : j = joinedGroup OBVIOUS
<1>2. PICK out : out = OutOfLists OBVIOUS
<1>3. PICK n : n = nextPage OBVIOUS
<1>4. /\ TableSet /\ ListsInv(pool, out, n) /\ j \in Page /\ j \notin ReservedGroup
      /\ ReservedGroup \subseteq out
      /\ Starts \subseteq Heads(pool, out)
      /\ \A g \in FreeGroups(pool) \ Starts : pool.used[g - 1]
      /\ phase = "below" /\ j \notin Starts => pool.used[j - 1]
  BY <1>1, <1>2, <1>3, ReleasingSet
<1>5. /\ FreeGroups(pool') = FreeGroups(pool) \ {h}
      /\ \A p \in 0..(n - 1) : pool.used[p] => pool'.used[p]
      /\ \A x \in out : x # j => pool'.groupSize[x] = pool.groupSize[x]
  BY <1>1, <1>2, <1>3 DEF WasAbsorbed
<1>6. UNCHANGED memoryVars /\ phase \in {"above", "below"}
  BY DEF Releasing
<1>7. Starts' = Starts
  BY <1>6, SameTable
<1>8. Starts \subseteq Heads(pool', OutOfLists')
  BY <1>2, <1>4, <1>5 DEF Heads
<1>9. ASSUME NEW g \in FreeGroups(pool') \ Starts PROVE pool'.used[g - 1]
  <2>1. g \in FreeGroups(pool) \ Starts
    BY <1>5, <1>9
  <2>2. g \in Page
    BY <1>3, <1>4, <2>1, HeadFacts, TableFacts
  <2>3. g - 1 \in 0..(n - 1)
    BY <1>3, <1>4, <2>1, <2>2, PageBefore
  <2> QED BY <1>4, <1>5, <2>1, <2>3
<1>10. ASSUME phase' = "below", joinedGroup' \notin Starts
       PROVE  pool'.used[joinedGroup' - 1]
  <2>1. phase = "below" /\ joinedGroup' = j /\ j \notin Starts
    BY <1>1, <1>10
  <2>2. j - 1 \in 0..(n - 1)
    BY <1>3, <1>4, <2>1, PageBefore
  <2> QED BY <1>4, <1>5, <2>1, <2>2
<1>11. GroupsInv'
  BY <1>7, <1>8, <1>9, <1>10 DEF GroupsInv
<1>12. \A r \in ReservedGroup : pool'.groupSize[r] = pool.groupSize[r]
  BY <1>4, <1>5
<1> QED BY <1>6, <1>11, <1>12, TableStays

LEMMA JoinAboveRegions ==
    ASSUME Parts, RegionsInv, JoinAbove PROVE RegionsInv'
<1>1. PICK j : j = joinedGroup OBVIOUS
<1>2. /\ Releasing /\ phase' = "above" /\ Releasing'
      /\ UNCHANGED memoryVars /\ held' = held
      /\ WasAbsorbed(pool, pool', OutOfLists, nextPage, j, joinedGroup', j)
  BY <1>1, JoinedAbove DEF Releasing
<1>3. /\ TableSet /\ j \in Page
      /\ OutOfLists = (DOMAIN held \cup ReservedGroup) \cup {j}
      /\ j \notin DOMAIN held \cup ReservedGroup
  BY <1>1, <1>2, ReleasingSet
<1>4. j \notin Starts
  <2>1. joinable(j, j - 1)
    BY <1>1 DEF JoinAbove, lastAbove
  <2>2. j - 1 \in Page /\ Behind(j - 1, 1, j)
    BY <1>3, <2>1, TableFacts DEF joinable, isValidPage, Behind
  <2> QED BY <1>3, <2>1, <2>2, JoinableFacts
<1>5. joinedGroup' \notin OutOfLists
  BY <1>2 DEF WasAbsorbed
<1>6. OutOfLists' = (OutOfLists \cup {joinedGroup'}) \ {j}
  <2>1. OutOfLists' = (DOMAIN held \cup ReservedGroup) \cup {joinedGroup'}
    BY <1>2, SameMemory DEF OutOfLists
  <2> QED BY <1>3, <1>5, <2>1
<1> QED BY <1>1, <1>2, <1>4, <1>6, AbsorbedRegions

LEMMA NothingAboveRegions ==
    ASSUME Parts, RegionsInv, NothingAbove PROVE RegionsInv'
<1>1. /\ phase = "above" /\ phase' = "below" /\ UNCHANGED memoryVars
      /\ pool' = pool /\ joinedGroup' = joinedGroup /\ held' = held
      /\ Releasing /\ Releasing' /\ ~joinable(joinedGroup, joinedGroup - 1)
  BY DEF NothingAbove, Releasing, lastAbove
<1>2. TableSet /\ joinedGroup \in Page
  BY <1>1, ReleasingSet
<1>3. Starts' = Starts /\ ReservedGroup' = ReservedGroup
  BY <1>1, SameTable
<1>4. OutOfLists' = OutOfLists
  BY <1>1, <1>3 DEF OutOfLists
<1>5. ASSUME joinedGroup \notin Starts PROVE pool.used[joinedGroup - 1]
  <2>1. joinedGroup - 1 \in Page /\ Behind(joinedGroup - 1, 1, joinedGroup)
    BY <1>2, <1>5, PageBefore
  <2> QED BY <1>1, <1>2, <1>5, <2>1, JoinableFacts
<1>6. GroupsInv'
  BY <1>1, <1>3, <1>4, <1>5, ReleasingSet DEF GroupsInv
<1> QED BY <1>1, <1>6, TableStays

LEMMA JoinBelowRegions ==
    ASSUME Parts, RegionsInv, JoinBelow PROVE RegionsInv'
<1>1. PICK j : j = joinedGroup OBVIOUS
<1>2. PICK b : b = firstBelow OBVIOUS
<1>3. /\ Releasing /\ phase = "below" /\ phase' = "below" /\ Releasing'
      /\ joinedGroup' = j
      /\ UNCHANGED memoryVars /\ held' = held
      /\ WasAbsorbed(pool, pool', OutOfLists, nextPage, j, b, b)
      /\ joinable(lastJoined, b)
  BY <1>1, <1>2, JoinedBelow DEF Releasing, JoinBelow
<1>4. /\ TableSet /\ ListsInv(pool, OutOfLists, nextPage) /\ j \in Page
      /\ OutOfLists = (DOMAIN held \cup ReservedGroup) \cup {j}
      /\ j \in Heads(pool, OutOfLists)
  BY <1>1, <1>3, ReleasingSet DEF Heads
<1>5. PICK s \in Nat \ {0} : s = pool.groupSize[j]
  BY <1>4, HeadFacts, SizeLimitType
<1>6. j \in Nat
  BY <1>4, TableFacts
<1>7. lastJoined = j + s - 1 /\ b = j + s
  BY <1>1, <1>2, <1>5, <1>6 DEF lastJoined, firstBelow
<1>8. b \notin Starts
  <2>1. b \in Page
    BY <1>3, <1>4, <1>6, <1>7, TableFacts DEF joinable, isValidPage
  <2>2. lastJoined \in Page /\ Behind(lastJoined, 1, b)
    BY <1>4, <1>6, <1>7, <2>1, TableFacts DEF Behind
  <2> QED BY <1>3, <1>4, <2>1, <2>2, JoinableFacts
<1>9. b \notin OutOfLists
  BY <1>3 DEF WasAbsorbed
<1>10. OutOfLists' = (OutOfLists \cup {b}) \ {b}
  <2>1. OutOfLists' = OutOfLists
    BY <1>1, <1>3, SameMemory DEF OutOfLists
  <2> QED BY <1>9, <2>1
<1> QED BY <1>1, <1>3, <1>8, <1>10, AbsorbedRegions

LEMMA FinishReleaseRegions ==
    ASSUME Parts, RegionsInv, FinishRelease PROVE RegionsInv'
<1>1. PICK j : j = joinedGroup OBVIOUS
<1>2. PICK out : out = OutOfLists OBVIOUS
<1>3. PICK n \in Nat : n = nextPage
  BY DEF Parts, GroupsConsistent, ListsInv
<1>4. /\ phase = "below" /\ phase' = "idle" /\ UNCHANGED memoryVars
      /\ pool' = addGroup(pool, j) /\ held' = held
      /\ Releasing /\ ~Releasing' /\ ~joinable(lastJoined, firstBelow)
  BY <1>1 DEF FinishRelease, Releasing
<1>5. /\ TableSet /\ ListsInv(pool, out, n) /\ j \in Page
      /\ out = (DOMAIN held \cup ReservedGroup) \cup {j}
      /\ j \notin DOMAIN held \cup ReservedGroup
      /\ Starts \subseteq Heads(pool, out)
      /\ \A g \in FreeGroups(pool) \ Starts : pool.used[g - 1]
      /\ j \notin Starts => pool.used[j - 1]
      /\ j \in Heads(pool, out)
  BY <1>1, <1>2, <1>3, <1>4, ReleasingSet DEF Heads
<1>6. FreeGroups(pool') = FreeGroups(pool) \cup {j}
  <2>1. ListsInv(pool, out, n) /\ j \in out
    BY <1>5
  <2>2. FreeGroups(addGroup(pool, j)) = FreeGroups(pool) \cup {j}
    BY <2>1, AddGroupStep
  <2>3. pool' = addGroup(pool, j)
    BY <1>4
  <2> QED BY <2>2, <2>3
<1>7. pool'.groupSize = pool.groupSize
  BY <1>4 DEF addGroup
<1>8. ASSUME NEW p \in 0..(n - 1), pool.used[p], p \notin Group(pool.groupSize, j)
      PROVE  pool'.used[p]
  <2>1. pool'.used = setUsed(pool.used, Group(pool.groupSize, j), FALSE)
    BY <1>4 DEF addGroup
  <2>2. DOMAIN pool.used = 0..(n - 1)
    BY <1>5 DEF ListsInv, ListsTyped
  <2> QED BY <1>8, <2>1, <2>2 DEF setUsed
<1>9. PICK s \in Nat \ {0} : s = pool.groupSize[j]
  BY <1>5, HeadFacts, SizeLimitType
<1>10. j \in Nat
  BY <1>5, TableFacts
<1>11. Starts' = Starts /\ ReservedGroup' = ReservedGroup
  BY <1>4, SameTable
<1>12. OutOfLists' = out \ {j}
  BY <1>4, <1>5, <1>11 DEF OutOfLists
<1>13. Starts \subseteq Heads(pool', out \ {j})
  BY <1>5, <1>6 DEF Heads
<1>14. ASSUME NEW g \in FreeGroups(pool') \ Starts PROVE pool'.used[g - 1]
  <2>1. CASE g = j
    <3>1. g - 1 \in 0..(n - 1)
      BY <1>3, <1>5, <1>14, <2>1, PageBefore
    <3>2. g - 1 \notin Group(pool.groupSize, j)
      BY <1>9, <1>10, <2>1 DEF Group
    <3> QED BY <1>5, <1>8, <1>14, <2>1, <3>1, <3>2
  <2>2. CASE g # j
    <3>1. g \in FreeGroups(pool) /\ g \in Heads(pool, out) /\ g \notin out
      BY <1>5, <1>6, <1>14, <2>2, HeadFacts DEF Heads
    <3>2. g \in Page /\ g \in Nat
      BY <1>3, <1>5, <3>1, HeadFacts, TableFacts
    <3>3. g - 1 \in Page /\ g - 1 \in 0..(n - 1) /\ Behind(g - 1, 1, g)
      BY <1>3, <1>5, <1>14, <3>2, PageBefore
    <3>4. pool.groupSize[g] \in Nat \ {0}
      BY <1>5, <3>1, HeadFacts, SizeLimitType
    <3>5. g \in Group(pool.groupSize, g)
      BY <3>2, <3>4 DEF Group
    <3>6. g \notin Group(pool.groupSize, j)
      BY <1>5, <2>2, <3>1, <3>5, OneGroupPerPage
    <3>7. g - 1 \notin Group(pool.groupSize, j)
      <4>1. SUFFICES ASSUME g - 1 \in Group(pool.groupSize, j) PROVE FALSE
        OBVIOUS
      <4>2. g = j + s
        BY <1>9, <1>10, <3>2, <3>6, <4>1 DEF Group
      <4>3. lastJoined = g - 1 /\ firstBelow = g
        BY <1>1, <1>9, <1>10, <4>2 DEF lastJoined, firstBelow
      <4>4. ~pool.used[g]
        BY <1>5, <3>1, <3>5, UsedOfGroup
      <4> QED BY <1>4, <1>5, <1>14, <3>2, <3>3, <4>3, <4>4, JoinableFacts
    <3> QED BY <1>5, <1>8, <1>14, <3>1, <3>3, <3>7
  <2> QED BY <2>1, <2>2
<1>15. GroupsInv'
  BY <1>4, <1>11, <1>12, <1>13, <1>14 DEF GroupsInv
<1> QED BY <1>4, <1>7, <1>15, TableStays

\* One more region is scanned.
LEMMA ScanNext ==
    ASSUME NEW memory \in MemoryModels, NEW size \in PageSizes,
           isValidPageSize(size),
           NEW infos \in Seq(RegionInfoType),
           NEW k \in 1..Len(memory), Scanned(infos, memory, size, k - 1),
           NEW longer,
           longer = IF regionKept(memory[k], size)
                    THEN Append(infos, initRegionInfo(memory[k], size))
                    ELSE infos
    PROVE  Scanned(longer, memory, size, k)
<1>1. /\ Len(memory) \in Nat /\ DOMAIN memory = 1..Len(memory)
      /\ size \in Nat \ {0}
      /\ \A i \in 1..Len(memory) : memory[i] \in [address : Nat, size : Nat \ {0}]
  BY ModelPagesType
<1>2. k \in Nat \ {0} /\ k \in DOMAIN memory /\ 1..k = 1..(k - 1) \cup {k}
      /\ 1..(k - 1) \subseteq DOMAIN memory
  BY <1>1
<1>3. /\ EntriesOK(infos, size)
      /\ \A i \in DOMAIN infos : \E m \in 1..(k - 1) : madeFor(infos[i], memory, size, m)
      /\ infos = <<>> => \A m \in 1..(k - 1) : ~regionKept(memory[m], size)
      /\ infos # <<>> => \E m \in 1..(k - 1) : /\ isFirstKept(memory, size, m)
                                               /\ madeFor(infos[1], memory, size, m)
  BY DEF Scanned
<1>4. CASE ~regionKept(memory[k], size)
  BY <1>2, <1>3, <1>4 DEF Scanned
<1>5. CASE regionKept(memory[k], size)
  <2>1. PICK info : info = initRegionInfo(memory[k], size) OBVIOUS
  <2>2. PICK n \in Nat : n = Len(infos) /\ DOMAIN infos = 1..n
    OBVIOUS
  <2>3. PICK R : R = RegionInfoType OBVIOUS
  <2>4. /\ DOMAIN longer = 1..(n + 1)
        /\ longer[n + 1] = info
        /\ \A i \in 1..n : longer[i] = infos[i]
        /\ longer # <<>>
    <3>1. longer = Append(infos, info) /\ infos \in Seq(R)
      BY <1>5, <2>1, <2>3
    <3>2. info \in R
      BY <1>1, <1>2, <1>5, <2>1, <2>3, KeptRegionType
    <3>3. Len(longer) = n + 1 /\ longer \in Seq(R)
      BY <2>2, <3>1, <3>2
    <3> QED BY <2>2, <3>1, <3>2, <3>3
  <2>5. n + 1 \notin 1..n /\ 1..(n + 1) = 1..n \cup {n + 1} /\ (n = 0 <=> infos = <<>>)
    BY <2>2
  <2>6. madeFor(info, memory, size, k)
    BY <1>5, <2>1 DEF madeFor
  <2>7. ASSUME NEW m \in DOMAIN memory, NEW entry, madeFor(entry, memory, size, m)
        PROVE  /\ Aligned(entry, size)
               /\ entry.alignedStart = alignedStart(memory[m], size)
               /\ entry.alignedEnd = alignedEnd(memory[m], size)
    <3>1. memory[m].address + memory[m].size < AddrSpace
      BY MemoryModelsAssumption
    <3>2. memory[m] \in [address : Nat, size : Nat \ {0}]
      BY <1>1
    <3>3. regionKept(memory[m], size) /\ entry = initRegionInfo(memory[m], size)
      BY <2>7 DEF madeFor
    <3> QED BY <1>1, <3>1, <3>2, <3>3, KeptAligned
  <2>8. ASSUME NEW i \in 1..n PROVE Apart(infos[i], info) /\ Apart(info, infos[i])
    <3>1. PICK m \in 1..(k - 1) : madeFor(infos[i], memory, size, m)
      BY <1>3, <2>2
    <3>2. m \in DOMAIN memory /\ m # k /\ regionKept(memory[m], size)
      BY <1>2, <3>1 DEF madeFor
    <3>3. \/ alignedEnd(memory[m], size) < alignedStart(memory[k], size)
          \/ alignedEnd(memory[k], size) < alignedStart(memory[m], size)
      BY <1>2, <1>5, <3>2, RegionsApart
    <3> QED BY <1>2, <2>6, <2>7, <3>1, <3>2, <3>3 DEF Apart
  <2>9. EntriesOK(longer, size)
    <3>1. ASSUME NEW i \in 1..(n + 1) PROVE Aligned(longer[i], size)
      BY <1>2, <1>3, <2>2, <2>4, <2>5, <2>6, <2>7 DEF EntriesOK
    <3>2. ASSUME NEW i \in 1..(n + 1), NEW j \in 1..(n + 1), i # j
          PROVE  Apart(longer[i], longer[j])
      BY <1>3, <2>2, <2>4, <2>5, <2>8, <3>2 DEF EntriesOK
    <3> QED BY <2>4, <3>1, <3>2 DEF EntriesOK
  <2>10. ASSUME NEW i \in 1..(n + 1)
         PROVE  \E m \in 1..k : madeFor(longer[i], memory, size, m)
    BY <1>2, <1>3, <2>2, <2>4, <2>5, <2>6
  <2>11. \E m \in 1..k : isFirstKept(memory, size, m) /\ madeFor(longer[1], memory, size, m)
    <3>1. CASE infos = <<>>
      <4>1. longer[1] = info
        BY <2>4, <2>5, <3>1
      <4>2. isFirstKept(memory, size, k)
        BY <1>3, <1>5, <3>1 DEF isFirstKept
      <4> QED BY <1>2, <2>6, <4>1, <4>2
    <3>2. CASE infos # <<>>
      <4>1. longer[1] = infos[1]
        BY <2>2, <2>4, <2>5, <3>2
      <4> QED BY <1>2, <1>3, <3>2, <4>1
    <3> QED BY <3>1, <3>2
  <2> QED BY <2>4, <2>9, <2>10, <2>11 DEF Scanned
<1> QED BY <1>4, <1>5

LEMMA ScanRegionRegions ==
    ASSUME Parts, RegionsInv, ScanRegion PROVE RegionsInv'
<1>1. PICK memory : memory = request.regions OBVIOUS
<1>2. PICK size : size = request.pageSize OBVIOUS
<1>3. PICK k : k = cursor OBVIOUS
<1>4. /\ phase = "scan" /\ phase' = "scan" /\ k <= Len(memory)
      /\ request' = request /\ cursor' = k + 1
      /\ regionsInfo' = IF regionKept(memory[k], size)
                        THEN Append(regionsInfo, initRegionInfo(memory[k], size))
                        ELSE regionsInfo
  BY <1>1, <1>2, <1>3 DEF ScanRegion
<1>5. /\ memory \in MemoryModels /\ size \in PageSizes /\ isValidPageSize(size)
      /\ k \in 1..(Len(memory) + 1)
      /\ regionsInfo \in Seq(RegionInfoType)
  BY <1>1, <1>2, <1>3, <1>4 DEF Parts, ScanInv, MemoryTyped
<1>6. Len(memory) \in Nat
  BY <1>5, ModelPagesType
<1>7. k \in 1..Len(memory) /\ cursor' - 1 = k
  BY <1>4, <1>5, <1>6
<1>8. Scanned(regionsInfo, memory, size, k - 1)
  BY <1>1, <1>2, <1>3, <1>4 DEF RegionsInv, ScanRegionsInv
<1>9. Scanned(regionsInfo', memory, size, k)
  BY <1>4, <1>5, <1>7, <1>8, ScanNext
<1>10. ScanRegionsInv'
  BY <1>1, <1>2, <1>4, <1>7, <1>9 DEF ScanRegionsInv
<1> QED BY <1>4, <1>10 DEF RegionsInv, TableInv, GroupsInv, TableKnown

LEMMA ScanDoneRegions ==
    ASSUME Parts, RegionsInv, ScanDone PROVE RegionsInv'
<1>1. PICK memory : memory = request.regions OBVIOUS
<1>2. PICK size : size = request.pageSize OBVIOUS
<1>3. PICK count : count = countPages(regionsInfo) OBVIOUS
<1>4. PICK d : d = chooseDescRegion(regionsInfo, count) OBVIOUS
<1>5. /\ phase = "scan" /\ phase' = "setup" /\ cursor' = 1
      /\ cursor > Len(memory) /\ count # 0
      /\ pagesCount' = count /\ pageSize' = size /\ descRegionIdx' = d
      /\ regionsInfo' = regionsInfo /\ address' = address /\ pool' = pool
  BY <1>1, <1>2, <1>3, <1>4 DEF ScanDone
<1>6. /\ memory \in MemoryModels /\ size \in PageSizes /\ isValidPageSize(size)
      /\ cursor \in 1..(Len(memory) + 1)
      /\ count = total(modelPages(memory, size), 1..(cursor - 1))
      /\ Nothing
      /\ regionsInfo \in Seq(RegionInfoType)
  BY <1>1, <1>2, <1>3, <1>5 DEF Parts, ScanInv, MemoryTyped
<1>7. /\ Len(memory) \in Nat /\ DOMAIN memory = 1..Len(memory) /\ size \in Nat \ {0}
      /\ \A i \in 1..Len(memory) : memory[i] \in [address : Nat, size : Nat \ {0}]
  BY <1>6, ModelPagesType
<1>8. cursor - 1 = Len(memory) /\ count = total(modelPages(memory, size), DOMAIN memory)
  BY <1>5, <1>6, <1>7
<1>9. /\ count = total(pageCounts(regionsInfo), 1..Len(regionsInfo))
      /\ count \in Nat
      /\ Len(regionsInfo) \in Nat /\ DOMAIN regionsInfo = 1..Len(regionsInfo)
  BY <1>3, <1>6, CountPagesSum
<1>10. Len(regionsInfo) # 0 /\ regionsInfo # <<>>
  <2>1. SUFFICES ASSUME Len(regionsInfo) = 0 PROVE FALSE
    BY <1>9
  <2>2. 1..Len(regionsInfo) = {}
    BY <2>1
  <2> QED BY <1>5, <1>9, <2>2, TotalEmpty
<1>11. Scanned(regionsInfo, memory, size, Len(memory))
  BY <1>1, <1>2, <1>5, <1>8 DEF RegionsInv, ScanRegionsInv
<1>12. ASSUME DescriptorsFit
       PROVE  regionsInfo[1].alignedSize >= count * PageDescSize
  <2>1. PICK m \in DOMAIN memory : /\ isFirstKept(memory, size, m)
                                   /\ madeFor(regionsInfo[1], memory, size, m)
    BY <1>7, <1>10, <1>11 DEF Scanned
  <2>2. count * PageDescSize <= pageCount(memory[m], size) * size
    BY <1>6, <1>8, <1>12, <2>1 DEF DescriptorsFit
  <2>3. /\ regionKept(memory[m], size)
        /\ regionsInfo[1] = initRegionInfo(memory[m], size)
    BY <2>1 DEF madeFor
  <2>4. regionsInfo[1].alignedSize = pageCount(memory[m], size) * size
    <3>1. memory[m].address + memory[m].size < AddrSpace
      BY <1>6, MemoryModelsAssumption
    <3>2. memory[m] \in [address : Nat, size : Nat \ {0}]
      BY <1>7
    <3>3. /\ Aligned(regionsInfo[1], size)
          /\ regionsInfo[1].pageCount = pageCount(memory[m], size)
      BY <1>7, <2>3, <3>1, <3>2, KeptAligned
    <3> QED BY <3>3 DEF Aligned
  <2>5. regionsInfo[1].alignedSize \in Nat
    BY <1>6, <1>9, <1>10, EntryType
  <2>6. count * PageDescSize \in Nat
    BY <1>9, NatProduct, ConfigAssumption
  <2> QED BY <2>2, <2>4, <2>5, <2>6
<1>13. /\ d \in DOMAIN regionsInfo
       /\ DescriptorsFit => count * PageDescSize <= regionsInfo[d].alignedSize
  <2>1. /\ d \in DOMAIN regionsInfo
        /\ d = 1 \/ regionsInfo[d].alignedSize >= count * PageDescSize
    BY <1>4, <1>6, <1>10, ChooseType
  <2>2. DescriptorsFit => regionsInfo[d].alignedSize >= count * PageDescSize
    BY <1>12, <2>1
  <2>3. regionsInfo[d].alignedSize \in Nat /\ count * PageDescSize \in Nat
    BY <1>6, <1>9, <2>1, EntryType, NatProduct, ConfigAssumption
  <2> QED BY <2>1, <2>2, <2>3
<1>14. SetUp' = {} /\ Starts' = {}
  BY <1>5 DEF SetUp, Starts
<1>15. nextPage' = 0
  BY <1>5, <1>6 DEF nextPage, Nothing
<1>16. TableInv'
  <2>1. EntriesOK(regionsInfo, size)
    BY <1>11 DEF Scanned
  <2>2. 0..(nextPage' - 1) = {}
    BY <1>15
  <2>3. DescriptorsPlaced'
    BY <1>14 DEF DescriptorsPlaced
  <2> QED BY <1>5, <1>7, <1>13, <1>14, <2>1, <2>2, <2>3 DEF TableInv
<1>17. GroupsInv'
  <2>1. FreeGroups(pool') = {}
    BY <1>5, <1>6, NoFreeGroups DEF Nothing
  <2> QED BY <1>5, <1>14, <2>1 DEF GroupsInv
<1> QED BY <1>5, <1>16, <1>17 DEF RegionsInv, ScanRegionsInv

\* The state after the descriptors of one more region are written.
LEMMA SetupRegionRegions ==
    ASSUME Parts, RegionsInv, SetupRegion PROVE RegionsInv'
<1>1. PICK k : k = cursor OBVIOUS
<1>2. PICK n, t, info, entry : Wrote(k, n, t, info, entry) /\ GroupedAs(k, n, t, info)
  BY <1>1, SetupFacts
<1>3. /\ phase = "setup"
      /\ pageSize' = pageSize /\ descRegionIdx' = descRegionIdx
      /\ pagesCount' = pagesCount
      /\ IF k = Len(regionsInfo) THEN phase' = "idle"
         ELSE phase' = "setup" /\ cursor' = k + 1
  BY <1>1 DEF SetupRegion, InitReturns
<1>4. PICK len \in Nat : len = Len(regionsInfo) /\ DOMAIN regionsInfo = 1..len
                         /\ DOMAIN regionsInfo' = 1..len
  BY <1>2 DEF Wrote
<1>5. k \in Nat \ {0} /\ k <= len /\ k \in 1..len /\ 1..(k - 1) \subseteq 1..len
      /\ 1..k = 1..(k - 1) \cup {k} /\ k \notin 1..(k - 1)
  <2>1. k \in Nat \ {0} /\ k <= len
    BY <1>2, <1>4 DEF Wrote
  <2> QED BY <2>1
<1>6. PICK count \in Nat \ {0} : count = info.pageCount
  BY <1>2 DEF Wrote
<1>7. n \in Nat /\ t \in Nat /\ t = n + count /\ n = nextPage /\ nextPage' = t
  BY <1>2, <1>6 DEF Wrote, Behind
<1>8. SetUp = 1..(k - 1) /\ SetUp' = 1..k
  <2>1. CASE k = len
    BY <1>1, <1>3, <1>4, <2>1 DEF SetUp
  <2>2. CASE k # len
    BY <1>1, <1>3, <1>4, <1>5, <2>2 DEF SetUp
  <2> QED BY <2>1, <2>2
<1>9. /\ entry.firstPage = n /\ entry.lastPage = t - 1
      /\ entry.pageCount = count
      /\ entry.alignedStart = info.alignedStart
      /\ entry.alignedEnd = info.alignedEnd
      /\ entry.alignedSize = info.alignedSize
      /\ entry.size = info.size /\ entry.start = info.start /\ entry.end = info.end
  <2>1. /\ info \in RegionInfoType
        /\ entry = [info EXCEPT !.firstPage = n, !.lastPage = n + info.pageCount - 1]
    BY <1>2 DEF Wrote
  <2> QED BY <1>6, <1>7, <2>1 DEF RegionInfoType
<1>10. /\ regionsInfo[k] = info /\ regionsInfo'[k] = entry
       /\ \A i \in 1..len : i # k => regionsInfo'[i] = regionsInfo[i]
  BY <1>2, <1>4, <1>5 DEF Wrote
<1>11. \A p \in 0..(t - 1) :
          address'[p] = IF p < n THEN address[p]
                        ELSE info.alignedStart + (p - n) * pageSize
  BY <1>2 DEF Wrote
<1>12. TableKnown /\ TableKnown' /\ pagesCount \in Nat \ {0}
  BY <1>3 DEF Parts, SetupInv, MemoryTyped, TableKnown
<1>13. /\ pageSize \in Nat \ {0}
       /\ EntriesOK(regionsInfo, pageSize)
       /\ descRegionIdx \in 1..len
       /\ DescriptorsFit =>
             pagesCount * PageDescSize <= regionsInfo[descRegionIdx].alignedSize
       /\ \A i \in 1..(k - 1) : PagesPlaced(i)
       /\ \A i, j \in 1..(k - 1) : i # j => regionPages(i) \cap regionPages(j) = {}
       /\ \A p \in 0..(n - 1) : \E i \in 1..(k - 1) : p \in regionPages(i)
       /\ DescriptorsPlaced
  BY <1>4, <1>7, <1>8, <1>12 DEF RegionsInv, TableInv
<1>14. Starts' = Starts \cup {n}
  BY <1>4, <1>5, <1>8, <1>9, <1>10 DEF Starts
<1>15. ASSUME NEW i \in 1..(k - 1)
       PROVE  /\ i \in 1..len /\ i # k
              /\ regionPages(i)' = regionPages(i)
              /\ regionsInfo[i].firstPage \in Nat
              /\ regionPages(i) \subseteq 0..(n - 1)
              /\ regionsInfo[i].lastPage < n
              /\ regionsInfo[i].lastPage \in Int
  <2>1. i \in 1..len /\ i # k
    BY <1>5
  <2>2. /\ regionsInfo[i].firstPage \in Nat
        /\ regionsInfo[i].lastPage =
              regionsInfo[i].firstPage + regionsInfo[i].pageCount - 1
        /\ regionsInfo[i].lastPage < n
    BY <1>7, <1>13 DEF PagesPlaced
  <2>3. regionsInfo[i].pageCount \in Nat
    BY <1>4, <2>1, EntryType DEF Parts, MemoryTyped
  <2>4. regionPages(i)' = regionPages(i)
    BY <1>10, <2>1 DEF regionPages
  <2>5. regionPages(i) \subseteq 0..(n - 1)
    BY <1>7, <2>2, <2>3 DEF regionPages
  <2> QED BY <2>1, <2>2, <2>3, <2>4, <2>5
<1>16. regionPages(k)' = n..(t - 1)
  BY <1>9, <1>10 DEF regionPages
<1>17. ASSUME NEW i \in 1..(k - 1) PROVE PagesPlaced(i)'
  <2>1. /\ PagesPlaced(i) /\ regionsInfo'[i] = regionsInfo[i]
        /\ regionPages(i)' = regionPages(i)
    BY <1>10, <1>13, <1>15
  <2>2. regionsInfo[i].lastPage + 1 \in Starts' \cup {nextPage'}
    BY <1>7, <1>14, <2>1 DEF PagesPlaced
  <2>3. regionsInfo[i].lastPage < nextPage'
    BY <1>7, <1>15
  <2>4. ASSUME NEW p \in regionPages(i)
        PROVE  address'[p] = regionsInfo[i].alignedStart
                                + (p - regionsInfo[i].firstPage) * pageSize
    <3>1. p \in 0..(n - 1)
      BY <1>15
    <3>2. p \in 0..(t - 1) /\ p < n
      BY <1>7, <3>1
    <3>3. address'[p] = address[p]
      BY <1>11, <3>2
    <3> QED BY <2>1, <3>3 DEF PagesPlaced
  <2> QED BY <1>3, <2>1, <2>2, <2>3, <2>4 DEF PagesPlaced
<1>18. PagesPlaced(k)'
  <2>1. (t - 1) + 1 = nextPage' /\ t - 1 < nextPage' /\ t - 1 = n + count - 1
    BY <1>7
  <2>2. ASSUME NEW p \in n..(t - 1)
        PROVE  address'[p] = entry.alignedStart + (p - n) * pageSize
    <3>1. p \in 0..(t - 1) /\ ~(p < n)
      BY <1>7
    <3> QED BY <1>9, <1>11, <3>1
  <2> QED BY <1>3, <1>7, <1>9, <1>10, <1>16, <2>1, <2>2 DEF PagesPlaced
<1>19. EntriesOK(regionsInfo', pageSize')
  <2>1. ASSUME NEW i \in 1..len
        PROVE  /\ regionsInfo'[i].alignedStart = regionsInfo[i].alignedStart
               /\ regionsInfo'[i].alignedEnd = regionsInfo[i].alignedEnd
               /\ regionsInfo'[i].alignedSize = regionsInfo[i].alignedSize
               /\ regionsInfo'[i].pageCount = regionsInfo[i].pageCount
               /\ regionsInfo'[i].size = regionsInfo[i].size
               /\ regionsInfo'[i].start = regionsInfo[i].start
               /\ regionsInfo'[i].end = regionsInfo[i].end
    BY <1>6, <1>9, <1>10
  <2> QED BY <1>3, <1>4, <1>13, <2>1 DEF EntriesOK, Aligned, Apart
<1>20. DescriptorsPlaced'
  <2>1. PICK d : d = descRegionIdx /\ descRegionIdx' = d /\ d \in 1..len
    BY <1>3, <1>13
  <2>2. \A i \in 1..len :
           reserveDescPages(regionsInfo[i])' = reserveDescPages(regionsInfo[i])
    BY <1>3, <1>6, <1>9, <1>10 DEF reserveDescPages
  <2>3. CASE d = k
    <3>1. /\ descPagesCount' = reserveDescPages(info)
          /\ WasReserved(pool', pool, {}, n, descPagesCount', t)
      BY <1>2, <2>1, <2>3 DEF GroupedAs
    <3>2. pool'.groupSize[n] = descPagesCount'
      BY <3>1 DEF WasReserved
    <3> QED BY <1>5, <1>9, <1>10, <2>1, <2>2, <2>3, <3>1, <3>2 DEF DescriptorsPlaced
  <2>4. CASE d # k
    <3>1. SUFFICES ASSUME d \in 1..(k - 1) PROVE DescriptorsPlaced'
      BY <1>5, <1>8, <2>1, <2>4 DEF DescriptorsPlaced
    <3>2. /\ descPagesCount = reserveDescPages(regionsInfo[d])
          /\ pool.groupSize[regionsInfo[d].firstPage] = descPagesCount
      BY <1>8, <1>13, <2>1, <3>1 DEF DescriptorsPlaced
    <3>3. regionsInfo[d].pageCount \in Nat \ {0}
      BY <1>4, <2>1, EntryType DEF Parts, MemoryTyped
    <3>4. descPagesCount \in 1..regionsInfo[d].pageCount
      BY <1>12, <1>13, <3>2, <3>3, ReserveType
    <3>5. ReservedGroup = {regionsInfo[d].firstPage}
      BY <2>1, <3>3, <3>4 DEF ReservedGroup
    <3>6. /\ descPagesCount' = descPagesCount
          /\ WasFreed(pool', pool, ReservedGroup, n, t)
      BY <1>2, <2>1, <2>4 DEF GroupedAs
    <3>7. pool'.groupSize[regionsInfo[d].firstPage] = descPagesCount
      BY <3>2, <3>5, <3>6 DEF WasFreed
    <3>8. regionsInfo'[d] = regionsInfo[d]
      BY <1>10, <2>1, <2>4
    <3> QED BY <2>1, <2>2, <3>2, <3>6, <3>7, <3>8 DEF DescriptorsPlaced
  <2> QED BY <2>3, <2>4
<1>21. TableInv'
  <2>1. regionsInfo'[descRegionIdx].alignedSize = regionsInfo[descRegionIdx].alignedSize
    BY <1>9, <1>10, <1>13
  <2>2. ASSUME NEW i \in 1..k, NEW j \in 1..k, i # j
        PROVE  regionPages(i)' \cap regionPages(j)' = {}
    <3>1. 0..(n - 1) \cap n..(t - 1) = {}
      BY <1>7
    <3>2. CASE i # k /\ j # k
      <4>1. i \in 1..(k - 1) /\ j \in 1..(k - 1)
        BY <1>5, <3>2
      <4> QED BY <1>13, <1>15, <2>2, <4>1
    <3>3. CASE i = k
      <4>1. j \in 1..(k - 1)
        BY <1>5, <2>2, <3>3
      <4>2. regionPages(j)' \subseteq 0..(n - 1)
        BY <1>15, <4>1
      <4> QED BY <1>16, <3>1, <3>3, <4>2
    <3>4. CASE j = k
      <4>1. i \in 1..(k - 1)
        BY <1>5, <2>2, <3>4
      <4>2. regionPages(i)' \subseteq 0..(n - 1)
        BY <1>15, <4>1
      <4> QED BY <1>16, <3>1, <3>4, <4>2
    <3> QED BY <3>2, <3>3, <3>4
  <2>3. ASSUME NEW p \in 0..(t - 1) PROVE \E i \in 1..k : p \in regionPages(i)'
    <3>1. p \in 0..(n - 1) \/ p \in n..(t - 1)
      BY <1>7
    <3>2. CASE p \in 0..(n - 1)
      <4>1. PICK i \in 1..(k - 1) : p \in regionPages(i)
        BY <1>13, <3>2
      <4>2. i \in 1..k /\ p \in regionPages(i)'
        BY <1>5, <1>15, <4>1
      <4> QED BY <4>2
    <3>3. CASE p \in n..(t - 1)
      <4>1. k \in 1..k /\ p \in regionPages(k)'
        BY <1>5, <1>16, <3>3
      <4> QED BY <4>1
    <3> QED BY <3>1, <3>2, <3>3
  <2>4. \A i \in 1..k : PagesPlaced(i)'
    BY <1>5, <1>17, <1>18
  <2> QED BY <1>3, <1>4, <1>7, <1>8, <1>13, <1>19, <1>20, <2>1, <2>2, <2>3, <2>4
       DEF TableInv
<1>22. PICK out : out = ReservedGroup OBVIOUS
<1>23. /\ ListsInv(pool, out, n) /\ ListsInv(pool', ReservedGroup', t)
       /\ OutOfLists = out /\ OutOfLists' = ReservedGroup'
  BY <1>2, <1>22 DEF Wrote
<1>24. /\ Starts \subseteq Heads(pool, out)
       /\ \A g \in FreeGroups(pool) \ Starts : pool.used[g - 1]
  BY <1>12, <1>23 DEF RegionsInv, GroupsInv
\* The page before a free group, if it starts no region, stays used.
<1>25. ASSUME NEW g \in FreeGroups(pool) \ Starts,
              out \subseteq ReservedGroup',
              \A x \in out : pool'.groupSize[x] = pool.groupSize[x]
       PROVE  pool'.used[g - 1]
  <2>1. g \in 0..(n - 1)
    BY <1>23, HeadFacts
  <2>2. g # 0
    <3>1. SUFFICES ASSUME g = 0 PROVE FALSE
      OBVIOUS
    <3>2. PICK i \in 1..(k - 1) : 0 \in regionPages(i)
      BY <1>13, <2>1, <3>1
    <3>3. regionsInfo[i].firstPage = 0
      BY <1>15, <3>2 DEF regionPages
    <3> QED BY <1>8, <3>1, <3>3 DEF Starts
  <2>3. g - 1 \in 0..(n - 1)
    BY <1>7, <2>1, <2>2
  <2>4. pool.used[g - 1]
    BY <1>24
  <2>5. n <= t
    BY <1>7
  <2>6. PICK out2 : out2 = ReservedGroup' OBVIOUS
  <2> QED BY <1>7, <1>23, <1>25, <2>3, <2>4, <2>5, <2>6, UsedStays
<1>26. CASE k = descRegionIdx
  <2>1. PICK r : r = descPagesCount' OBVIOUS
  <2>2. /\ r \in 1..count /\ out = {} /\ ReservedGroup' = {n}
        /\ WasReserved(pool', pool, {}, n, r, t)
    BY <1>2, <1>6, <1>22, <1>26, <2>1 DEF GroupedAs
  <2>3. /\ FreeGroups(pool) \subseteq FreeGroups(pool')
        /\ FreeGroups(pool') \subseteq FreeGroups(pool) \cup {n + r}
        /\ pool'.groupSize[n] = r
    BY <2>2 DEF WasReserved
  <2>4. Starts' \subseteq Heads(pool', ReservedGroup')
    BY <1>14, <1>24, <2>2, <2>3 DEF Heads
  <2>5. ASSUME NEW g \in FreeGroups(pool') \ Starts' PROVE pool'.used[g - 1]
    <3>1. CASE g \in FreeGroups(pool)
      BY <1>14, <1>25, <2>2, <2>5, <3>1
    <3>2. CASE g = n + r
      <4>1. g - 1 \in Group(pool'.groupSize, n) /\ g - 1 \in 0..(t - 1)
        BY <1>7, <2>2, <2>3, <3>2 DEF Group
      <4> QED BY <1>23, <2>2, <4>1 DEF ListsInv, UsedMatches
    <3> QED BY <2>3, <2>5, <3>1, <3>2
  <2> QED BY <1>3, <1>21, <1>23, <2>4, <2>5
       DEF RegionsInv, ScanRegionsInv, GroupsInv
<1>27. CASE k # descRegionIdx
  <2>1. ReservedGroup' = out /\ WasFreed(pool', pool, out, n, t)
    BY <1>2, <1>22, <1>27 DEF GroupedAs
  <2>2. /\ FreeGroups(pool') = FreeGroups(pool) \cup {n}
        /\ \A x \in out : pool'.groupSize[x] = pool.groupSize[x]
    BY <2>1 DEF WasFreed
  <2>3. Starts' \subseteq Heads(pool', ReservedGroup')
    BY <1>14, <1>24, <2>1, <2>2 DEF Heads
  <2>4. ASSUME NEW g \in FreeGroups(pool') \ Starts' PROVE pool'.used[g - 1]
    BY <1>14, <1>25, <2>1, <2>2, <2>4
  <2> QED BY <1>3, <1>21, <1>23, <2>3, <2>4
       DEF RegionsInv, ScanRegionsInv, GroupsInv
<1> QED BY <1>26, <1>27

LEMMA StutterRegions ==
    ASSUME RegionsInv, UNCHANGED vars PROVE RegionsInv'
<1>1. /\ regionsInfo' = regionsInfo /\ pageSize' = pageSize
      /\ descRegionIdx' = descRegionIdx /\ descPagesCount' = descPagesCount
      /\ pagesCount' = pagesCount /\ address' = address
      /\ UNCHANGED memoryVars
      /\ pool' = pool /\ phase' = phase /\ request' = request
      /\ cursor' = cursor /\ joinedGroup' = joinedGroup /\ held' = held
  BY DEF vars, memoryVars
<1>2. nextPage' = nextPage /\ ReservedGroup' = ReservedGroup
  BY <1>1, SameMemory
<1>3. SetUp' = SetUp /\ (TableKnown' <=> TableKnown)
  BY <1>1 DEF SetUp, TableKnown
<1>4. Starts' = Starts
  BY <1>1, <1>3 DEF Starts
<1>5. \A i : regionPages(i)' = regionPages(i)
  BY <1>1 DEF regionPages
<1>6. \A i : PagesPlaced(i)' <=> PagesPlaced(i)
  BY <1>1, <1>2, <1>4, <1>5, Zenon DEF PagesPlaced
<1>7. DescriptorsPlaced' <=> DescriptorsPlaced
  <2>1. \A info : reserveDescPages(info)' = reserveDescPages(info)
    BY <1>1 DEF reserveDescPages
  <2> QED BY <1>1, <1>3, <2>1 DEF DescriptorsPlaced
<1>8. TableInv'
  BY <1>1, <1>2, <1>3, <1>5, <1>6, <1>7, Zenon DEF RegionsInv, TableInv
<1>9. OutOfLists' = OutOfLists
  BY <1>1, <1>2 DEF OutOfLists, Releasing
<1>10. GroupsInv'
  BY <1>1, <1>3, <1>4, <1>9 DEF RegionsInv, GroupsInv
<1>11. ScanRegionsInv'
  BY <1>1 DEF RegionsInv, ScanRegionsInv
<1> QED BY <1>8, <1>10, <1>11 DEF RegionsInv

LEMMA InitRegions == Init => RegionsInv
  BY DEF Init, RegionsInv, ScanRegionsInv, TableInv, GroupsInv, TableKnown

LEMMA StepRegions == Inv /\ RegionsInv /\ [Next]_vars => RegionsInv'
<1>1. SUFFICES ASSUME Parts, RegionsInv, [Next]_vars PROVE RegionsInv'
  BY InvParts
<1>2. CASE Call
  <2>1. CASE Clear
    BY <2>1, ClearedRegions DEF Clear
  <2>2. CASE \E size \in PageSizes : InitRejectsPageSize(size)
    BY <2>2, ClearedRegions DEF InitRejectsPageSize
  <2>3. CASE \E memory \in MemoryModels, size \in PageSizes :
                InitStart(memory, size)
    BY <2>3, InitStartRegions
  <2>4. CASE \E count \in AllocCounts : Allocate(count)
    BY <1>1, <2>4, AllocateRegions
  <2>5. CASE \E count \in AllocCounts : AllocateFails(count)
    BY <1>1, <2>5, RepliesOnlyRegions DEF AllocateFails
  <2>6. CASE \E group \in DOMAIN held : Release(group)
    BY <1>1, <2>6, ReleaseRegions
  <2>7. CASE ReleaseNull
    BY <1>1, <2>7, RepliesOnlyRegions DEF ReleaseNull
  <2> QED BY <1>2, <2>1, <2>2, <2>3, <2>4, <2>5, <2>6, <2>7 DEF Call
<1>3. CASE Step
  <2>1. CASE ScanRegion
    BY <1>1, <2>1, ScanRegionRegions
  <2>2. CASE TooManyRegions \/ NoUsablePages
    BY <1>1, <2>2, InitGivesUpRegions
  <2>3. CASE ScanDone
    BY <1>1, <2>3, ScanDoneRegions
  <2>4. CASE SetupRegion
    BY <1>1, <2>4, SetupRegionRegions
  <2>5. CASE JoinAbove
    BY <1>1, <2>5, JoinAboveRegions
  <2>6. CASE NothingAbove
    BY <1>1, <2>6, NothingAboveRegions
  <2>7. CASE JoinBelow
    BY <1>1, <2>7, JoinBelowRegions
  <2>8. CASE FinishRelease
    BY <1>1, <2>8, FinishReleaseRegions
  <2> QED BY <1>3, <2>1, <2>2, <2>3, <2>4, <2>5, <2>6, <2>7, <2>8 DEF Step
<1>4. CASE UNCHANGED vars
  BY <1>1, <1>4, StutterRegions
<1> QED BY <1>1, <1>2, <1>3, <1>4 DEF Next

-----------------------------------------------------------------------------
(* The theorems.                                                           *)

\* Between any two iterations of init and of release, the pages of the table
\* are those of the regions in order, every region starts a group, and the
\* page before a free group is used or belongs to another region.
THEOREM RegionsCorrect == Spec => []RegionsInv
<1>1. Init => RegionsInv
  BY InitRegions
<1>2. Inv /\ RegionsInv /\ [Next]_vars => RegionsInv'
  BY StepRegions
<1> QED BY <1>1, <1>2, InvCorrect, PTL DEF Spec

\* release leaves no two free groups side by side inside one region: its two
\* loops join all there is to join.
THEOREM NoUnmergedNeighboursCorrect == Spec => []NoUnmergedNeighbours
<1>1. Inv /\ RegionsInv => NoUnmergedNeighbours
  BY Unmerged
<1> QED BY <1>1, InvCorrect, RegionsCorrect, PTL

\* A client's pages lie in one region, however often groups were split and
\* joined before.
THEOREM AllocatedFromOneRegionCorrect == Spec => []AllocatedFromOneRegion
<1>1. Inv /\ RegionsInv => AllocatedFromOneRegion
  BY OneRegion
<1> QED BY <1>1, InvCorrect, RegionsCorrect, PTL

\* The memory the descriptors are written to is never free nor a client's, if
\* the first region is large enough for them.
THEOREM DescriptorsReservedCorrect ==
    ASSUME DescriptorsFit PROVE Spec => []DescriptorsReserved
<1>1. Inv /\ RegionsInv => DescriptorsReserved
  BY Reserved
<1> QED BY <1>1, InvCorrect, RegionsCorrect, PTL

\* getPage finds the page of every address a page contains, and no other.
THEOREM PageLookupCorrect == Spec => []PageLookup
<1>1. Inv /\ RegionsInv => PageLookup
  BY Looked
<1> QED BY <1>1, InvCorrect, RegionsCorrect, PTL

-----------------------------------------------------------------------------
(* std::accumulate.                                                        *)

\* As long as the whole sum can be said, nothing is cut.
LEMMA AccumulateExact ==
    ASSUME NEW F, NEW n \in Nat, DOMAIN F = 1..n, Len(F) = n,
           \A i \in 1..n : F[i] \in Nat,
           Weight(F, 1..n) < 2^UnsignedBits
    PROVE  accumulate(F) = Weight(F, 1..n)
<1>1. PICK m \in Nat \ {0} : m = 2^UnsignedBits
  BY UnsignedRange
<1> DEFINE IsAccumulation(f) ==
               f = [i \in 0..n |-> IF i = 0 THEN 0 ELSE (f[i - 1] + F[i]) % m]
<1>2. IsFiniteSet(1..n)
  BY FS_Interval
<1>3. ASSUME NEW i \in 0..n
      PROVE  Weight(F, 1..i) \in Nat /\ Weight(F, 1..i) < m
  <2>1. 1..i \in SUBSET (1..n) /\ 1..n \in SUBSET DOMAIN F
    OBVIOUS
  <2>2. Weight(F, 1..i) \in Nat /\ Weight(F, 1..n) \in Nat /\ Weight(F, 1..i) <= Weight(F, 1..n)
    BY <1>2, <2>1, WeightMore
  <2> QED BY <1>1, <2>2
<1>4. ASSUME NEW i \in 1..n PROVE Weight(F, 1..i) = Weight(F, 1..(i - 1)) + F[i]
  <2>1. 1..(i - 1) = (1..i) \ {i} /\ i \in 1..i /\ 1..i \in SUBSET DOMAIN F
    OBVIOUS
  <2>2. IsFiniteSet(1..i) /\ \A j \in 1..i : F[j] \in Nat
    BY FS_Interval
  <2> QED BY <2>1, <2>2, WeightAdd
<1>5. \E f : IsAccumulation(f)
  <2>1. PICK f : f = [i \in 0..n |-> Weight(F, 1..i)] OBVIOUS
  <2>2. ASSUME NEW i \in 0..n
        PROVE  f[i] = IF i = 0 THEN 0 ELSE (f[i - 1] + F[i]) % m
    <3>1. CASE i = 0
      <4>1. 1..i = {}
        BY <3>1
      <4> QED BY <2>1, <3>1, <4>1, WeightEmpty
    <3>2. CASE i # 0
      <4>1. i \in 1..n /\ i - 1 \in 0..n
        BY <3>2
      <4>2. PICK w \in Nat : w = Weight(F, 1..i) /\ w < m
        BY <1>3
      <4>3. w % m = w
        BY <4>2, SmallRemainder
      <4>4. f[i - 1] + F[i] = w /\ f[i] = w
        BY <1>4, <2>1, <4>1, <4>2
      <4> QED BY <3>2, <4>3, <4>4
    <3> QED BY <3>1, <3>2
  <2>3. IsAccumulation(f)
    BY <2>1, <2>2
  <2> QED BY <2>3
<1>6. PICK f : f = CHOOSE g : IsAccumulation(g) OBVIOUS
<1>7. IsAccumulation(f)
  BY <1>5, <1>6
<1>8. accumulate(F) = f[n]
  BY <1>1, <1>6 DEF accumulate
<1>9. PICK Bad : Bad = {i \in 0..n : f[i] # Weight(F, 1..i)} OBVIOUS
<1>10. Bad = {}
  <2> SUFFICES ASSUME Bad # {} PROVE FALSE
    OBVIOUS
  <2>1. PICK i \in Bad : \A j \in Bad : i <= j
    <3>1. Bad \subseteq Nat
      BY <1>9
    <3> QED BY <3>1, LeastNatural
  <2>2. i \in 0..n /\ f[i] # Weight(F, 1..i)
    BY <1>9, <2>1
  <2>3. f[i] = IF i = 0 THEN 0 ELSE (f[i - 1] + F[i]) % m
    BY <1>7, <2>2
  <2>4. i # 0
    <3> SUFFICES ASSUME i = 0 PROVE FALSE
      OBVIOUS
    <3>1. 1..i = {}
      OBVIOUS
    <3> QED BY <2>2, <2>3, <3>1, WeightEmpty
  <2>5. i \in 1..n /\ i - 1 \in 0..n /\ i - 1 \notin Bad
    BY <2>1, <2>2, <2>4
  <2>6. f[i - 1] = Weight(F, 1..(i - 1))
    BY <1>9, <2>5
  <2>7. PICK w \in Nat : w = Weight(F, 1..i) /\ w < m
    BY <1>3, <2>2
  <2>8. w % m = w
    BY <2>7, SmallRemainder
  <2>9. f[i - 1] + F[i] = w
    BY <1>4, <2>5, <2>6, <2>7
  <2> QED BY <2>2, <2>3, <2>4, <2>7, <2>8, <2>9
<1> QED BY <1>8, <1>9, <1>10

-----------------------------------------------------------------------------
(* The statistics.                                                         *)

RegionSizes == [i \in DOMAIN regionsInfo |-> regionsInfo[i].size]
AlignedSizes == [i \in DOMAIN regionsInfo |-> regionsInfo[i].alignedSize]
Outside ==
    [i \in DOMAIN regionsInfo |->
        regionsInfo[i].end - regionsInfo[i].start - pageSize * regionsInfo[i].pageCount]

LEMMA EntrySizes ==
    ASSUME TableSet, NEW i \in DOMAIN regionsInfo
    PROVE  /\ RegionSizes[i] \in Nat /\ AlignedSizes[i] \in Nat /\ Outside[i] \in Nat
           /\ RegionSizes[i] = AlignedSizes[i] + Outside[i]
<1>1. regionsInfo \in Seq(RegionInfoType)
  BY DEF TableSet, Parts, MemoryTyped
<1>2. PICK info \in RegionInfoType : info = regionsInfo[i]
  BY <1>1, EntryType
<1>3. /\ info.start \in Nat /\ info.end \in Nat /\ info.size \in Nat
      /\ info.alignedSize \in Nat /\ info.pageCount \in Nat
  BY DEF RegionInfoType
<1>4. /\ info.alignedSize = info.pageCount * pageSize
      /\ info.size = info.end - info.start
      /\ info.alignedSize <= info.size
  BY <1>2, RegionFacts DEF Aligned
<1>5. pageSize * info.pageCount = info.alignedSize
  BY <1>3, <1>4, TableFacts
<1>6. Outside[i] = info.end - info.start - info.alignedSize
  BY <1>2, <1>5 DEF Outside
<1> QED BY <1>2, <1>3, <1>4, <1>6 DEF RegionSizes, AlignedSizes

LEMMA RegionsFinite ==
    ASSUME TableSet
    PROVE  /\ DOMAIN regionsInfo = 1..Len(regionsInfo) /\ Len(regionsInfo) \in Nat
           /\ IsFiniteSet(DOMAIN regionsInfo)
<1>1. regionsInfo \in Seq(RegionInfoType)
  BY DEF TableSet, Parts, MemoryTyped
<1>2. DOMAIN regionsInfo = 1..Len(regionsInfo) /\ Len(regionsInfo) \in Nat
  BY <1>1
<1> QED BY <1>2, FS_Interval

\* The regions are their whole pages and what lies outside.
LEMMA SizesSplit ==
    ASSUME TableSet, NEW D, D = DOMAIN regionsInfo
    PROVE  /\ Weight(RegionSizes, D) = Weight(AlignedSizes, D) + Weight(Outside, D)
           /\ Weight(AlignedSizes, D) \in Nat /\ Weight(Outside, D) \in Nat
<1>1. IsFiniteSet(D)
  BY RegionsFinite
<1>2. D = DOMAIN RegionSizes /\ D = DOMAIN AlignedSizes /\ D = DOMAIN Outside
  BY DEF RegionSizes, AlignedSizes, Outside
<1>3. \A i \in D : /\ AlignedSizes[i] \in Nat /\ Outside[i] \in Nat
                   /\ RegionSizes[i] = AlignedSizes[i] + Outside[i]
  BY EntrySizes
<1>4. D \in SUBSET DOMAIN RegionSizes /\ D \in SUBSET DOMAIN AlignedSizes
      /\ D \in SUBSET DOMAIN Outside
  BY <1>2
<1>5. Weight(RegionSizes, D) = Weight(AlignedSizes, D) + Weight(Outside, D)
  BY <1>1, <1>3, <1>4, WeightPlus
<1> QED BY <1>1, <1>3, <1>4, <1>5, WeightType

\* What std::accumulate returns.
LEMMA SizesSummed ==
    ASSUME TableSet, NEW D, D = DOMAIN regionsInfo,
           Weight(RegionSizes, D) < 2^UnsignedBits
    PROVE  /\ totalMemorySize = Weight(RegionSizes, D)
           /\ effectiveMemorySize = Weight(AlignedSizes, D)
<1>1. PICK n \in Nat : n = Len(regionsInfo) /\ D = 1..n
  BY RegionsFinite
<1>2. /\ DOMAIN RegionSizes = 1..n /\ Len(RegionSizes) = n
      /\ DOMAIN AlignedSizes = 1..n /\ Len(AlignedSizes) = n
  BY <1>1 DEF RegionSizes, AlignedSizes
<1>3. \A i \in 1..n : RegionSizes[i] \in Nat /\ AlignedSizes[i] \in Nat
  BY <1>1, EntrySizes
<1>4. Weight(AlignedSizes, D) < 2^UnsignedBits
  BY SizesSplit, UnsignedRange
<1>5. accumulate(RegionSizes) = Weight(RegionSizes, D)
  BY <1>1, <1>2, <1>3, AccumulateExact
<1>6. accumulate(AlignedSizes) = Weight(AlignedSizes, D)
  BY <1>1, <1>2, <1>3, <1>4, AccumulateExact
<1> QED BY <1>5, <1>6 DEF totalMemorySize, effectiveMemorySize, RegionSizes, AlignedSizes

\* The whole pages of the regions are the pages of the table.
LEMMA PagesSummed ==
    ASSUME TableSet, NEW D, D = DOMAIN regionsInfo
    PROVE  Weight(AlignedSizes, D) = pagesCount * pageSize
<1>1. PICK s \in Nat \ {0} : s = pageSize
  BY TableFacts
<1>2. PICK N : N = 1..s OBVIOUS
<1>3. IsFiniteSet(N) /\ Cardinality(N) = s
  BY <1>2, CountTo
<1>4. PICK A : A = [i \in D |-> regionPages(i) \X N] OBVIOUS
<1>5. ASSUME NEW i \in D
      PROVE  IsFiniteSet(A[i]) /\ Cardinality(A[i]) = AlignedSizes[i]
  <2>1. PICK f \in Nat : f = regionsInfo[i].firstPage
    BY RegionFacts
  <2>2. PICK c \in Nat \ {0} : c = regionsInfo[i].pageCount
    BY RegionFacts
  <2>3. PICK R : R = f..(f + c - 1) OBVIOUS
  <2>4. regionPages(i) = R
    BY <2>1, <2>2, <2>3, RegionFacts DEF regionPages
  <2>5. IsFiniteSet(R) /\ Cardinality(R) = c
    <3>1. IsFiniteSet(f..(f + c - 1))
          /\ Cardinality(f..(f + c - 1)) = IF f > f + c - 1 THEN 0 ELSE (f + c - 1) - f + 1
      BY FS_Interval
    <3> QED BY <2>3, <3>1
  <2>6. IsFiniteSet(R \X N) /\ Cardinality(R \X N) = c * s
    BY <1>3, <2>5, FS_Product
  <2>7. AlignedSizes[i] = c * s
    BY <1>1, <2>2, RegionFacts DEF Aligned, AlignedSizes
  <2> QED BY <1>4, <2>4, <2>6, <2>7
<1>6. FiniteFamily(A, D)
  BY <1>5 DEF FiniteFamily
<1>7. FamilyApart(A, D)
  <2> SUFFICES ASSUME NEW i \in D, NEW j \in D, i # j PROVE A[i] \cap A[j] = {}
    BY DEF FamilyApart
  <2>1. regionPages(i) \cap regionPages(j) = {}
    BY RegionOfPage
  <2> QED BY <1>4, <2>1
<1>8. ASSUME NEW e PROVE e \in UnionOf(A, D) <=> e \in Page \X N
  <2>1. e \in UnionOf(A, D) <=> \E i \in D : e \in regionPages(i) \X N
    BY <1>4, InUnion
  <2>2. e \in Page \X N => \E i \in D : e \in regionPages(i) \X N
    BY RegionOfPage
  <2>3. (\E i \in D : e \in regionPages(i) \X N) => e \in Page \X N
    BY RegionOfPage
  <2> QED BY <2>1, <2>2, <2>3
<1>9. UnionOf(A, D) = Page \X N
  BY <1>8
<1>10. Cardinality(UnionOf(A, D)) = Weight(AlignedSizes, D)
  <2>1. D \in SUBSET DOMAIN AlignedSizes
    BY DEF AlignedSizes
  <2> QED BY <1>5, <1>6, <1>7, <2>1, RegionsFinite, WeightFamily
<1>11. IsFiniteSet(Page) /\ Cardinality(Page) = pagesCount
  <2>1. PICK n \in Nat \ {0} : n = pagesCount
    BY TableFacts
  <2>2. IsFiniteSet(0..(n - 1))
        /\ Cardinality(0..(n - 1)) = IF 0 > n - 1 THEN 0 ELSE (n - 1) - 0 + 1
    BY FS_Interval
  <2> QED BY <2>1, <2>2 DEF Page
<1>12. Cardinality(Page \X N) = pagesCount * s
  BY <1>3, <1>11, FS_Product
<1> QED BY <1>1, <1>9, <1>10, <1>12

\* A page is free, a client's or one of those that hold the descriptors.
LEMMA PagesSplit ==
    ASSUME Inv, RegionsInv, Initialized
    PROVE  LET clients == UNION {HeldPages(g) : g \in DOMAIN held}
           IN  /\ Cardinality(clients) \in Nat
               /\ pool.freePagesCount \in Nat
               /\ descPagesCount \in Nat
               /\ pagesCount =
                     pool.freePagesCount + Cardinality(clients) + descPagesCount
<1>1. PICK clients : clients = UNION {HeldPages(g) : g \in DOMAIN held} OBVIOUS
<1>2. /\ TableSet /\ Parts
      /\ OutOfLists = DOMAIN held \cup ReservedGroup
  BY InitializedSet DEF TableSet
<1>3. PICK f : f = regionsInfo[descRegionIdx].firstPage OBVIOUS
<1>4. PICK desc : desc = Group(pool.groupSize, f) OBVIOUS
<1>5. /\ ReservedGroup = {f}
      /\ descPagesCount \in 1..regionsInfo[descRegionIdx].pageCount
      /\ desc = f..(f + descPagesCount - 1)
      /\ f \in Nat
  BY <1>2, <1>3, <1>4, ReservedFacts, TableFacts, RegionFacts
<1>6. ListsInv(pool, OutOfLists, nextPage) /\ Page = 0..(nextPage - 1)
      /\ nextPage = pagesCount /\ pagesCount \in Nat \ {0}
  BY <1>2, TableFacts DEF Parts, GroupsConsistent
<1>7. PICK free : free = {p \in Page : ~pool.used[p]} OBVIOUS
<1>8. pool.freePagesCount = Cardinality(free)
  BY <1>6, <1>7 DEF ListsInv, CountMatches
<1>9. \A p : p \in clients <=> \E g \in DOMAIN held : p \in Group(pool.groupSize, g)
  BY <1>1, <1>2, HeldPagesWritten
<1>10. \A p \in Page : pool.used[p] <=> p \in clients \cup desc
  BY <1>2, <1>4, <1>5, <1>6, <1>9 DEF ListsInv, UsedMatches
<1>11. clients \subseteq Page /\ desc \subseteq Page /\ clients \cap desc = {}
  <2>1. HeldIntact
    BY HeldIntactHolds
  <2>2. clients \subseteq Page
    BY <1>1, <2>1 DEF HeldIntact
  <2>3. clients \cap desc = {}
    <3>1. UNION {Group(pool.groupSize, r) : r \in ReservedGroup} = desc
      BY <1>4, <1>5
    <3>2. \A g \in DOMAIN held : HeldPages(g) \cap desc = {}
      BY <2>1, <3>1 DEF HeldIntact
    <3> QED BY <1>1, <3>2
  <2>4. desc \subseteq Page
    <3>1. f \in Heads(pool, OutOfLists)
      BY <1>2, <1>5 DEF Heads
    <3>2. GroupOk(pool, nextPage, f)
      BY <1>6, <3>1 DEF ListsInv, HeadersOk
    <3>3. pool.groupSize[f] \in Nat
      <4>1. PICK S : S = 0..(SizeLimit - 1) OBVIOUS
      <4>2. pool.groupSize \in [0..(nextPage - 1) -> S] /\ S \subseteq Nat
        BY <1>6, <4>1 DEF ListsInv, ListsTyped
      <4>3. f \in 0..(nextPage - 1)
        BY <1>2, <1>5, <1>6 DEF ListsInv
      <4> QED BY <4>2, <4>3
    <3> QED BY <1>4, <1>5, <1>6, <3>2, <3>3 DEF GroupOk, Group
  <2> QED BY <2>2, <2>3, <2>4
<1>12. Page = free \cup (clients \cup desc) /\ free \cap (clients \cup desc) = {}
  BY <1>7, <1>10, <1>11
<1>13. PICK n \in Nat \ {0} : n = pagesCount
  BY <1>6
<1>14. IsFiniteSet(Page) /\ Cardinality(Page) = n
  <2>1. IsFiniteSet(0..(n - 1))
        /\ Cardinality(0..(n - 1)) = IF 0 > n - 1 THEN 0 ELSE (n - 1) - 0 + 1
    BY FS_Interval
  <2> QED BY <1>13, <2>1 DEF Page
<1>15. IsFiniteSet(free) /\ IsFiniteSet(clients) /\ IsFiniteSet(desc)
  BY <1>11, <1>12, <1>14, FS_Subset
<1>16. IsFiniteSet(clients \cup desc)
       /\ Cardinality(clients \cup desc) = Cardinality(clients) + Cardinality(desc)
  BY <1>11, <1>15, DisjointUnion
<1>17. Cardinality(Page) = Cardinality(free) + Cardinality(clients \cup desc)
  BY <1>12, <1>15, <1>16, DisjointUnion
<1>18. PICK d \in Nat : d = descPagesCount /\ d > 0
  BY <1>2, <1>5 DEF Parts, MemoryTyped
<1>19. Cardinality(desc) = d
  <2>1. Cardinality(f..(f + d - 1)) = IF f > f + d - 1 THEN 0 ELSE (f + d - 1) - f + 1
    BY <1>5, FS_Interval
  <2> QED BY <1>5, <1>18, <2>1
<1>20. Cardinality(free) \in Nat /\ Cardinality(clients) \in Nat
  BY <1>15, FS_CardinalityType
<1> QED BY <1>1, <1>8, <1>13, <1>14, <1>16, <1>17, <1>18, <1>19, <1>20

\* What MapThenSumSet computes of the entries.
LEMMA SizesCounted ==
    ASSUME TableSet, NEW D, D = DOMAIN regionsInfo
    PROVE  MapThenSumSet(LAMBDA i : regionsInfo[i].size, D) = Weight(RegionSizes, D)
<1>1. PICK F : F = RegionSizes OBVIOUS
<1> DEFINE Fold(h) ==
               h = [s \in SUBSET D |->
                       IF s = {} THEN 0
                       ELSE regionsInfo[CHOOSE x \in s : TRUE].size
                               + h[s \ {CHOOSE x \in s : TRUE}]]
<1>2. D \in SUBSET DOMAIN F /\ (\A i \in D : F[i] \in Nat) /\ IsFiniteSet(D)
  <2>1. D \in SUBSET DOMAIN F
    BY <1>1 DEF RegionSizes
  <2> QED BY <1>1, <2>1, EntrySizes, RegionsFinite
<1>3. ASSUME NEW h PROVE Fold(h) <=> IsSum(h, F, D)
  <2>1. ASSUME NEW s \in SUBSET D, s # {}
        PROVE  F[CHOOSE x \in s : TRUE] = regionsInfo[CHOOSE x \in s : TRUE].size
    <3>1. PICK i \in D : i = CHOOSE x \in s : TRUE
      BY <2>1
    <3>2. F[i] = regionsInfo[i].size
      BY <1>1 DEF RegionSizes
    <3> QED BY <3>1, <3>2
  <2> QED BY <2>1 DEF IsSum
<1>4. PICK h : h = CHOOSE g : Fold(g) OBVIOUS
<1>5. IsSum(h, F, D)
  <2>1. PICK g : IsSum(g, F, D)
    BY <1>2, SumExists
  <2>2. Fold(g)
    BY <1>3, <2>1
  <2>3. \E g1 : Fold(g1)
    BY <2>2
  <2>4. Fold(h)
    BY <1>4, <2>3
  <2> QED BY <1>3, <2>4
<1>6. MapThenSumSet(LAMBDA i : regionsInfo[i].size, D) = h[D]
  BY <1>4 DEF MapThenSumSet, MapThenFoldSet
<1> QED BY <1>1, <1>2, <1>5, <1>6, SumIsWeight

LEMMA OutsideCounted ==
    ASSUME TableSet, NEW D, D = DOMAIN regionsInfo
    PROVE  MapThenSumSet(LAMBDA i : regionsInfo[i].end - regionsInfo[i].start
                                        - pageSize * regionsInfo[i].pageCount, D)
              = Weight(Outside, D)
<1>1. PICK F : F = Outside OBVIOUS
<1> DEFINE Rest(i) == regionsInfo[i].end - regionsInfo[i].start
                          - pageSize * regionsInfo[i].pageCount
           Fold(h) ==
               h = [s \in SUBSET D |->
                       IF s = {} THEN 0
                       ELSE Rest(CHOOSE x \in s : TRUE)
                               + h[s \ {CHOOSE x \in s : TRUE}]]
<1> HIDE DEF Rest
<1>2. D \in SUBSET DOMAIN F /\ (\A i \in D : F[i] \in Nat) /\ IsFiniteSet(D)
  <2>1. D \in SUBSET DOMAIN F
    BY <1>1 DEF Outside
  <2> QED BY <1>1, <2>1, EntrySizes, RegionsFinite
<1>3. ASSUME NEW h PROVE Fold(h) <=> IsSum(h, F, D)
  <2>1. ASSUME NEW s \in SUBSET D, s # {}
        PROVE  F[CHOOSE x \in s : TRUE] = Rest(CHOOSE x \in s : TRUE)
    <3>1. PICK i \in D : i = CHOOSE x \in s : TRUE
      BY <2>1
    <3>2. F[i] = Rest(i)
      BY <1>1 DEF Outside, Rest
    <3> QED BY <3>1, <3>2
  <2> QED BY <2>1 DEF IsSum
<1>4. PICK h : h = CHOOSE g : Fold(g) OBVIOUS
<1>5. IsSum(h, F, D)
  <2>1. PICK g : IsSum(g, F, D)
    BY <1>2, SumExists
  <2>2. Fold(g)
    BY <1>3, <2>1
  <2>3. \E g1 : Fold(g1)
    BY <2>2
  <2>4. Fold(h)
    BY <1>4, <2>3
  <2> QED BY <1>3, <2>4
<1>6. MapThenSumSet(LAMBDA i : regionsInfo[i].end - regionsInfo[i].start
                                   - pageSize * regionsInfo[i].pageCount, D) = h[D]
  BY <1>4 DEF MapThenSumSet, MapThenFoldSet, Rest
<1> QED BY <1>1, <1>2, <1>5, <1>6, SumIsWeight

LEMMA Accounted == Inv /\ RegionsInv => StatsExact
<1> DEFINE clients == UNION {HeldPages(g) : g \in DOMAIN held}
           sizes   == MapThenSumSet(LAMBDA i : regionsInfo[i].size, DOMAIN regionsInfo)
           outside == MapThenSumSet(LAMBDA i : regionsInfo[i].end - regionsInfo[i].start
                                        - pageSize * regionsInfo[i].pageCount,
                                    DOMAIN regionsInfo)
<1>1. SUFFICES ASSUME Inv, RegionsInv, Initialized, sizes < 2^UnsignedBits
               PROVE  /\ getStats \in Stats
                      /\ getStats.totalMemorySize = sizes
                      /\ getStats.userMemorySize - getStats.freeMemorySize =
                             Cardinality(clients) * pageSize
                      /\ getStats.totalMemorySize =
                             outside + getStats.userMemorySize
                                     + getStats.reservedPagesCount * pageSize
  BY DEF StatsExact
<1>2. TableSet
  BY <1>1, InitializedSet
<1>3. PICK D : D = DOMAIN regionsInfo OBVIOUS
<1>4. PICK bytes : bytes = Weight(RegionSizes, D) OBVIOUS
<1>5. PICK whole \in Nat : whole = Weight(AlignedSizes, D)
  BY <1>2, <1>3, SizesSplit
<1>6. PICK rest \in Nat : rest = Weight(Outside, D)
  BY <1>2, <1>3, SizesSplit
<1>7. bytes = whole + rest
  BY <1>2, <1>3, <1>4, <1>5, <1>6, SizesSplit
<1>8. sizes = bytes /\ outside = rest
  BY <1>2, <1>3, <1>4, <1>6, SizesCounted, OutsideCounted
<1>9. totalMemorySize = bytes /\ effectiveMemorySize = whole
  BY <1>1, <1>2, <1>3, <1>4, <1>5, <1>8, SizesSummed
<1>10. PICK s \in Nat : s = pageSize
  BY <1>2, TableFacts
<1>11. PICK c \in Nat : c = Cardinality(clients)
  BY <1>1, PagesSplit
<1>12. PICK free \in Nat : free = pool.freePagesCount
  BY <1>1, PagesSplit
<1>13. PICK d \in Nat : d = descPagesCount
  BY <1>1, PagesSplit
<1>14. pagesCount = free + c + d
  BY <1>1, <1>11, <1>12, <1>13, PagesSplit
<1>15. PICK fs \in Nat : fs = free * s
  BY NatProduct
<1>16. PICK ds \in Nat : ds = d * s /\ ds = s * d
  BY NatProduct
<1>17. PICK c1 \in Nat : c1 = c * s
  BY NatProduct
<1>18. whole = fs + c1 + ds
  <2>1. whole = pagesCount * pageSize
    BY <1>2, <1>3, <1>5, PagesSummed
  <2>2. (free + c + d) * s = free * s + c * s + d * s
    OBVIOUS
  <2> QED BY <1>10, <1>14, <1>15, <1>16, <1>17, <2>1, <2>2
<1>19. PICK stats : stats = getStats OBVIOUS
<1>20. /\ stats.totalMemorySize = whole + rest
       /\ stats.userMemorySize = whole - ds
       /\ stats.freeMemorySize = fs
       /\ stats.reservedPagesCount = d
       /\ stats.reservedPagesCount * pageSize = ds
  BY <1>7, <1>9, <1>10, <1>12, <1>13, <1>15, <1>16, <1>19 DEF getStats
<1>21. stats \in Stats
  <2>1. whole - ds \in Nat /\ whole + rest \in Nat /\ pagesCount \in Nat
    BY <1>14, <1>18
  <2> QED BY <1>7, <1>9, <1>10, <1>12, <1>13, <1>15, <1>16, <1>19, <2>1 DEF getStats, Stats
<1> HIDE DEF clients, sizes, outside
<1> QED BY <1>7, <1>8, <1>10, <1>11, <1>17, <1>18, <1>19, <1>20, <1>21

\* What getStats says of the regions and of their whole pages.
regionBytes == MapThenSumSet(LAMBDA i : regionsInfo[i].size, DOMAIN regionsInfo)

LEMMA RegionStats ==
    ASSUME Inv, RegionsInv, Initialized, regionBytes < 2^UnsignedBits
    PROVE  /\ getStats.totalMemorySize \in Nat
           /\ getStats.effectiveMemorySize \in Nat
           /\ getStats.effectiveMemorySize <= getStats.totalMemorySize
           /\ getStats.effectiveMemorySize = pagesCount * pageSize
<1>1. TableSet
  BY InitializedSet
<1>2. PICK D : D = DOMAIN regionsInfo OBVIOUS
<1>3. PICK bytes : bytes = Weight(RegionSizes, D) OBVIOUS
<1>4. PICK whole \in Nat : whole = Weight(AlignedSizes, D)
  BY <1>1, <1>2, SizesSplit
<1>5. PICK rest \in Nat : rest = Weight(Outside, D)
  BY <1>1, <1>2, SizesSplit
<1>6. bytes = whole + rest
  BY <1>1, <1>2, <1>3, <1>4, <1>5, SizesSplit
<1>7. regionBytes = bytes
  BY <1>1, <1>2, <1>3, SizesCounted DEF regionBytes
<1>8. totalMemorySize = bytes /\ effectiveMemorySize = whole
  BY <1>1, <1>2, <1>3, <1>4, <1>7, SizesSummed
<1>9. whole = pagesCount * pageSize
  BY <1>1, <1>2, <1>4, PagesSummed
<1>10. /\ getStats.totalMemorySize = totalMemorySize
       /\ getStats.effectiveMemorySize = effectiveMemorySize
  BY DEF getStats
<1> QED BY <1>6, <1>8, <1>9, <1>10

\* getStats accounts for every byte of the regions that were kept.
THEOREM StatsCorrect == Spec => []StatsExact
<1>1. Inv /\ RegionsInv => StatsExact
  BY Accounted
<1> QED BY <1>1, InvCorrect, RegionsCorrect, PTL

-----------------------------------------------------------------------------
(* SizesInv: the entries are as large together as the regions they were    *)
(* made for, so what totalMemorySize sums is what was kept of the array    *)
(* init was called with.                                                   *)

SizesInv ==
    /\ phase = "scan" =>
          Weight(RegionSizes, DOMAIN regionsInfo) =
              Weight(passedSizes, keptPassed \cap 1..(cursor - 1))
    /\ phase = "setup" =>
          Weight(RegionSizes, DOMAIN regionsInfo) = Weight(passedSizes, keptPassed)

LEMMA PassedFacts ==
    ASSUME Parts
    PROVE  /\ Len(request.regions) \in Nat
           /\ DOMAIN request.regions = 1..Len(request.regions)
           /\ DOMAIN passedSizes = DOMAIN request.regions
           /\ IsFiniteSet(DOMAIN passedSizes)
           /\ \A i \in DOMAIN passedSizes :
                 /\ request.regions[i] \in [address : Nat, size : Nat \ {0}]
                 /\ passedSizes[i] = request.regions[i].size
                 /\ passedSizes[i] \in Nat
           /\ keptPassed \in SUBSET DOMAIN passedSizes
<1>1. PICK memory : memory = request.regions OBVIOUS
<1>2. PICK R : R = [address : Nat, size : Nat \ {0}] OBVIOUS
<1>3. memory \in Seq(R)
  <2>1. memory \in MemoryModels \/ memory = <<>>
    BY <1>1 DEF Parts, CallTyped
  <2>2. <<>> \in Seq(R)
    OBVIOUS
  <2> QED BY <1>2, <2>1, <2>2, MemoryModelsAssumption
<1>4. PICK n \in Nat : n = Len(memory) /\ DOMAIN memory = 1..n
  BY <1>3
<1>5. DOMAIN passedSizes = 1..n /\ IsFiniteSet(1..n)
  BY <1>1, <1>4, FS_Interval DEF passedSizes
<1>6. ASSUME NEW i \in 1..n
      PROVE  memory[i] \in R /\ passedSizes[i] = memory[i].size /\ passedSizes[i] \in Nat
  <2>1. memory[i] \in R
    BY <1>3, <1>4
  <2>2. memory[i].size \in Nat
    BY <1>2, <2>1
  <2> QED BY <1>1, <1>4, <2>1, <2>2 DEF passedSizes
<1> QED BY <1>1, <1>2, <1>4, <1>5, <1>6 DEF keptPassed

\* What MapThenSumSet computes of the array.
LEMMA PassedCounted ==
    ASSUME Parts, NEW S \in SUBSET DOMAIN passedSizes
    PROVE  sizePassed(S) = Weight(passedSizes, S) /\ Weight(passedSizes, S) \in Nat
<1> DEFINE Fold(h) ==
               h = [s \in SUBSET S |->
                       IF s = {} THEN 0
                       ELSE passedSizes[CHOOSE x \in s : TRUE]
                               + h[s \ {CHOOSE x \in s : TRUE}]]
<1>1. IsFiniteSet(S) /\ \A i \in S : passedSizes[i] \in Nat
  BY PassedFacts, FS_Subset
<1>2. ASSUME NEW h PROVE Fold(h) <=> IsSum(h, passedSizes, S)
  BY DEF IsSum
<1>3. PICK h : h = CHOOSE g : Fold(g) OBVIOUS
<1>4. IsSum(h, passedSizes, S)
  <2>1. PICK g : IsSum(g, passedSizes, S)
    BY <1>1, SumExists
  <2>2. Fold(g)
    BY <1>2, <2>1
  <2>3. \E g1 : Fold(g1)
    BY <2>2
  <2>4. Fold(h)
    BY <1>3, <2>3
  <2> QED BY <1>2, <2>4
<1>5. sizePassed(S) = h[S]
  BY <1>3 DEF sizePassed, MapThenSumSet, MapThenFoldSet
<1> QED BY <1>1, <1>4, <1>5, SumIsWeight, WeightType

LEMMA PassedSplit ==
    ASSUME Parts
    PROVE  memoryPassed - memoryDropped = Weight(passedSizes, keptPassed)
<1>1. PICK F : F = passedSizes OBVIOUS
<1>2. PICK K : K = keptPassed OBVIOUS
<1>3. PICK D : D = DOMAIN F OBVIOUS
<1>4. PICK R : R = D \ K OBVIOUS
<1>5. /\ K \in SUBSET D /\ R \in SUBSET D /\ K \cap R = {} /\ K \cup R = D
      /\ IsFiniteSet(D) /\ \A i \in D : F[i] \in Nat
  BY <1>1, <1>2, <1>3, <1>4, PassedFacts
<1>6. IsFiniteSet(K) /\ IsFiniteSet(R)
  BY <1>5, FS_Subset
<1>7. Weight(F, D) = Weight(F, K) + Weight(F, R)
  BY <1>3, <1>5, <1>6, WeightJoin
<1>8. /\ memoryPassed = Weight(F, D) /\ memoryDropped = Weight(F, R)
      /\ Weight(F, K) \in Nat /\ Weight(F, R) \in Nat
  BY <1>1, <1>2, <1>3, <1>4, <1>5, PassedCounted DEF memoryPassed, memoryDropped
<1> QED BY <1>1, <1>2, <1>7, <1>8

LEMMA EntrySizeTyped ==
    ASSUME Parts
    PROVE  /\ Len(regionsInfo) \in Nat
           /\ DOMAIN regionsInfo = 1..Len(regionsInfo)
           /\ DOMAIN RegionSizes = DOMAIN regionsInfo
           /\ \A i \in DOMAIN regionsInfo :
                 RegionSizes[i] = regionsInfo[i].size /\ RegionSizes[i] \in Nat
<1>1. regionsInfo \in Seq(RegionInfoType)
  BY DEF Parts, MemoryTyped
<1>2. ASSUME NEW i \in DOMAIN regionsInfo PROVE regionsInfo[i].size \in Nat
  <2>1. regionsInfo[i] \in RegionInfoType
    BY <1>1, EntryType
  <2> QED BY <2>1 DEF RegionInfoType
<1> QED BY <1>1, <1>2 DEF RegionSizes

LEMMA ScanRegionSizes ==
    ASSUME Parts, SizesInv, ScanRegion PROVE SizesInv'
<1>1. PICK k : k = cursor OBVIOUS
<1>2. PICK region : region = request.regions[k] OBVIOUS
<1>3. PICK size : size = request.pageSize OBVIOUS
<1>4. PICK G, K : G = passedSizes /\ K = keptPassed OBVIOUS
<1>5. PICK F : F = RegionSizes OBVIOUS
<1>6. /\ phase = "scan" /\ phase' = "scan" /\ request' = request /\ cursor' = k + 1
      /\ k <= Len(request.regions)
      /\ regionsInfo' = IF regionKept(region, size)
                        THEN Append(regionsInfo, initRegionInfo(region, size))
                        ELSE regionsInfo
  BY <1>1, <1>2, <1>3 DEF ScanRegion
<1>7. G = passedSizes' /\ K = keptPassed'
  BY <1>4, <1>6 DEF passedSizes, keptPassed
<1>8. /\ request.regions \in MemoryModels /\ size \in PageSizes
      /\ isValidPageSize(size) /\ k \in 1..(Len(request.regions) + 1)
  BY <1>1, <1>3, <1>6 DEF Parts, ScanInv
<1>9. /\ k \in DOMAIN G /\ k \in Nat \ {0} /\ G[k] = region.size /\ G[k] \in Nat
      /\ region \in [address : Nat, size : Nat \ {0}]
      /\ K \in SUBSET DOMAIN G
      /\ IsFiniteSet(DOMAIN G) /\ \A i \in DOMAIN G : G[i] \in Nat
  BY <1>2, <1>4, <1>6, <1>8, PassedFacts
<1>10. k \in K <=> regionKept(region, size)
  BY <1>2, <1>3, <1>4, <1>9 DEF keptPassed
<1>11. PICK n \in Nat : n = Len(regionsInfo) /\ DOMAIN regionsInfo = 1..n
  BY EntrySizeTyped
<1>12. DOMAIN F = 1..n /\ \A i \in 1..n : F[i] = regionsInfo[i].size /\ F[i] \in Nat
  BY <1>5, <1>11, EntrySizeTyped
<1>13. PICK P : P = K \cap 1..(k - 1) OBVIOUS
<1>14. PICK Q : Q = K \cap 1..k OBVIOUS
<1>15. Weight(F, 1..n) = Weight(G, P)
  BY <1>1, <1>4, <1>5, <1>6, <1>11, <1>13 DEF SizesInv
<1>16. PICK H : H = RegionSizes' OBVIOUS
<1>17. Weight(H, DOMAIN regionsInfo') = Weight(G, Q)
  <2>1. CASE ~regionKept(region, size)
    <3>1. Q = P
      BY <1>9, <1>10, <1>13, <1>14, <2>1
    <3>2. H = F /\ DOMAIN regionsInfo' = 1..n
      BY <1>5, <1>6, <1>11, <1>16, <2>1 DEF RegionSizes
    <3> QED BY <1>15, <3>1, <3>2
  <2>2. CASE regionKept(region, size)
    <3>1. PICK info : info = initRegionInfo(region, size) OBVIOUS
    <3>2. PICK R : R = RegionInfoType OBVIOUS
    <3>3. size \in Nat \ {0}
      BY <1>8, ModelPagesType
    <3>4. info \in R /\ info.size = region.size
      <4>1. info \in R
        BY <1>9, <2>2, <3>1, <3>2, <3>3, KeptRegionType
      <4>2. ~(region.size < size) /\ pageCount(region, size) # 0
        BY <1>9, <2>2, <3>3 DEF regionKept
      <4> QED BY <3>1, <4>1, <4>2 DEF initRegionInfo
    <3>5. /\ regionsInfo' = Append(regionsInfo, info) /\ regionsInfo \in Seq(R)
      BY <1>6, <2>2, <3>1, <3>2 DEF Parts, MemoryTyped
    <3>6. PICK E : E = 1..n \cup {n + 1} OBVIOUS
    <3>7. /\ DOMAIN regionsInfo' = E
          /\ regionsInfo'[n + 1] = info
          /\ \A i \in 1..n : regionsInfo'[i] = regionsInfo[i]
      <4>1. Len(regionsInfo') = n + 1 /\ regionsInfo' \in Seq(R)
        BY <1>11, <3>4, <3>5
      <4> QED BY <1>11, <3>4, <3>5, <3>6, <4>1
    <3>8. /\ DOMAIN H = E /\ H[n + 1] = G[k]
          /\ \A i \in 1..n : H[i] = F[i]
      BY <1>9, <1>12, <1>16, <3>4, <3>6, <3>7 DEF RegionSizes
    <3>9. E \ {n + 1} = 1..n /\ IsFiniteSet(E) /\ n + 1 \in E
      <4>1. E = 1..(n + 1)
        BY <3>6
      <4>2. IsFiniteSet(E)
        BY <4>1, FS_Interval
      <4> QED BY <3>6, <4>2
    <3>10. Weight(H, E) = Weight(H, 1..n) + G[k]
      <4>1. \A i \in E : H[i] \in Nat
        BY <1>9, <1>12, <3>6, <3>8
      <4>2. Weight(H, E) = Weight(H, E \ {n + 1}) + H[n + 1]
        BY <3>8, <3>9, <4>1, WeightAdd
      <4> QED BY <3>8, <3>9, <4>2
    <3>11. Weight(H, 1..n) = Weight(F, 1..n)
      BY <1>12, <3>6, <3>8, WeightSame
    <3>12. k \in Q /\ Q \ {k} = P
      BY <1>9, <1>10, <1>13, <1>14, <2>2
    <3>13. Weight(G, Q) = Weight(G, P) + G[k]
      <4>1. Q \in SUBSET DOMAIN G /\ IsFiniteSet(Q)
        BY <1>9, <1>14, FS_Subset
      <4> QED BY <1>9, <3>12, <4>1, WeightAdd
    <3> QED BY <1>15, <3>7, <3>10, <3>11, <3>13
  <2> QED BY <2>1, <2>2
<1>18. cursor' - 1 = k
  BY <1>6, <1>9
<1> QED BY <1>6, <1>7, <1>14, <1>16, <1>17, <1>18 DEF SizesInv

LEMMA ScanDoneSizes ==
    ASSUME Parts, SizesInv, ScanDone PROVE SizesInv'
<1>1. /\ phase = "scan" /\ phase' = "setup" /\ request' = request
      /\ regionsInfo' = regionsInfo /\ cursor > Len(request.regions)
  BY DEF ScanDone
<1>2. cursor \in 1..(Len(request.regions) + 1)
  BY <1>1 DEF Parts, ScanInv
<1>3. PICK n \in Nat : n = Len(request.regions) /\ DOMAIN passedSizes = 1..n
  BY PassedFacts
<1>4. cursor - 1 = n
  BY <1>1, <1>2, <1>3
<1>5. keptPassed \cap 1..n = keptPassed
  BY <1>3, PassedFacts
<1>6. /\ RegionSizes' = RegionSizes /\ passedSizes' = passedSizes
      /\ keptPassed' = keptPassed
  BY <1>1 DEF RegionSizes, passedSizes, keptPassed
<1> QED BY <1>1, <1>4, <1>5, <1>6 DEF SizesInv

\* Writing the descriptors of a region changes no size.
LEMMA SetupRegionSizes ==
    ASSUME Parts, SetupRegion
    PROVE  RegionSizes' = RegionSizes /\ DOMAIN regionsInfo' = DOMAIN regionsInfo
<1>1. PICK k : k = cursor OBVIOUS
<1>2. PICK n, t, info, entry : Wrote(k, n, t, info, entry)
  BY <1>1, SetupFacts
<1>3. entry.size = info.size
  <2>1. info \in RegionInfoType
    BY <1>2 DEF Wrote
  <2> QED BY <1>2, <2>1 DEF Wrote, RegionInfoType
<1>4. /\ DOMAIN regionsInfo' = DOMAIN regionsInfo
      /\ \A i \in DOMAIN regionsInfo : regionsInfo'[i].size = regionsInfo[i].size
  BY <1>2, <1>3 DEF Wrote
<1> QED BY <1>4 DEF RegionSizes

LEMMA InitSizes == Init => SizesInv
  BY DEF Init, SizesInv

LEMMA StepSizes == Inv /\ SizesInv /\ [Next]_vars => SizesInv'
<1>1. SUFFICES ASSUME Parts, SizesInv, [Next]_vars PROVE SizesInv'
  BY InvParts
<1>2. CASE Call
  <2>1. CASE \E memory \in MemoryModels, size \in PageSizes : InitStart(memory, size)
    <3>1. /\ phase' = "scan" /\ cursor' = 1
          /\ DOMAIN regionsInfo' = {} /\ keptPassed' \cap 1..(cursor' - 1) = {}
      BY <2>1 DEF InitStart, clear
    <3> QED BY <3>1, WeightEmpty DEF SizesInv
  <2>2. CASE ~ \E memory \in MemoryModels, size \in PageSizes : InitStart(memory, size)
    <3>1. phase' \notin {"scan", "setup"}
      BY <1>2, <2>2 DEF Call, Clear, InitRejectsPageSize, Allocate, AllocateFails,
                        Release, ReleaseNull
    <3> QED BY <3>1 DEF SizesInv
  <2> QED BY <2>1, <2>2
<1>3. CASE Step
  <2>1. CASE \/ TooManyRegions \/ NoUsablePages
             \/ JoinAbove \/ NothingAbove \/ JoinBelow \/ FinishRelease
    <3>1. phase' \notin {"scan", "setup"}
      BY <2>1 DEF TooManyRegions, NoUsablePages, InitReturns, JoinAbove,
                  NothingAbove, JoinBelow, FinishRelease
    <3> QED BY <3>1 DEF SizesInv
  <2>2. CASE SetupRegion
    <3>1. phase' = "setup" => request' = request
      BY <2>2 DEF SetupRegion, InitReturns
    <3>2. phase = "setup" /\ phase' \in {"setup", "idle"}
      BY <2>2 DEF SetupRegion, InitReturns
    <3>3. phase' = "setup" => passedSizes' = passedSizes /\ keptPassed' = keptPassed
      BY <3>1 DEF passedSizes, keptPassed
    <3>4. RegionSizes' = RegionSizes /\ DOMAIN regionsInfo' = DOMAIN regionsInfo
      BY <1>1, <2>2, SetupRegionSizes
    <3> QED BY <1>1, <3>2, <3>3, <3>4 DEF SizesInv
  <2> QED BY <1>1, <1>3, <2>1, <2>2, ScanRegionSizes, ScanDoneSizes DEF Step
<1>4. CASE UNCHANGED vars
  <2>1. /\ regionsInfo' = regionsInfo /\ phase' = phase
        /\ request' = request /\ cursor' = cursor
    BY <1>4 DEF vars
  <2>2. /\ RegionSizes' = RegionSizes /\ passedSizes' = passedSizes
        /\ keptPassed' = keptPassed
    BY <2>1 DEF RegionSizes, passedSizes, keptPassed
  <2> QED BY <1>1, <2>1, <2>2 DEF SizesInv
<1> QED BY <1>1, <1>2, <1>3, <1>4 DEF Next

\* What totalMemorySize is once init has returned.
TotalSummed ==
    LET kept == Weight(RegionSizes, DOMAIN regionsInfo)
    IN  Initialized /\ kept < 2^UnsignedBits => totalMemorySize = kept

LEMMA TotalOfEntries == Inv /\ RegionsInv => TotalSummed
  BY InitializedSet, SizesSummed DEF TotalSummed

LEMMA TotalKept ==
    ASSUME Inv, SizesInv, TotalSummed', Next, phase = "setup", phase' = "idle",
           memoryPassed - memoryDropped < 2^UnsignedBits
    PROVE  totalMemorySize' = memoryPassed - memoryDropped
<1>1. Parts
  BY InvParts
<1>2. SetupRegion
  BY DEF Next, Call, Clear, InitRejectsPageSize, InitStart, Allocate, AllocateFails,
         Release, ReleaseNull, Step, ScanRegion, TooManyRegions, NoUsablePages,
         ScanDone, JoinAbove, NothingAbove, JoinBelow, FinishRelease
<1>3. Initialized'
  <2>1. pagesCount' = pagesCount
    BY <1>2 DEF SetupRegion
  <2>2. pagesCount > 0
    BY <1>1 DEF Parts, SetupInv
  <2> QED BY <2>1, <2>2 DEF Initialized
<1>4. PICK kept : kept = Weight(RegionSizes, DOMAIN regionsInfo) OBVIOUS
<1>5. kept = memoryPassed - memoryDropped
  BY <1>1, <1>4, PassedSplit DEF SizesInv
<1>6. kept = Weight(RegionSizes', DOMAIN regionsInfo')
  BY <1>1, <1>2, <1>4, SetupRegionSizes
<1> QED BY <1>3, <1>5, <1>6 DEF TotalSummed

\* A successful init leaves in totalMemorySize the size of what it kept of
\* the memory it was passed, and nothing of what it dropped.
THEOREM TotalCorrect == Spec => TotalIsMemoryKept
<1>1. Inv /\ SizesInv /\ TotalSummed' /\ [Next]_vars =>
         [phase = "setup" /\ phase' = "idle"
             /\ memoryPassed - memoryDropped < 2^UnsignedBits
             => totalMemorySize' = memoryPassed - memoryDropped]_vars
  BY TotalKept DEF vars
<1>2. Inv /\ RegionsInv => TotalSummed
  BY TotalOfEntries
<1>3. Init => SizesInv
  BY InitSizes
<1>4. Inv /\ SizesInv /\ [Next]_vars => SizesInv'
  BY StepSizes
<1> QED BY <1>1, <1>2, <1>3, <1>4, InvCorrect, RegionsCorrect, PTL
        DEF Spec, TotalIsMemoryKept

-----------------------------------------------------------------------------
(* PageAllocator implements PagePool.                                      *)

\* userPages is what is left of a region's pages.
LEMMA UserPages ==
    ASSUME TableSet, NEW i \in DOMAIN regionsInfo
    PROVE  /\ userPages(i) \subseteq regionPages(i)
           /\ \A p \in regionPages(i) :
                 p \in userPages(i) <=>
                     \A r \in ReservedGroup : p \notin Group(pool.groupSize, r)
<1>1. PICK f \in Nat : f = regionsInfo[i].firstPage
  BY RegionFacts
<1>2. PICK l \in Int : l = regionsInfo[i].lastPage
  <2>1. PICK c \in Nat : c = regionsInfo[i].pageCount
    BY RegionFacts
  <2> QED BY <1>1, <2>1, RegionFacts
<1>3. regionPages(i) = f..l
  BY <1>1, <1>2 DEF regionPages
<1>4. PICK d : d = descRegionIdx OBVIOUS
<1>5. PICK info : info = regionsInfo[d] OBVIOUS
<1>6. d \in DOMAIN regionsInfo
  BY <1>4, TableFacts
<1>7. /\ descPagesCount \in 1..info.pageCount
      /\ ReservedGroup = {info.firstPage}
      /\ Group(pool.groupSize, info.firstPage) =
            info.firstPage..(info.firstPage + descPagesCount - 1)
  BY <1>4, <1>5, ReservedFacts
<1>8. PICK c \in Nat \ {0} : c = info.pageCount
  BY <1>5, <1>6, RegionFacts
<1>9. CASE i = d
  <2>1. PICK r \in 1..c : r = descPagesCount
    BY <1>7, <1>8
  <2>2. userPages(i) = (f + r)..l
    BY <1>1, <1>2, <1>4, <1>9, <2>1 DEF userPages
  <2>3. Group(pool.groupSize, f) = f..(f + r - 1) /\ ReservedGroup = {f}
    BY <1>1, <1>5, <1>7, <1>9, <2>1
  <2> QED BY <1>3, <2>2, <2>3
<1>10. CASE i # d
  <2>1. userPages(i) = f..l
    BY <1>1, <1>2, <1>4, <1>10 DEF userPages
  <2>2. info.firstPage \in Heads(pool, OutOfLists) /\ info.firstPage \in regionPages(d)
    <3>1. info.firstPage \in Starts
      BY <1>5, <1>6, RegionFacts
    <3> QED BY <1>5, <1>6, <3>1, RegionFacts DEF TableSet, RegionsInv, GroupsInv
  <2>3. Group(pool.groupSize, info.firstPage) \subseteq regionPages(d)
    BY <1>6, <2>2, GroupInRegion
  <2>4. ASSUME NEW p \in regionPages(i), NEW r \in ReservedGroup,
               p \in Group(pool.groupSize, r)
        PROVE  FALSE
    BY <1>6, <1>7, <1>10, <2>3, <2>4, RegionOfPage
  <2> QED BY <1>3, <2>1, <2>4
<1> QED BY <1>9, <1>10

AreasApart ==
    /\ {} \notin areas
    /\ \A a, b \in areas : a # b => a \cap b = {}

LEMMA Areas == Inv /\ RegionsInv => AreasApart
<1>1. CASE areas = {}
  BY <1>1 DEF AreasApart
<1>2. CASE areas # {}
  <2>1. SUFFICES ASSUME Inv, RegionsInv PROVE AreasApart
    OBVIOUS
  <2>2. TableSet
    <3>1. Parts
      BY <2>1, InvParts
    <3>2. phase \notin {"scan", "setup"} /\ pagesCount # 0
      BY <1>2 DEF areas
    <3>3. pagesCount \in Nat
      BY <3>1 DEF Parts, MemoryTyped
    <3> QED BY <2>1, <3>1, <3>2, <3>3 DEF TableSet, TableKnown
  <2>3. areas \subseteq {userPages(i) : i \in DOMAIN regionsInfo} /\ {} \notin areas
    BY DEF areas
  <2>4. ASSUME NEW a \in areas, NEW b \in areas, a # b PROVE a \cap b = {}
    <3>1. PICK i \in DOMAIN regionsInfo : a = userPages(i)
      BY <2>3
    <3>2. PICK j \in DOMAIN regionsInfo : b = userPages(j)
      BY <2>3
    <3>3. a \subseteq regionPages(i) /\ b \subseteq regionPages(j)
      BY <2>2, <3>1, <3>2, UserPages
    <3> QED BY <2>2, <2>4, <3>1, <3>2, <3>3, RegionOfPage
  <2> QED BY <2>3, <2>4 DEF AreasApart
<1> QED BY <1>1, <1>2

\* The pages clients hold are those of the groups handed out.
LEMMA TakenPages ==
    ASSUME Parts
    PROVE  Pool!Taken = UNION {Group(pool.groupSize, g) : g \in DOMAIN held}
<1>1. \A g \in DOMAIN held : Pool!Run(g, held[g]) = Group(pool.groupSize, g)
  BY HeldPagesWritten DEF Pool!Run, HeldPages
<1> QED BY <1>1 DEF Pool!Taken

\* What a call that changes no region and runs no loop of init leaves alone.
LEMMA SameAreas ==
    ASSUME UNCHANGED memoryVars, phase \notin {"scan", "setup"},
           phase' \notin {"scan", "setup"}
    PROVE  areas' = areas
<1>1. \A i : userPages(i)' = userPages(i)
  BY DEF memoryVars, userPages
<1> QED BY <1>1 DEF memoryVars, areas

LEMMA ForgottenPool ==
    ASSUME clear, phase' \in {"idle", "scan"}, reply'.op # "allocate"
    PROVE  Pool!Forget
<1>1. pagesCount' = 0 /\ held' = NoPages
  BY DEF clear
<1>2. areas' = {}
  BY <1>1 DEF areas
<1> QED BY <1>1, <1>2 DEF Pool!Forget, Pool!Nobody, NoPages

\* While a loop of init runs there is no pool.
LEMMA InitStepPool ==
    ASSUME phase \in {"scan", "setup"}, phase' \in {"scan", "setup"},
           held' = held, reply' = reply
    PROVE  UNCHANGED Pool!vars
<1>1. areas = {} /\ areas' = {}
  BY DEF areas
<1> QED BY <1>1 DEF Pool!vars

LEMMA InitGivesUpPool ==
    ASSUME Parts, TooManyRegions \/ NoUsablePages PROVE Pool!Forget
<1>1. /\ phase = "scan" /\ pagesCount' = pagesCount /\ held' = held
      /\ reply' = Reply("init", FALSE)
  BY DEF TooManyRegions, NoUsablePages, InitReturns, memoryVars
<1>2. pagesCount = 0 /\ held = NoPages
  BY <1>1 DEF Parts, ScanInv, Nothing
<1>3. areas' = {} /\ reply'.op = "init"
  BY <1>1, <1>2 DEF areas, Reply
<1> QED BY <1>1, <1>2, <1>3 DEF Pool!Forget, Pool!Nobody, NoPages

LEMMA SetupRegionPool ==
    ASSUME AreasApart', SetupRegion
    PROVE  Pool!Provide \/ UNCHANGED Pool!vars
<1>1. phase = "setup" /\ held' = held
  BY DEF SetupRegion
<1>2. CASE cursor = Len(regionsInfo)
  <2>1. areas = {}
    BY <1>1 DEF areas
  <2>2. reply' = Reply("init", TRUE)
    BY <1>2 DEF SetupRegion, InitReturns
  <2>3. reply'.op = "init" /\ reply'.result = TRUE
    BY <2>2 DEF Reply
  <2> QED BY <1>1, <2>1, <2>3 DEF Pool!Provide, AreasApart
<1>3. CASE cursor # Len(regionsInfo)
  BY <1>1, <1>3, InitStepPool DEF SetupRegion
<1> QED BY <1>2, <1>3

LEMMA AllocatePool ==
    ASSUME Parts, RegionsInv, NEW count \in AllocCounts, Allocate(count)
    PROVE  Pool!Take(count)
<1>1. phase = "idle" /\ phase' = "idle" /\ UNCHANGED memoryVars
  BY DEF Allocate
<1>2. PICK group : Took(group, count)
  BY AllocateFacts
<1>3. /\ group \in FreeGroups(pool) /\ count \in Nat \ {0}
      /\ count <= pool.groupSize[group]
      /\ held' = [g \in DOMAIN held \cup {group} |->
                    IF g = group THEN count ELSE held[g]]
      /\ reply' = AllocReply(count, group)
  BY <1>2 DEF Took
<1>4. PICK out : out = OutOfLists OBVIOUS
<1>5. PICK n \in Nat : n = nextPage /\ ListsInv(pool, out, n)
  BY <1>4 DEF Parts, GroupsConsistent, ListsInv
<1>6. group \in Heads(pool, out) /\ group \notin out /\ group \in 0..(n - 1)
  BY <1>3, <1>5, HeadFacts DEF Heads
<1>7. TableSet
  <2>1. nextPage = pagesCount /\ pagesCount \in Nat
    BY <1>1 DEF Parts, IdleInv, MemoryTyped
  <2>2. pagesCount > 0
    BY <1>5, <1>6, <2>1
  <2> QED BY <1>1, <2>2 DEF TableSet, TableKnown
<1>8. PICK i \in DOMAIN regionsInfo : group \in regionPages(i)
  BY <1>5, <1>6, <1>7, RegionOfPage, TableFacts
<1>9. Group(pool.groupSize, group) \subseteq regionPages(i)
  BY <1>4, <1>6, <1>7, <1>8, GroupInRegion
<1>10. ReservedGroup \subseteq out /\ DOMAIN held \subseteq out
  BY <1>4 DEF OutOfLists
<1>11. ASSUME NEW p \in Group(pool.groupSize, group), NEW g \in out,
              p \in Group(pool.groupSize, g)
       PROVE  FALSE
  <2>1. g \in Heads(pool, out)
    BY DEF Heads
  <2>2. group = g
    BY <1>5, <1>6, <1>11, <2>1, OneGroupPerPage
  <2> QED BY <1>6, <2>2
<1>12. Group(pool.groupSize, group) \subseteq userPages(i)
  BY <1>7, <1>9, <1>10, <1>11, UserPages
<1>13. Pool!Taken \cap Group(pool.groupSize, group) = {}
  BY <1>10, <1>11, TakenPages
<1>14. /\ Pool!Run(group, count) \subseteq Group(pool.groupSize, group)
       /\ group \in Group(pool.groupSize, group)
  <2>1. PICK s \in Nat \ {0} : s = pool.groupSize[group]
    BY <1>5, <1>6, HeadFacts, SizeLimitType
  <2> QED BY <1>3, <1>6, <2>1 DEF Pool!Run, Group
<1>15. userPages(i) \in areas
  BY <1>1, <1>7, <1>12, <1>14 DEF areas, TableSet, TableKnown
<1>16. group \in Pool!FreeRuns(count)
  <2>1. group \in userPages(i) /\ Pool!Run(group, count) \subseteq userPages(i) \ Pool!Taken
    BY <1>12, <1>13, <1>14
  <2> QED BY <1>15, <2>1 DEF Pool!FreeRuns
<1>17. areas' = areas
  BY <1>1, SameAreas
<1> QED BY <1>3, <1>16, <1>17 DEF Pool!Take, AllocReply

\* A run that nobody holds lies in one free group: where the group ends,
\* another free one would begin, inside the region and behind a free page.
LEMMA FreeRunInGroup ==
    ASSUME TableSet, phase = "idle", NEW n \in Nat \ {0},
           NEW i \in DOMAIN regionsInfo, NEW p \in userPages(i),
           Pool!Run(p, n) \subseteq userPages(i) \ Pool!Taken
    PROVE  \E g \in FreeGroups(pool) : Pool!Run(p, n) \subseteq Group(pool.groupSize, g)
<1>1. PICK out : out = OutOfLists OBVIOUS
<1>2. PICK t \in Nat : t = nextPage /\ ListsInv(pool, out, t) /\ Page = 0..(t - 1)
  BY <1>1, TableFacts DEF TableSet, Parts, GroupsConsistent
<1>3. out = DOMAIN held \cup ReservedGroup
  BY <1>1 DEF OutOfLists, Releasing
<1>4. userPages(i) \subseteq regionPages(i) /\ regionPages(i) \subseteq Page
  BY UserPages, RegionOfPage
<1>5. Parts /\ Starts \subseteq Heads(pool, out)
      /\ \A g \in FreeGroups(pool) \ Starts : pool.used[g - 1]
  BY <1>1 DEF TableSet, RegionsInv, GroupsInv
\* Every page of the run is in a free group.
<1>6. ASSUME NEW q \in Pool!Run(p, n)
      PROVE  /\ q \in Page /\ q \in regionPages(i) /\ ~pool.used[q]
             /\ \E g \in FreeGroups(pool) : q \in Group(pool.groupSize, g)
  <2>1. q \in userPages(i) /\ q \in regionPages(i) /\ q \in Page /\ q \notin Pool!Taken
    BY <1>4
  <2>2. PICK g \in Heads(pool, out) : q \in Group(pool.groupSize, g)
    BY <1>2, <2>1 DEF ListsInv, GroupsCover
  <2>3. g \notin DOMAIN held
    BY <1>5, <2>1, <2>2, TakenPages
  <2>4. g \notin ReservedGroup
    BY <2>1, <2>2, UserPages
  <2>5. g \notin out
    BY <1>3, <2>3, <2>4
  <2>6. g \in FreeGroups(pool)
    BY <2>2, <2>5 DEF Heads
  <2>7. ~pool.used[q]
    BY <1>2, <2>2, <2>5, UsedOfGroup
  <2> QED BY <2>1, <2>2, <2>6, <2>7
<1>7. p \in Pool!Run(p, n) /\ p \in Nat
  <2>1. p \in Nat
    BY <1>2, <1>4
  <2> QED BY <2>1 DEF Pool!Run
<1>8. PICK g \in FreeGroups(pool) : p \in Group(pool.groupSize, g)
  BY <1>6, <1>7
<1>9. g \in Heads(pool, out) /\ g \in Nat
  <2>1. g \in Heads(pool, out)
    BY DEF Heads
  <2> QED BY <1>2, <2>1, HeadFacts
<1>10. PICK s \in Nat \ {0} : s = pool.groupSize[g]
  BY <1>2, <1>9, HeadFacts, SizeLimitType
<1>11. PICK e \in Nat \ {0} : e = g + s /\ Group(pool.groupSize, g) = g..(e - 1) /\ p < e
  <2>1. PICK e \in Nat \ {0} : e = g + s
    BY <1>9, <1>10
  <2>2. Group(pool.groupSize, g) = g..(e - 1)
    <3>1. Group(pool.groupSize, g) = g..(g + s - 1)
      BY <1>10 DEF Group
    <3>2. e - 1 = g + s - 1
      BY <1>9, <2>1
    <3> QED BY <3>1, <3>2
  <2>3. p \in g..(e - 1)
    BY <1>8, <2>2
  <2>4. p < e
    BY <1>9, <2>3
  <2> QED BY <2>1, <2>2, <2>4
<1>12. p + n <= e
  <2>1. SUFFICES ASSUME e < p + n PROVE FALSE
    BY <1>7, <1>11
  <2>2. e \in Pool!Run(p, n) /\ e - 1 \in Pool!Run(p, n)
    BY <1>7, <1>11, <2>1 DEF Pool!Run
  <2>3. PICK h \in FreeGroups(pool) : e \in Group(pool.groupSize, h)
    BY <1>6, <2>2
  <2>4. h \in Heads(pool, out) /\ h \in Nat
    <3>1. h \in Heads(pool, out)
      BY DEF Heads
    <3> QED BY <1>2, <3>1, HeadFacts
  <2>5. h # g
    <3>1. e \notin g..(e - 1)
      BY <1>9
    <3> QED BY <1>11, <2>3, <3>1
  <2>6. h = e
    <3>1. PICK r \in Nat \ {0} : r = pool.groupSize[h]
      BY <1>2, <2>4, HeadFacts, SizeLimitType
    <3>2. Group(pool.groupSize, h) = h..(h + r - 1)
      BY <3>1 DEF Group
    <3>3. SUFFICES ASSUME h # e PROVE FALSE
      OBVIOUS
    <3>4. e - 1 \in Group(pool.groupSize, h)
      BY <1>11, <2>3, <2>4, <3>1, <3>2, <3>3
    <3>5. e - 1 \in Group(pool.groupSize, g)
      BY <1>9, <1>10, <1>11
    <3> QED BY <1>2, <1>9, <2>4, <2>5, <3>4, <3>5, OneGroupPerPage
  <2>7. e \notin Starts
    <3>1. SUFFICES ASSUME e \in Starts PROVE FALSE
      OBVIOUS
    <3>2. PICK k \in DOMAIN regionsInfo : e = regionsInfo[k].firstPage
      BY <3>1, TableFacts DEF Starts
    <3>3. e \in regionPages(k) /\ e \in regionPages(i)
      BY <1>6, <2>2, <3>2, RegionFacts
    <3>4. k = i
      BY <3>3, RegionOfPage
    <3>5. p \in regionPages(i)
      BY <1>4
    <3> QED BY <1>7, <1>11, <3>2, <3>4, <3>5, RegionFacts DEF regionPages
  <2>8. pool.used[e - 1]
    BY <1>5, <2>3, <2>6, <2>7
  <2> QED BY <1>6, <2>2, <2>8
<1>13. Pool!Run(p, n) \subseteq Group(pool.groupSize, g)
  <2>1. g <= p
    BY <1>7, <1>8, <1>9, <1>11
  <2> QED BY <1>7, <1>9, <1>11, <1>12, <2>1 DEF Pool!Run
<1> QED BY <1>13

\* allocate passes over no group that is large enough.
LEMMA AllocateFailsPool ==
    ASSUME Parts, RegionsInv, NEW count \in AllocCounts, AllocateFails(count)
    PROVE  Pool!Refuse(count)
<1>1. /\ phase = "idle" /\ phase' = "idle" /\ UNCHANGED memoryVars
      /\ held' = held /\ reply' = AllocReply(count, nullptr)
      /\ \/ count = 0
         \/ pool.freePagesCount < count
         \/ \A i \in searched(count) : \A k \in DOMAIN pool.lists[i] :
               ~fits(i, k, count)
  BY DEF AllocateFails
<1>2. areas' = areas
  BY <1>1, SameAreas
<1>3. count \in Nat
  BY ConfigAssumption
<1>4. ASSUME count > 0, NEW p \in Pool!FreeRuns(count) PROVE FALSE
  <2>1. PICK area \in areas : /\ p \in area
                              /\ Pool!Run(p, count) \subseteq area \ Pool!Taken
    BY <1>4 DEF Pool!FreeRuns
  <2>2. PICK i \in DOMAIN regionsInfo : area = userPages(i)
    BY DEF areas
  <2>3. TableSet
    <3>1. pagesCount # 0 /\ pagesCount \in Nat
      BY <2>1 DEF areas, Parts, MemoryTyped
    <3> QED BY <1>1, <3>1 DEF TableSet, TableKnown
  <2>4. PICK g \in FreeGroups(pool) :
           Pool!Run(p, count) \subseteq Group(pool.groupSize, g)
    BY <1>1, <1>3, <1>4, <2>1, <2>2, <2>3, FreeRunInGroup
  <2>5. PICK out : out = OutOfLists OBVIOUS
  <2>6. PICK n \in Nat : n = nextPage /\ ListsInv(pool, out, n) /\ Page = 0..(n - 1)
    BY <2>3, <2>5, TableFacts DEF TableSet, Parts, GroupsConsistent
  <2>7. /\ g \in Heads(pool, out) /\ g \in Nat /\ g \notin out
        /\ pool.groupSize[g] \in 1..(SizeLimit - 1)
        /\ groupIdx(pool.groupSize[g]) \in ListIdx
    <3>1. g \in Heads(pool, out)
      BY DEF Heads
    <3> QED BY <2>6, <3>1, HeadFacts
  <2>8. PICK s \in Nat \ {0} : s = pool.groupSize[g] /\ s \in 1..(SizeLimit - 1)
    BY <2>7, SizeLimitType
  <2>9. p \in Nat
    <3>1. p \in Page
      BY <2>1, <2>2, <2>3, UserPages, RegionOfPage
    <3> QED BY <2>6, <3>1
  <2>10. count <= s
    <3>1. Group(pool.groupSize, g) = g..(g + s - 1)
      BY <2>8 DEF Group
    <3>2. p \in Pool!Run(p, count) /\ p + count - 1 \in Pool!Run(p, count)
      BY <1>3, <1>4, <2>9 DEF Pool!Run
    <3>3. p \in g..(g + s - 1) /\ p + count - 1 \in g..(g + s - 1)
      BY <2>4, <3>1, <3>2
    <3> QED BY <1>3, <2>7, <2>8, <2>9, <3>3
  <2>11. pool.freePagesCount >= count
    <3>1. Group(pool.groupSize, g) \subseteq Unused(pool.used, n)
      BY <2>6, <2>7, UsedOfGroup DEF Unused
    <3>2. Cardinality(Group(pool.groupSize, g)) = s
      BY <2>7, <2>8, GroupCardinality DEF Group
    <3>3. /\ IsFiniteSet(Unused(pool.used, n))
          /\ Cardinality(Unused(pool.used, n)) \in Nat
      BY UnusedFinite
    <3>4. s <= Cardinality(Unused(pool.used, n))
      BY <3>1, <3>2, <3>3, FS_Subset
    <3>5. pool.freePagesCount = Cardinality(Unused(pool.used, n))
      BY <2>6 DEF ListsInv, CountMatches, Unused
    <3> QED BY <1>3, <2>8, <2>10, <3>3, <3>4, <3>5
  <2>12. pool.freePagesCount \in Nat
    BY <2>6 DEF ListsInv, ListsTyped
  <2>13. PICK j : j = groupIdx(s) OBVIOUS
  <2>14. j \in searched(count)
    <3>1. groupIdx(count) <= groupIdx(s)
      BY <1>3, <2>8, <2>10, GroupIdxMonotone
    <3> QED BY <2>7, <2>8, <2>13, <3>1 DEF searched
  <2>15. PICK k \in DOMAIN pool.lists[j] : pool.lists[j][k] = g
    <3>1. g \in Range(pool.lists[j])
      BY <2>6, <2>8, <2>13, ListOfFreeGroup
    <3> QED BY <3>1 DEF Range
  <2>16. fits(j, k, count)
    BY <1>3, <2>8, <2>10, <2>15 DEF fits
  <2> QED BY <1>1, <1>3, <1>4, <2>11, <2>12, <2>14, <2>16
<1>5. count > 0 => Pool!FreeRuns(count) = {}
  BY <1>4
<1> QED BY <1>1, <1>2, <1>5 DEF Pool!Refuse, AllocReply

LEMMA ReleasePool ==
    ASSUME NEW group \in DOMAIN held, Release(group) PROVE Pool!GiveBack(group)
<1>1. /\ phase = "idle" /\ phase' = "above" /\ UNCHANGED memoryVars
      /\ held' = [g \in DOMAIN held \ {group} |-> held[g]] /\ reply' = NoReply
  BY DEF Release
<1>2. areas' = areas
  BY <1>1, SameAreas
<1> QED BY <1>1, <1>2 DEF Pool!GiveBack, NoReply, Reply

LEMMA ReleaseReturnsPool ==
    ASSUME FinishRelease \/ ReleaseNull PROVE Pool!Acknowledge
<1>1. /\ phase \in {"idle", "below"} /\ phase' = "idle" /\ UNCHANGED memoryVars
      /\ held' = held /\ reply' = Reply("release", nullptr)
  BY DEF FinishRelease, ReleaseNull
<1>2. areas' = areas
  BY <1>1, SameAreas
<1> QED BY <1>1, <1>2 DEF Pool!Acknowledge, Reply

LEMMA ReleaseLoopsPool ==
    ASSUME JoinAbove \/ NothingAbove \/ JoinBelow PROVE UNCHANGED Pool!vars
<1>1. /\ phase \in {"above", "below"} /\ phase' \in {"above", "below"}
      /\ UNCHANGED memoryVars /\ held' = held /\ reply' = reply
  BY DEF JoinAbove, NothingAbove, JoinBelow
<1>2. areas' = areas
  BY <1>1, SameAreas
<1> QED BY <1>1, <1>2 DEF Pool!vars

LEMMA InitPool == Init => Pool!Init
  BY DEF Init, Pool!Init, areas, NoReply, Reply, NoPages, Pool!Nobody

\* Each step of PageAllocator is one of PagePool, or none.
LEMMA StepPool ==
    Inv /\ RegionsInv /\ AreasApart' /\ [Next]_vars => [Pool!Next]_(Pool!vars)
<1>1. SUFFICES ASSUME Parts, RegionsInv, AreasApart', [Next]_vars
               PROVE  Pool!Next \/ UNCHANGED Pool!vars
  BY InvParts
<1>2. CASE Call
  <2>1. CASE Clear
    <3>1. clear /\ phase' = "idle" /\ reply'.op = "clear"
      BY <2>1 DEF Clear, Reply
    <3> QED BY <3>1, ForgottenPool DEF Pool!Next
  <2>2. CASE \E size \in PageSizes : InitRejectsPageSize(size)
    <3>1. clear /\ phase' = "idle" /\ reply'.op = "init"
      BY <2>2 DEF InitRejectsPageSize, Reply
    <3> QED BY <3>1, ForgottenPool DEF Pool!Next
  <2>3. CASE \E memory \in MemoryModels, size \in PageSizes :
                InitStart(memory, size)
    <3>1. clear /\ phase' = "scan" /\ reply'.op = "none"
      BY <2>3 DEF InitStart, NoReply, Reply
    <3> QED BY <3>1, ForgottenPool DEF Pool!Next
  <2>4. CASE \E count \in AllocCounts : Allocate(count)
    BY <1>1, <2>4, AllocatePool DEF Pool!Next
  <2>5. CASE \E count \in AllocCounts : AllocateFails(count)
    BY <1>1, <2>5, AllocateFailsPool DEF Pool!Next
  <2>6. CASE \E group \in DOMAIN held : Release(group)
    BY <2>6, ReleasePool DEF Pool!Next
  <2>7. CASE ReleaseNull
    BY <2>7, ReleaseReturnsPool DEF Pool!Next
  <2> QED BY <1>2, <2>1, <2>2, <2>3, <2>4, <2>5, <2>6, <2>7 DEF Call
<1>3. CASE Step
  <2>1. CASE ScanRegion \/ ScanDone
    BY <2>1, InitStepPool DEF ScanRegion, ScanDone
  <2>2. CASE TooManyRegions \/ NoUsablePages
    BY <1>1, <2>2, InitGivesUpPool DEF Pool!Next
  <2>3. CASE SetupRegion
    BY <1>1, <2>3, SetupRegionPool DEF Pool!Next
  <2>4. CASE JoinAbove \/ NothingAbove \/ JoinBelow
    BY <2>4, ReleaseLoopsPool
  <2>5. CASE FinishRelease
    BY <2>5, ReleaseReturnsPool DEF Pool!Next
  <2> QED BY <1>3, <2>1, <2>2, <2>3, <2>4, <2>5 DEF Step
<1>4. CASE UNCHANGED vars
  <2>1. /\ areas' = areas
    BY <1>4 DEF vars, areas, userPages
  <2> QED BY <1>4, <2>1 DEF vars, Pool!vars
<1> QED BY <1>1, <1>2, <1>3, <1>4 DEF Next

\* To a client the allocator is a pool of pages: allocate hands out a run
\* that lies in one region and that nobody holds, and refuses only when there
\* is no such run; release gives the run back.
THEOREM ImplementsPagePoolCorrect == Spec => ImplementsPagePool
<1>1. Init => Pool!Init
  BY InitPool
<1>2. Inv /\ RegionsInv /\ AreasApart' /\ [Next]_vars => [Pool!Next]_(Pool!vars)
  BY StepPool
<1>3. Inv /\ RegionsInv => AreasApart
  BY Areas
<1> QED BY <1>1, <1>2, <1>3, InvCorrect, RegionsCorrect, PTL
        DEF Spec, ImplementsPagePool, Pool!Spec

-----------------------------------------------------------------------------
(* MemoryInv: the entries are those of the memory init was called with.    *)

LEMMA KeptDescribed ==
    ASSUME NEW memory \in MemoryModels, NEW size \in PageSizes,
           isValidPageSize(size), NEW m \in DOMAIN memory, regionKept(memory[m], size)
    PROVE  describes(initRegionInfo(memory[m], size), memory, size, m)
<1>1. /\ size \in Nat \ {0}
      /\ memory[m] \in [address : Nat, size : Nat \ {0}]
      /\ memory[m].address + memory[m].size < AddrSpace
  BY ModelPagesType, MemoryModelsAssumption
<1> QED BY <1>1, KeptAligned DEF describes

LEMMA EntriesNext ==
    ASSUME NEW memory \in MemoryModels, NEW size \in PageSizes,
           isValidPageSize(size),
           NEW infos \in Seq(RegionInfoType),
           NEW k \in 1..Len(memory), EntriesFor(infos, memory, size, k - 1),
           NEW longer,
           longer = IF regionKept(memory[k], size)
                    THEN Append(infos, initRegionInfo(memory[k], size))
                    ELSE infos
    PROVE  EntriesFor(longer, memory, size, k)
<1>1. /\ Len(memory) \in Nat /\ DOMAIN memory = 1..Len(memory)
      /\ size \in Nat \ {0}
      /\ \A i \in 1..Len(memory) : memory[i] \in [address : Nat, size : Nat \ {0}]
  BY ModelPagesType
<1>2. k \in Nat \ {0} /\ k \in DOMAIN memory /\ 1..k = 1..(k - 1) \cup {k}
  BY <1>1
<1>3. CASE ~regionKept(memory[k], size)
  BY <1>2, <1>3 DEF EntriesFor
<1>4. CASE regionKept(memory[k], size)
  <2>1. PICK info : info = initRegionInfo(memory[k], size) OBVIOUS
  <2>2. PICK n \in Nat : n = Len(infos) /\ DOMAIN infos = 1..n
    OBVIOUS
  <2>3. PICK R : R = RegionInfoType OBVIOUS
  <2>4. /\ DOMAIN longer = 1..n \cup {n + 1}
        /\ longer[n + 1] = info
        /\ \A i \in 1..n : longer[i] = infos[i]
    <3>1. longer = Append(infos, info) /\ infos \in Seq(R)
      BY <1>4, <2>1, <2>3
    <3>2. info \in R
      BY <1>1, <1>2, <1>4, <2>1, <2>3, KeptRegionType
    <3>3. Len(longer) = n + 1 /\ longer \in Seq(R)
      BY <2>2, <3>1, <3>2
    <3> QED BY <2>2, <3>1, <3>2, <3>3
  <2>5. describes(info, memory, size, k)
    BY <1>2, <1>4, <2>1, KeptDescribed
  <2> QED BY <1>2, <2>2, <2>4, <2>5 DEF EntriesFor
<1> QED BY <1>3, <1>4

LEMMA ScanRegionMemory ==
    ASSUME Parts, MemoryInv, ScanRegion PROVE MemoryInv'
<1>1. PICK memory : memory = request.regions OBVIOUS
<1>2. PICK size : size = request.pageSize OBVIOUS
<1>3. PICK k : k = cursor OBVIOUS
<1>4. /\ phase = "scan" /\ phase' = "scan" /\ k <= Len(memory)
      /\ request' = request /\ cursor' = k + 1
      /\ regionsInfo' = IF regionKept(memory[k], size)
                        THEN Append(regionsInfo, initRegionInfo(memory[k], size))
                        ELSE regionsInfo
  BY <1>1, <1>2, <1>3 DEF ScanRegion
<1>5. /\ memory \in MemoryModels /\ size \in PageSizes /\ isValidPageSize(size)
      /\ k \in 1..(Len(memory) + 1)
      /\ regionsInfo \in Seq(RegionInfoType)
  BY <1>1, <1>2, <1>3, <1>4 DEF Parts, ScanInv, MemoryTyped
<1>6. Len(memory) \in Nat
  BY <1>5, ModelPagesType
<1>7. k \in 1..Len(memory) /\ cursor' - 1 = k
  BY <1>4, <1>5, <1>6
<1>8. EntriesFor(regionsInfo, memory, size, k - 1)
  BY <1>1, <1>2, <1>3, <1>4 DEF MemoryInv
<1>9. EntriesFor(regionsInfo', memory, size, k)
  BY <1>4, <1>5, <1>7, <1>8, EntriesNext
<1> QED BY <1>1, <1>2, <1>4, <1>7, <1>9 DEF MemoryInv, TableKnown

LEMMA ScanDoneMemory ==
    ASSUME Parts, MemoryInv, ScanDone PROVE MemoryInv'
<1>1. PICK memory : memory = request.regions OBVIOUS
<1>2. PICK size : size = request.pageSize OBVIOUS
<1>3. /\ phase = "scan" /\ phase' = "setup"
      /\ cursor > Len(memory)
      /\ pagesCount' = countPages(regionsInfo) /\ pageSize' = size
      /\ regionsInfo' = regionsInfo
  BY <1>1, <1>2 DEF ScanDone
<1>4. /\ memory \in MemoryModels /\ size \in PageSizes /\ isValidPageSize(size)
      /\ cursor \in 1..(Len(memory) + 1)
      /\ countPages(regionsInfo) = total(modelPages(memory, size), 1..(cursor - 1))
  BY <1>1, <1>2, <1>3 DEF Parts, ScanInv
<1>5. Len(memory) \in Nat /\ DOMAIN memory = 1..Len(memory)
  BY <1>4, ModelPagesType
<1>6. cursor - 1 = Len(memory)
  BY <1>3, <1>4, <1>5
<1>7. EntriesFor(regionsInfo, memory, size, Len(memory))
  BY <1>1, <1>2, <1>3, <1>6 DEF MemoryInv
<1>8. pagesCount' = pagesOf(memory, size)
  BY <1>3, <1>4, <1>5, <1>6 DEF pagesOf
<1> QED BY <1>3, <1>4, <1>7, <1>8 DEF MemoryInv, TableOf

LEMMA SetupRegionMemory ==
    ASSUME Parts, MemoryInv, SetupRegion PROVE MemoryInv'
<1>1. PICK k : k = cursor OBVIOUS
<1>2. PICK n, t, info, entry : Wrote(k, n, t, info, entry)
  BY <1>1, SetupFacts
<1>3. /\ phase = "setup" /\ phase' \in {"setup", "idle"}
      /\ pageSize' = pageSize /\ pagesCount' = pagesCount
  BY DEF SetupRegion, InitReturns
<1>4. /\ DOMAIN regionsInfo' = DOMAIN regionsInfo
      /\ \A i \in DOMAIN regionsInfo :
            /\ regionsInfo'[i].alignedStart = regionsInfo[i].alignedStart
            /\ regionsInfo'[i].pageCount = regionsInfo[i].pageCount
  <2>1. info \in RegionInfoType
    BY <1>2 DEF Wrote
  <2>2. /\ entry.alignedStart = info.alignedStart
        /\ entry.pageCount = info.pageCount
    BY <1>2, <2>1 DEF Wrote, RegionInfoType
  <2> QED BY <1>2, <2>2 DEF Wrote
<1>5. TableKnown
  BY <1>3 DEF TableKnown, Parts, SetupInv
<1>6. PICK memory \in MemoryModels : TableOf(memory)
  BY <1>5 DEF MemoryInv
<1>7. EntriesFor(regionsInfo', memory, pageSize, Len(memory))
  BY <1>4, <1>6 DEF TableOf, EntriesFor, describes
<1>8. TableOf(memory)'
  BY <1>3, <1>6, <1>7 DEF TableOf
<1> QED BY <1>3, <1>8 DEF MemoryInv

LEMMA KeptMemory ==
    ASSUME MemoryInv, UNCHANGED memoryVars, phase # "scan", phase' # "scan"
    PROVE  MemoryInv'
<1>1. /\ regionsInfo' = regionsInfo /\ pageSize' = pageSize
      /\ pagesCount' = pagesCount
  BY DEF memoryVars
<1>2. TableKnown' => TableKnown
  BY <1>1 DEF TableKnown
<1>3. \A memory : TableOf(memory) => TableOf(memory)'
  BY <1>1 DEF TableOf
<1> QED BY <1>2, <1>3 DEF MemoryInv

LEMMA ForgottenMemory ==
    ASSUME clear, phase' # "scan" PROVE MemoryInv'
  BY DEF clear, MemoryInv, TableKnown

LEMMA InitMemory == Init => MemoryInv
  BY DEF Init, MemoryInv, TableKnown

LEMMA StepMemory == Inv /\ MemoryInv /\ [Next]_vars => MemoryInv'
<1>1. SUFFICES ASSUME Parts, MemoryInv, [Next]_vars PROVE MemoryInv'
  BY InvParts
<1>2. CASE Call
  <2>1. CASE Clear \/ \E size \in PageSizes : InitRejectsPageSize(size)
    BY <2>1, ForgottenMemory DEF Clear, InitRejectsPageSize
  <2>2. CASE \E memory \in MemoryModels, size \in PageSizes :
                InitStart(memory, size)
    <3>1. /\ phase' = "scan" /\ cursor' = 1
          /\ DOMAIN regionsInfo' = {} /\ 1..(cursor' - 1) = {}
      BY <2>2 DEF InitStart, clear
    <3> QED BY <3>1 DEF MemoryInv, TableKnown, EntriesFor
  <2>3. CASE \/ \E count \in AllocCounts : Allocate(count) \/ AllocateFails(count)
             \/ \E group \in DOMAIN held : Release(group)
             \/ ReleaseNull
    BY <1>1, <2>3, KeptMemory DEF Allocate, AllocateFails, Release, ReleaseNull
  <2> QED BY <1>2, <2>1, <2>2, <2>3 DEF Call
<1>3. CASE Step
  <2>1. CASE TooManyRegions \/ NoUsablePages
    <3>1. phase = "scan" /\ phase' = "idle" /\ pagesCount' = pagesCount
      BY <2>1 DEF TooManyRegions, NoUsablePages, InitReturns, memoryVars
    <3>2. pagesCount = 0
      BY <1>1, <3>1 DEF Parts, ScanInv
    <3> QED BY <3>1, <3>2 DEF MemoryInv, TableKnown
  <2>2. CASE JoinAbove \/ NothingAbove \/ JoinBelow \/ FinishRelease
    BY <1>1, <2>2, KeptMemory DEF JoinAbove, NothingAbove, JoinBelow, FinishRelease
  <2> QED BY <1>1, <1>3, <2>1, <2>2, ScanRegionMemory, ScanDoneMemory,
             SetupRegionMemory DEF Step
<1>4. CASE UNCHANGED vars
  <2>1. /\ regionsInfo' = regionsInfo /\ pageSize' = pageSize
        /\ pagesCount' = pagesCount /\ phase' = phase
        /\ request' = request /\ cursor' = cursor
    BY <1>4 DEF vars
  <2>2. \A memory : TableOf(memory) => TableOf(memory)'
    BY <2>1 DEF TableOf
  <2>3. TableKnown' = TableKnown
    BY <2>1 DEF TableKnown
  <2> QED BY <1>1, <2>1, <2>2, <2>3 DEF MemoryInv
<1> QED BY <1>1, <1>2, <1>3, <1>4 DEF Next

\* Once init has written the table, it has an entry for every region of the
\* array it was called with that holds a whole page, and for nothing else.
THEOREM MemoryCorrect == Spec => []MemoryInv
<1>1. Init => MemoryInv
  BY InitMemory
<1>2. Inv /\ MemoryInv /\ [Next]_vars => MemoryInv'
  BY StepMemory
<1> QED BY <1>1, <1>2, InvCorrect, PTL DEF Spec

-----------------------------------------------------------------------------
(* The numbers of the pages.                                               *)

LEMMA PageNumber ==
    ASSUME TableSet, NEW i \in DOMAIN regionsInfo, NEW p \in regionPages(i)
    PROVE  /\ pageNumber(p) \in Nat
           /\ address[p] = pageNumber(p) * pageSize
           /\ regionsInfo[i].alignedStart \div pageSize \in Nat
           /\ p - regionsInfo[i].firstPage \in Nat
           /\ pageNumber(p) = regionsInfo[i].alignedStart \div pageSize
                                 + (p - regionsInfo[i].firstPage)
<1>1. PICK s \in Nat \ {0} : s = pageSize
  BY TableFacts
<1>2. PICK f \in Nat : f = regionsInfo[i].firstPage
  BY RegionFacts
<1>3. PICK start \in Nat : start = regionsInfo[i].alignedStart
  BY RegionFacts
<1>4. PICK c \in Nat \ {0} : c = regionsInfo[i].pageCount
  BY RegionFacts
<1>5. PICK k \in Nat : k = p - f
  <2>1. p \in f..(f + c - 1)
    BY <1>2, <1>4, RegionFacts DEF regionPages
  <2> QED BY <2>1
<1>6. PICK x \in Nat : x = address[p] /\ x = start + k * s
  BY <1>1, <1>2, <1>3, <1>5, AddressFacts
<1>7. PICK q \in Nat : q = x \div s
  BY <1>1, Division
<1>8. PICK a \in Nat : a = start \div s
  BY <1>1, Division
<1>9. x = q * s
  BY <1>1, <1>6, <1>7, AddressFacts DEF alignDown
<1>10. start = a * s
  BY <1>1, <1>3, <1>8, RegionFacts DEF Aligned, alignDown
<1>11. q * s = (a + k) * s
  BY <1>6, <1>9, <1>10
<1>12. a + k \in Nat
  OBVIOUS
<1>13. q = a + k
  BY <1>11, <1>12, SamePage
<1>14. pageNumber(p) = q
  BY <1>1, <1>6, <1>7 DEF pageNumber
<1> QED BY <1>1, <1>2, <1>3, <1>5, <1>6, <1>8, <1>9, <1>13, <1>14

LEMMA NumberOfOne ==
    ASSUME TableSet, NEW p \in Page, NEW q \in Page, pageNumber(p) = pageNumber(q)
    PROVE  p = q
<1>1. PICK i \in DOMAIN regionsInfo : p \in regionPages(i)
  BY RegionOfPage
<1>2. PICK j \in DOMAIN regionsInfo : q \in regionPages(j)
  BY RegionOfPage
<1>3. address[p] = address[q]
  BY <1>1, <1>2, PageNumber
<1>4. i = j
  <2>1. getRegion(address[p]) = i /\ getRegion(address[q]) = j
    BY <1>1, <1>2, AddressFacts, RegionFound
  <2> QED BY <1>3, <2>1
<1>5. PICK f \in Nat : f = regionsInfo[i].firstPage
  BY RegionFacts
<1>6. PICK a \in Nat : a = regionsInfo[i].alignedStart \div pageSize
  BY <1>1, PageNumber
<1>7. pageNumber(p) = a + (p - f) /\ pageNumber(q) = a + (q - f)
  BY <1>1, <1>2, <1>4, <1>5, <1>6, PageNumber
<1>8. p \in Nat /\ q \in Nat
  BY TableFacts
<1>9. a + (p - f) = a + (q - f)
  BY <1>7
<1>10. \A u, v \in Nat : a + (u - f) = a + (v - f) => u = v
  OBVIOUS
<1> QED BY <1>8, <1>9, <1>10

\* The pages of a region have the numbers from that of the first on.
LEMMA NumbersOfInterval ==
    ASSUME TableSet, NEW i \in DOMAIN regionsInfo, NEW lo \in Nat, NEW hi \in Int,
           lo..hi \subseteq regionPages(i)
    PROVE  LET a == regionsInfo[i].alignedStart \div pageSize
               f == regionsInfo[i].firstPage
           IN  Numbered(lo..hi) = (a + (lo - f))..(a + (hi - f))
<1>1. PICK f \in Nat : f = regionsInfo[i].firstPage
  BY RegionFacts
<1>2. PICK a \in Nat : a = regionsInfo[i].alignedStart \div pageSize
  BY RegionFacts, PageNumber
<1>3. \A p \in lo..hi : pageNumber(p) = a + (p - f)
  BY <1>1, <1>2, PageNumber
<1>4. Numbered(lo..hi) = {a + (p - f) : p \in lo..hi}
  BY <1>3 DEF Numbered
<1>5. {a + (p - f) : p \in lo..hi} = (a + (lo - f))..(a + (hi - f))
  <2>1. ASSUME NEW x \in (a + (lo - f))..(a + (hi - f))
        PROVE  \E p \in lo..hi : x = a + (p - f)
    <3>1. x - a + f \in lo..hi /\ x = a + ((x - a + f) - f)
      OBVIOUS
    <3> QED BY <3>1
  <2>2. ASSUME NEW p \in lo..hi
        PROVE  a + (p - f) \in (a + (lo - f))..(a + (hi - f))
    OBVIOUS
  <2> QED BY <2>1, <2>2
<1> QED BY <1>1, <1>2, <1>4, <1>5

\* The pages of a group have neighbouring numbers.
LEMMA NumbersOfRun ==
    ASSUME TableSet, NEW i \in DOMAIN regionsInfo, NEW p \in Nat, NEW n \in Nat \ {0},
           Pool!Run(p, n) \subseteq regionPages(i)
    PROVE  /\ pageNumber(p) \in Nat
           /\ Numbered(Pool!Run(p, n)) = Pool!Run(pageNumber(p), n)
<1>1. PICK hi \in Int : hi = p + n - 1
  OBVIOUS
<1>2. p..hi \subseteq regionPages(i) /\ p \in p..hi
  BY <1>1 DEF Pool!Run
<1>3. PICK f \in Nat : f = regionsInfo[i].firstPage
  BY RegionFacts
<1>4. PICK a \in Nat : a = regionsInfo[i].alignedStart \div pageSize
  BY <1>2, PageNumber
<1>5. Numbered(p..hi) = (a + (p - f))..(a + (hi - f))
  BY <1>2, <1>3, <1>4, NumbersOfInterval
<1>6. pageNumber(p) = a + (p - f) /\ pageNumber(p) \in Nat
  BY <1>2, <1>3, <1>4, PageNumber
<1>7. a + (hi - f) = pageNumber(p) + n - 1
  BY <1>1, <1>6
<1> QED BY <1>1, <1>5, <1>6, <1>7 DEF Pool!Run

LEMMA UserPagesInterval ==
    ASSUME TableSet, NEW i \in DOMAIN regionsInfo
    PROVE  \E r \in Nat :
              /\ r = IF i = descRegionIdx THEN descPagesCount ELSE 0
              /\ userPages(i) = (regionsInfo[i].firstPage + r)..
                         (regionsInfo[i].firstPage + regionsInfo[i].pageCount - 1)
              /\ userPages(i) \subseteq regionPages(i)
<1>1. descPagesCount \in Nat
  BY DEF TableSet, Parts, MemoryTyped
<1> QED BY <1>1, RegionFacts, UserPages DEF userPages

\* What is not taken has a number that is not a number of what is taken.
LEMMA NumbersApart ==
    ASSUME TableSet, NEW S \in SUBSET Page, NEW p \in Page
    PROVE  pageNumber(p) \in Numbered(S) <=> p \in S
<1>1. ASSUME NEW q \in S, pageNumber(p) = pageNumber(q) PROVE p = q
  BY <1>1, NumberOfOne
<1> QED BY <1>1 DEF Numbered

\* The runs of n pages that nobody holds, told from the numbers of the pages.
LEMMA FreeRunNumbers ==
    ASSUME TableSet, NEW n \in Nat \ {0}, Pool!Taken \subseteq Page
    PROVE  UNION {{x \in A : Pool!Run(x, n) \subseteq A \ Numbered(Pool!Taken)} :
                      A \in {Numbered(a) : a \in areas}}
             = Numbered(Pool!FreeRuns(n))
<1>1. PICK T : T = Pool!Taken OBVIOUS
<1>2. areas \subseteq {userPages(i) : i \in DOMAIN regionsInfo}
  BY DEF areas
<1>3. ASSUME NEW a \in areas, NEW p \in a,
             Pool!Run(pageNumber(p), n) \subseteq Numbered(a) \ Numbered(T)
      PROVE  Pool!Run(p, n) \subseteq a \ T
  <2>1. PICK i \in DOMAIN regionsInfo : a = userPages(i)
    BY <1>2
  <2>2. PICK f \in Nat : f = regionsInfo[i].firstPage
    BY RegionFacts
  <2>3. PICK c \in Nat \ {0} : c = regionsInfo[i].pageCount
    BY RegionFacts
  <2>4. PICK r \in Nat : a = (f + r)..(f + c - 1) /\ a \subseteq regionPages(i)
    BY <2>1, <2>2, <2>3, UserPagesInterval
  <2>5. a \subseteq Page
    BY <2>4, RegionOfPage
  <2>6. PICK b \in Nat : b = regionsInfo[i].alignedStart \div pageSize
    BY <2>4, PageNumber
  <2>7. \A q \in a : pageNumber(q) = b + (q - f)
    BY <2>2, <2>4, <2>6, PageNumber
  <2>8. PICK x \in Nat : x = pageNumber(p)
    BY <2>4, PageNumber
  <2>9. x + n - 1 \in Pool!Run(x, n)
    BY <2>8 DEF Pool!Run
  <2>10. PICK q \in a : x + n - 1 = pageNumber(q)
    BY <1>3, <2>8, <2>9 DEF Numbered
  <2>11. p \in Nat /\ q \in Nat
    BY <2>5, TableFacts
  <2>12. q = p + n - 1
    BY <2>7, <2>8, <2>10, <2>11
  <2>13. p..(p + n - 1) \subseteq a
    BY <2>4, <2>11, <2>12
  <2>14. ASSUME NEW y \in p..(p + n - 1) PROVE y \notin T
    <3>1. y \in a /\ pageNumber(y) = b + (y - f) /\ x = b + (p - f)
      BY <2>7, <2>8, <2>13
    <3>2. pageNumber(y) \in Pool!Run(x, n)
      BY <2>8, <2>11, <3>1 DEF Pool!Run
    <3>3. pageNumber(y) \notin Numbered(T)
      BY <1>3, <2>8, <3>2
    <3> QED BY <3>3 DEF Numbered
  <2> QED BY <2>13, <2>14 DEF Pool!Run
<1>4. ASSUME NEW a \in areas, NEW p \in a, Pool!Run(p, n) \subseteq a \ T
      PROVE  Pool!Run(pageNumber(p), n) \subseteq Numbered(a) \ Numbered(T)
  <2>1. PICK i \in DOMAIN regionsInfo : a = userPages(i)
    BY <1>2
  <2>2. a \subseteq regionPages(i) /\ a \subseteq Page
    BY <2>1, UserPages, RegionOfPage
  <2>3. p \in Nat
    BY <2>2, TableFacts
  <2>4. Numbered(Pool!Run(p, n)) = Pool!Run(pageNumber(p), n)
    BY <1>4, <2>2, <2>3, NumbersOfRun
  <2>5. ASSUME NEW y \in Pool!Run(p, n)
        PROVE  pageNumber(y) \in Numbered(a) \ Numbered(T)
    <3>1. y \in a /\ y \in Page /\ y \notin T
      BY <1>4, <2>2
    <3> QED BY <1>1, <3>1, NumbersApart DEF Numbered
  <2> QED BY <2>4, <2>5 DEF Numbered
<1>5. PICK Z : Z = {{x \in A : Pool!Run(x, n) \subseteq A \ Numbered(T)} :
                      A \in {Numbered(a) : a \in areas}}
  OBVIOUS
<1>6. PICK F : F = Pool!FreeRuns(n) OBVIOUS
<1>7. \A p : p \in F <=> \E a \in areas : p \in a /\ Pool!Run(p, n) \subseteq a \ T
  BY <1>1, <1>6 DEF Pool!FreeRuns
<1>8. \A x : x \in UNION Z <=> \E a \in areas : /\ x \in Numbered(a)
                                               /\ Pool!Run(x, n) \subseteq Numbered(a) \ Numbered(T)
  BY <1>5
<1>9. ASSUME NEW x \in UNION Z PROVE x \in Numbered(F)
  <2>1. PICK a \in areas : /\ x \in Numbered(a)
                           /\ Pool!Run(x, n) \subseteq Numbered(a) \ Numbered(T)
    BY <1>8
  <2>2. PICK p \in a : x = pageNumber(p)
    BY <2>1 DEF Numbered
  <2>3. p \in F
    BY <1>3, <1>7, <2>1, <2>2
  <2> QED BY <2>2, <2>3 DEF Numbered
<1>10. ASSUME NEW x \in Numbered(F) PROVE x \in UNION Z
  <2>1. PICK p \in F : x = pageNumber(p)
    BY DEF Numbered
  <2>2. PICK a \in areas : p \in a /\ Pool!Run(p, n) \subseteq a \ T
    BY <1>7
  <2>3. x \in Numbered(a)
    BY <2>1, <2>2 DEF Numbered
  <2> QED BY <1>4, <1>8, <2>1, <2>2, <2>3
<1>11. UNION Z = Numbered(F)
  BY <1>9, <1>10
<1> QED BY <1>1, <1>5, <1>6, <1>11

\* The pages the clients hold, by their numbers.
LEMMA HeldNumbers ==
    ASSUME Inv, RegionsInv, TableSet
    PROVE  /\ Pool!Taken \subseteq Page
           /\ DOMAIN held \subseteq Page
           /\ \A g \in DOMAIN held :
                 /\ pageNumber(g) \in Nat /\ held[g] \in Nat \ {0}
                 /\ Numbered(Pool!Run(g, held[g])) = Pool!Run(pageNumber(g), held[g])
<1>1. Parts
  BY DEF TableSet
<1>2. ASSUME NEW g \in DOMAIN held
      PROVE  /\ g \in Page /\ held[g] \in Nat \ {0}
             /\ \E i \in DOMAIN regionsInfo : Pool!Run(g, held[g]) \subseteq regionPages(i)
  <2>1. g \in Page /\ held[g] \in Nat \ {0}
    BY <1>1 DEF Parts, HeldTyped
  <2>2. g \in Heads(pool, OutOfLists) /\ HeldPages(g) = Group(pool.groupSize, g)
    BY <1>1, HeldPagesWritten DEF OutOfLists, Heads
  <2>3. PICK i \in DOMAIN regionsInfo : g \in regionPages(i)
    BY <2>1, RegionOfPage
  <2>4. Group(pool.groupSize, g) \subseteq regionPages(i)
    BY <2>2, <2>3, GroupInRegion
  <2> QED BY <2>1, <2>2, <2>4 DEF Pool!Run, HeldPages
<1>3. ASSUME NEW g \in DOMAIN held
      PROVE  /\ pageNumber(g) \in Nat
             /\ Numbered(Pool!Run(g, held[g])) = Pool!Run(pageNumber(g), held[g])
  BY <1>2, TableFacts, NumbersOfRun
<1>4. Pool!Taken \subseteq Page
  BY <1>2, RegionOfPage DEF Pool!Taken
<1> QED BY <1>2, <1>3, <1>4

-----------------------------------------------------------------------------
(* What init leaves of the memory.                                         *)

LEMMA DescribedRegion ==
    ASSUME NEW memory \in MemoryModels, NEW size \in PageSizes,
           isValidPageSize(size), NEW m \in keptRegions(memory, size)
    PROVE  /\ alignedStart(memory[m], size) \in Nat
           /\ alignedEnd(memory[m], size) \in Nat
           /\ alignedStart(memory[m], size) <= alignedEnd(memory[m], size)
<1>1. /\ m \in DOMAIN memory /\ regionKept(memory[m], size)
      /\ size \in Nat \ {0}
      /\ memory[m] \in [address : Nat, size : Nat \ {0}]
      /\ memory[m].address + memory[m].size < AddrSpace
  BY ModelPagesType, MemoryModelsAssumption DEF keptRegions
<1>2. PICK info \in RegionInfoType : info = initRegionInfo(memory[m], size)
  BY <1>1, KeptRegionType
<1>3. /\ Aligned(info, size)
      /\ info.alignedStart = alignedStart(memory[m], size)
      /\ info.alignedEnd = alignedEnd(memory[m], size)
  BY <1>1, <1>2, KeptAligned
<1>4. PICK c \in Nat : c = info.pageCount * size
  BY <1>1, <1>2, NatProduct DEF RegionInfoType
<1>5. info.alignedStart \in Nat /\ info.alignedEnd = info.alignedStart + c
  BY <1>2, <1>3, <1>4 DEF Aligned, RegionInfoType
<1> QED BY <1>3, <1>4, <1>5

\* An entry describes one region.
LEMMA DescribesOne ==
    ASSUME NEW memory \in MemoryModels, NEW size \in PageSizes,
           isValidPageSize(size), NEW info,
           NEW m \in DOMAIN memory, describes(info, memory, size, m),
           NEW r \in DOMAIN memory, describes(info, memory, size, r)
    PROVE  m = r
<1>1. m \in keptRegions(memory, size) /\ r \in keptRegions(memory, size)
  BY DEF describes, keptRegions
<1>2. alignedStart(memory[m], size) = alignedStart(memory[r], size)
  BY DEF describes
<1>3. SUFFICES ASSUME m # r PROVE FALSE
  OBVIOUS
<1>4. \/ alignedEnd(memory[m], size) < alignedStart(memory[r], size)
      \/ alignedEnd(memory[r], size) < alignedStart(memory[m], size)
  BY <1>1, <1>3, RegionsApart DEF keptRegions
<1> QED BY <1>1, <1>2, <1>4, DescribedRegion

\* A region has one entry.
LEMMA DescribedOnce ==
    ASSUME TableSet, NEW memory, NEW m,
           NEW i \in DOMAIN regionsInfo, describes(regionsInfo[i], memory, pageSize, m),
           NEW j \in DOMAIN regionsInfo, describes(regionsInfo[j], memory, pageSize, m)
    PROVE  i = j
<1>1. SUFFICES ASSUME i # j PROVE FALSE
  OBVIOUS
<1>2. Apart(regionsInfo[i], regionsInfo[j])
  BY <1>1 DEF TableSet, RegionsInv, TableInv, EntriesOK
<1>3. ASSUME NEW k \in DOMAIN regionsInfo
      PROVE  /\ regionsInfo[k].alignedStart \in Nat
             /\ regionsInfo[k].alignedEnd \in Nat
             /\ regionsInfo[k].alignedStart <= regionsInfo[k].alignedEnd
  <2>1. PICK c \in Nat : c = regionsInfo[k].pageCount * pageSize
    BY TableFacts, RegionFacts, NatProduct
  <2>2. /\ regionsInfo[k].alignedStart \in Nat
        /\ regionsInfo[k].alignedEnd = regionsInfo[k].alignedStart + c
    BY <2>1, RegionFacts DEF Aligned
  <2> QED BY <2>2
<1>4. regionsInfo[i].alignedStart = regionsInfo[j].alignedStart
  BY DEF describes
<1> QED BY <1>2, <1>3, <1>4 DEF Apart

LEMMA NumberedEmpty == ASSUME NEW S PROVE Numbered(S) = {} <=> S = {}
  BY DEF Numbered

\* The numbers of the areas are those of the pages of the caller's regions,
\* without the descriptors.
LEMMA AreasLeft ==
    ASSUME TableSet, MemoryInv
    PROVE  \E memory \in MemoryModels : \E r \in keptRegions(memory, pageSize) :
              /\ pageSize \in PageSizes
              /\ isValidPageSize(pageSize)
              /\ {Numbered(a) : a \in areas} = pagesLeft(memory, pageSize, r)
<1>1. PICK memory \in MemoryModels : TableOf(memory)
  BY DEF TableSet, MemoryInv
<1>2. PICK size \in PageSizes : size = pageSize /\ isValidPageSize(size)
  BY <1>1 DEF TableOf
<1>3. EntriesFor(regionsInfo, memory, size, Len(memory))
      /\ pagesCount = pagesOf(memory, size)
  BY <1>1, <1>2 DEF TableOf
<1>4. Len(memory) \in Nat /\ DOMAIN memory = 1..Len(memory) /\ size \in Nat \ {0}
  BY <1>2, ModelPagesType
<1>5. PICK K : K = keptRegions(memory, size) OBVIOUS
<1>6. PICK d : d = descRegionIdx /\ d \in DOMAIN regionsInfo
  BY TableFacts
<1>7. PICK r \in DOMAIN memory : describes(regionsInfo[d], memory, size, r)
  BY <1>3, <1>4, <1>6 DEF EntriesFor
<1>8. r \in K
  BY <1>5, <1>7 DEF describes, keptRegions
<1>9. descPagesCount = descPages(memory, size, r)
  <2>1. descPagesCount = reserveDescPages(regionsInfo[d])
    BY <1>6, TableFacts DEF TableSet, RegionsInv, TableInv, DescriptorsPlaced
  <2>2. regionsInfo[d].pageCount = pageCount(memory[r], size)
    BY <1>7 DEF describes
  <2> QED BY <1>2, <1>3, <2>1, <2>2 DEF reserveDescPages, descPages
<1>10. PICK cut : cut = [m \in K |-> IF m = r THEN descPages(memory, size, r) ELSE 0]
  OBVIOUS
<1>11. ASSUME NEW i \in DOMAIN regionsInfo, NEW m \in K,
              describes(regionsInfo[i], memory, size, m)
       PROVE  Numbered(userPages(i)) = numbersFrom(memory, size, m, cut[m])
  <2>1. m \in DOMAIN memory
    BY <1>5 DEF keptRegions
  <2>2. i = d <=> m = r
    BY <1>2, <1>6, <1>7, <1>11, <2>1, DescribesOne, DescribedOnce
  <2>3. PICK f \in Nat : f = regionsInfo[i].firstPage
    BY RegionFacts
  <2>4. PICK c \in Nat \ {0} : c = regionsInfo[i].pageCount
    BY RegionFacts
  <2>5. PICK x \in Nat : /\ x = cut[m]
                         /\ userPages(i) = (f + x)..(f + c - 1)
                         /\ userPages(i) \subseteq regionPages(i)
    BY <1>6, <1>9, <1>10, <2>2, <2>3, <2>4, UserPagesInterval
  <2>6. PICK b \in Nat : b = regionsInfo[i].alignedStart \div size
    BY <1>2, RegionFacts, PageNumber
  <2>7. Numbered(userPages(i)) = (b + ((f + x) - f))..(b + ((f + c - 1) - f))
    <3>1. PICK lo \in Nat : lo = f + x OBVIOUS
    <3>2. PICK hi \in Int : hi = f + c - 1 OBVIOUS
    <3>3. lo..hi \subseteq regionPages(i) /\ userPages(i) = lo..hi
      BY <2>5, <3>1, <3>2
    <3>4. Numbered(lo..hi) = (b + (lo - f))..(b + (hi - f))
      BY <1>2, <2>3, <2>6, <3>3, NumbersOfInterval
    <3> QED BY <3>1, <3>2, <3>3, <3>4
  <2>8. (b + ((f + x) - f)) = b + x /\ b + ((f + c - 1) - f) = b + c - 1
    OBVIOUS
  <2>9. /\ b = alignedStart(memory[m], size) \div size
        /\ c = pageCount(memory[m], size)
    BY <1>11, <2>4, <2>6 DEF describes
  <2> QED BY <2>5, <2>7, <2>8, <2>9 DEF numbersFrom
<1>12. areas = {userPages(i) : i \in DOMAIN regionsInfo} \ {{}}
  <2>1. pagesCount # 0 /\ phase \notin {"scan", "setup"}
    BY TableFacts DEF TableSet, TableKnown
  <2> QED BY <2>1 DEF areas
<1>13. PICK P : P = {numbersFrom(memory, size, m, cut[m]) : m \in K} \ {{}}
  OBVIOUS
<1>14. P = pagesLeft(memory, size, r)
  BY <1>5, <1>10, <1>13 DEF pagesLeft
<1>15. ASSUME NEW a \in areas PROVE Numbered(a) \in P
  <2>1. PICK i \in DOMAIN regionsInfo : a = userPages(i) /\ a # {}
    BY <1>12
  <2>2. PICK m \in DOMAIN memory : describes(regionsInfo[i], memory, size, m)
    BY <1>3, <1>4 DEF EntriesFor
  <2>3. m \in K
    BY <1>5, <2>2 DEF describes, keptRegions
  <2>4. Numbered(a) = numbersFrom(memory, size, m, cut[m])
    BY <1>11, <2>1, <2>2, <2>3
  <2>5. Numbered(a) # {}
    BY <2>1, NumberedEmpty
  <2> QED BY <1>13, <2>3, <2>4, <2>5
<1>16. ASSUME NEW A \in P PROVE \E a \in areas : A = Numbered(a)
  <2>1. PICK m \in K : A = numbersFrom(memory, size, m, cut[m]) /\ A # {}
    BY <1>13
  <2>2. m \in 1..Len(memory) /\ regionKept(memory[m], size)
    BY <1>4, <1>5 DEF keptRegions
  <2>3. PICK i \in DOMAIN regionsInfo : describes(regionsInfo[i], memory, size, m)
    BY <1>3, <2>2 DEF EntriesFor
  <2>4. A = Numbered(userPages(i))
    BY <1>11, <2>1, <2>3
  <2>5. userPages(i) # {}
    BY <2>1, <2>4, NumberedEmpty
  <2> QED BY <1>12, <2>4, <2>5
<1>17. {Numbered(a) : a \in areas} = P
  BY <1>15, <1>16
<1> QED BY <1>2, <1>5, <1>8, <1>14, <1>17
=============================================================================
