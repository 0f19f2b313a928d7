--------------------------- MODULE RegionInfoProofs ---------------------------
(***************************************************************************)
(* What initRegionInfo keeps of a region that ends before the address      *)
(* space does, for address spaces and page sizes of any size.              *)
(***************************************************************************)
EXTENDS RegionInfoUse, BasicFacts

\* No region has the last address.
RegionsEnd ==
    \A r \in Regions(Addresses, Sizes) : r.address + r.size < AddrSpace

\* A region that has a page: nothing wraps, and the entry starts at the first
\* multiple of the page size and ends at the last one.
LEMMA LargeRegion ==
    ASSUME NEW r \in [address : Nat, size : Nat], r.address + r.size < AddrSpace,
           NEW size \in Nat \ {0}, size <= r.size
    PROVE  \E p, q \in Nat :
              /\ p <= q
              /\ p * size \in Nat /\ q * size \in Nat
              /\ r.address <= p * size /\ p * size < r.address + size
              /\ q * size <= r.address + r.size
              /\ r.address + r.size < q * size + size
              /\ alignedStart(r, size) = p * size
              /\ alignedEnd(r, size) = q * size
              /\ pageCount(r, size) = q - p
              /\ (q - p) * size = q * size - p * size
              /\ RegionEnd(r) = r.address + r.size
<1>1. PICK a \in Nat : a = r.address
  OBVIOUS
<1>2. PICK b \in Nat : b = r.address + r.size
  OBVIOUS
<1>3. a + size <= b
  BY <1>1, <1>2
<1>4. AddrSpace \in Nat \ {0} /\ b < AddrSpace
  BY <1>2, AddrSpaceAssumption
<1>5. RegionEnd(r) = b
  <2>1. b % AddrSpace = b
    BY <1>4
  <2> QED BY <1>2, <2>1 DEF RegionEnd
<1>6. PICK p, q \in Nat : Within(a, b, size, p, q)
  BY <1>3, MultiplesBetween
<1> USE DEF Within
<1>7. PICK x \in Nat : x = p * size
  BY <1>6
<1>8. PICK y \in Nat : y = q * size
  BY <1>6
<1>9. x % AddrSpace = x
  BY <1>3, <1>4, <1>6, <1>7
<1>10. (y - x) % AddrSpace = y - x
  <2>1. y - x \in Nat /\ y - x < AddrSpace
    BY <1>4, <1>6, <1>7, <1>8
  <2> QED BY <1>4, <2>1
<1>11. alignedStart(r, size) = x
  BY <1>1, <1>6, <1>7, <1>9 DEF alignedStart, alignDown
<1>12. alignedEnd(r, size) = y
  BY <1>5, <1>6, <1>8 DEF alignedEnd, alignDown
<1>13. pageCount(r, size) = q - p
  BY <1>6, <1>7, <1>8, <1>10, <1>11, <1>12 DEF pageCount
<1> QED BY <1>1, <1>2, <1>5, <1>6, <1>7, <1>8, <1>11, <1>12, <1>13

\* The pages in a range of addresses between two multiples of their size.
LEMMA PagesInRange ==
    ASSUME NEW size \in Nat \ {0}, NEW a \in Nat, NEW b \in Nat,
           NEW p \in Nat, NEW q \in Nat,
           a <= p * size, p * size < a + size,
           q * size <= b, b < q * size + size,
           NEW k \in Nat
    PROVE  a <= k * size /\ (k + 1) * size <= b <=> p <= k /\ k < q
<1>1. PICK x \in Nat : x = p * size
  BY NatProduct
<1>2. PICK y \in Nat : y = q * size
  BY NatProduct
<1>3. PICK z \in Nat : z = k * size
  BY NatProduct
<1>4. (k + 1) * size = z + size
  BY <1>3
<1>5. k < p => z + size <= x
  BY <1>1, <1>3, Multiples
<1>6. p <= k => x <= z
  <2>1. CASE p = k
    BY <1>1, <1>3, <2>1
  <2>2. CASE p < k
    <3>1. p * size + size <= k * size
      BY <2>2, Multiples
    <3> QED BY <1>1, <1>3, <3>1
  <2> QED BY <2>1, <2>2
<1>7. k < q => z + size <= y
  BY <1>2, <1>3, Multiples
<1>8. q <= k => y <= z
  <2>1. CASE q = k
    BY <1>2, <1>3, <2>1
  <2>2. CASE q < k
    <3>1. q * size + size <= k * size
      BY <2>2, Multiples
    <3> QED BY <1>2, <1>3, <3>1
  <2> QED BY <2>1, <2>2
<1> QED BY <1>1, <1>2, <1>3, <1>4, <1>5, <1>6, <1>7, <1>8

-----------------------------------------------------------------------------
\* The object is what initRegionInfo made of the region, and no assert failed.
UseInv ==
    /\ outcome \in {"cleared", "kept", "dropped"}
    /\ outcome # "cleared" =>
          /\ region \in Regions(Addresses, Sizes)
          /\ pageSize \in PageSizes
          /\ info = initRegionInfo(region, pageSize)
          /\ outcome = "kept" <=> regionKept(region, pageSize)

LEMMA AssertsOfRegions ==
    ASSUME RegionsEnd,
           NEW r \in Regions(Addresses, Sizes), NEW size \in PageSizes
    PROVE  assertsHold(r, size)
<1>1. /\ r \in [address : Nat, size : Nat]
      /\ r.address + r.size < AddrSpace
      /\ size \in Nat \ {0}
  BY UseAssumption DEF RegionsEnd, Regions
<1>2. SUFFICES ASSUME size <= r.size
               PROVE  alignedStartExists(r, size) /\ alignedEndExists(r, size)
  BY <1>1 DEF assertsHold
<1>3. PICK p, q \in Nat :
              /\ p <= q
              /\ p * size \in Nat /\ q * size \in Nat
              /\ r.address <= p * size /\ p * size < r.address + size
              /\ q * size <= r.address + r.size
              /\ r.address + r.size < q * size + size
              /\ alignedStart(r, size) = p * size
              /\ alignedEnd(r, size) = q * size
              /\ pageCount(r, size) = q - p
              /\ (q - p) * size = q * size - p * size
              /\ RegionEnd(r) = r.address + r.size
  BY <1>1, <1>2, LargeRegion
<1>4. p * size <= r.address + r.size /\ r.address <= q * size
  BY <1>1, <1>2, <1>3
<1> QED BY <1>3, <1>4 DEF alignedStartExists, alignedEndExists

LEMMA UseStep ==
    ASSUME RegionsEnd, UseInv, [Next]_vars PROVE UseInv'
<1>1. CASE UNCHANGED vars
  BY <1>1 DEF vars, UseInv
<1>2. CASE clearRegionInfo
  BY <1>2 DEF clearRegionInfo, UseInv
<1>3. ASSUME NEW r \in Regions(Addresses, Sizes), NEW size \in PageSizes,
             InitRegionInfo(r, size)
      PROVE  UseInv'
  BY <1>3, AssertsOfRegions DEF InitRegionInfo, UseInv
<1> QED BY <1>1, <1>2, <1>3 DEF Next

\* A region without a page has no entry; of another one the entry has all
\* whole pages.
LEMMA Kept == RegionsEnd /\ UseInv => KeepsWholePages
<1> SUFFICES ASSUME RegionsEnd, UseInv, outcome # "cleared"
             PROVE  KeepsWholePages
  BY DEF KeepsWholePages
<1>1. /\ region \in [address : Nat, size : Nat]
      /\ region.address + region.size < AddrSpace
      /\ pageSize \in Nat \ {0}
      /\ info = initRegionInfo(region, pageSize)
      /\ outcome = "kept" <=> regionKept(region, pageSize)
      /\ outcome = "dropped" <=> ~regionKept(region, pageSize)
      /\ AddrSpace \in Nat
  BY AddrSpaceAssumption, UseAssumption DEF RegionsEnd, UseInv, Regions
<1>2. PICK a \in Nat : a = region.address
  BY <1>1
<1>3. PICK b \in Nat : b = region.address + region.size
  BY <1>1
<1>4. PICK size \in Nat \ {0} : size = pageSize
  BY <1>1
<1>5. PICK n \in Nat : n = AddrSpace \div size /\ AddrSpace < (n + 1) * size
  BY <1>1, Division
<1>6. WholePages = {k \in 0..n : a <= k * size /\ (k + 1) * size <= b}
  BY <1>2, <1>3, <1>4, <1>5 DEF WholePages
<1>7. CASE region.size < size
  <2>1. info = clearedInfo /\ ~regionKept(region, size)
    BY <1>1, <1>4, <1>7 DEF initRegionInfo, regionKept
  <2>2. ASSUME NEW k \in Nat, a <= k * size, (k + 1) * size <= b PROVE FALSE
    <3>1. PICK z \in Nat : z = k * size
      BY NatProduct
    <3>2. (k + 1) * size = z + size
      BY <3>1
    <3> QED BY <1>1, <1>2, <1>3, <1>7, <2>2, <3>1, <3>2
  <2>3. WholePages = {}
    <3>1. \A k \in 0..n : k \in Nat
      OBVIOUS
    <3>2. \A k \in 0..n : ~(a <= k * size /\ (k + 1) * size <= b)
      BY <2>2, <3>1
    <3> QED BY <1>6, <3>2, Zenon
  <2>4. 0 * pageSize = 0
    BY <1>1
  <2> QED BY <1>1, <1>4, <2>1, <2>3, <2>4, FS_EmptySet DEF KeepsWholePages, clearedInfo
<1>8. CASE size <= region.size
  <2>1. PICK p, q \in Nat :
              /\ p <= q
              /\ p * size \in Nat /\ q * size \in Nat
              /\ region.address <= p * size /\ p * size < region.address + size
              /\ q * size <= region.address + region.size
              /\ region.address + region.size < q * size + size
              /\ alignedStart(region, size) = p * size
              /\ alignedEnd(region, size) = q * size
              /\ pageCount(region, size) = q - p
              /\ (q - p) * size = q * size - p * size
              /\ RegionEnd(region) = region.address + region.size
    BY <1>1, <1>8, LargeRegion
  <2>2. /\ info.pageCount = q - p
        /\ info.alignedSize = (q - p) * size
        /\ info.alignedStart = p * size
        /\ info.alignedEnd = q * size
    BY <1>1, <1>4, <1>8, <2>1 DEF initRegionInfo
  <2>3. regionKept(region, pageSize) <=> q # p
    BY <1>1, <1>4, <1>8, <2>1 DEF regionKept
  \* Pages beyond the last one would end beyond the address space.
  <2>4. q <= n
    <3>1. SUFFICES ASSUME n < q PROVE FALSE
      OBVIOUS
    <3>2. PICK z \in Nat : z = n * size
      BY NatProduct
    <3>3. (n + 1) * size = z + size /\ z + size <= q * size
      BY <3>1, <3>2, Multiples
    <3> QED BY <1>1, <1>5, <2>1, <3>3
  <2>5. WholePages = p..(q - 1)
    <3>1. ASSUME NEW k \in Nat
          PROVE  a <= k * size /\ (k + 1) * size <= b <=> p <= k /\ k < q
      BY <1>2, <1>3, <2>1, PagesInRange
    <3>2. \A k \in Nat : k < q => k \in 0..n
      BY <2>4
    <3>3. \A k \in 0..n : k \in Nat
      OBVIOUS
    <3>4. \A k : k \in p..(q - 1) <=> k \in Nat /\ p <= k /\ k < q
      OBVIOUS
    <3> QED BY <1>6, <3>1, <3>2, <3>3, <3>4
  <2>6. Cardinality(WholePages) = q - p
    <3>1. p \in Int /\ q - 1 \in Int
      OBVIOUS
    <3>2. Cardinality(p..(q - 1)) = IF p > q - 1 THEN 0 ELSE (q - 1) - p + 1
      BY <3>1, FS_Interval
    <3> QED BY <2>1, <2>5, <3>2
  <2>7. WholePages = {} <=> p = q
    BY <2>1, <2>5
  <2>8. {k \in 0..n : p * size <= k * size /\ (k + 1) * size <= q * size}
           = p..(q - 1)
    <3>1. ASSUME NEW k \in Nat
          PROVE  p * size <= k * size /\ (k + 1) * size <= q * size <=> p <= k /\ k < q
      <4>1. PICK x \in Nat : x = p * size
        BY <2>1
      <4>2. PICK y \in Nat : y = q * size
        BY <2>1
      <4>3. x <= p * size /\ p * size < x + size /\ q * size <= y /\ y < q * size + size
        BY <4>1, <4>2
      <4>4. x <= k * size /\ (k + 1) * size <= y <=> p <= k /\ k < q
        BY <4>3, PagesInRange
      <4> QED BY <4>1, <4>2, <4>4
    <3>2. \A k \in Nat : k < q => k \in 0..n
      BY <2>4
    <3>3. \A k \in 0..n : k \in Nat
      OBVIOUS
    <3>4. \A k : k \in p..(q - 1) <=> k \in Nat /\ p <= k /\ k < q
      OBVIOUS
    <3> QED BY <3>1, <3>2, <3>3, <3>4
  <2>9. WholePages = {k \in 0..(AddrSpace \div pageSize) :
                         /\ info.alignedStart <= k * pageSize
                         /\ (k + 1) * pageSize <= info.alignedEnd}
    BY <1>4, <1>5, <2>2, <2>5, <2>8
  <2>10. outcome = "dropped" <=> WholePages = {}
    BY <1>1, <2>3, <2>7
  <2> QED BY <1>4, <2>2, <2>6, <2>9, <2>10 DEF KeepsWholePages
<1> QED BY <1>1, <1>4, <1>7, <1>8

\* initRegionInfo keeps exactly the whole pages of every region that ends
\* before the address space does, whatever object it is called on, and drops
\* a region only if it has none.
THEOREM KeptCorrect == ASSUME RegionsEnd PROVE Spec => []KeepsWholePages
<1>1. Init => UseInv
  BY DEF Init, UseInv
<1>2. UseInv /\ [Next]_vars => UseInv'
  BY UseStep
<1>3. UseInv => KeepsWholePages
  BY Kept
<1> QED BY <1>1, <1>2, <1>3, PTL DEF Spec

\* For these regions the asserts on the optional results hold; the run
\* region_info_top has one that ends where the address space does.
THEOREM AssertsCorrect == ASSUME RegionsEnd PROVE Spec => []AssertsHold
<1>1. Init => UseInv
  BY DEF Init, UseInv
<1>2. UseInv /\ [Next]_vars => UseInv'
  BY UseStep
<1>3. UseInv => AssertsHold
  BY DEF UseInv, AssertsHold, Aborted
<1> QED BY <1>1, <1>2, <1>3, PTL DEF Spec
=============================================================================
